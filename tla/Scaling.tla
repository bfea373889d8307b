------------------------------- MODULE Scaling -------------------------------
(***************************************************************************)
(* Autoscaling and Kubernetes.  As in Compute, an attribute may stand for  *)
(* others that are treated alike.                                          *)
(***************************************************************************)
EXTENDS Steps

(* cloudstack_counter, _condition and _autoscale_policy: CloudStack refuses to *)
(* delete what does not exist, and two of the Creates do not read it back.     *)

CounterCreate == <<Make({"name"}), Reread>>
CounterRead == ReadById({"name"})
CounterDelete == <<DropExisting>>
Counter == Resource({"name"}, {}, {"name"}, CounterRead, CounterCreate, <<>>, CounterDelete)

ConditionCreate == <<Make({"counter_id", "threshold", "project_id"})>>
ConditionRead == Reading("id", "forget", {"counter_id", "threshold"}, {}, {"project_id"})
ConditionUpdate == <<WriteAll({"threshold"}), Reread>>
ConditionDelete == <<DropExisting>>
Condition ==
  Resource({"counter_id", "threshold", "project_id"}, {"project_id"}, {"counter_id", "project_id"},
           ConditionRead, ConditionCreate, ConditionUpdate, ConditionDelete)

AutoScalePolicyCreate == <<Make({"name", "action", "duration"})>>
AutoScalePolicyRead == ReadById({"name", "action", "duration"})
AutoScalePolicyUpdate == <<Keeping(Write({"name", "duration"}), {"name"}), Reread>>
AutoScalePolicyDelete == <<DropExisting>>
AutoScalePolicy ==
  Resource({"name", "action", "duration"}, {"name"}, {"action"}, AutoScalePolicyRead,
           AutoScalePolicyCreate, AutoScalePolicyUpdate, AutoScalePolicyDelete)

-----------------------------------------------------------------------------
(* cloudstack_autoscale_vm_profile.  `template' stands for                     *)
(* destroy_vm_grace_period, `display' for counter_param_list, `user_data' for   *)
(* user_data_id and autoscale_user_id.  The Check waits for the groups that    *)
(* use the profile to be disabled, unless only the metadata change.           *)

ProfileCalled == {"template", "display", "user_data"}

AutoScaleVMProfileCreate ==
  <<Make(ProfileCalled \cup {"zone"}), Write({"metadata"}), Reread>>
AutoScaleVMProfileRead ==
  Reading("id", "forget", {"template", "display", "zone", "metadata"}, {}, {"user_data"})
AutoScaleVMProfileUpdate ==
  <<Check(ProfileCalled), Always(Keeping(Write(ProfileCalled), {"display", "user_data"}))>>
  \o Replace("metadata") \o <<Reread>>
AutoScaleVMProfileDelete == <<Drop>>
AutoScaleVMProfile ==
  Resource(ProfileCalled \cup {"zone", "metadata"}, {"display", "user_data"}, {"zone"},
           AutoScaleVMProfileRead, AutoScaleVMProfileCreate, AutoScaleVMProfileUpdate,
           AutoScaleVMProfileDelete)

-----------------------------------------------------------------------------
(* cloudstack_autoscale_vm_group: of the values of `state', 1 is "enable" and    *)
(* 2 is "disable".  A group is disabled before it is changed and enabled       *)
(* afterwards.                                                                *)

AutoScaleVMGroupCreate ==
  <<Make({"name", "min_members", "lbrule_id"}), To(Write({"state"}), {2})>>
AutoScaleVMGroupRead == ReadById({"name", "min_members", "lbrule_id", "state"})
AutoScaleVMGroupUpdate ==
  <<To(Write({"state"}), {2}), Keeping(Write({"name", "min_members"}), {"name"}),
    To(Write({"state"}), {1}), Reread>>
AutoScaleVMGroupDelete == <<Lenient(Disable("state")), Drop>>
AutoScaleVMGroup ==
  Starting("state",
    Resource({"name", "min_members", "lbrule_id", "state"}, {"name"}, {"lbrule_id"},
             AutoScaleVMGroupRead, AutoScaleVMGroupCreate, AutoScaleVMGroupUpdate, AutoScaleVMGroupDelete))

-----------------------------------------------------------------------------
(* cloudstack_kubernetes_version: `state' 1 is "Enabled", and a version cannot be *)
(* created in another state.                                                  *)

KubernetesVersionCreate ==
  <<Refuse("state", {2}), Make({"semantic_version", "checksum"}), Reread>>
KubernetesVersionRead == ReadById({"semantic_version", "state"})
KubernetesVersionUpdate == <<Write({"state"}), Reread>>
KubernetesVersionDelete == <<Drop>>
KubernetesVersion ==
  Starting("state",
    Resource({"semantic_version", "state", "checksum"}, {"checksum"}, {"semantic_version"},
             KubernetesVersionRead, KubernetesVersionCreate, KubernetesVersionUpdate, KubernetesVersionDelete))

-----------------------------------------------------------------------------
(* cloudstack_kubernetes_cluster: `state' 1 is "Running".  `size' stands for     *)
(* service_offering, `autoscaling' for autoscaling_enabled, min_size and       *)
(* max_size, `keypair' for what replaces the cluster.                          *)

KubernetesClusterCreate ==
  <<Refuse("state", {2}),
    Rescued(Make({"name", "size", "kubernetes_version", "description", "keypair"})),
    Write({"autoscaling"}), Reread>>
KubernetesClusterRead ==
  ReadById({"name", "size", "kubernetes_version", "state", "description", "keypair", "autoscaling"})
KubernetesClusterUpdate ==
  <<Write({"size"}), Write({"autoscaling"}), Write({"kubernetes_version"}), Write({"state"}), Reread>>
KubernetesClusterDelete == <<Drop>>
KubernetesCluster ==
  Starting("state",
    Resource({"name", "size", "kubernetes_version", "state", "description", "keypair", "autoscaling"},
             {"autoscaling", "keypair"}, {"name", "keypair"}, KubernetesClusterRead,
             KubernetesClusterCreate, KubernetesClusterUpdate, KubernetesClusterDelete))

ScalingResources ==
  [counter |-> Counter, condition |-> Condition, autoscale_policy |-> AutoScalePolicy,
   autoscale_vm_profile |-> AutoScaleVMProfile, autoscale_vm_group |-> AutoScaleVMGroup,
   kubernetes_version |-> KubernetesVersion, kubernetes_cluster |-> KubernetesCluster]
=============================================================================
