------------------------------- MODULE Compute -------------------------------
(***************************************************************************)
(* Instances and what goes with them.  Attributes that are treated alike   *)
(* are represented by one of them: a comment names the others.             *)
(***************************************************************************)
EXTENDS Steps

(* cloudstack_instance.  `display_name' stands for group, too, `template' for *)
(* what replaces the instance, `host_id' for what Update does not look at,    *)
(* `affinity_group_ids' for the names and `keypair' for keypairs.             *)

\* What takes a stopped instance to change.
Rebooting ==
  {"name", "service_offering", "affinity_group_ids", "keypair", "user_data", "userdata_id", "userdata_details"}

InstanceAttrs ==
  Rebooting \cup {"display_name", "delete_protection", "tags", "details", "template", "host_id"}

InstanceCreate ==
  <<Make(InstanceAttrs \ {"delete_protection", "tags"}),
    Write({"delete_protection"}), Write({"tags"}), Reread>>

InstanceRead ==
  Reading("id", "forget", {"name", "display_name", "delete_protection", "service_offering", "tags", "template"},
          {"affinity_group_ids"}, {"userdata_id", "user_data"})

InstanceUpdate ==
  <<Write({"display_name"}),
    TurnOff(Rebooting),
    Write({"name"}), Write({"service_offering"}), Write({"affinity_group_ids"}), Write({"keypair"}),
    Write({"user_data"}),
    Keeping(Write({"userdata_id"}), {"userdata_id"}),
    Keeping(Write({"userdata_details"}), {"userdata_details"}),
    TurnOn(Rebooting)>>
  \o Replace("tags")
  \o <<Keeping(Write({"details"}), {"details"}), Write({"delete_protection"}), Reread>>

InstanceDelete == <<Drop>>

Instance ==
  ProtectedBy("delete_protection",
    Resource(InstanceAttrs, {"affinity_group_ids", "userdata_id", "userdata_details", "details"}, {"template"},
             InstanceRead, InstanceCreate, InstanceUpdate, InstanceDelete))

-----------------------------------------------------------------------------
(* cloudstack_affinity_group                                               *)

AffinityGroupCreate == <<Make({"name", "project"}), Reread>>
AffinityGroupRead == ReadById({"name"})
AffinityGroupDelete == <<Drop>>
AffinityGroup ==
  Resource({"name", "project"}, {"project"}, {"name", "project"},
           AffinityGroupRead, AffinityGroupCreate, <<>>, AffinityGroupDelete)

-----------------------------------------------------------------------------
(* cloudstack_attach_volume: the object is the attachment.  The volume      *)
(* outlives it, and is then read as attached to nothing.                   *)

AttachVolumeCreate == <<Make({"virtual_machine_id"}), Reread>>
AttachVolumeRead == Reading("id", "blank", {"virtual_machine_id"}, {}, {})
AttachVolumeDelete == <<DropExisting>>
AttachVolume ==
  Resource({"virtual_machine_id"}, {}, {"virtual_machine_id"},
           AttachVolumeRead, AttachVolumeCreate, <<>>, AttachVolumeDelete)

-----------------------------------------------------------------------------
(* cloudstack_cni_configuration: the registration does not tell the id.    *)

CniConfigurationCreate == <<MakeUnknown({"name", "params"}), FindByName, Reread>>
CniConfigurationRead == Reading("id", "forget", {"name"}, {}, {"params"})
CniConfigurationDelete == <<Drop>>
CniConfiguration ==
  Resource({"name", "params"}, {"params"}, {"name", "params"},
           CniConfigurationRead, CniConfigurationCreate, <<>>, CniConfigurationDelete)

-----------------------------------------------------------------------------
(* cloudstack_snapshot_policy.  `name' stands for the volume and what else       *)
(* replaces the policy.  Create sends no custom_id, which replaces it, too, and  *)
(* which every Update sends.  When CloudStack answers without an id, the policy  *)
(* is looked for among those of the volume; the last one, which the code takes, *)
(* may be any of them.                                                         *)

SnapshotPolicyCreate == <<Make({"name"}), Write({"tags"}), Reread>>
SnapshotPolicyUnnamedCreate == <<MakeUnknown({"name"}), FindByName, Write({"tags"}), Reread>>
SnapshotPolicyRead == ReadById({"name", "tags"})
SnapshotPolicyUpdate ==
  <<Always(Keeping(WriteAll({"custom_id"}), {"custom_id"}))>> \o Replace("tags") \o <<Reread>>
SnapshotPolicyDelete == <<DropExisting>>
SnapshotPolicyMade(create) ==
  Resource({"name", "custom_id", "tags"}, {"custom_id"}, {"name", "custom_id"},
           SnapshotPolicyRead, create, SnapshotPolicyUpdate, SnapshotPolicyDelete)
SnapshotPolicy == SnapshotPolicyMade(SnapshotPolicyCreate)
SnapshotPolicyUnnamed == SnapshotPolicyMade(SnapshotPolicyUnnamedCreate)

-----------------------------------------------------------------------------
(* cloudstack_ssh_keypair                                                  *)

SSHKeyPairCreate == <<MakeUnique({"name", "public_key"}, {"name"}), Reread>>
SSHKeyPairRead == ReadByName({"name"})
SSHKeyPairDelete == <<Drop>>
SSHKeyPair ==
  Resource({"name", "public_key"}, {"public_key"}, {"name", "public_key"},
           SSHKeyPairRead, SSHKeyPairCreate, <<>>, SSHKeyPairDelete)

-----------------------------------------------------------------------------
(* cloudstack_template.  `display_text' stands for name, format,               *)
(* is_dynamically_scalable and password_enabled.  Create registers a template  *)
(* without its os_type when it cannot look that up.  It waits for the template  *)
(* to become ready by reading it over and over; the Check is the time limit.     *)
(* A link that is replaced is taken away first, whether that works or not.        *)

TemplateCreate ==
  <<Guessing(Make({"display_text", "os_type", "is_public", "url"}), {"os_type"}), Write({"tags"}),
    Write({"userdata_link"}), Reread, Check({})>>
TemplateRead == ReadById({"display_text", "os_type", "is_public", "tags", "userdata_link"})
UpdateUserdataLink ==
  <<To(Clear("userdata_link"), {Unset}), Ignored(To(Clear("userdata_link"), Set)), Add("userdata_link")>>
TemplateUpdate ==
  <<Always(Write({"display_text", "os_type"}))>> \o Replace("tags") \o UpdateUserdataLink \o <<Reread>>
TemplateDelete == <<Drop>>
Template ==
  Resource({"display_text", "os_type", "is_public", "url", "tags", "userdata_link"}, {"userdata_link"}, {"url"},
           TemplateRead, TemplateCreate, TemplateUpdate, TemplateDelete)

-----------------------------------------------------------------------------
(* cloudstack_user_data                                                    *)

UserDataCreate == <<Make({"userdata", "account", "params"}), Reread>>
UserDataRead == Reading("id", "forget", {"userdata"}, {"account"}, {"params"})
UserDataDelete == <<DropExisting>>
UserData ==
  Resource({"userdata", "account", "params"}, {"account", "params"}, {"userdata", "account", "params"},
           UserDataRead, UserDataCreate, <<>>, UserDataDelete)

-----------------------------------------------------------------------------
(* cloudstack_volume                                                       *)

VolumeCreate == <<Make({"name", "disk_offering_id"}), Reread>>
VolumeRead == ReadByName({"name", "disk_offering_id"})
VolumeDelete == <<DropExisting>>
Volume ==
  Resource({"name", "disk_offering_id"}, {}, {"name", "disk_offering_id"},
           VolumeRead, VolumeCreate, <<>>, VolumeDelete)

ComputeResources ==
  [instance |-> Instance, affinity_group |-> AffinityGroup, attach_volume |-> AttachVolume,
   cni_configuration |-> CniConfiguration, snapshot_policy |-> SnapshotPolicy,
   snapshot_policy_unnamed |-> SnapshotPolicyUnnamed,
   ssh_keypair |-> SSHKeyPair, template |-> Template, user_data |-> UserData, volume |-> Volume]
=============================================================================
