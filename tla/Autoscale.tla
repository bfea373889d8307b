------------------------------ MODULE Autoscale ------------------------------
(***************************************************************************)
(* A load balancer rule, a profile for its machines and the autoscale      *)
(* group that uses both: their updates in one run of Terraform.  CloudStack *)
(* takes a change of the profile, or of the group's numbers, only while    *)
(* the group is disabled, so the rule's and the profile's handlers wait    *)
(* for that; the state of the group is an attribute of the third resource, *)
(* whose handler Terraform runs after theirs if it refers to them.         *)
(* What creates and deletes the three is in Scaling and Networking.        *)
(***************************************************************************)
EXTENDS Terraform

CONSTANTS Wishes,       \* the configurations: members, profile, params, on, refers
          Spare,        \* the machines the autoscaler starts
          Attempts,     \* how often a group's state is looked at (60 and 30 in the code)
          MaxScalings   \* bound: how often the autoscaler acts

Parts == {"rule", "profile", "group"}

ASSUME AutoscaleAssumption == Attempts \in Nat \ {0} /\ MaxScalings \in Nat

VARIABLES real,      \* CloudStack: the rule's members, the profile's version, the group's params and whether it is on
          plan,      \* the configuration the running handlers apply
          outcome,   \* [resource -> how its last update ended]
          scalings   \* what the autoscaler did so far

\* In config `refers': the group names the others by reference.  The fields of saved are
\* those of real, and h is [resource -> its handler: the step it is at, attempts left].

autoscaleVars == <<real, config, plan, saved, h, outcome, faults, changes, scalings>>

-----------------------------------------------------------------------------

Fields(r) ==
  CASE r = "rule" -> {"members"} [] r = "profile" -> {"profile"} [] r = "group" -> {"params", "on"}
Same(r, a, b) == \A f \in Fields(r) : a[f] = b[f]
With(state, r, values) == [f \in DOMAIN state |-> IF f \in Fields(r) THEN values[f] ELSE state[f]]

At(r, step) == h[r].step = step
Rests(r) == At(r, "none")
AllRest == \A r \in Parts : Rests(r)
AtRest == [step |-> "none", tries |-> Attempts]

-----------------------------------------------------------------------------
(* Terraform.                                                              *)

FirstStep(r) == IF r = "group" THEN "wait" ELSE "list"

\* A run: every resource is read, the plan made, a handler started where they differ.
Run ==
  /\ AllRest
  /\ saved' = real /\ plan' = config
  /\ h' = [r \in Parts |->
             IF Same(r, real, config) THEN AtRest ELSE [AtRest EXCEPT !.step = FirstStep(r)]]
  /\ outcome' = [r \in Parts |-> "none"]
  /\ UNCHANGED <<real, config, faults, changes, scalings>>

GoOn(r, step) == h' = [h EXCEPT ![r].step = step] /\ UNCHANGED <<saved, outcome>>

\* The handler returns; what it leaves in d is stored even when it failed.
Return(r, d, result) ==
  /\ h' = [h EXCEPT ![r] = AtRest]
  /\ saved' = With(saved, r, d) /\ outcome' = [outcome EXCEPT ![r] = result]
Fail(r) == Return(r, plan, "error")

\* The provider dies: what its handlers did is not stored.
Die ==
  /\ h' = [r \in Parts |-> AtRest]
  /\ outcome' = [r \in Parts |-> IF Rests(r) THEN outcome[r] ELSE "crash"]
  /\ UNCHANGED saved

Failing(r) == Fault("apiError") /\ Fail(r) /\ UNCHANGED real

\* A call with an effect: it succeeds, or its reply is lost.
Effect(r, after, next) ==
  /\ real' = after
  /\ \/ NoFault /\ GoOn(r, next)
     \/ Fault("lostReply") /\ Fail(r)

\* One more look at the group's state was taken.
LookAgain(r) ==
  IF h[r].tries > 1 THEN h' = [h EXCEPT ![r].tries = @ - 1] /\ UNCHANGED <<saved, outcome>> ELSE Fail(r)

OthersRest == UNCHANGED <<config, plan, changes, scalings>>

-----------------------------------------------------------------------------
(* The rule.  Its group always exists here, so a failed list of groups,    *)
(* which is only logged, leaves nothing whose groups can be counted.       *)

ListGroups ==
  /\ At("rule", "list")
  /\ \/ NoFault /\ GoOn("rule", "compare")
     \/ Fault("apiError") /\ Die
  /\ UNCHANGED real /\ OthersRest

\* Members that came while the state knew of none are the group's own, and so are all
\* when the user lists none.
LeftAlone == saved.members = {} /\ real.members # {}

\* A variant: the rule's handler does not wait.
CompareWithoutWait ==
  /\ At("rule", "compare")
  /\ \/ NoFault /\ UNCHANGED real
        /\ GoOn("rule", IF LeftAlone \/ plan.members = {} THEN "read" ELSE "remove")
     \/ Failing("rule")
  /\ OthersRest

Compare ==
  /\ At("rule", "compare")
  /\ \/ NoFault /\ UNCHANGED real
        /\ GoOn("rule", IF LeftAlone \/ plan.members = {} THEN "read" ELSE "poll")
     \/ Failing("rule")
  /\ OthersRest

\* The group is on or off: CloudStack tells its state in lower case, which is what this
\* comparison (line 311) takes for granted.  The other handlers lower the case first; were
\* it ever different, the wait would run into its limit, as LookAgain may at any time.
PollForRule ==
  /\ At("rule", "poll")
  /\ \/ NoFault /\ ~real.on /\ GoOn("rule", "remove")
     \/ NoFault /\ real.on /\ LookAgain("rule")
     \/ Fault("apiError") /\ LookAgain("rule")
  /\ UNCHANGED real /\ OthersRest

Surplus == saved.members \ plan.members
Missing == plan.members \ saved.members

RemoveMembers ==
  /\ At("rule", "remove")
  /\ IF Surplus = {} THEN NoFault /\ GoOn("rule", "add") /\ UNCHANGED real
     ELSE \/ Effect("rule", [real EXCEPT !.members = @ \ Surplus], "add")
          \/ Failing("rule")
  /\ OthersRest

\* CloudStack assigns a machine once.
AddMembers ==
  /\ At("rule", "add")
  /\ IF Missing = {} THEN NoFault /\ GoOn("rule", "read") /\ UNCHANGED real
     ELSE \/ Missing \cap real.members = {} /\ Effect("rule", [real EXCEPT !.members = @ \cup Missing], "read")
          \/ Missing \cap real.members # {} /\ NoFault /\ Fail("rule") /\ UNCHANGED real
          \/ Failing("rule")
  /\ OthersRest

\* Read lists the members, and then the groups, which changes nothing any more.
ReadRule ==
  /\ At("rule", "read")
  /\ \/ NoFault /\ Return("rule", real, "ok")
     \/ Fault("apiError") /\ Return("rule", IF LeftAlone THEN real ELSE plan, "error")
     \/ Fault("apiError") /\ Die
  /\ UNCHANGED real /\ OthersRest

-----------------------------------------------------------------------------
(* The profile.                                                            *)

ListUsers ==
  /\ At("profile", "list")
  /\ \/ NoFault /\ GoOn("profile", "poll") /\ UNCHANGED real
     \/ Failing("profile")
  /\ OthersRest

PollForProfile ==
  /\ At("profile", "poll")
  /\ \/ NoFault /\ ~real.on /\ GoOn("profile", "write") /\ UNCHANGED real
     \/ NoFault /\ real.on /\ LookAgain("profile") /\ UNCHANGED real
     \/ Failing("profile")
  /\ OthersRest

\* CloudStack refuses it if the group was enabled since.
WriteProfile ==
  /\ At("profile", "write")
  /\ \/ ~real.on /\ Effect("profile", [real EXCEPT !.profile = plan.profile], "read")
     \/ real.on /\ NoFault /\ Fail("profile") /\ UNCHANGED real
     \/ Failing("profile")
  /\ OthersRest

ReadProfile ==
  /\ At("profile", "read")
  /\ \/ NoFault /\ Return("profile", real, "ok") /\ UNCHANGED real
     \/ Failing("profile")
  /\ OthersRest

-----------------------------------------------------------------------------
(* The group: disabled before anything else changes, enabled afterwards.   *)

Turns(on) == saved.on # plan.on /\ plan.on = on

\* Terraform starts the handler when those of the resources it refers to are done,
\* and not at all if one of them failed.
StartGroup ==
  /\ At("group", "wait")
  /\ plan.refers => Rests("rule") /\ Rests("profile")
  /\ IF plan.refers /\ \E r \in {"rule", "profile"} : outcome[r] \in {"error", "crash"}
     THEN /\ h' = [h EXCEPT !["group"] = AtRest]
          /\ outcome' = [outcome EXCEPT !["group"] = "skipped"] /\ UNCHANGED saved
     ELSE GoOn("group", IF Turns(FALSE) THEN "disable" ELSE "params")
  /\ NoFault /\ UNCHANGED real /\ OthersRest

\* CloudStack refuses to disable what is disabled.
DisableGroup ==
  /\ At("group", "disable")
  /\ \/ real.on /\ Effect("group", [real EXCEPT !.on = FALSE], "params")
     \/ ~real.on /\ NoFault /\ Fail("group") /\ UNCHANGED real
     \/ Failing("group")
  /\ OthersRest

\* A variant: the handler is done once the parameters are.
ReadAfterParams == "read"
AfterParams == IF Turns(TRUE) THEN "enable" ELSE "read"

UpdateParams ==
  /\ At("group", "params")
  /\ \/ saved.params = plan.params /\ NoFault /\ GoOn("group", AfterParams) /\ UNCHANGED real
     \/ saved.params # plan.params
        /\ \/ ~real.on /\ Effect("group", [real EXCEPT !.params = plan.params], AfterParams)
           \/ real.on /\ NoFault /\ Fail("group") /\ UNCHANGED real
           \/ Failing("group")
  /\ OthersRest

EnableGroup ==
  /\ At("group", "enable")
  /\ \/ Effect("group", [real EXCEPT !.on = TRUE], "read")
     \/ Failing("group")
  /\ OthersRest

ReadGroup ==
  /\ At("group", "read")
  /\ \/ NoFault /\ Return("group", real, "ok") /\ UNCHANGED real
     \/ Failing("group")
  /\ OthersRest

-----------------------------------------------------------------------------
(* The user, the autoscaler, and what else happens.                        *)

EditWish ==
  /\ AllRest /\ changes < MaxChanges
  /\ \E wish \in Wishes \ {config} : config' = wish
  /\ changes' = changes + 1
  /\ UNCHANGED <<real, plan, saved, h, outcome, faults, scalings>>

\* While the group is enabled the autoscaler starts machines, and ends its own.
Scale ==
  /\ real.on /\ scalings < MaxScalings
  /\ \E vm \in Spare :
       real' = [real EXCEPT !.members = IF vm \in @ THEN @ \ {vm} ELSE @ \cup {vm}]
  /\ scalings' = scalings + 1
  /\ UNCHANGED <<config, plan, saved, h, outcome, faults, changes>>

CrashAutoscale == Fault("crash") /\ ~AllRest /\ Die /\ UNCHANGED real /\ OthersRest

\* Somebody else enables or disables the group.
Toggle ==
  /\ Fault("outOfBand")
  /\ real' = [real EXCEPT !.on = ~@]
  /\ UNCHANGED <<saved, h, outcome>> /\ OthersRest

-----------------------------------------------------------------------------
HandleRule == ListGroups \/ Compare \/ PollForRule \/ RemoveMembers \/ AddMembers \/ ReadRule
HandleProfile == ListUsers \/ PollForProfile \/ WriteProfile \/ ReadProfile
HandleGroup == StartGroup \/ DisableGroup \/ UpdateParams \/ EnableGroup \/ ReadGroup

AutoscaleInit ==
  /\ config \in Wishes
  /\ real = [members |-> config.members, profile |-> config.profile, params |-> config.params, on |-> config.on]
  /\ saved = real /\ plan = config
  /\ h = [r \in Parts |-> AtRest] /\ outcome = [r \in Parts |-> "none"]
  /\ faults = [number |-> 0, kinds |-> {}] /\ changes = 0 /\ scalings = 0

AutoscaleNext ==
  \/ Run \/ EditWish \/ HandleRule \/ HandleProfile \/ HandleGroup
  \/ Scale \/ CrashAutoscale \/ Toggle

\* Terraform is run again and again, and a handler that can take a step takes it.
AutoscaleFairness == WF_autoscaleVars(Run) /\ WF_autoscaleVars(HandleRule) /\ WF_autoscaleVars(HandleProfile) /\ WF_autoscaleVars(HandleGroup)

AutoscaleSpec == AutoscaleInit /\ [][AutoscaleNext]_autoscaleVars /\ AutoscaleFairness

-----------------------------------------------------------------------------
(* Properties.                                                             *)

\* A rule's handler changes the members only while the group is disabled: the wait
\* before it is enough as long as the group refers to the rule, so that its handler
\* cannot enable it in between, and nobody else does.
MembersChangedWhileDisabled ==
  [][h["rule"].step \in {"remove", "add"} /\ real'.members # real.members /\ scalings' = scalings
     => \/ ~real.on
        \/ ~plan.refers /\ plan.on
        \/ "outOfBand" \in faults.kinds]_autoscaleVars

\* What no run of Terraform ever gets right: a change that needs the group disabled
\* while it is enabled.  Its handler waits in vain, or is refused; it is the group's
\* handler that would disable it, but only if the user asks for that, and after the
\* others if it refers to them.
NeedsDisabled ==
  \/ real.profile # config.profile
  \/ config.members # {} /\ real.members # config.members
Stuck ==
  /\ real.on
  /\ \/ config.on /\ (NeedsDisabled \/ real.params # config.params)
     \/ ~config.on /\ config.refers /\ NeedsDisabled

\* Otherwise everything the user wants comes true, except that members are never
\* taken away to leave none.
AutoscaleSettles ==
  <>[](\/ Stuck
       \/ /\ Same("profile", real, config) /\ Same("group", real, config)
          /\ Same("rule", real, config) \/ config.members = {})
=============================================================================
