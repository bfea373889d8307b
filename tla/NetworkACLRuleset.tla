-------------------------- MODULE NetworkACLRuleset --------------------------
(***************************************************************************)
(* The cloudstack_network_acl_ruleset resource: the rules of a network     *)
(* ACL, identified by their rule_number.  Create and Delete fan out one    *)
(* goroutine per rule; Update fans out three times, to delete the rules    *)
(* whose number is gone, to change those whose content differs and to      *)
(* create those whose number is new.  A mutex guards the set the           *)
(* goroutines share.  A rule's content is its number, its protocol, its    *)
(* `port' (or its description: what an update sends only if it is there,   *)
(* and an unusable port never), and the rest of its arguments (`body').    *)
(***************************************************************************)
EXTENDS Naturals, FiniteSets

CONSTANTS Numbers,      \* rule numbers
          Protocols,    \* values of `protocol'
          Bodies,       \* the arguments that are always sent, taken together
          PortValues,   \* values of `port'
          NoPort,       \* the empty one
          Invalid,      \* those that verifyACLRuleParams rejects
          Configs,      \* what the user may write: [managed, rules]
          Others,       \* the rules someone else may add
          Parallelism,  \* the capacity of `sem', 10 in the code
          Attempts,     \* how often Retry tries a creation, 4 in the code
          Faults,       \* which faults the environment may inject
          MaxFaults,    \* bound: how many of them
          MaxChanges,   \* bound: how often the user edits the configuration
          MaxUuid       \* bound: how many uuids may be known or in use at a time

Contents == [number : Numbers, protocol : Protocols, body : Bodies, port : PortValues]

\* An API call fails; it had its effect all the same; the job takes too long; someone
\* else deletes or creates a rule; the provider dies.  And, no doing of the environment:
\* a Read overlooked that all rules are gone.
FaultKinds ==
  {"apiError", "lostReply", "asyncTimeout", "outOfBand", "foreignRule", "crash", "overlooked"}

\* The faults after which nobody may know the uuid of a rule that exists.
Blinding == {"lostReply", "asyncTimeout", "crash"}

ASSUME RulesetAssumption ==
  /\ IsFiniteSet(Contents)
  /\ Invalid \subseteq PortValues
  /\ Configs \subseteq [managed : BOOLEAN, rules : SUBSET Contents]
  /\ \A c \in Configs : \A r, s \in c.rules : r.number = s.number => r = s
  /\ Others \subseteq Contents
  /\ Parallelism \in Nat \ {0} /\ Attempts \in Nat \ {0}
  /\ Faults \subseteq FaultKinds
  /\ MaxFaults \in Nat /\ MaxChanges \in Nat /\ MaxUuid \in Nat

VARIABLES cloud,     \* the rules of the ACL: [uuid, rule, owner]
          config,    \* what the user wants: [present, managed, rules]
          saved,     \* the Terraform state: [id, tainted, managed, rules]
          fresh,     \* a refresh preceded the next plan
          op,        \* the handler's phase
          rules,     \* the schema.Set the goroutines fill
          later,     \* what the next fan-outs of Update work on
          work,      \* [rule handed to a goroutine -> the goroutine's state]
          stage,     \* [rule handed to a goroutine -> its stage]
          failed,    \* errs.ErrorOrNil() # nil
          told,      \* how the last operation ended
          faults,    \* the faults injected so far: [number, kinds]
          changes    \* edits made so far

vars == <<cloud, config, saved, fresh, op, rules, later, work, stage,
          failed, told, faults, changes>>

Pool == INSTANCE WorkerPool

-----------------------------------------------------------------------------
(* Rules as they stand in the state, and the ACL.                          *)

Uuid == 1..MaxUuid
NoUuid == 0
Entry(r) == [rule |-> r, uuid |-> NoUuid]
Plain(es) == {e.rule : e \in es}

UuidsIn(es) == {e.uuid : e \in es} \ {NoUuid}
NumbersIn(rs) == {r.number : r \in rs}

Ids(cs) == {c.uuid : c \in cs}
Owned(owner) == {c \in cloud : c.owner = owner}

\* buildRuleFromAPI
FromAPI(c) == [rule |-> c.rule, uuid |-> c.uuid]

\* Any call may fail, with or without having had its effect.
Fault(kind) ==
  /\ kind \in Faults /\ faults.number < MaxFaults
  /\ faults' = [number |-> faults.number + 1, kinds |-> faults.kinds \cup {kind}]

NoFault == UNCHANGED faults

\* CloudStack refuses a second rule with the same number (external).
Conflicts(r) == r.number \in NumbersIn({c.rule : c \in cloud})

\* A uuid nobody knows: what exists nowhere any more is as good as new.
Remembered == UuidsIn(saved.rules \cup rules \cup {work[j].entry : j \in DOMAIN work})
Mentioned ==
  UuidsIn({j.entry : j \in DOMAIN work \cup later.change} \cup UNION {work[j].seen : j \in DOMAIN work})
Unused == Uuid \ (Ids(cloud) \cup Remembered \cup Mentioned)
NewUuid == CHOOSE u \in Unused : TRUE

NewRule(r, owner) ==
  /\ Unused # {}
  /\ cloud' = cloud \cup {[uuid |-> NewUuid, rule |-> r, owner |-> owner]}

RemoveRule(u) == cloud' = {c \in cloud : c.uuid # u}

\* An update sends the port only if there is one and it can be parsed, and CloudStack
\* keeps what it is not sent (external: its updates are partial by default).
Unsent == Invalid \cup {NoPort}
Amended(old, new) == [new EXCEPT !.port = IF @ \in Unsent THEN old.port ELSE @]

ChangeRule(u, r) ==
  cloud' = {IF c.uuid = u THEN [c EXCEPT !.rule = Amended(@, r)] ELSE c : c \in cloud}

-----------------------------------------------------------------------------
(* How handlers start and end.                                             *)

Idle == op = "idle"

Job(e, new) == [entry |-> e, new |-> new]

\* What a goroutine knows: the rule it mutates, how often it tried to create
\* it, whether the old rule is gone, whether its calls are over, and the shared
\* set as it saw it.
Launch(phase, jobs) ==
  /\ op' = phase
  /\ work' = [j \in jobs |->
       [entry |-> j.entry, tries |-> 0, cut |-> FALSE, over |-> FALSE, seen |-> {}]]
  /\ stage' = Pool!Spawn(jobs)
  /\ failed' = FALSE

Nothing == [change |-> {}, create |-> {}]

Stop ==
  /\ op' = "idle"
  /\ work' = [j \in {} |-> j] /\ stage' = Pool!Spawn({})
  /\ failed' = FALSE /\ rules' = {} /\ later' = Nothing

Save(state, result) == saved' = state /\ told' = result /\ fresh' = FALSE

\* A Create that fails once the id is set leaves the resource tainted, a Delete
\* that fails leaves it as it was.
State(tainted, managed, es) == [id |-> TRUE, tainted |-> tainted, managed |-> managed, rules |-> es]

Partial(es) ==
  State(~saved.id \/ saved.tainted,
        IF op = "destroy" THEN saved.managed ELSE config.managed, es)

Gone == [id |-> FALSE, tainted |-> FALSE, managed |-> FALSE, rules |-> {}]

-----------------------------------------------------------------------------
(* resourceCloudStackNetworkACLRulesetRead                                 *)

\* The rules of es that still exist, as they are now; every rule of the ACL if
\* es is empty, as after an import.
Known(es) == {FromAPI(c) : c \in {x \in cloud : es = {} \/ x.uuid \in UuidsIn(es)}}

\* A Read that overlooks the rules nobody configured.
ReadKnown(es, managed) == Known(es)

ReadRules(es, managed) == IF managed THEN {FromAPI(c) : c \in cloud} ELSE Known(es)

\* With nothing to report the resource is gone, unless it is managed: then
\* d.Set is not called and the rules stay in the state as they were.
ReadState(es, tainted, managed) ==
  LET rs == ReadRules(es, managed)
  IN CASE rs # {} -> State(tainted, managed, rs)
       [] rs = {} /\ managed -> State(tainted, managed, es)
       [] OTHER -> Gone

FinishWithRead(es) ==
  \/ NoFault /\ Save(ReadState(es, FALSE, config.managed), "ok")
  \/ Fault("apiError") /\ Save(Partial(es), "error")

\* terraform plan refreshes the state first; a failed refresh changes nothing.
Refresh ==
  /\ Idle /\ saved.id
  /\ saved' = ReadState(saved.rules, saved.tainted, saved.managed)
  /\ fresh' = TRUE /\ told' = "read"
  /\ IF saved.managed /\ ReadRules(saved.rules, TRUE) = {} /\ saved.rules # {}
     THEN faults' = [faults EXCEPT !.kinds = @ \cup {"overlooked"}]
     ELSE NoFault
  /\ UNCHANGED <<cloud, config, op, rules, later, work, stage, failed, changes>>

-----------------------------------------------------------------------------
(* Create, Update and Delete up to their first fan-out.                    *)

Create ==
  /\ Idle /\ config.present /\ ~saved.id
  /\ IF config.rules # {}
     THEN /\ Launch("create", {Job(Entry(r), r) : r \in config.rules}) /\ rules' = {}
          /\ NoFault /\ UNCHANGED <<saved, told, fresh, later>>
     ELSE FinishWithRead({}) /\ UNCHANGED <<op, rules, later, work, stage, failed>>
  /\ UNCHANGED <<cloud, config, changes>>

\* CustomizeDiff keeps, uuid and all, the rules whose number and content are
\* those of the state.  `rule' is Computed: without a rule block there is no
\* change to apply.
Differs == config.rules # {} /\ Plain(saved.rules) # config.rules

CanUpdate == Idle /\ config.present /\ saved.id /\ ~saved.tainted /\ fresh

\* Only `managed' changed.
UpdateNothing ==
  /\ CanUpdate /\ ~Differs /\ saved.managed # config.managed
  /\ FinishWithRead(saved.rules)
  /\ UNCHANGED <<cloud, config, op, rules, later, work, stage, failed, changes>>

\* A number that is gone is deleted, a content that differs is changed, a number
\* that is new is created; `rules' starts with the old rules whose number stays.
Update ==
  LET kept == {e \in saved.rules : e.rule.number \in NumbersIn(config.rules)}
  IN /\ CanUpdate /\ Differs
     /\ Launch("delete", {Job(e, e.rule) : e \in saved.rules \ kept})
     /\ rules' = kept
     /\ later' = [change |-> {j \in {Job(e, r) : e \in kept, r \in config.rules} :
                                j.entry.rule.number = j.new.number /\ j.entry.rule # j.new},
                  create |-> {Job(Entry(r), r) : r \in
                                {x \in config.rules : x.number \notin NumbersIn(Plain(kept))}}]
     /\ UNCHANGED <<cloud, config, saved, fresh, told, faults, changes>>

\* The rules nobody looks after any more.
LetGo(c) == [c EXCEPT !.owner = IF @ = "resource" THEN "nobody" ELSE @]

\* Also the first half of the replacement of a tainted resource.  Unless it is
\* managed, the rules are left alone and the resource just leaves the state.
Delete ==
  /\ Idle /\ saved.id /\ fresh /\ (saved.tainted \/ ~config.present)
  /\ IF saved.managed /\ saved.rules # {}
     THEN /\ Launch("destroy", {Job(e, e.rule) : e \in saved.rules}) /\ rules' = {}
          /\ UNCHANGED <<cloud, saved, told, fresh, later>>
     ELSE /\ Save(Gone, "none") /\ cloud' = {LetGo(c) : c \in cloud}
          /\ UNCHANGED <<op, rules, later, work, stage, failed>>
  /\ UNCHANGED <<config, faults, changes>>

-----------------------------------------------------------------------------
(* The goroutines.                                                         *)

HandlerState == <<config, saved, fresh, op, later, told, changes>>

Acquire(j) ==
  /\ Pool!Acquire(j)
  /\ UNCHANGED <<cloud, rules, work, failed, faults, HandlerState>>

Running(j) == stage[j] = "working" /\ ~work[j].over

\* An updateACLRule that never calls UpdateNetworkACLItem.
ReplacesAlways(j) == op = "change"

\* updateACLRule deletes and creates a rule anew when its protocol changes.
Replaces(j) == op = "change" /\ j.entry.rule.protocol # j.new.protocol

Creates(j) == op = "create" \/ (Replaces(j) /\ work[j].cut)
Deletes(j) == op \in {"delete", "destroy"} \/ (Replaces(j) /\ ~work[j].cut)
Changes(j) == op = "change" /\ ~Replaces(j)

Over(j, uuid) == work' = [work EXCEPT ![j].over = TRUE, ![j].entry.uuid = uuid]

\* An error nobody appends to errs.
AbortSilently(j) == work' = [work EXCEPT ![j].over = TRUE] /\ UNCHANGED failed

Abort(j) == work' = [work EXCEPT ![j].over = TRUE] /\ failed' = TRUE

\* createACLRule: verifyACLRuleParams, then Retry on CreateNetworkACL.
RejectRule(j) ==
  /\ Running(j) /\ Creates(j) /\ j.new.port \in Invalid
  /\ Abort(j)
  /\ UNCHANGED <<cloud, rules, stage, faults, HandlerState>>

CreateRule(j) ==
  /\ Running(j) /\ Creates(j) /\ j.new.port \notin Invalid
  /\ ~Conflicts(j.new) /\ NewRule(j.new, "resource") /\ NoFault
  /\ Over(j, NewUuid)
  /\ UNCHANGED <<rules, stage, failed, HandlerState>>

Retry(j) ==
  IF work[j].tries + 1 < Attempts
  THEN work' = [work EXCEPT ![j].tries = @ + 1] /\ UNCHANGED failed
  ELSE Abort(j)

\* A failed attempt is repeated up to Attempts times, even when the rule was
\* created and only the answer was lost: the next one is then refused.  Only the
\* AsyncTimeoutErr of a job that takes too long is final.
CreateFails(j) ==
  /\ Running(j) /\ Creates(j) /\ j.new.port \notin Invalid
  /\ \/ Conflicts(j.new) /\ UNCHANGED cloud /\ NoFault /\ Retry(j)
     \/ Fault("apiError") /\ UNCHANGED cloud /\ Retry(j)
     \/ Fault("lostReply") /\ ~Conflicts(j.new) /\ NewRule(j.new, "resource") /\ Retry(j)
     \/ Fault("asyncTimeout") /\ ~Conflicts(j.new) /\ NewRule(j.new, "resource") /\ Abort(j)
  /\ UNCHANGED <<rules, stage, HandlerState>>

\* deleteACLRule, and the first call of updateACLRule when the protocol changes.
\* A uuid that does not exist any more counts as deleted; the empty uuid of a
\* rule that was never created is refused (external).
DeleteRule(j) ==
  /\ Running(j) /\ Deletes(j) /\ work[j].entry.uuid # NoUuid
  /\ RemoveRule(work[j].entry.uuid) /\ NoFault
  /\ IF op = "change" THEN work' = [work EXCEPT ![j].cut = TRUE] ELSE Over(j, NoUuid)
  /\ UNCHANGED <<rules, stage, failed, HandlerState>>

DeleteFails(j) ==
  /\ Running(j) /\ Deletes(j)
  /\ \/ work[j].entry.uuid = NoUuid /\ UNCHANGED cloud /\ NoFault
     \/ Fault("apiError") /\ UNCHANGED cloud
     \/ Fault("lostReply") /\ RemoveRule(work[j].entry.uuid)
  /\ Abort(j)
  /\ UNCHANGED <<rules, stage, HandlerState>>

\* UpdateNetworkACLItem: the rule changes under its uuid.  Nothing verifies the new
\* arguments here.
ChangeInPlace(j) ==
  /\ Running(j) /\ Changes(j) /\ work[j].entry.uuid \in Ids(cloud)
  /\ ChangeRule(work[j].entry.uuid, j.new) /\ NoFault
  /\ Over(j, work[j].entry.uuid)
  /\ UNCHANGED <<rules, stage, failed, HandlerState>>

ChangeFails(j) ==
  /\ Running(j) /\ Changes(j)
  /\ \/ work[j].entry.uuid \notin Ids(cloud) /\ UNCHANGED cloud /\ NoFault
     \/ Fault("apiError") /\ UNCHANGED cloud
     \/ Fault("lostReply") /\ ChangeRule(work[j].entry.uuid, j.new)
  /\ Abort(j)
  /\ UNCHANGED <<rules, stage, HandlerState>>

\* Without the mutex.
LockNothing(j) ==
  /\ work[j].over
  /\ IF work[j].entry.uuid # NoUuid
     THEN Pool!StartCollecting(j) /\ work' = [work EXCEPT ![j].seen = rules]
     ELSE Pool!NothingToCollect(j) /\ UNCHANGED work
  /\ UNCHANGED <<cloud, rules, failed, faults, HandlerState>>

\* A rule without a uuid is not collected; for the others mu.Lock() comes first.
\* rules.Add reads the shared set and writes it back.
Lock(j) ==
  /\ work[j].over /\ ~Pool!Overlapped(j)
  /\ IF work[j].entry.uuid # NoUuid
     THEN Pool!StartCollecting(j) /\ work' = [work EXCEPT ![j].seen = rules]
     ELSE Pool!NothingToCollect(j) /\ UNCHANGED work
  /\ UNCHANGED <<cloud, rules, failed, faults, HandlerState>>

\* updateACLRules takes the old rule out and puts it back with the new values
\* (updateRuleValues), even when the call that should have made them true failed.
Add(j) ==
  /\ Pool!Collected(j)
  /\ rules' = (work[j].seen \ {j.entry}) \cup {[work[j].entry EXCEPT !.rule = j.new]}
  /\ UNCHANGED <<cloud, work, failed, faults, HandlerState>>

Goroutine(j) ==
  \/ Acquire(j)
  \/ RejectRule(j) \/ CreateRule(j) \/ CreateFails(j)
  \/ DeleteRule(j) \/ DeleteFails(j)
  \/ ChangeInPlace(j) \/ ChangeFails(j)
  \/ Lock(j) \/ Add(j)

-----------------------------------------------------------------------------
(* wg.Wait returned.                                                       *)

Waited(phases) == op \in phases /\ Pool!Returned

\* Create returns before d.Set: what it saves are the planned rules, in which the
\* goroutines wrote the uuids they got.
ReturnError ==
  /\ Waited({"create", "delete", "change", "destroy"}) /\ failed
  /\ Save(Partial(IF saved.id THEN rules ELSE {work[j].entry : j \in DOMAIN stage}), "error")
  /\ Stop
  /\ UNCHANGED <<cloud, config, faults, changes>>

\* Update goes on with the changes, then with the creations.
ChangeNext ==
  /\ Waited({"delete"}) /\ ~failed
  /\ Launch("change", later.change)
  /\ UNCHANGED <<cloud, config, saved, fresh, rules, later, told, faults, changes>>

CreateNext ==
  /\ Waited({"change"}) /\ ~failed
  /\ Launch("create", later.create)
  /\ UNCHANGED <<cloud, config, saved, fresh, rules, later, told, faults, changes>>

ReturnRead ==
  /\ Waited({"create"}) /\ ~failed
  /\ FinishWithRead(rules) /\ Stop
  /\ UNCHANGED <<cloud, config, changes>>

ReturnDeleted ==
  /\ Waited({"destroy"}) /\ ~failed
  /\ Save(Gone, "none") /\ Stop
  /\ UNCHANGED <<cloud, config, faults, changes>>

Return == ReturnError \/ ChangeNext \/ CreateNext \/ ReturnRead \/ ReturnDeleted

-----------------------------------------------------------------------------
(* The user, the other users of the account, and the provider's death.     *)

Absent == [present |-> FALSE, managed |-> FALSE, rules |-> {}]

Edit ==
  /\ Idle /\ changes < MaxChanges /\ changes' = changes + 1
  /\ \/ \E c \in Configs : config' = [present |-> TRUE, managed |-> c.managed, rules |-> c.rules]
     \/ config' = Absent
  /\ told' = "none" /\ fresh' = FALSE
  /\ UNCHANGED <<cloud, saved, op, rules, later, work, stage, failed, faults>>

DeleteOutOfBand ==
  /\ Fault("outOfBand") /\ told' = "none"
  /\ \E c \in cloud : RemoveRule(c.uuid)
  /\ UNCHANGED <<config, saved, fresh, op, rules, later, work, stage, failed, changes>>

CreateForeign ==
  /\ Fault("foreignRule") /\ told' = "none"
  /\ \E r \in Others : ~Conflicts(r) /\ NewRule(r, "other")
  /\ UNCHANGED <<config, saved, fresh, op, rules, later, work, stage, failed, changes>>

Crash ==
  /\ ~Idle /\ Fault("crash") /\ Stop
  /\ told' = "error" /\ fresh' = FALSE
  /\ UNCHANGED <<cloud, config, saved, changes>>

-----------------------------------------------------------------------------
Init ==
  /\ cloud = {}
  /\ config = Absent
  /\ saved = Gone /\ fresh = FALSE
  /\ op = "idle" /\ rules = {} /\ later = Nothing
  /\ work = [j \in {} |-> j] /\ stage = Pool!Spawn({}) /\ failed = FALSE
  /\ told = "none" /\ changes = 0
  /\ faults = [number |-> 0, kinds |-> {}]

Terraform == Refresh \/ Create \/ Update \/ UpdateNothing \/ Delete

Provider == Return \/ \E j \in DOMAIN stage : Goroutine(j)

Environment == Edit \/ DeleteOutOfBand \/ CreateForeign \/ Crash

Next == Terraform \/ Provider \/ Environment

\* The user runs terraform apply as long as there is something to apply, and a
\* goroutine that can run does.  Nothing is assumed of the environment.
Fairness == WF_vars(Terraform) /\ WF_vars(Provider)

Spec == Init /\ [][Next]_vars /\ Fairness

-----------------------------------------------------------------------------
(* Properties                                                              *)

Entries == [rule : Contents, uuid : Uuid \cup {NoUuid}]
EntryOK(e) == e \in Entries

JobOK(j) == j \in [entry : Entries, new : Contents]

WorkOK(w) ==
  /\ DOMAIN w = {"entry", "tries", "cut", "over", "seen"}
  /\ EntryOK(w.entry) /\ w.tries \in 0..Attempts - 1 /\ {w.cut, w.over} \subseteq BOOLEAN
  /\ \A e \in w.seen : EntryOK(e)

TypeOK ==
  /\ cloud \subseteq [uuid : Uuid, rule : Contents, owner : {"resource", "nobody", "other"}]
  /\ config \in [present : BOOLEAN, managed : BOOLEAN, rules : SUBSET Contents]
  /\ DOMAIN saved = {"id", "tainted", "managed", "rules"}
  /\ {saved.id, saved.tainted, saved.managed, fresh, failed} \subseteq BOOLEAN
  /\ \A e \in saved.rules \cup rules : EntryOK(e)
  /\ \A j \in later.change \cup later.create \cup DOMAIN stage : JobOK(j)
  /\ DOMAIN work = DOMAIN stage
  /\ \A j \in DOMAIN stage : WorkOK(work[j]) /\ stage[j] \in Pool!Stages
  /\ op \in {"idle", "create", "delete", "change", "destroy"}
  /\ told \in {"none", "ok", "error", "read"}
  /\ faults \in [number : 0..MaxFaults, kinds : SUBSET FaultKinds] /\ changes \in 0..MaxChanges

\* No rule a ruleset created is ever forgotten: in the middle of an operation some
\* goroutine, the shared set or the old state has its uuid, between operations the
\* state has it; unless an answer was lost, the provider died, or the ruleset was
\* not managed when it was deleted.  (It takes the mutex: a rule that another
\* goroutine's rules.Add overwrites is forgotten.)
Blinded == faults.kinds \cap Blinding # {}

Tracked == ~Blinded => Ids(Owned("resource")) \subseteq Remembered

\* Success means that the ACL has the configured rules, word for word, whatever the
\* faults before it, unless someone deleted a rule meanwhile or a Read overlooked that
\* all of them are gone.  Only a port that an update does not send, one that was removed
\* or that nothing can be made of, may be another one.
Agrees(c, r) == c.rule = r \/ (r.port \in Unsent /\ c.rule = [r EXCEPT !.port = c.rule.port])

OkMeansApplied ==
  Idle /\ told = "ok" /\ faults.kinds \cap {"outOfBand", "overlooked"} = {} =>
    \A r \in config.rules : \E c \in cloud : Agrees(c, r)

\* All rules of a managed ACL are gone, and Read leaves the state as it was.
Overlooked == saved.managed /\ cloud = {}

\* An update deletes a rule only when its number is gone from the configuration
\* or its protocol changes: every other rule keeps its uuid.
Survives(c) == \E r \in config.rules : r.number = c.rule.number /\ r.protocol = c.rule.protocol

UuidsPreserved ==
  [][op # "destroy" /\ ~DeleteOutOfBand =>
       \A c \in cloud : Survives(c) => c.uuid \in Ids(cloud')]_vars

\* The resource stops changing, with exactly the configured rules in the state;
\* while a managed one exists the ACL has no other rule.  An unmanaged one is
\* refused, for ever, a number that an unknown rule has: one of someone else, one
\* whose uuid was lost, or one that its own Delete left.  A port that is not sent is
\* found again by every Read, and sent, or not, by the next update.
Applied ==
  /\ Idle /\ saved.id = config.present
  /\ config.rules # {} =>
       /\ Plain(saved.rules) = config.rules
       /\ saved.rules \subseteq {FromAPI(c) : c \in cloud}
       /\ config.managed => saved.rules = {FromAPI(c) : c \in cloud}

Hopeless ==
  \/ \E r \in config.rules : r.port \in Invalid
  \/ \E r \in config.rules, c \in cloud : Agrees(c, r) /\ c.rule # r
  \/ /\ ~config.managed
     /\ \E c \in cloud : c.uuid \notin UuidsIn(saved.rules) /\ c.rule.number \in NumbersIn(config.rules)

Settles == <>[](Applied \/ Hopeless \/ Overlooked)
=============================================================================
