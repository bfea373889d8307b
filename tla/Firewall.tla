------------------------------ MODULE Firewall ------------------------------
(***************************************************************************)
(* The cloudstack_firewall resource: one Terraform resource that owns the  *)
(* firewall rules of an IP address.  A configured rule is a set of ports   *)
(* (or the single entry "icmp"), and CloudStack keeps one rule, with a     *)
(* uuid of its own, per port; the state saved by Terraform is the only     *)
(* place that says which uuids the resource created.                       *)
(*                                                                         *)
(* Create, Update and Delete fan out one goroutine per rule (WorkerPool);  *)
(* the goroutines share the set `rules' that becomes the saved state.      *)
(***************************************************************************)
EXTENDS Naturals, FiniteSets, Functions

CONSTANTS Rules,        \* what a rule block may say, ports aside
          PortsOf,      \* [Rules -> the ports (or {"icmp"}) it lists]
          Invalid,      \* the rules verifyFirewallRuleParams rejects
          Configs,      \* what the user may write: [managed, rules]
          Parallelism,  \* the argument `parallelism'
          Foreign,      \* the content of a rule another party created
          Faults,       \* which faults the environment may inject
          MaxFaults,    \* bound: how many of them
          MaxChanges,   \* bound: how often the user edits the configuration
          MaxUuid       \* bound: how many uuids may be known or in use at a time

\* An API call fails; it had its effect all the same; someone else deletes or
\* creates a rule; the provider dies; two goroutines meet in the shared set.  And,
\* no doing of the environment: a refused Update emptied the state, a Read overlooked
\* that all rules are gone.
FaultKinds == {"apiError", "lostReply", "outOfBand", "foreignRule", "crash", "race", "emptied", "overlooked"}

\* The faults after which nobody may know the uuid of a rule that exists.
Blinding == {"lostReply", "crash", "race", "emptied"}

ASSUME FirewallAssumption ==
  /\ IsFiniteSet(Rules)
  /\ Invalid \subseteq Rules
  /\ Configs \subseteq [managed : BOOLEAN, rules : SUBSET Rules]
  /\ Parallelism \in Nat
  /\ Foreign \notin Rules /\ Rules \cap (1..MaxUuid) = {}
  /\ Faults \subseteq FaultKinds
  /\ MaxFaults \in Nat /\ MaxChanges \in Nat /\ MaxUuid \in Nat

VARIABLES cloud,     \* the firewall rules of the IP address: [uuid, rule, port]
          config,    \* what the user wants: [present, managed, rules]
          saved,     \* the Terraform state: [id, tainted, managed, rules]
          fresh,     \* a refresh preceded the next plan
          op,        \* the handler's phase
          rules,     \* the schema.Set the goroutines fill
          later,     \* the rules Update creates once the old ones are deleted
          work,      \* [rule handed to a goroutine -> that rule as mutated since]
          stage,     \* [rule handed to a goroutine -> its stage]
          failed,    \* errs.ErrorOrNil() # nil
          told,      \* how the last operation ended
          faults,    \* the faults injected so far: [number, kinds]
          changes    \* edits made so far

vars == <<cloud, config, saved, fresh, op, rules, later, work, stage,
          failed, told, faults, changes>>

Pool == INSTANCE WorkerPool

-----------------------------------------------------------------------------
(* Rule blocks and the uuids they carry.                                   *)

Uuid == 1..MaxUuid
NoUuids == [p \in {} |-> 0]

\* A rule block as it stands in the state or in a goroutine's hands: `uuids'
\* is the computed map from port to uuid.
Entry(r) == [rule |-> r, ports |-> PortsOf[r], uuids |-> NoUuids]

\* The block that stands for a rule nobody configured (`managed' only).
Dummy(u) == [rule |-> u, ports |-> {}, uuids |-> [x \in {u} |-> u]]

\* The hash of a schema.Set element ignores the computed `uuids'.
Content(e) == <<e.rule, e.ports>>
Contents(es) == {Content(e) : e \in es}

Minus(es, others) == {e \in es : Content(e) \notin Contents(others)}

EntryUuids(e) == Range(e.uuids)
UuidsIn(es) == UNION {EntryUuids(e) : e \in es}

Ids(rs) == {c.uuid : c \in rs}
Own == {c \in cloud : c.rule # Foreign}

Wanted == {Entry(r) : r \in config.rules}

-----------------------------------------------------------------------------
(* The API.  CloudStack refuses a rule that conflicts with one that exists *)
(* (external), and any call may fail, with or without having had its       *)
(* effect.                                                                 *)

Fault(kind) ==
  /\ kind \in Faults /\ faults.number < MaxFaults
  /\ faults' = [number |-> faults.number + 1, kinds |-> faults.kinds \cup {kind}]

NoFault == UNCHANGED faults

\* The uuids some part of the provider still remembers.
Remembered == UuidsIn(saved.rules \cup rules) \cup UuidsIn(Range(work))

\* A new rule gets a uuid nobody knows yet.  CloudStack never uses a uuid twice;
\* one that exists nowhere any more is as good as new, which keeps the model
\* finite.
Unused == Uuid \ (Ids(cloud) \cup Remembered \cup UuidsIn(DOMAIN work))
NewUuid == CHOOSE u \in Unused : TRUE

Conflicts(r, p) == \E c \in cloud : c.rule = r /\ c.port = p

NewRule(r, p) ==
  /\ Unused # {}
  /\ cloud' = cloud \cup {[uuid |-> NewUuid, rule |-> r, port |-> p]}

RemoveRule(u) == cloud' = {c \in cloud : c.uuid # u}

-----------------------------------------------------------------------------
(* The handlers: how they start, and how they end.                         *)

Idle == op = "idle"

Launch(phase, batch) ==
  /\ op' = phase
  /\ work' = [e \in batch |-> e]
  /\ stage' = Pool!Spawn(batch)
  /\ failed' = FALSE

\* wg.Wait returned and the handler returns too.
Stop ==
  /\ op' = "idle"
  /\ work' = [e \in {} |-> e] /\ stage' = Pool!Spawn({})
  /\ failed' = FALSE /\ rules' = {} /\ later' = {}

\* The state the SDK saves when the handler returns.  A Create that fails once
\* the id is set leaves the resource tainted.
Save(state, result) == saved' = state /\ told' = result /\ fresh' = FALSE

State(tainted, managed, rs) == [id |-> TRUE, tainted |-> tainted, managed |-> managed, rules |-> rs]

Partial(rs) ==
  State(op = "create" \/ ~saved.id \/ saved.tainted,
        IF op = "destroy" THEN saved.managed ELSE config.managed, rs)

Gone == [id |-> FALSE, tainted |-> FALSE, managed |-> FALSE, rules |-> {}]

-----------------------------------------------------------------------------
(* resourceCloudStackFirewallRead                                          *)

\* A Read that believes the state.
FoundInState(e) == e.ports \cap DOMAIN e.uuids

\* The ports of e whose rule still exists.
Found(e) == {p \in e.ports : p \in DOMAIN e.uuids /\ e.uuids[p] \in Ids(cloud)}

\* What one ListFirewallRules answer leaves of the blocks es.
Known(es) ==
  {[rule |-> e.rule, ports |-> Found(e), uuids |-> Restrict(e.uuids, Found(e))] :
     e \in {x \in es : Found(x) # {}}}

Unknown(es) == Ids(cloud) \ UuidsIn(Known(es))

\* A Read that overlooks the rules nobody configured.
ReadKnown(es, managed) == Known(es)

ReadRules(es, managed) == Known(es) \cup {Dummy(u) : u \in IF managed THEN Unknown(es) ELSE {}}

\* With nothing to report the resource is gone, unless it is managed: then
\* d.Set is not called and the blocks stay in the state as they were.
ReadState(es, tainted, managed) ==
  LET rs == ReadRules(es, managed)
  IN CASE rs # {} -> State(tainted, managed, rs)
       [] rs = {} /\ managed -> State(tainted, managed, es)
       [] OTHER -> Gone

\* The Read a handler ends with: d.Get("rule") returns es there.
FinishWithRead(es) ==
  \/ NoFault /\ Save(ReadState(es, FALSE, config.managed), "ok")
  \/ Fault("apiError") /\ Save(Partial(es), "error")

\* terraform plan refreshes the state first; a failed refresh changes nothing.
Refresh ==
  /\ Idle /\ saved.id
  /\ saved' = ReadState(saved.rules, saved.tainted, saved.managed)
  /\ fresh' = TRUE /\ told' = "read"
  /\ IF saved.managed /\ ReadRules(saved.rules, TRUE) = {} /\ saved.rules # {}
     THEN faults' = [faults EXCEPT !.kinds = @ \cup {"overlooked"}]
     ELSE NoFault
  /\ UNCHANGED <<cloud, config, op, rules, later, work, stage, failed, changes>>

-----------------------------------------------------------------------------
(* Create, Update and Delete up to their first fan-out.                    *)

\* verifyFirewallParams
VerifyParams == config.managed \/ config.rules # {}

\* A Create that verifyFirewallParams refuses changes nothing.
CanCreate == Idle /\ config.present /\ ~saved.id /\ VerifyParams

Create ==
  /\ CanCreate
  /\ IF Wanted # {}
     THEN /\ Launch("create", Wanted) /\ rules' = {} /\ NoFault
          /\ UNCHANGED <<saved, told, fresh, later>>
     ELSE FinishWithRead({}) /\ UNCHANGED <<op, rules, later, work, stage, failed>>
  /\ UNCHANGED <<cloud, config, changes>>

RulesDiffer == Contents(saved.rules) # Contents(Wanted)
Differs == RulesDiffer \/ saved.managed # config.managed

\* The SDK saves the plan when Update fails before its first d.Set: no rules, and
\* with them go the uuids of those that exist.
RejectUpdate ==
  /\ ~VerifyParams /\ Save([saved EXCEPT !.managed = config.managed, !.rules = Wanted], "error")
  /\ faults' = [faults EXCEPT !.kinds = @ \cup {"emptied"}]
  /\ UNCHANGED <<op, rules, later, work, stage, failed>>

\* Only `managed' changed.
UpdateNothing ==
  /\ VerifyParams /\ ~RulesDiffer /\ FinishWithRead(saved.rules)
  /\ UNCHANGED <<op, rules, later, work, stage, failed>>

\* First the rules that are no longer wanted are deleted, then the new ones are
\* created; `rules' starts with those that stay.
StartUpdate ==
  LET ors == Minus(saved.rules, Wanted)
      nrs == Minus(Wanted, saved.rules)
  IN /\ VerifyParams /\ RulesDiffer /\ NoFault
     /\ rules' = saved.rules \ ors
     /\ \/ ors # {} /\ Launch("delete", ors) /\ later' = nrs
        \/ ors = {} /\ Launch("update", nrs) /\ later' = {}
     /\ UNCHANGED <<saved, told, fresh>>

CanUpdate == Idle /\ config.present /\ saved.id /\ ~saved.tainted /\ fresh /\ Differs

Update ==
  /\ CanUpdate
  /\ RejectUpdate \/ UpdateNothing \/ StartUpdate
  /\ UNCHANGED <<cloud, config, changes>>

\* Also the first half of the replacement of a tainted resource.
Delete ==
  /\ Idle /\ saved.id /\ fresh /\ (saved.tainted \/ ~config.present)
  /\ IF saved.rules # {}
     THEN /\ Launch("destroy", saved.rules) /\ rules' = {}
          /\ UNCHANGED <<saved, told, fresh, later>>
     ELSE Save(Gone, "none") /\ UNCHANGED <<op, rules, later, work, stage, failed>>
  /\ UNCHANGED <<cloud, config, faults, changes>>

-----------------------------------------------------------------------------
(* The goroutines.                                                         *)

HandlerState == <<config, saved, fresh, op, later, told, changes>>
Creating == op \in {"create", "update"}
Deleting == op \in {"delete", "destroy"}

\* Only a rule with at least one uuid is added to `rules' (and not only one that
\* got all it asked for).
ConcludeIfAllDone(j, e) ==
  IF PortsOf[e.rule] \subseteq DOMAIN e.uuids THEN Pool!StartCollecting(j) ELSE Pool!NothingToCollect(j)

Conclude(j, e) ==
  IF e.uuids # NoUuids THEN Pool!StartCollecting(j) ELSE Pool!NothingToCollect(j)

Acquire(j) ==
  /\ Pool!Acquire(j)
  /\ UNCHANGED <<cloud, rules, work, failed, faults, HandlerState>>

\* The same, and the error is dropped.
RejectRuleSilently(j) ==
  /\ Creating /\ work[j].rule \in Invalid
  /\ Conclude(j, work[j])
  /\ UNCHANGED <<cloud, rules, work, failed, faults, HandlerState>>

\* verifyFirewallRuleParams
RejectRule(j) ==
  /\ Creating /\ work[j].rule \in Invalid
  /\ Conclude(j, work[j]) /\ failed' = TRUE
  /\ UNCHANGED <<cloud, rules, work, faults, HandlerState>>

Todo(e) == {p \in PortsOf[e.rule] : p \notin DOMAIN e.uuids}

\* The block once its port p has a uuid.
WithUuid(e, p, u) ==
  [e EXCEPT !.ports = DOMAIN e.uuids \cup {p},
            !.uuids = [x \in DOMAIN @ \cup {p} |-> IF x = p THEN u ELSE @[x]]]

\* createFirewallRule asks for the next port.  `ports' is cut down to the ports
\* that were created.
CreatePort(j, p) ==
  LET e == work[j]
      e2 == WithUuid(e, p, NewUuid)
  IN /\ ~Conflicts(e.rule, p) /\ NewRule(e.rule, p) /\ NoFault
     /\ work' = [work EXCEPT ![j] = e2]
     /\ IF Todo(e2) = {} THEN Conclude(j, e2) ELSE UNCHANGED stage
     /\ UNCHANGED <<rules, failed, HandlerState>>

\* The call failed; when only the answer is lost the rule exists all the same.
CreatePortFails(j, p) ==
  /\ \/ Conflicts(work[j].rule, p) /\ UNCHANGED cloud /\ NoFault
     \/ Fault("apiError") /\ UNCHANGED cloud
     \/ Fault("lostReply") /\ ~Conflicts(work[j].rule, p) /\ NewRule(work[j].rule, p)
  /\ Conclude(j, work[j]) /\ failed' = TRUE
  /\ UNCHANGED <<rules, work, HandlerState>>

CreateRule(j) ==
  /\ Creating /\ stage[j] = "working" /\ work[j].rule \notin Invalid
  /\ \/ \E p \in Todo(work[j]) : CreatePort(j, p) \/ CreatePortFails(j, p)
     \/ /\ Todo(work[j]) = {} /\ Conclude(j, work[j])
        /\ UNCHANGED <<cloud, rules, work, failed, faults, HandlerState>>

\* deleteFirewallRule: a uuid that does not exist any more counts as deleted.
DeletePort(j, k) ==
  LET e == work[j]
      e2 == [e EXCEPT !.uuids = Restrict(e.uuids, DOMAIN e.uuids \ {k})]
  IN /\ RemoveRule(e.uuids[k]) /\ NoFault
     /\ work' = [work EXCEPT ![j] = e2]
     /\ IF e2.uuids = NoUuids THEN Conclude(j, e2) ELSE UNCHANGED stage
     /\ UNCHANGED <<rules, failed, HandlerState>>

DeletePortFails(j, k) ==
  /\ \/ Fault("apiError") /\ UNCHANGED cloud
     \/ Fault("lostReply") /\ RemoveRule(work[j].uuids[k])
  /\ Conclude(j, work[j]) /\ failed' = TRUE
  /\ UNCHANGED <<rules, work, HandlerState>>

DeleteRule(j) ==
  /\ Deleting /\ stage[j] = "working"
  /\ \E k \in DOMAIN work[j].uuids : DeletePort(j, k) \/ DeletePortFails(j, k)

-----------------------------------------------------------------------------
(* rules.Add(rule) on the shared schema.Set, which nothing guards.  Two    *)
(* overlapping Adds are a data race on a Go map: both elements may be      *)
(* there afterwards, or one of them may be lost, or the runtime stops the  *)
(* provider with `concurrent map writes'.                                  *)

Add(j) ==
  /\ Pool!Collected(j)
  /\ \/ rules' = rules \cup {work[j]} /\ NoFault
     \/ Pool!Overlapped(j) /\ Fault("race") /\ UNCHANGED rules
  /\ UNCHANGED <<cloud, work, failed, HandlerState>>

\* The provider dies: nothing of the operation reaches the saved state.
Die ==
  /\ Stop /\ fresh' = FALSE /\ told' = "error"
  /\ UNCHANGED <<cloud, config, saved, changes>>

ConcurrentMapWrites(j) == stage[j] = "collecting" /\ Pool!Overlapped(j) /\ Die /\ Fault("race")

Crash == ~Idle /\ Fault("crash") /\ Die

-----------------------------------------------------------------------------
(* wg.Wait returned: d.Set("rule", rules), and on.                         *)

Waited(phases) == op \in phases /\ Pool!Returned

ReturnError ==
  /\ Waited({"create", "delete", "update", "destroy"}) /\ failed
  /\ Save(Partial(rules), "error") /\ Stop
  /\ UNCHANGED <<cloud, config, faults, changes>>

CreateTheRest ==
  /\ Waited({"delete"}) /\ ~failed /\ later # {}
  /\ Launch("update", later) /\ later' = {}
  /\ UNCHANGED <<cloud, config, saved, fresh, rules, told, faults, changes>>

CanReturnRead == Waited({"create", "delete", "update"}) /\ ~failed /\ later = {}

ReturnRead ==
  /\ CanReturnRead
  /\ FinishWithRead(rules) /\ Stop
  /\ UNCHANGED <<cloud, config, changes>>

ReturnDeleted ==
  /\ Waited({"destroy"}) /\ ~failed
  /\ Save(Gone, "none") /\ Stop
  /\ UNCHANGED <<cloud, config, faults, changes>>

-----------------------------------------------------------------------------
(* The user, and whoever else uses the cloud account.                      *)

Absent == [present |-> FALSE, managed |-> FALSE, rules |-> {}]

Edit ==
  /\ Idle /\ changes < MaxChanges /\ changes' = changes + 1
  /\ \/ \E c \in Configs : config' = [present |-> TRUE, managed |-> c.managed, rules |-> c.rules]
     \/ config' = Absent
  /\ told' = "none" /\ fresh' = FALSE
  /\ UNCHANGED <<cloud, saved, op, rules, later, work, stage, failed, faults>>

DeleteOutOfBand ==
  /\ Fault("outOfBand") /\ told' = "none"
  /\ \E c \in cloud : RemoveRule(c.uuid)
  /\ UNCHANGED <<config, saved, fresh, op, rules, later, work, stage, failed, changes>>

CreateForeign ==
  /\ Fault("foreignRule") /\ told' = "none"
  /\ NewRule(Foreign, Foreign)
  /\ UNCHANGED <<config, saved, fresh, op, rules, later, work, stage, failed, changes>>

-----------------------------------------------------------------------------
Init ==
  /\ cloud = {} /\ config = Absent /\ saved = Gone /\ fresh = FALSE
  /\ op = "idle" /\ rules = {} /\ later = {}
  /\ work = [e \in {} |-> e] /\ stage = Pool!Spawn({}) /\ failed = FALSE
  /\ told = "none" /\ changes = 0
  /\ faults = [number |-> 0, kinds |-> {}]

Goroutine(j) ==
  Acquire(j) \/ RejectRule(j) \/ CreateRule(j) \/ DeleteRule(j) \/ Add(j)
  \/ ConcurrentMapWrites(j)

Return == ReturnError \/ CreateTheRest \/ ReturnRead \/ ReturnDeleted

Terraform == Refresh \/ Create \/ Update \/ Delete

Provider == Return \/ \E j \in DOMAIN stage : Goroutine(j)

Environment == Edit \/ DeleteOutOfBand \/ CreateForeign \/ Crash

Next == Terraform \/ Provider \/ Environment

\* The user runs terraform apply as long as there is something to apply, and a
\* goroutine that can run does.  Nothing is assumed of the environment: its
\* faults and edits are bounded.
Fairness == WF_vars(Terraform) /\ WF_vars(Provider)

Spec == Init /\ [][Next]_vars /\ Fairness

-----------------------------------------------------------------------------
(* Properties                                                              *)

Keys == {Foreign} \cup Uuid \cup UNION {PortsOf[r] : r \in Rules}

EntryOK(e) ==
  /\ DOMAIN e = {"rule", "ports", "uuids"}
  /\ e.rule \in Rules \cup Uuid
  /\ e.ports \subseteq Keys
  /\ DOMAIN e.uuids \subseteq Keys /\ EntryUuids(e) \subseteq Uuid

TypeOK ==
  /\ \A c \in cloud : c.uuid \in Uuid /\ c.rule \in Rules \cup {Foreign} /\ c.port \in Keys
  /\ config \in [present : BOOLEAN, managed : BOOLEAN, rules : SUBSET Rules]
  /\ DOMAIN saved = {"id", "tainted", "managed", "rules"}
  /\ saved.id \in BOOLEAN /\ saved.tainted \in BOOLEAN /\ saved.managed \in BOOLEAN
  /\ \A e \in saved.rules : EntryOK(e)
  /\ fresh \in BOOLEAN /\ failed \in BOOLEAN
  /\ op \in {"idle", "create", "delete", "update", "destroy"}
  /\ \A e \in rules \cup later : EntryOK(e)
  /\ DOMAIN work = DOMAIN stage
  /\ \A j \in DOMAIN stage : EntryOK(j) /\ EntryOK(work[j]) /\ stage[j] \in Pool!Stages
  /\ told \in {"none", "ok", "error", "read"}
  /\ faults \in [number : 0..MaxFaults, kinds : SUBSET FaultKinds] /\ changes \in 0..MaxChanges

\* No firewall rule the resource created is forgotten, in the middle of an
\* operation or after one that failed half way: "make sure we end up in a
\* consistent state".  Between operations the saved state alone remembers.
NothingForgotten == Ids(Own) \subseteq Remembered

\* ...unless an answer was lost, the provider died, two goroutines met in the
\* shared set, or the user removed the last rule of an address that is not managed.
Blinded == faults.kinds \cap Blinding # {}

Tracked == ~Blinded => NothingForgotten

\* An operation that reports success leaves every configured port open, whatever
\* the goroutines did to the shared set and whatever faults came before, unless
\* someone deleted a rule meanwhile, or a Read overlooked that all of them are gone.
PortKeys(rs) == UNION {{r} \X PortsOf[r] : r \in rs}
OpenPorts(cs) == {<<c.rule, c.port>> : c \in cs}

OkMeansApplied ==
  Idle /\ told = "ok" /\ faults.kinds \cap {"outOfBand", "overlooked"} = {} =>
    PortKeys(config.rules) \subseteq OpenPorts(Own)

\* All rules of a managed address are gone, and Read leaves the blocks of its
\* state as they were.
Overlooked == saved.managed /\ cloud = {}

\* Otherwise, after a successful operation or a refresh the state lists existing
\* rules only, each port with its uuid.
StateIsReal ==
  Idle /\ told \in {"ok", "read"} /\ ~Overlooked =>
    \A e \in saved.rules : EntryUuids(e) \subseteq Ids(cloud) /\ (e.rule \in Rules => e.ports = DOMAIN e.uuids)

\* The resource stops changing, with exactly the configured rules open and
\* remembered, if the configuration is valid.  A managed one finds what was forgotten; one
\* that is not managed is refused the rules that exist and nobody knows, for ever;
\* and a managed one whose rules are all gone does not notice.
Applied ==
  /\ Idle /\ saved.id = config.present
  /\ config.managed => OpenPorts(cloud) = PortKeys(config.rules)
  /\ ~Blinded => OpenPorts(Own) = PortKeys(config.rules) /\ Ids(Own) \subseteq UuidsIn(saved.rules)

Hopeless ==
  (Blinded /\ ~config.managed) \/ (config.present /\ ~VerifyParams) \/ config.rules \cap Invalid # {}

Settles == <>[](Applied \/ Hopeless \/ Overlooked)
=============================================================================
