-------------------------- MODULE SecurityGroupRule --------------------------
(***************************************************************************)
(* The cloudstack_security_group_rule resource: the ingress and egress     *)
(* rules of a security group.  A configured rule lists its sources (CIDRs  *)
(* and other security groups) and its ports; CloudStack keeps one rule,    *)
(* with a uuid of its own, per source and port.                            *)
(*                                                                         *)
(* The goroutine that creates a rule differs from the one of the firewall  *)
(* rules in two ways: a failed call ends the work on one source only, and  *)
(* a rule that fails its verification returns without giving back its slot *)
(* of the semaphore.                                                       *)
(***************************************************************************)
EXTENDS Naturals, FiniteSets, Functions

CONSTANTS Rules,        \* what a rule block may say, ports aside
          SourcesOf,    \* [Rules -> the CIDRs and security groups it lists]
          PortsOf,      \* [Rules -> its ports, or {"all"} or {"icmp"}]
          Invalid,      \* the rules verifySecurityGroupRuleParams rejects
          Configs,      \* the sets of rules the user may write
          Parallelism,  \* the argument `parallelism'
          Faults,       \* which faults the environment may inject
          MaxFaults,    \* bound: how many of them
          MaxChanges,   \* bound: how often the user edits the configuration
          MaxUuid       \* bound: how many uuids may be known or in use at a time

FaultKinds == {"apiError", "lostReply", "outOfBand", "crash", "race"}

\* The faults after which nobody may know the uuid of a rule that exists.
Blinding == {"lostReply", "crash", "race"}

ASSUME SecurityGroupRuleAssumption ==
  /\ IsFiniteSet(Rules)
  /\ Invalid \subseteq Rules
  /\ Configs \subseteq SUBSET Rules
  /\ Parallelism \in Nat
  /\ Faults \subseteq FaultKinds
  /\ MaxFaults \in Nat /\ MaxChanges \in Nat /\ MaxUuid \in Nat

VARIABLES cloud,     \* the rules of the security group: [uuid, rule, key]
          config,    \* what the user wants: [present, rules]
          saved,     \* the Terraform state: [id, tainted, rules]
          fresh,     \* a refresh preceded the next plan
          op,        \* the handler's phase
          rules,     \* the schema.Set the goroutines fill
          later,     \* the rules Update creates once the old ones are deleted
          work,      \* [rule handed to a goroutine -> the goroutine's state]
          stage,     \* [rule handed to a goroutine -> its stage]
          failed,    \* errs.ErrorOrNil() # nil
          told,      \* how the last operation ended
          faults,    \* the faults injected so far: [number, kinds]
          changes    \* edits made so far

vars == <<cloud, config, saved, fresh, op, rules, later, work, stage,
          failed, told, faults, changes>>

Pool == INSTANCE WorkerPool

-----------------------------------------------------------------------------
(* Rule blocks and the uuids they carry, by source and port.               *)

Uuid == 1..MaxUuid
NoUuids == [k \in {} |-> 0]
NoSource == "none"

Entry(r) == [rule |-> r, ports |-> PortsOf[r], uuids |-> NoUuids]
KeysOf(r) == SourcesOf[r] \X PortsOf[r]

\* The hash of a schema.Set element ignores the computed `uuids'.
Content(e) == <<e.rule, e.ports>>
Contents(es) == {Content(e) : e \in es}

Minus(es, others) == {e \in es : Content(e) \notin Contents(others)}

EntryUuids(e) == Range(e.uuids)
UuidsIn(es) == UNION {EntryUuids(e) : e \in es}

Ids(rs) == {c.uuid : c \in rs}

Wanted == {Entry(r) : r \in config.rules}

\* Any call may fail, with or without having had its effect.
Fault(kind) ==
  /\ kind \in Faults /\ faults.number < MaxFaults
  /\ faults' = [number |-> faults.number + 1, kinds |-> faults.kinds \cup {kind}]

NoFault == UNCHANGED faults

\* CloudStack refuses a rule that exists already (external).
Conflicts(r, k) == \E c \in cloud : c.rule = r /\ c.key = k

\* A uuid nobody knows: what exists nowhere any more is as good as new.
Remembered == UuidsIn(saved.rules \cup rules \cup {work[j].entry : j \in DOMAIN work})
Unused == Uuid \ (Ids(cloud) \cup Remembered \cup UuidsIn(DOMAIN work))
NewUuid == CHOOSE u \in Unused : TRUE

NewRule(r, k) ==
  /\ Unused # {}
  /\ cloud' = cloud \cup {[uuid |-> NewUuid, rule |-> r, key |-> k]}

RemoveRule(u) == cloud' = {c \in cloud : c.uuid # u}

-----------------------------------------------------------------------------
(* How handlers start and end.                                             *)

Idle == op = "idle"

\* What a goroutine knows: the rule it mutates; of the creation, the sources it
\* has not reached, the one it is at, the ports left to ask for there and those
\* it got.
Launch(phase, batch) ==
  /\ op' = phase
  /\ work' = [e \in batch |->
       [entry |-> e, sources |-> SourcesOf[e.rule], at |-> NoSource, left |-> {}, got |-> {}]]
  /\ stage' = Pool!Spawn(batch)
  /\ failed' = FALSE

Stop ==
  /\ op' = "idle"
  /\ work' = [e \in {} |-> e] /\ stage' = Pool!Spawn({})
  /\ failed' = FALSE /\ rules' = {} /\ later' = {}

Save(state, result) == saved' = state /\ told' = result /\ fresh' = FALSE

\* A Create that fails once the id is set leaves the resource tainted, a Delete
\* that fails leaves it as it was.
Partial(rs) == [id |-> TRUE, tainted |-> ~saved.id \/ saved.tainted, rules |-> rs]
Gone == [id |-> FALSE, tainted |-> FALSE, rules |-> {}]

\* resourceCloudStackSecurityGroupRuleRead looks every rule up and collects what
\* it finds in a set it never hands to d.Set: the state stays as it was.  (A bound on
\* the environment: the group itself, which Read would forget, is never deleted.)
ReadState(es, tainted) == [id |-> TRUE, tainted |-> tainted, rules |-> es]

FinishWithRead(es) ==
  \/ NoFault /\ Save(ReadState(es, FALSE), "ok")
  \/ Fault("apiError") /\ Save(Partial(es), "error")

Refresh ==
  /\ Idle /\ saved.id
  /\ saved' = ReadState(saved.rules, saved.tainted)
  /\ fresh' = TRUE /\ told' = "read"
  /\ UNCHANGED <<cloud, config, op, rules, later, work, stage, failed, faults, changes>>

-----------------------------------------------------------------------------
(* Create, Update and Delete up to their first fan-out.                    *)

Create ==
  /\ Idle /\ config.present /\ ~saved.id
  /\ IF Wanted # {}
     THEN /\ Launch("create", Wanted) /\ rules' = {} /\ NoFault
          /\ UNCHANGED <<saved, told, fresh, later>>
     ELSE FinishWithRead({}) /\ UNCHANGED <<op, rules, later, work, stage, failed>>
  /\ UNCHANGED <<cloud, config, changes>>

Differs == Contents(saved.rules) # Contents(Wanted)

\* First the rules that are no longer wanted are deleted, then the new ones are
\* created; `rules' starts with those that stay.
Update ==
  LET ors == Minus(saved.rules, Wanted)
      nrs == Minus(Wanted, saved.rules)
  IN /\ Idle /\ config.present /\ saved.id /\ ~saved.tainted /\ fresh /\ Differs
     /\ rules' = saved.rules \ ors
     /\ \/ ors # {} /\ Launch("delete", ors) /\ later' = nrs
        \/ ors = {} /\ Launch("update", nrs) /\ later' = {}
     /\ UNCHANGED <<cloud, config, saved, told, fresh, faults, changes>>

\* Also the first half of the replacement of a tainted resource.
Delete ==
  /\ Idle /\ saved.id /\ fresh /\ (saved.tainted \/ ~config.present)
  /\ IF saved.rules # {}
     THEN /\ Launch("destroy", saved.rules) /\ rules' = {}
          /\ UNCHANGED <<saved, told, fresh, later>>
     ELSE Save(Gone, "none") /\ UNCHANGED <<op, rules, later, work, stage, failed>>
  /\ UNCHANGED <<cloud, config, faults, changes>>

-----------------------------------------------------------------------------
(* The goroutines.                                                         *)

HandlerState == <<config, saved, fresh, op, later, told, changes>>
Creating == op \in {"create", "update"}
Deleting == op \in {"delete", "destroy"}

\* Only a rule with at least one uuid is added to `rules' (and not only one that
\* got all it asked for).
ConcludeIfAllGot(j) ==
  IF KeysOf(j.rule) \subseteq DOMAIN work[j].entry.uuids THEN Pool!StartCollecting(j) ELSE Pool!NothingToCollect(j)

Conclude(j) ==
  IF work[j].entry.uuids # NoUuids THEN Pool!StartCollecting(j) ELSE Pool!NothingToCollect(j)

Acquire(j) ==
  /\ Pool!Acquire(j)
  /\ UNCHANGED <<cloud, rules, work, failed, faults, HandlerState>>

\* The same, and the error is dropped.
RejectRuleSilently(j) ==
  /\ Creating /\ j.rule \in Invalid
  /\ Pool!Leak(j)
  /\ UNCHANGED <<cloud, rules, work, failed, faults, HandlerState>>

\* verifySecurityGroupRuleParams failed: the goroutine returns at once, and its
\* slot of `sem' with it.
RejectRule(j) ==
  /\ Creating /\ j.rule \in Invalid
  /\ Pool!Leak(j) /\ failed' = TRUE
  /\ UNCHANGED <<cloud, rules, work, faults, HandlerState>>

\* The goroutine turns to its next source; the ports it will ask for are those
\* `ports' lists by now.
Working(j) == stage[j] = "working" /\ Creating /\ j.rule \notin Invalid

Turned(w, s) ==
  [w EXCEPT !.sources = @ \ {s}, !.at = s, !.left = w.entry.ports, !.got = {}]

NextSource(j) ==
  /\ Working(j) /\ work[j].left = {}
  /\ \E s \in work[j].sources : work' = [work EXCEPT ![j] = Turned(work[j], s)]
  /\ UNCHANGED <<cloud, rules, stage, failed, faults, HandlerState>>

\* The block once the port of key k has a uuid.
WithUuid(e, k, u) ==
  [e EXCEPT !.uuids = [x \in DOMAIN @ \cup {k} |-> IF x = k THEN u ELSE @[x]]]

\* createSecurityGroupRule got the next port: `ports' becomes the ports got so
\* far for this source.
Further(w, p, u) ==
  [w EXCEPT !.left = @ \ {p}, !.got = @ \cup {p},
            !.entry = [WithUuid(w.entry, <<w.at, p>>, u) EXCEPT !.ports = w.got \cup {p}]]

CreatePort(j) ==
  /\ Working(j)
  /\ \E p \in work[j].left :
       LET k == <<work[j].at, p>>
       IN /\ ~Conflicts(j.rule, k) /\ NewRule(j.rule, k) /\ NoFault
          /\ work' = [work EXCEPT ![j] = Further(work[j], p, NewUuid)]
  /\ UNCHANGED <<rules, stage, failed, HandlerState>>

\* A failed call ends the work on this source and not on the others.
CreatePortFails(j) ==
  /\ Working(j)
  /\ \E p \in work[j].left :
       \/ Conflicts(j.rule, <<work[j].at, p>>) /\ UNCHANGED cloud /\ NoFault
       \/ Fault("apiError") /\ UNCHANGED cloud
       \/ Fault("lostReply") /\ ~Conflicts(j.rule, <<work[j].at, p>>) /\ NewRule(j.rule, <<work[j].at, p>>)
  /\ work' = [work EXCEPT ![j].left = {}] /\ failed' = TRUE
  /\ UNCHANGED <<rules, stage, HandlerState>>

CreateEnds(j) ==
  /\ Working(j) /\ work[j].left = {} /\ work[j].sources = {}
  /\ Conclude(j)
  /\ UNCHANGED <<cloud, rules, work, failed, faults, HandlerState>>

\* deleteSecurityGroupRule: a uuid that does not exist any more counts as revoked.
DeletePort(j) ==
  /\ stage[j] = "working" /\ Deleting
  /\ \E k \in DOMAIN work[j].entry.uuids :
       LET uuids == work[j].entry.uuids
       IN /\ RemoveRule(uuids[k]) /\ NoFault
          /\ work' = [work EXCEPT ![j].entry.uuids = Restrict(uuids, DOMAIN uuids \ {k})]
  /\ UNCHANGED <<rules, stage, failed, HandlerState>>

DeletePortFails(j) ==
  /\ Deleting
  /\ \E k \in DOMAIN work[j].entry.uuids :
       \/ Fault("apiError") /\ UNCHANGED cloud
       \/ Fault("lostReply") /\ RemoveRule(work[j].entry.uuids[k])
  /\ Conclude(j) /\ failed' = TRUE
  /\ UNCHANGED <<rules, work, HandlerState>>

DeleteEnds(j) ==
  /\ Deleting /\ work[j].entry.uuids = NoUuids
  /\ Conclude(j)
  /\ UNCHANGED <<cloud, rules, work, failed, faults, HandlerState>>

\* rules.Add on the shared schema.Set, which nothing guards: of two overlapping
\* Adds both elements may be there afterwards, or one of them may be lost, or the
\* runtime stops the provider with `concurrent map writes'.
Add(j) ==
  /\ Pool!Collected(j)
  /\ \/ rules' = rules \cup {work[j].entry} /\ NoFault
     \/ Pool!Overlapped(j) /\ Fault("race") /\ UNCHANGED rules
  /\ UNCHANGED <<cloud, work, failed, HandlerState>>

\* The provider dies: nothing of the operation reaches the saved state.
Die ==
  /\ Stop /\ fresh' = FALSE /\ told' = "error"
  /\ UNCHANGED <<cloud, config, saved, changes>>

ConcurrentMapWrites(j) == stage[j] = "collecting" /\ Pool!Overlapped(j) /\ Die /\ Fault("race")

Crash == ~Idle /\ Fault("crash") /\ Die

-----------------------------------------------------------------------------
(* wg.Wait returned: d.Set("rule", rules), and on.                         *)

Waited(phases) == op \in phases /\ Pool!Returned

ReturnError ==
  /\ Waited({"create", "delete", "update", "destroy"}) /\ failed
  /\ Save(Partial(rules), "error") /\ Stop
  /\ UNCHANGED <<cloud, config, faults, changes>>

CreateTheRest ==
  /\ Waited({"delete"}) /\ ~failed /\ later # {}
  /\ Launch("update", later) /\ later' = {}
  /\ UNCHANGED <<cloud, config, saved, fresh, rules, told, faults, changes>>

ReturnRead ==
  /\ Waited({"create", "delete", "update"}) /\ ~failed /\ later = {}
  /\ FinishWithRead(rules) /\ Stop
  /\ UNCHANGED <<cloud, config, changes>>

ReturnDeleted ==
  /\ Waited({"destroy"}) /\ ~failed
  /\ Save(Gone, "none") /\ Stop
  /\ UNCHANGED <<cloud, config, faults, changes>>

-----------------------------------------------------------------------------
(* The user, and whoever else uses the cloud account.                      *)

Edit ==
  /\ Idle /\ changes < MaxChanges /\ changes' = changes + 1
  /\ \/ \E rs \in Configs : config' = [present |-> TRUE, rules |-> rs]
     \/ config' = [present |-> FALSE, rules |-> {}]
  /\ told' = "none" /\ fresh' = FALSE
  /\ UNCHANGED <<cloud, saved, op, rules, later, work, stage, failed, faults>>

DeleteOutOfBand ==
  /\ Fault("outOfBand") /\ told' = "none"
  /\ \E c \in cloud : RemoveRule(c.uuid)
  /\ UNCHANGED <<config, saved, fresh, op, rules, later, work, stage, failed, changes>>

-----------------------------------------------------------------------------
Init ==
  /\ cloud = {}
  /\ config = [present |-> FALSE, rules |-> {}]
  /\ saved = Gone /\ fresh = FALSE
  /\ op = "idle" /\ rules = {} /\ later = {}
  /\ work = [e \in {} |-> e] /\ stage = Pool!Spawn({}) /\ failed = FALSE
  /\ told = "none" /\ changes = 0
  /\ faults = [number |-> 0, kinds |-> {}]

Goroutine(j) ==
  \/ Acquire(j) \/ RejectRule(j)
  \/ NextSource(j) \/ CreatePort(j) \/ CreatePortFails(j) \/ CreateEnds(j)
  \/ DeletePort(j) \/ DeletePortFails(j) \/ DeleteEnds(j)
  \/ Add(j) \/ ConcurrentMapWrites(j)

Return == ReturnError \/ CreateTheRest \/ ReturnRead \/ ReturnDeleted

Terraform == Refresh \/ Create \/ Update \/ Delete

Provider == Return \/ \E j \in DOMAIN stage : Goroutine(j)

Environment == Edit \/ DeleteOutOfBand \/ Crash

Next == Terraform \/ Provider \/ Environment

\* The user runs terraform apply as long as there is something to apply, and a
\* goroutine that can run does.  Nothing is assumed of the environment.
Fairness == WF_vars(Terraform) /\ WF_vars(Provider)

Spec == Init /\ [][Next]_vars /\ Fairness

-----------------------------------------------------------------------------
(* Properties                                                              *)

Keys == UNION {KeysOf(r) : r \in Rules}
Ports == UNION {PortsOf[r] : r \in Rules}
Sources == UNION {SourcesOf[r] : r \in Rules}

EntryOK(e) ==
  /\ DOMAIN e = {"rule", "ports", "uuids"}
  /\ e.rule \in Rules /\ e.ports \subseteq Ports
  /\ DOMAIN e.uuids \subseteq Keys /\ EntryUuids(e) \subseteq Uuid

WorkOK(w) ==
  /\ DOMAIN w = {"entry", "sources", "at", "left", "got"}
  /\ EntryOK(w.entry)
  /\ w.sources \subseteq Sources /\ w.at \in Sources \cup {NoSource}
  /\ w.left \subseteq Ports /\ w.got \subseteq Ports

TypeOK ==
  /\ \A c \in cloud : c.uuid \in Uuid /\ c.rule \in Rules /\ c.key \in Keys
  /\ config \in [present : BOOLEAN, rules : SUBSET Rules]
  /\ DOMAIN saved = {"id", "tainted", "rules"}
  /\ saved.id \in BOOLEAN /\ saved.tainted \in BOOLEAN
  /\ \A e \in saved.rules \cup rules \cup later : EntryOK(e)
  /\ fresh \in BOOLEAN /\ failed \in BOOLEAN
  /\ op \in {"idle", "create", "delete", "update", "destroy"}
  /\ DOMAIN work = DOMAIN stage
  /\ \A j \in DOMAIN stage : EntryOK(j) /\ WorkOK(work[j]) /\ stage[j] \in Pool!Stages
  /\ told \in {"none", "ok", "error", "read"}
  /\ faults \in [number : 0..MaxFaults, kinds : SUBSET FaultKinds] /\ changes \in 0..MaxChanges

\* No rule the resource authorised is ever forgotten: some goroutine, the shared
\* set or the state has its uuid, and between operations the state has it; unless
\* an answer was lost, the provider died, or two goroutines met in the shared set.
NothingForgotten == Ids(cloud) \subseteq Remembered
Blinded == faults.kinds \cap Blinding # {}

Tracked == ~Blinded => NothingForgotten

\* An operation that reports success leaves every configured port open to every
\* configured source, unless someone revoked a rule meanwhile, a failed call for one
\* source went unnoticed behind the next, or the state lists a rule whose revocation
\* went unnoticed, as no Read ever corrects it.
Grants(rs) == UNION {{r} \X KeysOf(r) : r \in rs}
Granted(cs) == {<<c.rule, c.key>> : c \in cs}

\* A block of the state that looks as configured and lacks a uuid: every port is
\* there, for its last source.
Masked(e) == Content(e) \in Contents(Wanted) /\ DOMAIN e.uuids # KeysOf(e.rule)

Believed(e) == ~(EntryUuids(e) \subseteq Ids(cloud))

OkMeansApplied ==
  /\ Idle /\ told = "ok" /\ "outOfBand" \notin faults.kinds
  /\ \A e \in saved.rules : ~Masked(e) /\ ~Believed(e)
  => Grants(config.rules) \subseteq Granted(cloud)

\* Every Create, Update and Delete comes to an end, or hangs for one reason: invalid rules
\* hold every slot of the semaphore, and another goroutine waits for one, so that wg.Wait
\* never returns.  (With the default parallelism it takes two.)
Hung ==
  /\ Cardinality({j \in DOMAIN stage : stage[j] = "leaked" /\ j.rule \in Invalid}) >= Parallelism
  /\ \E j \in DOMAIN stage : stage[j] = "spawned"

HandlerReturns == ~Idle ~> Idle \/ Hung

\* The resource stops changing, with exactly the configured rules authorised and
\* remembered.  What was forgotten is refused for ever, and what someone revoked or
\* a failed call for one source left out is never noticed.
Applied ==
  /\ Idle /\ saved.id = config.present
  /\ Granted(cloud) = Grants(config.rules)
  /\ Ids(cloud) \subseteq UuidsIn(saved.rules)

Hopeless ==
  \/ Blinded \/ "outOfBand" \in faults.kinds
  \/ config.rules \cap Invalid # {}
  \/ \E e \in saved.rules : Masked(e)

Settles == <>[](Applied \/ Hopeless)
=============================================================================
