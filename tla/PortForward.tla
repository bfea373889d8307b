----------------------------- MODULE PortForward -----------------------------
(***************************************************************************)
(* The cloudstack_port_forward resource: the port forwarding rules of one  *)
(* public IP address, each with a uuid of its own.  The fan-out is that of *)
(* the firewall rules with a semaphore of ten, but Create returns its      *)
(* error before it calls d.Set: what the SDK saves then is the planned     *)
(* set, with the uuids the goroutines wrote into its elements.             *)
(***************************************************************************)
EXTENDS Naturals, FiniteSets, Functions

CONSTANTS Forwards,     \* what a forward block may say
          Invalid,      \* the forwards verifyPortForwardParams rejects
          Configs,      \* what the user may write: [managed, forwards]
          Foreign,      \* the content of a forward another party created
          Faults,       \* which faults the environment may inject
          MaxFaults,    \* bound: how many of them
          MaxChanges,   \* bound: how often the user edits the configuration
          MaxUuid       \* bound: how many uuids may be known or in use at a time

FaultKinds == {"apiError", "lostReply", "outOfBand", "foreignForward", "ipReleased", "crash", "race"}

\* The faults after which nobody may know the uuid of a forward that exists.
Blinding == {"lostReply", "crash", "race"}

\* `forward' is a required block: there is at least one.
ASSUME PortForwardAssumption ==
  /\ IsFiniteSet(Forwards)
  /\ Invalid \subseteq Forwards
  /\ Configs \subseteq [managed : BOOLEAN, forwards : (SUBSET Forwards) \ {{}}]
  /\ Foreign \notin Forwards /\ Forwards \cap (1..MaxUuid) = {}
  /\ Faults \subseteq FaultKinds
  /\ MaxFaults \in Nat /\ MaxChanges \in Nat /\ MaxUuid \in Nat

VARIABLES cloud,     \* the forwards of the IP address: [uuid, fwd]
          ip,        \* the IP address is associated
          config,    \* what the user wants: [present, managed, forwards]
          saved,     \* the Terraform state: [id, tainted, managed, forwards]
          fresh,     \* a refresh preceded the next plan
          op,        \* the handler's phase
          forwards,  \* the schema.Set the goroutines fill
          later,     \* the forwards Update creates once the old ones are deleted
          work,      \* [forward handed to a goroutine -> it, as mutated since]
          stage,     \* [forward handed to a goroutine -> its stage]
          failed,    \* errs.ErrorOrNil() # nil
          told,      \* how the last operation ended
          faults,    \* the faults injected so far: [number, kinds]
          changes    \* edits made so far

vars == <<cloud, ip, config, saved, fresh, op, forwards, later, work, stage,
          failed, told, faults, changes>>

Pool == INSTANCE WorkerPool WITH Parallelism <- 10

-----------------------------------------------------------------------------
Uuid == 1..MaxUuid
NoUuid == 0

Entry(f) == [fwd |-> f, uuid |-> NoUuid]
Known(c) == [fwd |-> c.fwd, uuid |-> c.uuid]
Dummy(u) == [fwd |-> u, uuid |-> u]

\* The hash of a schema.Set element ignores the computed `uuid'.
Contents(es) == {e.fwd : e \in es}

\* A variant: a hash that does not ignore the uuid.
MinusWithUuid(es, others) == es \ others

Minus(es, others) == {e \in es : e.fwd \notin Contents(others)}
UuidsIn(es) == {e.uuid : e \in es} \ {NoUuid}

Ids(cs) == {c.uuid : c \in cs}
Own == {c \in cloud : c.fwd # Foreign}
Wanted == {Entry(f) : f \in config.forwards}

Fault(kind) ==
  /\ kind \in Faults /\ faults.number < MaxFaults
  /\ faults' = [number |-> faults.number + 1, kinds |-> faults.kinds \cup {kind}]

NoFault == UNCHANGED faults

\* CloudStack refuses a public port that is taken, and an address that is not
\* associated (external).
Refused(f) == ~ip \/ \E c \in cloud : c.fwd = f

\* A uuid nobody knows: what exists nowhere any more is as good as new.
Remembered == UuidsIn(saved.forwards \cup forwards \cup Range(work) \cup DOMAIN work)
Unused == Uuid \ (Ids(cloud) \cup Remembered)
NewUuid == CHOOSE u \in Unused : TRUE

NewForward(f) ==
  /\ Unused # {}
  /\ cloud' = cloud \cup {[uuid |-> NewUuid, fwd |-> f]}

RemoveForward(u) == cloud' = {c \in cloud : c.uuid # u}

-----------------------------------------------------------------------------
(* How handlers start and end.                                             *)

Idle == op = "idle"

Launch(phase, batch) ==
  /\ op' = phase
  /\ work' = [e \in batch |-> e] /\ stage' = Pool!Spawn(batch)
  /\ failed' = FALSE

Stop ==
  /\ op' = "idle"
  /\ work' = [e \in {} |-> e] /\ stage' = Pool!Spawn({})
  /\ failed' = FALSE /\ forwards' = {} /\ later' = {}

Save(state, result) == saved' = state /\ told' = result /\ fresh' = FALSE

State(tainted, managed, es) == [id |-> TRUE, tainted |-> tainted, managed |-> managed, forwards |-> es]

Gone == [id |-> FALSE, tainted |-> FALSE, managed |-> FALSE, forwards |-> {}]

\* A failed operation: a Create leaves the resource tainted.
Partial(es) ==
  State(~saved.id \/ saved.tainted,
        IF op = "destroy" THEN saved.managed ELSE config.managed, es)

\* A variant: a Read that believes the state.
StillThereByState(es) == es

\* resourceCloudStackPortForwardRead: of the blocks es those that exist, with what
\* CloudStack says of them, and when managed every other forward of the address as
\* a dummy.
StillThere(es) == {Known(c) : c \in {x \in cloud : x.uuid \in UuidsIn(es)}}

\* A variant: without the dummies.
ReadConfigured(es, managed) == StillThere(es)

ReadForwards(es, managed) ==
  StillThere(es) \cup (IF managed THEN {Dummy(u) : u \in Ids(cloud) \ UuidsIn(es)} ELSE {})

ReadState(es, tainted, managed) ==
  LET found == ReadForwards(es, managed)
  IN IF ip /\ (managed \/ found # {})
     THEN State(tainted, managed, found)
     ELSE Gone

FinishWithRead(es) ==
  \/ NoFault /\ Save(ReadState(es, FALSE, config.managed), "ok")
  \/ Fault("apiError") /\ Save(Partial(es), "error")

\* A refresh goes by the `managed' of the state.
Refresh ==
  /\ Idle /\ saved.id
  /\ saved' = ReadState(saved.forwards, saved.tainted, saved.managed)
  /\ fresh' = TRUE /\ told' = "read"
  /\ UNCHANGED <<cloud, ip, config, op, forwards, later, work, stage, failed, faults, changes>>

-----------------------------------------------------------------------------
(* Create, Import, Update and Delete up to their first fan-out.            *)

Create ==
  /\ Idle /\ config.present /\ ~saved.id
  /\ Launch("create", Wanted) /\ forwards' = {}
  /\ UNCHANGED <<cloud, ip, config, saved, fresh, later, told, faults, changes>>

\* terraform import: every forward of the address, and `managed' set.
Import ==
  /\ Idle /\ config.present /\ ~saved.id /\ ip
  /\ Save(State(FALSE, TRUE, {Known(c) : c \in cloud}), "read")
  /\ UNCHANGED <<cloud, ip, config, op, forwards, later, work, stage, failed, faults, changes>>

Differs == Contents(saved.forwards) # Contents(Wanted)

\* First the forwards that are no longer wanted are deleted, then the new ones
\* are created; `forwards' starts with those that stay.  An update of `managed'
\* alone is a Read.
Update ==
  LET ors == Minus(saved.forwards, Wanted)
      nrs == Minus(Wanted, saved.forwards)
  IN /\ Idle /\ config.present /\ saved.id /\ ~saved.tainted /\ fresh
     /\ \/ /\ Differs /\ forwards' = saved.forwards \ ors
           /\ \/ ors # {} /\ Launch("delete", ors) /\ later' = nrs
              \/ ors = {} /\ Launch("update", nrs) /\ later' = {}
           /\ UNCHANGED <<saved, told, fresh, faults>>
        \/ /\ ~Differs /\ saved.managed # config.managed /\ FinishWithRead(saved.forwards)
           /\ UNCHANGED <<op, forwards, later, work, stage, failed>>
     /\ UNCHANGED <<cloud, ip, config, changes>>

\* Also the first half of the replacement of a tainted resource.
Delete ==
  /\ Idle /\ saved.id /\ fresh /\ (saved.tainted \/ ~config.present)
  /\ IF saved.forwards # {}
     THEN /\ Launch("destroy", saved.forwards) /\ forwards' = {}
          /\ UNCHANGED <<saved, told, fresh, later>>
     ELSE Save(Gone, "none") /\ UNCHANGED <<op, forwards, later, work, stage, failed>>
  /\ UNCHANGED <<cloud, ip, config, faults, changes>>

-----------------------------------------------------------------------------
(* The goroutines.                                                         *)

HandlerState == <<ip, config, saved, fresh, op, later, told, changes>>
Creating == op \in {"create", "update"}
Deleting == op \in {"delete", "destroy"}

\* A variant: an error keeps what was created out of `forwards'.
ConcludeUnlessFailed(j, e) ==
  IF e.uuid # NoUuid /\ ~failed THEN Pool!StartCollecting(j) ELSE Pool!NothingToCollect(j)

\* Only a forward with a uuid is added to `forwards'.
Conclude(j, e) ==
  IF e.uuid # NoUuid THEN Pool!StartCollecting(j) ELSE Pool!NothingToCollect(j)

Acquire(j) ==
  /\ Pool!Acquire(j)
  /\ UNCHANGED <<cloud, forwards, work, failed, faults, HandlerState>>

\* A variant: a verification whose error is dropped.
RejectForwardSilently(j) ==
  /\ Creating /\ j.fwd \in Invalid
  /\ Conclude(j, work[j])
  /\ UNCHANGED <<cloud, forwards, work, failed, faults, HandlerState>>

RejectForward(j) ==
  /\ Creating /\ j.fwd \in Invalid
  /\ Conclude(j, work[j]) /\ failed' = TRUE
  /\ UNCHANGED <<cloud, forwards, work, faults, HandlerState>>

CreateForward(j) ==
  LET e2 == [work[j] EXCEPT !.uuid = NewUuid]
  IN /\ Creating /\ j.fwd \notin Invalid
     /\ ~Refused(j.fwd) /\ NewForward(j.fwd) /\ NoFault
     /\ work' = [work EXCEPT ![j] = e2] /\ Conclude(j, e2)
     /\ UNCHANGED <<forwards, failed, HandlerState>>

\* The VM was not found, or the call failed; when only the answer is lost the
\* forward exists all the same.
CreateForwardFails(j) ==
  /\ Creating /\ j.fwd \notin Invalid
  /\ \/ Refused(j.fwd) /\ UNCHANGED cloud /\ NoFault
     \/ Fault("apiError") /\ UNCHANGED cloud
     \/ Fault("lostReply") /\ ~Refused(j.fwd) /\ NewForward(j.fwd)
  /\ Conclude(j, work[j]) /\ failed' = TRUE
  /\ UNCHANGED <<forwards, work, HandlerState>>

\* A uuid that does not exist any more counts as deleted.
DeleteForward(j) ==
  LET e2 == [work[j] EXCEPT !.uuid = NoUuid]
  IN /\ Deleting
     /\ RemoveForward(work[j].uuid) /\ NoFault
     /\ work' = [work EXCEPT ![j] = e2] /\ Conclude(j, e2)
     /\ UNCHANGED <<forwards, failed, HandlerState>>

DeleteForwardFails(j) ==
  /\ Deleting
  /\ \/ Fault("apiError") /\ UNCHANGED cloud
     \/ Fault("lostReply") /\ RemoveForward(work[j].uuid)
  /\ Conclude(j, work[j]) /\ failed' = TRUE
  /\ UNCHANGED <<forwards, work, HandlerState>>

\* forwards.Add on the shared schema.Set, which nothing guards.
Add(j) ==
  /\ Pool!Collected(j)
  /\ \/ forwards' = forwards \cup {work[j]} /\ NoFault
     \/ Pool!Overlapped(j) /\ Fault("race") /\ UNCHANGED forwards
  /\ UNCHANGED <<cloud, work, failed, HandlerState>>

\* The provider dies: nothing of the operation reaches the saved state.
Die ==
  /\ Stop /\ fresh' = FALSE /\ told' = "error"
  /\ UNCHANGED <<cloud, ip, config, saved, changes>>

ConcurrentMapWrites(j) == stage[j] = "collecting" /\ Pool!Overlapped(j) /\ Die /\ Fault("race")

Crash == ~Idle /\ Fault("crash") /\ Die

-----------------------------------------------------------------------------
(* wg.Wait returned.                                                       *)

Waited(phases) == op \in phases /\ Pool!Returned

\* Create returns before d.Set("forward", forwards); the others call it first.
ReturnError ==
  /\ Waited({"create", "delete", "update", "destroy"}) /\ failed
  /\ Save(Partial(IF op = "create" THEN Range(work) ELSE forwards), "error") /\ Stop
  /\ UNCHANGED <<cloud, ip, config, faults, changes>>

CreateTheRest ==
  /\ Waited({"delete"}) /\ ~failed /\ later # {}
  /\ Launch("update", later) /\ later' = {}
  /\ UNCHANGED <<cloud, ip, config, saved, fresh, forwards, told, faults, changes>>

ReturnRead ==
  /\ Waited({"create", "delete", "update"}) /\ ~failed /\ later = {}
  /\ FinishWithRead(forwards) /\ Stop
  /\ UNCHANGED <<cloud, ip, config, changes>>

ReturnDeleted ==
  /\ Waited({"destroy"}) /\ ~failed
  /\ Save(Gone, "none") /\ Stop
  /\ UNCHANGED <<cloud, ip, config, faults, changes>>

-----------------------------------------------------------------------------
(* The user, and whoever else uses the cloud account.                      *)

Absent == [present |-> FALSE, managed |-> FALSE, forwards |-> {}]

Edit ==
  /\ Idle /\ changes < MaxChanges /\ changes' = changes + 1
  /\ \/ \E c \in Configs : config' = [present |-> TRUE, managed |-> c.managed, forwards |-> c.forwards]
     \/ config' = Absent
  /\ told' = "none" /\ fresh' = FALSE
  /\ UNCHANGED <<cloud, ip, saved, op, forwards, later, work, stage, failed, faults>>

ProviderState == <<config, saved, fresh, op, forwards, later, work, stage, failed, changes>>

DeleteOutOfBand ==
  /\ Fault("outOfBand") /\ told' = "none"
  /\ \E c \in cloud : RemoveForward(c.uuid)
  /\ UNCHANGED <<ip, ProviderState>>

CreateForeign ==
  /\ Fault("foreignForward") /\ ip /\ told' = "none"
  /\ NewForward(Foreign)
  /\ UNCHANGED <<ip, ProviderState>>

\* The address is released, and its forwards with it.
ReleaseIp ==
  /\ Fault("ipReleased") /\ ip /\ told' = "none"
  /\ ip' = FALSE /\ cloud' = {}
  /\ UNCHANGED ProviderState

-----------------------------------------------------------------------------
Init ==
  /\ cloud = {} /\ ip = TRUE
  /\ config = Absent
  /\ saved = Gone /\ fresh = FALSE
  /\ op = "idle" /\ forwards = {} /\ later = {}
  /\ work = [e \in {} |-> e] /\ stage = Pool!Spawn({}) /\ failed = FALSE
  /\ told = "none" /\ changes = 0
  /\ faults = [number |-> 0, kinds |-> {}]

Goroutine(j) ==
  \/ Acquire(j) \/ RejectForward(j)
  \/ CreateForward(j) \/ CreateForwardFails(j) \/ DeleteForward(j) \/ DeleteForwardFails(j)
  \/ Add(j) \/ ConcurrentMapWrites(j)

Return == ReturnError \/ CreateTheRest \/ ReturnRead \/ ReturnDeleted

Terraform == Refresh \/ Create \/ Update \/ Delete

Provider == Return \/ \E j \in DOMAIN stage : Goroutine(j)

Environment == Edit \/ Import \/ DeleteOutOfBand \/ CreateForeign \/ ReleaseIp \/ Crash

Next == Terraform \/ Provider \/ Environment

\* The user runs terraform apply as long as there is something to apply, and a
\* goroutine that can run does.  Nothing is assumed of the environment.
Fairness == WF_vars(Terraform) /\ WF_vars(Provider)

Spec == Init /\ [][Next]_vars /\ Fairness

-----------------------------------------------------------------------------
(* Properties                                                              *)

Entries == [fwd : Forwards \cup Uuid \cup {Foreign}, uuid : Uuid \cup {NoUuid}]

TypeOK ==
  /\ cloud \subseteq [uuid : Uuid, fwd : Forwards \cup {Foreign}]
  /\ ip \in BOOLEAN
  /\ config \in [present : BOOLEAN, managed : BOOLEAN, forwards : SUBSET Forwards]
  /\ saved \in [id : BOOLEAN, tainted : BOOLEAN, managed : BOOLEAN, forwards : SUBSET Entries]
  /\ {fresh, failed} \subseteq BOOLEAN
  /\ op \in {"idle", "create", "delete", "update", "destroy"}
  /\ forwards \subseteq Entries /\ UuidsIn(forwards) = {e.uuid : e \in forwards}
  /\ later \subseteq Entries
  /\ DOMAIN stage \subseteq Entries
  /\ stage \in [DOMAIN stage -> Pool!Stages] /\ work \in [DOMAIN stage -> Entries]
  /\ told \in {"none", "ok", "error", "read"}
  /\ faults \in [number : 0..MaxFaults, kinds : SUBSET FaultKinds] /\ changes \in 0..MaxChanges

\* No forward the resource created is ever forgotten, not even by a Create that
\* fails before it hands anything to d.Set: "preserve the correct state".
NothingForgotten == Ids(Own) \subseteq Remembered

\* ...unless an answer was lost, the provider died, or two goroutines met in the
\* shared set.
Blinded == faults.kinds \cap Blinding # {}

Tracked == ~Blinded => NothingForgotten

\* An operation that reports success leaves every configured forward in place,
\* unless someone deleted it, or released the address, meanwhile.
OkMeansApplied ==
  Idle /\ told = "ok" /\ faults.kinds \cap {"outOfBand", "ipReleased"} = {} =>
    config.forwards \subseteq {c.fwd : c \in cloud}

\* After a refresh or a successful operation the state lists what exists, and no
\* forward without a uuid that a failed Create left in it.
StateIsReal ==
  Idle /\ told \in {"ok", "read"} => {e.uuid : e \in saved.forwards} \subseteq Ids(cloud)

\* The resource stops changing, with the configured forwards in place and
\* remembered; a managed one owns the address.  An unmanaged one is refused the
\* forwards that exist and nobody knows, for ever.
Applied ==
  /\ Idle /\ saved.id = config.present
  /\ config.managed => {c.fwd : c \in cloud} = config.forwards
  /\ ~Blinded => {c.fwd : c \in Own} = config.forwards /\ Ids(Own) \subseteq UuidsIn(saved.forwards)

Hopeless ==
  \/ Blinded /\ ~config.managed
  \/ config.forwards \cap Invalid # {}
  \/ config.present /\ ~ip

Settles == <>[](Applied \/ Hopeless)

-----------------------------------------------------------------------------
\* Seen from outside, and as long as nothing is forgotten, the resource is a
\* reconciler: whatever the goroutines do, and others do to their forwards, a forward
\* is created because it is configured and not there, is removed because it is not
\* configured, or with its tainted resource, and its uuid is always known.
Objects == IF Blinded THEN {} ELSE {[uuid |-> c.uuid, content |-> c.fwd] : c \in Own}

InHands == UuidsIn(forwards \cup {work[j] : j \in {g \in DOMAIN stage : stage[g] \notin {"done", "leaked"}}})

KnownUuids == IF Blinded THEN {} ELSE IF Idle THEN UuidsIn(saved.forwards) ELSE InHands

Abstract ==
  INSTANCE Reconciler
  WITH want <- config.forwards, objects <- Objects, known <- KnownUuids,
       replacing <- saved.tainted, mishaps <- faults.number

Reconciles == Abstract!Spec
=============================================================================
