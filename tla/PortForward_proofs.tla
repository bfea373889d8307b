-------------------------- MODULE PortForward_proofs --------------------------
(***************************************************************************)
(* For any set of forwards, any configurations and any bounds: no forward  *)
(* is forgotten, the resource implements the reconciler, and an operation  *)
(* that reports success has applied the configuration.                     *)
(***************************************************************************)
EXTENDS PortForward, TLAPS

-----------------------------------------------------------------------------
(* The inductive invariant.                                                *)

\* Between operations no handler has anything in its hands.
Quiet == Idle => DOMAIN stage = {} /\ forwards = {} /\ later = {}

\* What is still to be created is configured, and has no uuid that the answer of
\* createPortForward could overwrite.
Fresh ==
  /\ \A e \in later : e.uuid = NoUuid /\ e.fwd \in Forwards
  /\ Creating => \A j \in DOMAIN stage :
       j.fwd \in Forwards /\ (stage[j] \in {"spawned", "working"} => work[j].uuid = NoUuid)

\* Only a forward with a uuid is on its way into the set.
Collecting == \A j \in DOMAIN stage : stage[j] = "collecting" => work[j].uuid # NoUuid

\* Only a tainted resource lists forwards without a uuid; Create runs only without
\* a resource.
Taint ==
  /\ ~saved.tainted => \A e \in saved.forwards : e.uuid # NoUuid
  /\ ~saved.id => saved.forwards = {}
  /\ op = "create" => ~saved.id

\* A released address has no forwards.
Released == ~ip => cloud = {}

\* What Create put into the set is still in the hands of the goroutine that did.
Created ==
  op = "create" => \A e \in forwards : \E j \in DOMAIN stage : stage[j] = "done" /\ work[j] = e

\* A destroy without an error has put nothing back.
Destroyed ==
  op = "destroy" /\ ~failed => forwards = {} /\ \A j \in DOMAIN stage : stage[j] # "collecting"

\* The goroutines that have not finished.
Live == {j \in DOMAIN stage : stage[j] \in {"spawned", "working", "collecting"}}

\* The uuid of a forward is in the set, or a goroutine has yet to put it there;
\* between operations the state has it.
Held == ~Blinded /\ ~Idle => Ids(Own) \subseteq UuidsIn(forwards) \cup UuidsIn({work[j] : j \in Live})
Kept == ~Blinded /\ Idle => Ids(Own) \subseteq UuidsIn(saved.forwards)

IInv ==
  /\ TypeOK /\ Quiet /\ Fresh /\ Collecting /\ Taint /\ Released /\ Created /\ Destroyed
  /\ Held /\ Kept /\ StateIsReal

-----------------------------------------------------------------------------
LEMMA UuidFacts ==
  ASSUME NEW es PROVE
  /\ UuidsIn(es) = {e.uuid : e \in es} \ {0}
  /\ NoUuid = 0 /\ NoUuid \notin Uuid
BY PortForwardAssumption DEF UuidsIn, NoUuid, Uuid, PortForwardAssumption

\* A fault is one more, and is remembered.
LEMMA FaultFacts ==
  ASSUME TypeOK, NEW kind, Fault(kind)
  PROVE  /\ faults' \in [number : 0..MaxFaults, kinds : SUBSET FaultKinds]
         /\ faults'.kinds = faults.kinds \cup {kind}
BY PortForwardAssumption DEF TypeOK, Fault, PortForwardAssumption

LEMMA InitIInv == Init => IInv
<1> SUFFICES ASSUME Init PROVE IInv
  OBVIOUS
<1> USE DEF Init, Pool!Spawn, Idle
<1>1. TypeOK
  <2>1. cloud \subseteq [uuid : Uuid, fwd : Forwards \cup {Foreign}] /\ forwards \subseteq Entries
        /\ later \subseteq Entries /\ UuidsIn(forwards) = {e.uuid : e \in forwards}
    BY DEF UuidsIn
  <2>2. stage \in [DOMAIN stage -> Pool!Stages] /\ work \in [DOMAIN stage -> Entries]
        /\ DOMAIN stage \subseteq Entries
    OBVIOUS
  <2>3. config \in [present : BOOLEAN, managed : BOOLEAN, forwards : SUBSET Forwards]
        /\ saved \in [id : BOOLEAN, tainted : BOOLEAN, managed : BOOLEAN, forwards : SUBSET Entries]
    BY DEF Absent, Gone
  <2>4. faults \in [number : 0..MaxFaults, kinds : SUBSET FaultKinds] /\ changes \in 0..MaxChanges
    BY PortForwardAssumption DEF PortForwardAssumption
  <2> QED
    BY <2>1, <2>2, <2>3, <2>4 DEF TypeOK
<1>2. Quiet /\ Fresh /\ Collecting /\ Created /\ Destroyed
  BY DEF Quiet, Fresh, Creating, Collecting, Created, Destroyed
<1>3. Taint /\ Released /\ Kept /\ Held /\ StateIsReal
  BY DEF Taint, Released, Kept, Held, StateIsReal, Gone, Ids, Own, UuidsIn
<1> QED
  BY <1>1, <1>2, <1>3 DEF IInv

-----------------------------------------------------------------------------
(* One lemma per action.                                                   *)

LEMMA AcquireStep == ASSUME IInv, NEW j \in DOMAIN stage, Acquire(j) PROVE IInv'
<1> USE DEF IInv, Acquire, HandlerState, Pool!Acquire, Pool!Goto
<1>1. TypeOK'
  BY DEF TypeOK, Pool!Stages
<1>2. Quiet' /\ Fresh' /\ Collecting' /\ Taint' /\ Released'
  BY DEF Quiet, Fresh, Collecting, Taint, Released, Idle, Creating, TypeOK
<1>3. Created' /\ Destroyed'
  BY DEF Created, Destroyed, TypeOK
<1>4. Held'
  <2>1. Live' = Live
    BY DEF Live, TypeOK
  <2> QED
    BY <2>1 DEF Held, Blinded, Idle, Ids, Own
<1>5. Kept' /\ StateIsReal'
  BY DEF Kept, StateIsReal, Blinded, Idle, Ids, Own
<1> QED
  BY <1>1, <1>2, <1>3, <1>4, <1>5

\* An action that touches only the caller's side.
LEMMA RejectStep == ASSUME IInv, NEW j \in DOMAIN stage, RejectForward(j) PROVE IInv'
<1> USE DEF IInv, RejectForward, HandlerState, Conclude, Pool!StartCollecting, Pool!NothingToCollect, Pool!Goto
<1>1. TypeOK'
  BY DEF TypeOK, Pool!Stages
<1>2. Quiet' /\ Fresh' /\ Collecting' /\ Taint' /\ Released'
  BY DEF Quiet, Fresh, Collecting, Taint, Released, Idle, Creating, TypeOK
<1>3. Created' /\ Destroyed'
  BY DEF Created, Destroyed, Creating, TypeOK
<1>4. Held'
  <2>1. UuidsIn({work[i] : i \in Live}) \subseteq UuidsIn({work'[i] : i \in Live'})
    BY DEF Live, TypeOK, UuidsIn
  <2> QED
    BY <2>1 DEF Held, Blinded, Idle, Ids, Own
<1>5. Kept' /\ StateIsReal'
  BY DEF Kept, StateIsReal, Blinded, Idle, Ids, Own
<1> QED
  BY <1>1, <1>2, <1>3, <1>4, <1>5

LEMMA NewUuidFacts == ASSUME Unused # {} PROVE NewUuid \in Unused /\ NewUuid \in Uuid /\ NewUuid # NoUuid
<1>1. NewUuid \in Unused
  BY DEF NewUuid
<1> QED
  BY <1>1, PortForwardAssumption DEF Unused, Uuid, NoUuid, PortForwardAssumption

LEMMA CreateForwardStep == ASSUME IInv, NEW j \in DOMAIN stage, CreateForward(j) PROVE IInv'
<1> USE DEF IInv, CreateForward, NoFault, HandlerState, NewForward
<1>1. NewUuid \in Uuid /\ NewUuid # NoUuid
  BY NewUuidFacts
<1>2. /\ work[j] \in Entries /\ stage[j] = "working" /\ work[j].uuid = NoUuid
      /\ work' = [work EXCEPT ![j].uuid = NewUuid] /\ stage' = [stage EXCEPT ![j] = "collecting"]
  BY <1>1 DEF Conclude, Pool!StartCollecting, Pool!NothingToCollect, Pool!Goto, TypeOK, Entries, Fresh, Creating
<1>3. TypeOK'
  BY <1>1, <1>2 DEF TypeOK, Pool!Stages, Entries, Fresh
<1>4. Quiet' /\ Fresh' /\ Collecting' /\ Taint' /\ Released'
  BY <1>1, <1>2 DEF Quiet, Fresh, Collecting, Taint, Released, Idle, Creating, TypeOK, Entries, Refused
<1>5. Created' /\ Destroyed'
  BY <1>2 DEF Created, Destroyed, Creating, TypeOK
<1>6. Held'
  <2>1. UuidsIn({work[i] : i \in Live}) \cup {NewUuid} \subseteq UuidsIn({work'[i] : i \in Live'})
    BY <1>1, <1>2 DEF Live, TypeOK, UuidsIn, Entries
  <2>2. Ids(Own') \subseteq Ids(Own) \cup {NewUuid}
    BY DEF Ids, Own
  <2> QED
    BY <2>1, <2>2 DEF Held, Blinded, Idle
<1>7. Kept' /\ StateIsReal'
  BY DEF Kept, StateIsReal, Blinded, Idle, Ids, Own, Creating
<1> QED
  BY <1>3, <1>4, <1>5, <1>6, <1>7

LEMMA CreateForwardFailsStep == ASSUME IInv, NEW j \in DOMAIN stage, CreateForwardFails(j) PROVE IInv'
<1> USE DEF IInv, CreateForwardFails, NoFault, HandlerState, NewForward
<1>1. /\ Unused # {} => NewUuid \in Uuid
      /\ faults' \in [number : 0..MaxFaults, kinds : SUBSET FaultKinds]
      /\ ~Blinded' => ~Blinded /\ cloud' = cloud
  BY NewUuidFacts, FaultFacts DEF Blinded, Blinding, TypeOK
<1>2. stage[j] = "working" /\ work[j].uuid = NoUuid /\ stage' = [stage EXCEPT ![j] = "done"]
  BY DEF Conclude, Pool!StartCollecting, Pool!NothingToCollect, Pool!Goto, TypeOK, Fresh
<1>3. TypeOK'
  BY <1>1, <1>2 DEF TypeOK, Pool!Stages, Fresh
<1>4. Quiet' /\ Fresh' /\ Collecting' /\ Taint' /\ Released'
  BY <1>2 DEF Quiet, Fresh, Collecting, Taint, Released, Idle, Creating, TypeOK, Refused
<1>5. Created' /\ Destroyed'
  BY <1>2 DEF Created, Destroyed, Creating, TypeOK
<1>6. Held'
  <2>1. UuidsIn({work[i] : i \in Live}) \subseteq UuidsIn({work'[i] : i \in Live'})
    BY <1>2 DEF Live, TypeOK, UuidsIn
  <2> QED
    BY <1>1, <2>1 DEF Held, Idle, Ids, Own
<1>7. Kept' /\ StateIsReal'
  BY DEF Kept, StateIsReal, Idle, Creating
<1> QED
  BY <1>3, <1>4, <1>5, <1>6, <1>7

LEMMA DeleteForwardStep == ASSUME IInv, NEW j \in DOMAIN stage, DeleteForward(j) PROVE IInv'
<1> USE DEF IInv, DeleteForward, NoFault, HandlerState, RemoveForward
<1>1. /\ work[j] \in Entries /\ stage[j] = "working"
      /\ work' = [work EXCEPT ![j].uuid = NoUuid] /\ stage' = [stage EXCEPT ![j] = "done"]
  BY DEF Conclude, Pool!StartCollecting, Pool!NothingToCollect, Pool!Goto, TypeOK, Entries
<1>2. TypeOK'
  BY <1>1 DEF TypeOK, Pool!Stages, Entries
<1>3. Quiet' /\ Fresh' /\ Collecting' /\ Taint' /\ Released'
  BY <1>1 DEF Quiet, Fresh, Collecting, Taint, Released, Idle, Creating, Deleting, TypeOK
<1>4. Created' /\ Destroyed'
  BY <1>1 DEF Created, Destroyed, Deleting, TypeOK
<1>5. Held'
  <2>1. UuidsIn({work[i] : i \in Live}) \ {work[j].uuid} \subseteq UuidsIn({work'[i] : i \in Live'})
    BY <1>1 DEF Live, TypeOK, UuidsIn
  <2>2. Ids(Own') \subseteq Ids(Own) \ {work[j].uuid}
    BY DEF Ids, Own
  <2> QED
    BY <2>1, <2>2 DEF Held, Blinded, Idle
<1>6. Kept' /\ StateIsReal'
  BY DEF Kept, StateIsReal, Idle, Deleting
<1> QED
  BY <1>2, <1>3, <1>4, <1>5, <1>6

LEMMA DeleteForwardFailsStep == ASSUME IInv, NEW j \in DOMAIN stage, DeleteForwardFails(j) PROVE IInv'
<1> USE DEF IInv, DeleteForwardFails, HandlerState, RemoveForward
<1>1. /\ stage[j] = "working"
      /\ \/ work[j].uuid # NoUuid /\ stage' = [stage EXCEPT ![j] = "collecting"]
         \/ work[j].uuid = NoUuid /\ stage' = [stage EXCEPT ![j] = "done"]
      /\ faults' \in [number : 0..MaxFaults, kinds : SUBSET FaultKinds]
      /\ ~Blinded' => ~Blinded
  BY FaultFacts DEF Blinded, Conclude, Pool!StartCollecting, Pool!NothingToCollect, Pool!Goto
<1>2. TypeOK'
  BY <1>1 DEF TypeOK, Pool!Stages
<1>3. Quiet' /\ Fresh' /\ Collecting' /\ Taint' /\ Released'
  BY <1>1 DEF Quiet, Fresh, Collecting, Taint, Released, Idle, Creating, Deleting, TypeOK
<1>4. Created' /\ Destroyed'
  BY <1>1 DEF Created, Destroyed, Deleting, TypeOK
<1>5. Held'
  <2>1. UuidsIn({work[i] : i \in Live}) \subseteq UuidsIn({work'[i] : i \in Live'})
    BY <1>1 DEF Live, TypeOK, UuidsIn
  <2>2. Ids(Own') \subseteq Ids(Own)
    BY DEF Ids, Own
  <2> QED
    BY <1>1, <2>1, <2>2 DEF Held, Idle
<1>6. Kept' /\ StateIsReal'
  BY DEF Kept, StateIsReal, Idle, Deleting
<1> QED
  BY <1>2, <1>3, <1>4, <1>5, <1>6

LEMMA AddStep == ASSUME IInv, NEW j \in DOMAIN stage, Add(j) PROVE IInv'
<1> USE DEF IInv, Add, NoFault, HandlerState, Pool!Collected, Pool!Goto
<1>1. /\ work[j].uuid # NoUuid
      /\ faults' \in [number : 0..MaxFaults, kinds : SUBSET FaultKinds]
      /\ ~Blinded' => ~Blinded /\ forwards' = forwards \cup {work[j]}
  BY FaultFacts DEF Collecting, Blinded, Blinding, TypeOK
<1>2. TypeOK'
  BY <1>1 DEF TypeOK, Pool!Stages, UuidsIn
<1>3. Quiet' /\ Fresh' /\ Collecting' /\ Taint' /\ Released'
  BY DEF Quiet, Fresh, Collecting, Taint, Released, Idle, Creating, TypeOK
<1>4. Created' /\ Destroyed'
  BY DEF Created, Destroyed, TypeOK
<1>5. Held'
  <2>1. UuidsIn({work[i] : i \in Live}) \ {work[j].uuid} \subseteq UuidsIn({work'[i] : i \in Live'})
    BY DEF Live, TypeOK, UuidsIn
  <2>2. UuidsIn(forwards \cup {work[j]}) = UuidsIn(forwards) \cup {work[j].uuid}
    BY <1>1 DEF UuidsIn
  <2> QED
    BY <1>1, <2>1, <2>2 DEF Held, Idle, Ids, Own
<1>6. Kept' /\ StateIsReal'
  <2>1. ~Idle
    BY DEF Quiet
  <2> QED
    BY <2>1 DEF Kept, StateIsReal, Idle
<1> QED
  BY <1>2, <1>3, <1>4, <1>5, <1>6

-----------------------------------------------------------------------------
(* What Read makes of the forwards es, whose uuids cover those of cloud.   *)

LEMMA ReadFacts ==
  ASSUME TypeOK, Released, NEW es, NEW tainted \in BOOLEAN, NEW managed \in BOOLEAN
  PROVE  LET s == ReadState(es, tainted, managed)
         IN /\ s \in [id : BOOLEAN, tainted : BOOLEAN, managed : BOOLEAN, forwards : SUBSET Entries]
            /\ ~s.id => s.forwards = {}
            /\ \A e \in s.forwards : e.uuid \in Uuid \cap Ids(cloud)
            /\ Ids(Own) \subseteq UuidsIn(es) => Ids(Own) \subseteq UuidsIn(s.forwards)
<1> DEFINE found == ReadForwards(es, managed)
<1>1. found \subseteq Entries /\ \A e \in found : e.uuid \in Uuid \cap Ids(cloud)
  BY DEF ReadForwards, StillThere, Known, Dummy, Entries, Ids, TypeOK
<1>2. Ids(Own) \subseteq UuidsIn(es) => Ids(Own) \subseteq UuidsIn(found)
  BY UuidFacts DEF ReadForwards, StillThere, Known, Ids, Own, TypeOK
<1>3. CASE ip /\ (managed \/ found # {})
  BY <1>1, <1>2, <1>3 DEF ReadState, State
<1>4. CASE ~(ip /\ (managed \/ found # {}))
  <2>1. Ids(Own) \subseteq UuidsIn(es) => Ids(Own) = {}
    BY <1>2, <1>4 DEF Released, Ids, Own, UuidsIn
  <2> QED
    BY <1>4, <2>1 DEF ReadState, Gone
<1> QED
  BY <1>3, <1>4

\* The state a handler leaves behind when it ends in Read, or fails in it.
LEMMA FinishFacts ==
  ASSUME TypeOK, Released, NEW es \in SUBSET Entries, FinishWithRead(es), \A e \in es : e.uuid # NoUuid
  PROVE  /\ saved' \in [id : BOOLEAN, tainted : BOOLEAN, managed : BOOLEAN, forwards : SUBSET Entries]
         /\ fresh' \in BOOLEAN /\ told' \in {"ok", "error"}
         /\ faults' \in [number : 0..MaxFaults, kinds : SUBSET FaultKinds]
         /\ ~Blinded' => ~Blinded
         /\ ~saved'.id => saved'.forwards = {}
         /\ \A e \in saved'.forwards : e.uuid # NoUuid
         /\ told' = "ok" => {e.uuid : e \in saved'.forwards} \subseteq Ids(cloud)
         /\ Ids(Own) \subseteq UuidsIn(es) => Ids(Own) \subseteq UuidsIn(saved'.forwards)
<1>1. config.managed \in BOOLEAN /\ 0 \notin Uuid
  BY UuidFacts DEF TypeOK
<1>2. CASE NoFault /\ Save(ReadState(es, FALSE, config.managed), "ok")
  <2> DEFINE s == ReadState(es, FALSE, config.managed)
  <2>1. /\ s \in [id : BOOLEAN, tainted : BOOLEAN, managed : BOOLEAN, forwards : SUBSET Entries]
        /\ ~s.id => s.forwards = {}
        /\ \A e \in s.forwards : e.uuid \in Uuid \cap Ids(cloud)
        /\ Ids(Own) \subseteq UuidsIn(es) => Ids(Own) \subseteq UuidsIn(s.forwards)
    BY <1>1, ReadFacts
  <2>2. saved' = s /\ told' = "ok" /\ fresh' = FALSE /\ faults' = faults
    BY <1>2 DEF NoFault, Save
  <2> HIDE DEF s
  <2>3. {e.uuid : e \in s.forwards} \subseteq Ids(cloud)
    BY <2>1
  <2>4. \A e \in s.forwards : e.uuid # NoUuid
    BY <2>1, UuidFacts
  <2>5. fresh' \in BOOLEAN /\ told' \in {"ok", "error"} /\ (~Blinded' => ~Blinded)
    BY <2>2 DEF Blinded
  <2>6. faults' \in [number : 0..MaxFaults, kinds : SUBSET FaultKinds]
    BY <2>2 DEF TypeOK
  <2> QED
    BY <2>1, <2>2, <2>3, <2>4, <2>5, <2>6
<1>3. CASE Fault("apiError") /\ Save(Partial(es), "error")
  BY <1>3, FaultFacts DEF Save, Partial, State, TypeOK, Blinded
<1> QED
  BY <1>2, <1>3 DEF FinishWithRead

LEMMA RefreshStep == ASSUME IInv, Refresh PROVE IInv'
<1> USE DEF IInv, Refresh
<1>1. /\ saved' \in [id : BOOLEAN, tainted : BOOLEAN, managed : BOOLEAN, forwards : SUBSET Entries]
      /\ ~saved'.id => saved'.forwards = {}
      /\ \A e \in saved'.forwards : e.uuid \in Uuid \cap Ids(cloud)
      /\ Ids(Own) \subseteq UuidsIn(saved.forwards) => Ids(Own) \subseteq UuidsIn(saved'.forwards)
  <2>1. saved.tainted \in BOOLEAN /\ saved.managed \in BOOLEAN
    BY DEF TypeOK
  <2> QED
    BY <2>1, ReadFacts
<1>2. TypeOK'
  BY <1>1 DEF TypeOK
<1>3. Quiet' /\ Fresh' /\ Collecting' /\ Taint' /\ Released'
  BY <1>1, UuidFacts DEF Quiet, Fresh, Collecting, Taint, Released, Idle, Creating
<1>4. Created' /\ Destroyed' /\ Held'
  BY DEF Created, Destroyed, Held, Idle
<1>5. Kept' /\ StateIsReal'
  BY <1>1 DEF Kept, StateIsReal, Blinded, Idle, Own
<1> QED
  BY <1>2, <1>3, <1>4, <1>5

LEMMA CreateStep == ASSUME IInv, Create PROVE IInv'
<1> USE DEF IInv, Create, Launch, Pool!Spawn
<1>1. Wanted \subseteq Entries /\ \A e \in Wanted : e.uuid = NoUuid /\ e.fwd \in Forwards
  BY DEF Wanted, Entry, Entries, TypeOK
<1>2. TypeOK'
  BY <1>1 DEF TypeOK, Pool!Stages, UuidsIn
<1>3. Quiet' /\ Fresh' /\ Collecting' /\ Taint' /\ Released'
  BY <1>1 DEF Quiet, Fresh, Collecting, Taint, Released, Idle
<1>4. Created' /\ Destroyed'
  BY DEF Created, Destroyed
<1>5. Held'
  BY DEF Held, Kept, Taint, Blinded, UuidsIn, Ids, Own
<1>6. Kept' /\ StateIsReal'
  BY DEF Kept, StateIsReal, Idle
<1> QED
  BY <1>2, <1>3, <1>4, <1>5, <1>6

LEMMA ImportStep == ASSUME IInv, Import PROVE IInv'
<1> USE DEF IInv, Import, Save
<1>1. /\ saved' \in [id : BOOLEAN, tainted : BOOLEAN, managed : BOOLEAN, forwards : SUBSET Entries]
      /\ saved'.id /\ \A e \in saved'.forwards : e.uuid \in Uuid
      /\ {e.uuid : e \in saved'.forwards} = Ids(cloud)
  BY DEF State, Known, Entries, TypeOK, Ids
<1>2. TypeOK'
  BY <1>1 DEF TypeOK
<1>3. Quiet' /\ Fresh' /\ Collecting' /\ Taint' /\ Released'
  BY <1>1, UuidFacts DEF Quiet, Fresh, Collecting, Taint, Released, Idle, Creating
<1>4. Created' /\ Destroyed' /\ Held'
  BY DEF Created, Destroyed, Held, Idle
<1>5. Kept' /\ StateIsReal'
  <2>1. {e.uuid : e \in saved'.forwards} = Ids(cloud) /\ NoUuid \notin Ids(cloud)
    <3>1. \A c \in cloud : c.uuid \in Uuid
      BY DEF TypeOK
    <3>2. NoUuid \notin Ids(cloud)
      BY <3>1, UuidFacts DEF Ids
    <3> QED
      BY <1>1, <3>2
  <2>2. UuidsIn(saved'.forwards) = Ids(cloud)
    BY <2>1 DEF UuidsIn
  <2>3. Ids(Own) \subseteq Ids(cloud)
    BY DEF Ids, Own
  <2>4. Kept'
    <3>1. Ids(Own)' = Ids(Own)
      BY DEF Ids, Own
    <3> QED
      BY <2>2, <2>3, <3>1 DEF Kept
  <2>5. StateIsReal'
    BY <2>1 DEF StateIsReal, Ids
  <2> QED
    BY <2>4, <2>5
<1> QED
  BY <1>2, <1>3, <1>4, <1>5

LEMMA UpdateStep == ASSUME IInv, Update PROVE IInv'
<1> USE DEF IInv, Update
<1> DEFINE ors == Minus(saved.forwards, Wanted)
           nrs == Minus(Wanted, saved.forwards)
<1>1. ors \subseteq saved.forwards /\ \A e \in saved.forwards : e \in Entries /\ e.uuid # NoUuid
  BY DEF Minus, Taint, TypeOK
<1>2. nrs \subseteq Entries /\ \A e \in nrs : e.uuid = NoUuid /\ e.fwd \in Forwards
  BY DEF Minus, Wanted, Entry, Entries, TypeOK
<1>3. CASE Differs
  <2>1. /\ forwards' = saved.forwards \ ors /\ stage' \in [DOMAIN stage' -> {"spawned"}]
        /\ work' = [e \in DOMAIN stage' |-> e] /\ failed' = FALSE
        /\ \/ DOMAIN stage' = ors /\ op' = "delete" /\ later' = nrs
           \/ DOMAIN stage' = nrs /\ op' = "update" /\ later' = {} /\ ors = {}
        /\ UNCHANGED <<cloud, ip, config, changes, saved, told, fresh, faults>>
    BY <1>3 DEF Launch, Pool!Spawn
  <2> HIDE DEF ors, nrs, Update
  <2>2. TypeOK'
    <3>1. DOMAIN stage' \subseteq Entries /\ forwards' \subseteq Entries /\ later' \subseteq Entries
          /\ stage' \in [DOMAIN stage' -> Pool!Stages] /\ op' \in {"delete", "update"}
      BY <1>1, <1>2, <2>1 DEF Pool!Stages
    <3>2. UuidsIn(forwards') = {e.uuid : e \in forwards'}
      BY <1>1, <2>1 DEF UuidsIn
    <3> QED
      BY <2>1, <3>1, <3>2 DEF TypeOK
  <2>3. Quiet' /\ Fresh' /\ Collecting' /\ Taint' /\ Released'
    BY <1>1, <1>2, <2>1 DEF Quiet, Fresh, Collecting, Taint, Released, Idle, Creating
  <2>4. Created' /\ Destroyed' /\ Kept' /\ StateIsReal'
    BY <2>1 DEF Created, Destroyed, Kept, StateIsReal, Idle
  <2>5. Held'
    <3>1. Idle
      BY DEF Update
    <3>2. UuidsIn(saved.forwards) \subseteq UuidsIn(forwards') \cup UuidsIn({work'[i] : i \in Live'})
      BY <1>1, <2>1 DEF UuidsIn, Live
    <3> QED
      BY <2>1, <3>1, <3>2 DEF Held, Kept, Blinded, Ids, Own
  <2> QED
    BY <2>2, <2>3, <2>4, <2>5
<1>4. CASE ~Differs
  <2>1. FinishWithRead(saved.forwards) /\ saved.forwards \in SUBSET Entries /\ Idle
        /\ UNCHANGED <<op, forwards, later, work, stage, failed, cloud, ip, config, changes>>
    BY <1>1, <1>4
  <2> HIDE DEF Update
  <2>2. TypeOK'
    BY <1>1, <2>1, FinishFacts DEF TypeOK
  <2>3. Quiet' /\ Fresh' /\ Collecting' /\ Taint' /\ Released'
    BY <1>1, <2>1, FinishFacts DEF Quiet, Fresh, Collecting, Taint, Released, Idle, Creating
  <2>4. Created' /\ Destroyed' /\ Held'
    BY <2>1 DEF Created, Destroyed, Held, Idle
  <2>5. Kept' /\ StateIsReal'
    BY <1>1, <2>1, FinishFacts DEF Kept, StateIsReal, Idle, Ids, Own
  <2> QED
    BY <2>2, <2>3, <2>4, <2>5
<1> QED
  BY <1>3, <1>4

LEMMA DeleteStep == ASSUME IInv, Delete PROVE IInv'
<1> USE DEF IInv, Delete
<1>1. CASE saved.forwards # {}
  <2>1. /\ stage' = [e \in saved.forwards |-> "spawned"] /\ work' = [e \in saved.forwards |-> e]
        /\ op' = "destroy" /\ failed' = FALSE /\ forwards' = {}
        /\ UNCHANGED <<cloud, ip, config, saved, fresh, told, later, faults, changes>>
    BY <1>1 DEF Launch, Pool!Spawn
  <2>2. TypeOK'
    <3>1. saved.forwards \subseteq Entries
      BY DEF TypeOK
    <3>2. /\ DOMAIN stage' \subseteq Entries
          /\ stage' \in [DOMAIN stage' -> Pool!Stages] /\ work' \in [DOMAIN stage' -> Entries]
      BY <2>1, <3>1 DEF Pool!Stages
    <3>3. forwards' \subseteq Entries /\ UuidsIn(forwards') = {e.uuid : e \in forwards'}
      BY <2>1 DEF UuidsIn
    <3> QED
      BY <2>1, <3>2, <3>3 DEF TypeOK
  <2>3. Quiet' /\ Fresh' /\ Collecting' /\ Taint' /\ Released'
    BY <2>1 DEF Quiet, Fresh, Collecting, Taint, Released, Idle, Creating
  <2>4. Created' /\ Destroyed' /\ Kept' /\ StateIsReal'
    BY <2>1 DEF Created, Destroyed, Kept, StateIsReal, Idle
  <2>5. Held'
    <3>1. UuidsIn(saved.forwards) \subseteq UuidsIn({work'[i] : i \in Live'})
      BY <2>1 DEF UuidsIn, Live
    <3> QED
      BY <2>1, <3>1 DEF Held, Kept, Blinded, Ids, Own
  <2> QED
    BY <2>2, <2>3, <2>4, <2>5
<1>2. CASE saved.forwards = {}
  <2>1. saved' = Gone /\ told' = "none" /\ fresh' = FALSE /\ Idle
        /\ UNCHANGED <<cloud, ip, config, op, forwards, later, work, stage, failed, faults, changes>>
    BY <1>2 DEF Save
  <2>2. TypeOK'
    BY <2>1 DEF TypeOK, Gone
  <2>3. Quiet' /\ Fresh' /\ Collecting' /\ Taint' /\ Released'
    BY <2>1 DEF Quiet, Fresh, Collecting, Taint, Released, Idle, Creating, Gone
  <2>4. Created' /\ Destroyed' /\ Held' /\ StateIsReal'
    BY <2>1 DEF Created, Destroyed, Held, StateIsReal, Idle
  <2>5. Kept'
    BY <1>2, <2>1 DEF Kept, Blinded, Idle, Ids, Own, Gone
  <2> QED
    BY <2>2, <2>3, <2>4, <2>5
<1> QED
  BY <1>1, <1>2

-----------------------------------------------------------------------------
(* wg.Wait returned: whatever is held is in the set.                       *)

LEMMA ReturnedFacts ==
  ASSUME IInv, ~Idle, Pool!Returned
  PROVE  /\ ~Blinded => Ids(Own) \subseteq UuidsIn(forwards)
         /\ \A e \in forwards : e \in Entries /\ e.uuid # NoUuid
         /\ op = "create" => forwards \subseteq Range(work)
         /\ Range(work) \subseteq Entries
<1> USE DEF IInv
<1>1. Live = {}
  BY DEF Live, Pool!Returned
<1>2. ~Blinded => Ids(Own) \subseteq UuidsIn(forwards)
  BY <1>1 DEF Held, UuidsIn
<1>3. \A e \in forwards : e \in Entries /\ e.uuid # NoUuid
  BY UuidFacts DEF TypeOK
<1>4. (op = "create" => forwards \subseteq Range(work)) /\ Range(work) \subseteq Entries
  BY DEF Created, Range, TypeOK
<1> QED
  BY <1>2, <1>3, <1>4

\* Every way to end leaves the handler's hands empty.
LEMMA StopFacts ==
  ASSUME Stop
  PROVE  /\ stage' \in [DOMAIN stage' -> Pool!Stages] /\ work' \in [DOMAIN stage' -> Entries]
         /\ DOMAIN stage' = {} /\ forwards' = {} /\ later' = {} /\ failed' = FALSE /\ op' = "idle"
         /\ UuidsIn(forwards') = {e.uuid : e \in forwards'}
         /\ Quiet' /\ Fresh' /\ Collecting' /\ Created' /\ Destroyed' /\ Held'
<1> USE DEF Stop, Pool!Spawn
<1>1. stage' \in [DOMAIN stage' -> Pool!Stages] /\ work' \in [DOMAIN stage' -> Entries]
      /\ DOMAIN stage' = {}
  OBVIOUS
<1>2. UuidsIn(forwards') = {e.uuid : e \in forwards'}
  BY DEF UuidsIn
<1>3. Quiet' /\ Fresh' /\ Collecting' /\ Created' /\ Destroyed' /\ Held'
  BY <1>1 DEF Quiet, Fresh, Collecting, Created, Destroyed, Held, Creating, Idle
<1> QED
  BY <1>1, <1>2, <1>3

LEMMA DieStep ==
  ASSUME IInv, Die, NEW kind \in {"crash", "race"}, Fault(kind)
  PROVE  IInv'
<1> USE DEF IInv, Die
<1>1. faults' \in [number : 0..MaxFaults, kinds : SUBSET FaultKinds] /\ Blinded'
  BY FaultFacts DEF Blinded, Blinding
<1>2. TypeOK'
  BY <1>1, StopFacts DEF TypeOK
<1>3. Taint' /\ Released'
  BY StopFacts DEF Taint, Released
<1>4. Kept' /\ StateIsReal'
  BY <1>1 DEF Kept, StateIsReal
<1> QED
  BY <1>2, <1>3, <1>4, StopFacts

LEMMA ReturnErrorStep == ASSUME IInv, ReturnError PROVE IInv'
<1> USE DEF IInv
<1> DEFINE es == IF op = "create" THEN Range(work) ELSE forwards
<1>1. /\ saved' = Partial(es) /\ told' = "error" /\ fresh' = FALSE /\ Stop
      /\ UNCHANGED <<cloud, ip, config, faults, changes>>
      /\ ~Idle /\ Pool!Returned
  BY DEF ReturnError, Save, Waited, Idle
<1>2. /\ es \subseteq Entries
      /\ op # "create" => \A e \in es : e.uuid # NoUuid
      /\ ~Blinded => Ids(Own) \subseteq UuidsIn(es)
  BY <1>1, ReturnedFacts DEF UuidsIn
<1> HIDE DEF es
<1>3. /\ saved' \in [id : BOOLEAN, tainted : BOOLEAN, managed : BOOLEAN, forwards : SUBSET Entries]
      /\ saved'.id /\ saved'.forwards = es /\ (~saved'.tainted => op # "create")
  <2> DEFINE tainted == ~saved.id \/ saved.tainted
             managed == IF op = "destroy" THEN saved.managed ELSE config.managed
  <2>1. managed \in BOOLEAN /\ tainted \in BOOLEAN /\ (op = "create" => tainted)
    BY DEF TypeOK, Taint
  <2>2. saved' = [id |-> TRUE, tainted |-> tainted, managed |-> managed, forwards |-> es]
    BY <1>1 DEF Partial, State
  <2> HIDE DEF tainted, managed
  <2> QED
    BY <1>2, <2>1, <2>2
<1>4. TypeOK'
  BY <1>1, <1>3, StopFacts DEF TypeOK
<1>5. Taint' /\ Released'
  BY <1>1, <1>2, <1>3, StopFacts DEF Taint, Released
<1>6. Kept' /\ StateIsReal'
  BY <1>1, <1>2, <1>3 DEF Kept, StateIsReal, Blinded, Ids, Own
<1> QED
  BY <1>1, <1>4, <1>5, <1>6, StopFacts

LEMMA CreateTheRestStep == ASSUME IInv, CreateTheRest PROVE IInv'
<1> USE DEF IInv, CreateTheRest, Launch, Pool!Spawn
<1>1. op = "delete" /\ ~Idle /\ Pool!Returned
  BY DEF Waited, Idle
<1>2. TypeOK'
  BY DEF TypeOK, Pool!Stages
<1>3. Quiet' /\ Fresh' /\ Collecting' /\ Taint' /\ Released'
  BY DEF Quiet, Fresh, Collecting, Taint, Released, Idle, TypeOK
<1>4. Created' /\ Destroyed' /\ Kept' /\ StateIsReal'
  BY DEF Created, Destroyed, Kept, StateIsReal, Idle
<1>5. Held'
  BY <1>1, ReturnedFacts DEF Held, Blinded, Ids, Own
<1> QED
  BY <1>2, <1>3, <1>4, <1>5

LEMMA ReturnReadStep == ASSUME IInv, ReturnRead PROVE IInv'
<1> USE DEF IInv
<1>1. FinishWithRead(forwards) /\ Stop /\ UNCHANGED <<cloud, ip, config, changes>>
      /\ ~Idle /\ Pool!Returned
  BY DEF ReturnRead, Waited, Idle
<1>2. forwards \in SUBSET Entries /\ \A e \in forwards : e.uuid # NoUuid
  BY <1>1, ReturnedFacts
<1>3. TypeOK'
  BY <1>1, <1>2, FinishFacts, StopFacts DEF TypeOK
<1>4. Taint' /\ Released'
  BY <1>1, <1>2, FinishFacts, StopFacts DEF Taint, Released
<1>5. Kept' /\ StateIsReal'
  BY <1>1, <1>2, FinishFacts, ReturnedFacts DEF Kept, StateIsReal, Ids, Own
<1> QED
  BY <1>1, <1>3, <1>4, <1>5, StopFacts

\* A destroy that reports no error has deleted everything it knew.
LEMMA ReturnDeletedStep == ASSUME IInv, ReturnDeleted PROVE IInv'
<1> USE DEF IInv
<1>1. /\ saved' = Gone /\ told' = "none" /\ fresh' = FALSE /\ Stop
      /\ UNCHANGED <<cloud, ip, config, faults, changes>>
      /\ op = "destroy" /\ ~failed /\ ~Idle /\ Pool!Returned
  BY DEF ReturnDeleted, Save, Waited, Idle
<1>2. ~Blinded => Ids(Own) = {}
  BY <1>1, ReturnedFacts DEF Destroyed, UuidsIn
<1>3. TypeOK'
  BY <1>1, StopFacts DEF TypeOK, Gone
<1>4. Taint' /\ Released'
  BY <1>1, StopFacts DEF Taint, Released, Gone
<1>5. Kept' /\ StateIsReal'
  BY <1>1, <1>2 DEF Kept, StateIsReal, Blinded, Ids, Own
<1> QED
  BY <1>1, <1>3, <1>4, <1>5, StopFacts

-----------------------------------------------------------------------------
(* The user and the other users of the account.                            *)

LEMMA EditStep == ASSUME IInv, Edit PROVE IInv'
<1> USE DEF IInv, Edit
<1>1. config' \in [present : BOOLEAN, managed : BOOLEAN, forwards : SUBSET Forwards]
  <2>1. CASE config' = Absent
    BY <2>1 DEF Absent
  <2>2. CASE \E c \in Configs : config' = [present |-> TRUE, managed |-> c.managed, forwards |-> c.forwards]
    <3>1. PICK c \in Configs : config' = [present |-> TRUE, managed |-> c.managed, forwards |-> c.forwards]
      BY <2>2
    <3>2. c \in [managed : BOOLEAN, forwards : (SUBSET Forwards) \ {{}}]
      BY PortForwardAssumption DEF PortForwardAssumption
    <3> QED
      BY <3>1, <3>2
  <2> QED
    BY <2>1, <2>2
<1>2. TypeOK'
  <2>1. changes' \in 0..MaxChanges
    BY PortForwardAssumption DEF PortForwardAssumption, TypeOK
  <2> QED
    BY <1>1, <2>1 DEF TypeOK
<1>3. Quiet' /\ Fresh' /\ Collecting' /\ Taint' /\ Released'
  BY DEF Quiet, Fresh, Collecting, Taint, Released, Idle, Creating
<1>4. Created' /\ Destroyed' /\ Held' /\ StateIsReal'
  BY DEF Created, Destroyed, Held, StateIsReal, Idle
<1>5. Kept'
  BY DEF Kept, Blinded, Idle, Ids, Own
<1> QED
  BY <1>2, <1>3, <1>4, <1>5

\* A fault that leaves the provider alone and no new forward of its own.
LEMMA OutsideStep ==
  ASSUME IInv, NEW kind, Fault(kind), UNCHANGED ProviderState, told' = "none", ip' \in BOOLEAN,
         cloud' \subseteq [uuid : Uuid, fwd : Forwards \cup {Foreign}],
         \A c \in cloud' : c \in cloud \/ c.fwd = Foreign,
         ~ip' => cloud' = {}
  PROVE  IInv'
<1> USE DEF IInv, ProviderState
<1>1. faults' \in [number : 0..MaxFaults, kinds : SUBSET FaultKinds] /\ (~Blinded' => ~Blinded)
  BY FaultFacts DEF Blinded
<1>2. TypeOK'
  BY <1>1 DEF TypeOK
<1>3. Quiet' /\ Fresh' /\ Collecting' /\ Taint' /\ Released'
  BY DEF Quiet, Fresh, Collecting, Taint, Released, Idle, Creating
<1>4. Created' /\ Destroyed' /\ StateIsReal'
  BY DEF Created, Destroyed, StateIsReal
<1>5. Ids(Own') \subseteq Ids(Own)
  BY DEF Ids, Own
<1>6. Held' /\ Kept'
  BY <1>1, <1>5 DEF Held, Kept, Idle, Live
<1> QED
  BY <1>2, <1>3, <1>4, <1>6

LEMMA EnvironmentStep == ASSUME IInv, Environment PROVE IInv'
<1>1. CASE Edit
  BY <1>1, EditStep
<1>2. CASE Import
  BY <1>2, ImportStep
<1>3. CASE DeleteOutOfBand
  BY <1>3, OutsideStep DEF DeleteOutOfBand, RemoveForward, IInv, TypeOK, Released
<1>4. CASE CreateForeign
  BY <1>4, OutsideStep, NewUuidFacts DEF CreateForeign, NewForward, IInv, TypeOK, Released
<1>5. CASE ReleaseIp
  BY <1>5, OutsideStep DEF ReleaseIp
<1>6. CASE Crash
  BY <1>6, DieStep DEF Crash
<1> QED
  BY <1>1, <1>2, <1>3, <1>4, <1>5, <1>6 DEF Environment

-----------------------------------------------------------------------------
LEMMA GoroutineStep == ASSUME IInv, NEW j \in DOMAIN stage, Goroutine(j) PROVE IInv'
<1>1. CASE ConcurrentMapWrites(j)
  BY <1>1, DieStep DEF ConcurrentMapWrites
<1> QED
  BY <1>1, AcquireStep, RejectStep, CreateForwardStep, CreateForwardFailsStep, DeleteForwardStep,
     DeleteForwardFailsStep, AddStep DEF Goroutine

LEMMA StutterStep == ASSUME IInv, UNCHANGED vars PROVE IInv'
<1> USE DEF IInv, vars
<1>1. TypeOK' /\ Quiet' /\ Fresh' /\ Collecting' /\ Taint' /\ Released' /\ Created' /\ Destroyed'
  BY DEF TypeOK, Quiet, Fresh, Collecting, Taint, Released, Created, Destroyed, Idle, Creating
<1>2. Held' /\ Kept' /\ StateIsReal'
  BY DEF Held, Kept, StateIsReal, Blinded, Idle, Live, Ids, Own
<1> QED
  BY <1>1, <1>2

LEMMA NextIInv == IInv /\ [Next]_vars => IInv'
<1> SUFFICES ASSUME IInv, [Next]_vars PROVE IInv'
  OBVIOUS
<1>1. CASE Terraform
  BY <1>1, RefreshStep, CreateStep, UpdateStep, DeleteStep DEF Terraform
<1>2. CASE Provider
  BY <1>2, GoroutineStep, ReturnErrorStep, CreateTheRestStep, ReturnReadStep, ReturnDeletedStep
  DEF Provider, Return
<1>3. CASE Environment
  BY <1>3, EnvironmentStep
<1>4. CASE UNCHANGED vars
  BY <1>4, StutterStep
<1> QED
  BY <1>1, <1>2, <1>3, <1>4 DEF Next

-----------------------------------------------------------------------------
(* What follows for every behaviour.                                       *)

\* Type correctness of the resource.
THEOREM TypeCorrect == Spec => []TypeOK
<1>1. IInv => TypeOK
  BY DEF IInv
<1> QED
  BY <1>1, InitIInv, NextIInv, PTL DEF Spec

\* No forward that createPortForward made is forgotten, neither in the middle of
\* an operation nor by the state that any of them leaves behind, unless an answer
\* was lost, the provider died, or two goroutines met in forwards.Add.
THEOREM ForwardsTracked == Spec => []Tracked
<1>1. ASSUME IInv PROVE Tracked
  <2>1. CASE Idle
    BY <1>1, <2>1 DEF IInv, Kept, Tracked, NothingForgotten, Remembered, UuidsIn
  <2>2. CASE ~Idle
    <3>1. {work[j] : j \in Live} \subseteq Range(work)
      BY <1>1 DEF IInv, TypeOK, Live, Range
    <3> QED
      BY <1>1, <2>2, <3>1 DEF IInv, Held, Tracked, NothingForgotten, Remembered, UuidsIn
  <2> QED
    BY <2>1, <2>2
<1> QED
  BY <1>1, InitIInv, NextIInv, PTL DEF Spec

\* After a refresh, an import or a successful operation the state of Terraform
\* lists existing forwards only.
THEOREM RealState == Spec => []StateIsReal
<1>1. IInv => StateIsReal
  BY DEF IInv
<1> QED
  BY <1>1, InitIInv, NextIInv, PTL DEF Spec

-----------------------------------------------------------------------------
(* What the invariant of PortForward_proofs leaves open: which forward a   *)
(* uuid stands for, and why a goroutine was started.                       *)

Distinct == \A c, d \in cloud : c.uuid = d.uuid => c = d

Listed == saved.forwards \cup forwards \cup Range(work)

\* Wherever a uuid of the resource is listed, it is that of the forward beside it.
Agree == ~Blinded => \A e \in Listed, c \in Own : e.uuid = c.uuid => e.fwd = c.fwd

\* Only what is configured is created; only what is not, or belongs to a tainted
\* resource, is deleted.
Purpose ==
  /\ ~config.present => config.forwards = {}
  /\ \A e \in later : e.fwd \in config.forwards
  /\ \A j \in DOMAIN stage :
       /\ work[j].fwd = j.fwd
       /\ Creating => j.fwd \in config.forwards
       /\ op = "delete" => j.fwd \notin config.forwards
  /\ op = "destroy" => saved.tainted \/ config.forwards = {}

RInv == IInv /\ Distinct /\ Agree /\ Purpose

-----------------------------------------------------------------------------
\* What is listed afterwards was listed before, or has no uuid.
LEMMA AgreeFacts ==
  ASSUME TypeOK, Agree, ~Blinded' => ~Blinded, Own' \subseteq Own,
         \A e \in Listed' : e.uuid = NoUuid \/ \E d \in Listed : d.uuid = e.uuid /\ d.fwd = e.fwd
  PROVE  Agree'
<1>1. \A c \in Own' : c \in Own /\ c.uuid # NoUuid
  BY UuidFacts DEF Own, TypeOK
<1> QED
  BY <1>1 DEF Agree

LEMMA BlindedFacts == ASSUME TypeOK, (NoFault \/ \E kind \in FaultKinds : Fault(kind)) PROVE ~Blinded' => ~Blinded
BY FaultFacts DEF NoFault, Blinded

LEMMA InitRInv == Init => RInv
<1> SUFFICES ASSUME Init PROVE RInv
  OBVIOUS
<1>1. Distinct /\ Agree
  BY DEF Init, Distinct, Agree, Own
<1>2. Purpose
  BY DEF Init, Purpose, Absent, Pool!Spawn
<1> QED
  BY <1>1, <1>2, InitIInv DEF RInv

-----------------------------------------------------------------------------
(* The steps of a goroutine.                                               *)

\* A step that leaves cloud, config and saved alone and moves one goroutine on.
LEMMA AcquireRStep == ASSUME RInv, NEW j \in DOMAIN stage, Acquire(j) PROVE Distinct' /\ Agree' /\ Purpose'
<1> USE DEF RInv, Acquire, HandlerState, Pool!Acquire, Pool!Goto
<1>1. Distinct'
  BY DEF Distinct
<1>2. Agree'
  BY DEF Agree, Listed, Blinded, Own
<1>3. Purpose'
  BY DEF Purpose, Creating, IInv, TypeOK
<1> QED
  BY <1>1, <1>2, <1>3

LEMMA RejectRStep == ASSUME RInv, NEW j \in DOMAIN stage, RejectForward(j) PROVE Distinct' /\ Agree' /\ Purpose'
<1> USE DEF RInv, RejectForward, HandlerState, Conclude, Pool!StartCollecting, Pool!NothingToCollect, Pool!Goto
<1>1. Distinct'
  BY DEF Distinct
<1>2. Agree'
  BY DEF Agree, Listed, Blinded, Own
<1>3. Purpose'
  BY DEF Purpose, Creating, IInv, TypeOK
<1> QED
  BY <1>1, <1>2, <1>3

LEMMA CreateForwardRStep ==
  ASSUME RInv, NEW j \in DOMAIN stage, CreateForward(j)
  PROVE  Distinct' /\ Agree' /\ Purpose'
<1> USE DEF RInv, CreateForward, NoFault, HandlerState, NewForward
<1>1. NewUuid \in Unused /\ NewUuid \in Uuid /\ NewUuid # NoUuid
  BY NewUuidFacts
<1>2. /\ work[j] \in Entries /\ stage[j] = "working" /\ work[j].fwd = j.fwd
      /\ work' = [work EXCEPT ![j].uuid = NewUuid] /\ stage' = [stage EXCEPT ![j] = "collecting"]
      /\ work \in [DOMAIN stage -> Entries]
  BY <1>1 DEF Conclude, Pool!StartCollecting, Pool!NothingToCollect, Pool!Goto, IInv, TypeOK, Entries, Purpose
<1> DEFINE new == [uuid |-> NewUuid, fwd |-> j.fwd]
<1>3. Distinct'
  <2>1. cloud' = cloud \cup {new} /\ \A c \in cloud : c.uuid # NewUuid
    BY <1>1 DEF Unused, Ids
  <2> QED
    BY <2>1 DEF Distinct
<1>4. Agree'
  <2>1. \A e \in Listed : e.uuid # NewUuid
    BY <1>1, UuidFacts DEF Listed, Unused, Remembered, UuidsIn
  <2>2. \A c \in Own' : c \in Own \/ c = new
    BY DEF Own
  <2>3. \A c \in Own : c.uuid # NewUuid /\ c.uuid # NoUuid
    BY <1>1, UuidFacts DEF Unused, Ids, Own, IInv, TypeOK
  <2>4. \A e \in Listed' : e \in Listed \/ (e.uuid = NewUuid /\ e.fwd = j.fwd)
    <3>1. \A i \in DOMAIN stage : i # j => work'[i] = work[i]
      BY <1>2
    <3>2. work'[j].uuid = NewUuid /\ work'[j].fwd = j.fwd
      BY <1>2 DEF Entries
    <3>3. DOMAIN work' = DOMAIN stage /\ DOMAIN work = DOMAIN stage
      BY <1>2
    <3> QED
      BY <3>1, <3>2, <3>3 DEF Listed, Range
  <2>5. ~Blinded' => ~Blinded
    BY DEF Blinded
  <2> QED
    BY <2>1, <2>2, <2>3, <2>4, <2>5 DEF Agree
<1>5. Purpose'
  BY <1>2 DEF Purpose, Creating, IInv, TypeOK, Entries
<1> QED
  BY <1>3, <1>4, <1>5

LEMMA CreateForwardFailsRStep ==
  ASSUME RInv, NEW j \in DOMAIN stage, CreateForwardFails(j)
  PROVE  Distinct' /\ Agree' /\ Purpose'
<1> USE DEF RInv, CreateForwardFails, NoFault, HandlerState, NewForward
<1>1. /\ NewUuid \in Unused \/ Unused = {}
      /\ ~Blinded' => ~Blinded /\ cloud' = cloud
  BY NewUuidFacts, FaultFacts DEF Blinded, Blinding, IInv
<1>2. Distinct'
  BY <1>1 DEF Distinct, Unused, Ids
<1>3. Agree'
  BY <1>1 DEF Agree, Listed, Own
<1>4. Purpose'
  BY DEF Purpose, Creating, Conclude, Pool!StartCollecting, Pool!NothingToCollect, Pool!Goto, IInv, TypeOK
<1> QED
  BY <1>2, <1>3, <1>4

LEMMA DeleteForwardRStep ==
  ASSUME RInv, NEW j \in DOMAIN stage, DeleteForward(j)
  PROVE  Distinct' /\ Agree' /\ Purpose'
<1> USE DEF RInv, DeleteForward, NoFault, HandlerState, RemoveForward
<1>1. /\ work[j] \in Entries /\ work \in [DOMAIN stage -> Entries]
      /\ work' = [work EXCEPT ![j].uuid = NoUuid] /\ stage' = [stage EXCEPT ![j] = "done"]
  BY DEF Conclude, Pool!StartCollecting, Pool!NothingToCollect, Pool!Goto, IInv, TypeOK, Entries
<1>2. Distinct'
  BY DEF Distinct
<1>3. Agree'
  <2>1. \A e \in Listed' : e \in Listed \/ e.uuid = NoUuid
    BY <1>1 DEF Listed, Range, Entries
  <2>2. (~Blinded' => ~Blinded) /\ Own' \subseteq Own
    BY DEF Blinded, Own
  <2> QED
    BY <2>1, <2>2, AgreeFacts DEF IInv
<1>4. Purpose'
  BY <1>1 DEF Purpose, Creating, IInv, TypeOK, Entries
<1> QED
  BY <1>2, <1>3, <1>4

LEMMA DeleteForwardFailsRStep ==
  ASSUME RInv, NEW j \in DOMAIN stage, DeleteForwardFails(j)
  PROVE  Distinct' /\ Agree' /\ Purpose'
<1> USE DEF RInv, DeleteForwardFails, HandlerState, RemoveForward
<1>1. (~Blinded' => ~Blinded) /\ cloud' \subseteq cloud
  BY FaultFacts DEF Blinded, IInv
<1>2. Distinct'
  BY <1>1 DEF Distinct
<1>3. Agree'
  BY <1>1 DEF Agree, Listed, Own
<1>4. Purpose'
  BY DEF Purpose, Creating, Conclude, Pool!StartCollecting, Pool!NothingToCollect, Pool!Goto, IInv, TypeOK
<1> QED
  BY <1>2, <1>3, <1>4

LEMMA AddRStep == ASSUME RInv, NEW j \in DOMAIN stage, Add(j) PROVE Distinct' /\ Agree' /\ Purpose'
<1> USE DEF RInv, Add, NoFault, HandlerState, Pool!Collected, Pool!Goto
<1>1. ~Blinded' => ~Blinded
  BY FaultFacts DEF Blinded, IInv
<1>2. Distinct'
  BY DEF Distinct
<1>3. Agree'
  BY <1>1 DEF Agree, Listed, Own, Range, IInv, TypeOK
<1>4. Purpose'
  BY DEF Purpose, Creating, IInv, TypeOK
<1> QED
  BY <1>2, <1>3, <1>4

-----------------------------------------------------------------------------
(* The steps of a handler.                                                 *)

\* Read lists a forward with what CloudStack says of it, and as a dummy only what is
\* not the resource's own.
LEMMA ReadAgrees ==
  ASSUME Distinct, NEW es, NEW managed, Ids(Own) \subseteq UuidsIn(es)
  PROVE  \A e \in ReadForwards(es, managed), c \in Own : e.uuid = c.uuid => e.fwd = c.fwd
<1>1. \A e \in StillThere(es), c \in Own : e.uuid = c.uuid => e.fwd = c.fwd
  BY DEF StillThere, Known, Own, Distinct
<1>2. \A u \in Ids(cloud) \ UuidsIn(es), c \in Own : Dummy(u).uuid # c.uuid
  BY DEF Dummy, Ids
<1> QED
  BY <1>1, <1>2 DEF ReadForwards

\* A handler that ends in Read, or fails in it, with the forwards es.
LEMMA FinishAgrees ==
  ASSUME RInv, NEW es, FinishWithRead(es), es \subseteq Listed, ~Blinded => Ids(Own) \subseteq UuidsIn(es),
         UNCHANGED cloud
  PROVE  ~Blinded' => ~Blinded /\ \A e \in saved'.forwards, c \in Own' : e.uuid = c.uuid => e.fwd = c.fwd
<1> USE DEF RInv, IInv
<1>1. (~Blinded' => ~Blinded) /\ Own' = Own
  BY FaultFacts DEF FinishWithRead, NoFault, Blinded, Own
<1>2. CASE Save(ReadState(es, FALSE, config.managed), "ok")
  <2>1. saved'.forwards \subseteq ReadForwards(es, config.managed)
    BY <1>2 DEF Save, ReadState, State, Gone
  <2>2. Distinct /\ (~Blinded => Ids(Own) \subseteq UuidsIn(es))
    OBVIOUS
  <2> HIDE DEF RInv, IInv
  <2>3. ~Blinded => \A e \in ReadForwards(es, config.managed), c \in Own :
                      e.uuid = c.uuid => e.fwd = c.fwd
    BY <2>2, ReadAgrees
  <2> QED
    BY <1>1, <2>1, <2>3
<1>3. CASE Save(Partial(es), "error")
  <2>1. saved'.forwards = es
    BY <1>3 DEF Save, Partial, State
  <2>2. ~Blinded => \A e \in Listed, c \in Own : e.uuid = c.uuid => e.fwd = c.fwd
    BY DEF Agree
  <2> QED
    BY <1>1, <2>1, <2>2
<1> QED
  BY <1>2, <1>3 DEF FinishWithRead

LEMMA RefreshRStep == ASSUME RInv, Refresh PROVE Distinct' /\ Agree' /\ Purpose'
<1> USE DEF RInv, Refresh
<1>1. Distinct'
  BY DEF Distinct
<1>2. Agree'
  <2>1. ~Blinded => Ids(Own) \subseteq UuidsIn(saved.forwards)
    BY DEF IInv, Kept
  <2>2. saved'.forwards \subseteq ReadForwards(saved.forwards, saved.managed)
    BY DEF ReadState, State, Gone
  <2>3. ~Blinded => \A e \in saved'.forwards, c \in Own : e.uuid = c.uuid => e.fwd = c.fwd
    BY <2>1, <2>2, ReadAgrees
  <2> QED
    BY <2>3 DEF Agree, Listed, Blinded, Own
<1>3. Purpose'
  BY DEF Purpose, Creating, Idle
<1> QED
  BY <1>1, <1>2, <1>3

LEMMA CreateRStep == ASSUME RInv, Create PROVE Distinct' /\ Agree' /\ Purpose'
<1> USE DEF RInv, Create, Launch, Pool!Spawn, Wanted, Entry
<1>1. Distinct'
  BY DEF Distinct
<1>2. Agree'
  <2>1. \A e \in Listed' : e \in Listed \/ e.uuid = NoUuid
    BY DEF Listed, Range
  <2>2. (~Blinded' => ~Blinded) /\ Own' \subseteq Own
    BY DEF Blinded, Own
  <2> QED
    BY <2>1, <2>2, AgreeFacts DEF IInv
<1>3. Purpose'
  BY DEF Purpose, Creating, Idle
<1> QED
  BY <1>1, <1>2, <1>3

LEMMA ImportRStep == ASSUME RInv, Import PROVE Distinct' /\ Agree' /\ Purpose'
<1> USE DEF RInv, Import
<1>1. Distinct'
  BY DEF Distinct
<1>2. Agree'
  BY DEF Distinct, Agree, Listed, Blinded, Own, Save, State, Known
<1>3. Purpose'
  BY DEF Purpose, Creating, Idle
<1> QED
  BY <1>1, <1>2, <1>3

LEMMA WantedFacts == Contents(Wanted) = config.forwards
<1>1. \A f : Entry(f).fwd = f
  BY DEF Entry
<1> QED
  BY <1>1 DEF Contents, Wanted

LEMMA UpdateRStep == ASSUME RInv, Update PROVE Distinct' /\ Agree' /\ Purpose'
<1> USE DEF RInv, Update
<1> DEFINE ors == Minus(saved.forwards, Wanted)
           nrs == Minus(Wanted, saved.forwards)
<1>1. Distinct'
  BY DEF Distinct
<1>2. CASE Differs
  <2>1. /\ forwards' = saved.forwards \ ors /\ stage' \in [DOMAIN stage' -> {"spawned"}]
        /\ work' = [e \in DOMAIN stage' |-> e]
        /\ \/ DOMAIN stage' = ors /\ op' = "delete" /\ later' = nrs
           \/ DOMAIN stage' = nrs /\ op' = "update" /\ later' = {}
        /\ UNCHANGED <<cloud, config, saved, faults>>
    BY <1>2 DEF Launch, Pool!Spawn
  <2>2. \A e \in ors : e \in saved.forwards /\ e.fwd \notin config.forwards
    BY WantedFacts DEF Minus
  <2>3. \A e \in nrs : e.uuid = NoUuid /\ e.fwd \in config.forwards
    BY DEF Minus, Contents, Wanted, Entry
  <2> HIDE DEF ors, nrs, Update
  <2>4. Agree'
    <3>1. \A e \in Listed' : e \in Listed \/ e.uuid = NoUuid
      BY <2>1, <2>2, <2>3 DEF Listed, Range
    <3>2. (~Blinded' => ~Blinded) /\ Own' \subseteq Own
      BY <2>1 DEF Blinded, Own
    <3> QED
      BY <3>1, <3>2, AgreeFacts DEF IInv
  <2>5. Purpose'
    BY <2>1, <2>2, <2>3 DEF Purpose, Creating
  <2> QED
    BY <1>1, <2>4, <2>5
<1>3. CASE ~Differs
  <2>1. FinishWithRead(saved.forwards) /\ Idle /\ UNCHANGED <<cloud, config, op, forwards, later, work, stage>>
    BY <1>3
  <2> HIDE DEF Update
  <2>2. forwards' = {} /\ Range(work') = {}
    BY <2>1 DEF IInv, Quiet, Range, TypeOK
  <2>3. saved.forwards \subseteq Listed /\ (~Blinded => Ids(Own) \subseteq UuidsIn(saved.forwards))
    BY <2>1 DEF Listed, IInv, Kept
  <2>4. Agree'
    BY <2>1, <2>2, <2>3, FinishAgrees DEF Agree, Listed
  <2>5. Purpose'
    BY <2>1 DEF Purpose, Creating, Idle
  <2> QED
    BY <1>1, <2>4, <2>5
<1> QED
  BY <1>2, <1>3

LEMMA DeleteRStep == ASSUME RInv, Delete PROVE Distinct' /\ Agree' /\ Purpose'
<1> USE DEF RInv, Delete
<1>1. Distinct'
  BY DEF Distinct
<1>2. (~Blinded' => ~Blinded) /\ Own' \subseteq Own
  BY DEF Blinded, Own
<1>3. CASE saved.forwards # {}
  <2>1. \A e \in Listed' : e \in Listed
    BY <1>3 DEF Listed, Range, Launch
  <2>2. Agree'
    BY <1>2, <2>1, AgreeFacts DEF IInv
  <2>3. Purpose'
    BY <1>3 DEF Purpose, Creating, Idle, Launch, Pool!Spawn
  <2> QED
    BY <1>1, <2>2, <2>3
<1>4. CASE saved.forwards = {}
  <2>1. \A e \in Listed' : e \in Listed
    BY <1>4 DEF Listed, Save, Gone
  <2>2. Agree'
    BY <1>2, <2>1, AgreeFacts DEF IInv
  <2>3. Purpose'
    BY <1>4 DEF Purpose, Creating, Idle
  <2> QED
    BY <1>1, <2>2, <2>3
<1> QED
  BY <1>3, <1>4

LEMMA DieRStep == ASSUME RInv, Die, NEW kind \in {"crash", "race"}, Fault(kind) PROVE Distinct' /\ Agree' /\ Purpose'
<1> USE DEF RInv, Die
<1>1. Blinded'
  BY FaultFacts DEF Blinded, Blinding, IInv
<1>2. Distinct' /\ Agree'
  BY <1>1 DEF Distinct, Agree
<1>3. Purpose'
  BY StopFacts DEF Purpose, Creating
<1> QED
  BY <1>2, <1>3

LEMMA ReturnErrorRStep == ASSUME RInv, ReturnError PROVE Distinct' /\ Agree' /\ Purpose'
<1> USE DEF RInv
<1> DEFINE es == IF op = "create" THEN Range(work) ELSE forwards
<1>1. saved'.forwards = es /\ Stop /\ UNCHANGED <<cloud, config, faults>>
  BY DEF ReturnError, Save, Partial, State
<1>2. Distinct'
  BY <1>1 DEF Distinct
<1>3. Agree'
  <2>1. \A e \in Listed' : e \in Listed
    BY <1>1, StopFacts DEF Listed, Stop, Range
  <2>2. (~Blinded' => ~Blinded) /\ Own' \subseteq Own
    BY <1>1 DEF Blinded, Own
  <2> QED
    BY <2>1, <2>2, AgreeFacts DEF IInv
<1>4. Purpose'
  BY <1>1, StopFacts DEF Purpose, Creating
<1> QED
  BY <1>2, <1>3, <1>4

LEMMA CreateTheRestRStep == ASSUME RInv, CreateTheRest PROVE Distinct' /\ Agree' /\ Purpose'
<1> USE DEF RInv, CreateTheRest, Launch, Pool!Spawn
<1>1. Distinct'
  BY DEF Distinct
<1>2. Agree'
  <2>1. \A e \in Listed' : e \in Listed \/ e.uuid = NoUuid
    BY DEF Listed, Range, IInv, Fresh
  <2>2. (~Blinded' => ~Blinded) /\ Own' \subseteq Own
    BY DEF Blinded, Own
  <2> QED
    BY <2>1, <2>2, AgreeFacts DEF IInv
<1>3. Purpose'
  BY DEF Purpose, Creating
<1> QED
  BY <1>1, <1>2, <1>3

LEMMA ReturnReadRStep == ASSUME RInv, ReturnRead PROVE Distinct' /\ Agree' /\ Purpose'
<1> USE DEF RInv
<1>1. FinishWithRead(forwards) /\ Stop /\ UNCHANGED <<cloud, config>> /\ ~Idle /\ Pool!Returned
  BY DEF ReturnRead, Waited, Idle
<1>2. Distinct'
  BY <1>1 DEF Distinct
<1>3. Agree'
  <2>1. forwards \subseteq Listed /\ (~Blinded => Ids(Own) \subseteq UuidsIn(forwards))
    BY <1>1, ReturnedFacts DEF Listed
  <2>2. \A e \in Listed' : e \in saved'.forwards
    BY <1>1 DEF Listed, Stop, Range
  <2> QED
    BY <1>1, <2>1, <2>2, FinishAgrees DEF Agree
<1>4. Purpose'
  BY <1>1, StopFacts DEF Purpose, Creating
<1> QED
  BY <1>2, <1>3, <1>4

LEMMA ReturnDeletedRStep == ASSUME RInv, ReturnDeleted PROVE Distinct' /\ Agree' /\ Purpose'
<1> USE DEF RInv
<1>1. saved' = Gone /\ Stop /\ UNCHANGED <<cloud, config, faults>>
  BY DEF ReturnDeleted, Save
<1>2. Distinct'
  BY <1>1 DEF Distinct
<1>3. Agree'
  BY <1>1 DEF Agree, Listed, Stop, Range, Gone
<1>4. Purpose'
  BY <1>1, StopFacts DEF Purpose, Creating
<1> QED
  BY <1>2, <1>3, <1>4

-----------------------------------------------------------------------------
(* The user and the other users of the account.                            *)

LEMMA EditRStep == ASSUME RInv, Edit PROVE Distinct' /\ Agree' /\ Purpose'
<1> USE DEF RInv, Edit
<1>1. Distinct' /\ Agree'
  BY DEF Distinct, Agree, Listed, Blinded, Own
<1>2. DOMAIN stage' = {} /\ later' = {} /\ op' = "idle" /\ (~config'.present => config'.forwards = {})
  BY DEF IInv, Quiet, Idle, Absent
<1>3. Purpose'
  BY <1>2 DEF Purpose
<1> QED
  BY <1>1, <1>3

LEMMA OutsideRStep ==
  ASSUME RInv, NEW kind, Fault(kind), UNCHANGED ProviderState, Distinct', Own' \subseteq Own
  PROVE  Distinct' /\ Agree' /\ Purpose'
<1> USE DEF RInv, ProviderState
<1>1. ~Blinded' => ~Blinded
  BY FaultFacts DEF Blinded, IInv
<1>2. Agree'
  BY <1>1 DEF Agree, Listed
<1>3. Purpose'
  BY DEF Purpose, Creating
<1> QED
  BY <1>2, <1>3

LEMMA EnvironmentRStep == ASSUME RInv, Environment PROVE Distinct' /\ Agree' /\ Purpose'
<1>1. CASE Edit
  BY <1>1, EditRStep
<1>2. CASE Import
  BY <1>2, ImportRStep
<1>3. CASE DeleteOutOfBand
  BY <1>3, OutsideRStep DEF DeleteOutOfBand, RemoveForward, RInv, Distinct, Own
<1>4. CASE CreateForeign
  <2>1. Distinct' /\ Own' \subseteq Own
    BY <1>4, NewUuidFacts DEF CreateForeign, NewForward, RInv, Distinct, Own, Unused, Ids
  <2> QED
    BY <1>4, <2>1, OutsideRStep DEF CreateForeign
<1>5. CASE ReleaseIp
  BY <1>5, OutsideRStep DEF ReleaseIp, Distinct, Own
<1>6. CASE Crash
  BY <1>6, DieRStep DEF Crash
<1> QED
  BY <1>1, <1>2, <1>3, <1>4, <1>5, <1>6 DEF Environment

LEMMA NextRInv == RInv /\ [Next]_vars => RInv'
<1> SUFFICES ASSUME RInv, [Next]_vars PROVE Distinct' /\ Agree' /\ Purpose'
  BY NextIInv DEF RInv
<1>1. CASE Terraform
  BY <1>1, RefreshRStep, CreateRStep, UpdateRStep, DeleteRStep DEF Terraform
<1>2. CASE Provider
  <2>1. ASSUME NEW j \in DOMAIN stage, ConcurrentMapWrites(j) PROVE Distinct' /\ Agree' /\ Purpose'
    BY <2>1, DieRStep DEF ConcurrentMapWrites
  <2>2. ASSUME NEW j \in DOMAIN stage, Goroutine(j) PROVE Distinct' /\ Agree' /\ Purpose'
    BY <2>1, <2>2, AcquireRStep, RejectRStep, CreateForwardRStep, CreateForwardFailsRStep,
       DeleteForwardRStep, DeleteForwardFailsRStep, AddRStep DEF Goroutine
  <2> QED
    BY <1>2, <2>2, ReturnErrorRStep, CreateTheRestRStep, ReturnReadRStep, ReturnDeletedRStep
    DEF Provider, Return
<1>3. CASE Environment
  BY <1>3, EnvironmentRStep
<1>4. CASE UNCHANGED vars
  BY <1>4 DEF vars, RInv, Distinct, Agree, Purpose, Listed, Blinded, Own, Creating
<1> QED
  BY <1>1, <1>2, <1>3, <1>4 DEF Next

-----------------------------------------------------------------------------
(* Every step is one of the reconciler's.                                  *)

\* What the invariant says of the abstract variables: everything is known.
LEMMA KnownFacts == IInv => Abstract!Ids(Objects) \subseteq KnownUuids
<1> SUFFICES ASSUME IInv PROVE Abstract!Ids(Objects) \subseteq KnownUuids
  OBVIOUS
<1>1. Abstract!Ids(Objects) \subseteq Ids(Own)
  BY DEF Abstract!Ids, Objects, Ids
<1>2. CASE Blinded
  BY <1>2 DEF Abstract!Ids, Objects
<1>3. CASE ~Blinded /\ Idle
  BY <1>1, <1>3 DEF KnownUuids, IInv, Kept
<1>4. CASE ~Blinded /\ ~Idle
  <2>1. Live = {g \in DOMAIN stage : stage[g] \notin {"done", "leaked"}}
    BY DEF IInv, TypeOK, Live, Pool!Stages
  <2>2. UuidsIn(forwards) \cup UuidsIn({work[j] : j \in Live}) = InHands
    BY <2>1 DEF InHands, UuidsIn
  <2> QED
    BY <1>1, <1>4, <2>2 DEF KnownUuids, IInv, Held
<1> QED
  BY <1>2, <1>3, <1>4

\* A step that creates nothing, and removes nothing but by a fault.
Harmless ==
  /\ UNCHANGED config
  /\ \/ NoFault /\ Own' = Own
     \/ \E kind \in FaultKinds : Fault(kind) /\ (~Blinded' => Own' \subseteq Own)

LEMMA KnownNext == IInv' => (Abstract!Ids(Objects) \subseteq KnownUuids)'
BY KnownFacts, PTL

LEMMA HarmlessSteps == ASSUME RInv, RInv', Harmless PROVE Abstract!Next
<1> USE DEF Harmless
<1>1. Abstract!Ids(Objects') \subseteq KnownUuids'
  BY KnownNext DEF RInv, Abstract!Ids
<1>2. CASE NoFault /\ Own' = Own
  <2>1. Objects' = Objects /\ faults' = faults
    BY <1>2 DEF NoFault, Objects, Blinded
  <2>2. Abstract!Book
    BY <1>1, <2>1 DEF Abstract!Book, Abstract!Ids
  <2> QED
    BY <2>2 DEF Abstract!Next
<1>3. CASE \E kind \in FaultKinds : Fault(kind) /\ (~Blinded' => Own' \subseteq Own)
  <2>1. faults'.number = faults.number + 1 /\ (~Blinded' => ~Blinded)
    BY <1>3, FaultFacts DEF Fault, Blinded, RInv, IInv
  <2>2. Objects' \subseteq Objects
    BY <1>3, <2>1 DEF Objects
  <2>3. Abstract!Mishap
    BY <1>1, <2>1, <2>2 DEF Abstract!Mishap
  <2> QED
    BY <2>3 DEF Abstract!Next
<1> QED
  BY <1>2, <1>3

\* createPortForward adds a forward that is configured, is not there and has a new uuid.
LEMMA CreateForwardAdds ==
  ASSUME RInv, NEW j \in DOMAIN stage, CreateForward(j)
  PROVE  Abstract!Next
<1> USE DEF RInv, CreateForward, NoFault, HandlerState
<1> DEFINE new == [uuid |-> NewUuid, fwd |-> j.fwd]
           o == [uuid |-> NewUuid, content |-> j.fwd]
<1>1. NewUuid \in Unused /\ NewUuid # NoUuid /\ cloud' = cloud \cup {new}
  BY NewUuidFacts DEF NewForward
<1>2. Creating /\ j.fwd \in config.forwards /\ j.fwd # Foreign /\ ~Idle
  <2>1. Creating /\ j.fwd \in Forwards /\ j.fwd \in config.forwards
    BY DEF Purpose, IInv, Fresh
  <2>2. j.fwd # Foreign
    BY <2>1, PortForwardAssumption DEF PortForwardAssumption
  <2> QED
    BY <2>1, <2>2 DEF Creating, Idle
<1>3. Blinded' = Blinded /\ Idle' = Idle /\ config' = config /\ saved' = saved /\ faults' = faults
  BY DEF Blinded, Idle
<1>4. CASE Blinded
  <2>1. Abstract!Book
    BY <1>3, <1>4 DEF Abstract!Book, Abstract!Ids, Objects, KnownUuids
  <2> QED
    BY <2>1 DEF Abstract!Next
<1>5. CASE ~Blinded
  <2>1. Own' = Own \cup {new}
    BY <1>1, <1>2 DEF Own
  <2>2. Objects' = Objects \cup {o}
    <3>1. new.uuid = NewUuid /\ new.fwd = j.fwd
      OBVIOUS
    <3> HIDE DEF new
    <3>2. Objects' = {[uuid |-> c.uuid, content |-> c.fwd] : c \in Own'}
          /\ Objects = {[uuid |-> c.uuid, content |-> c.fwd] : c \in Own}
      BY <1>3, <1>5 DEF Objects
    <3> QED
      BY <2>1, <3>1, <3>2
  <2>3. j.fwd \notin Abstract!Contents(Objects) /\ o \notin Objects
    BY <1>1 DEF Refused, Abstract!Contents, Objects, Own, Unused, Ids
  <2>4. KnownUuids = InHands /\ KnownUuids' = InHands'
    BY <1>2, <1>3, <1>5 DEF KnownUuids
  <2> DEFINE live == {g \in DOMAIN stage : stage[g] \notin {"done", "leaked"}}
  <2>5. /\ work[j] \in Entries /\ stage[j] = "working" /\ work[j].uuid = NoUuid
        /\ work' = [work EXCEPT ![j].uuid = NewUuid] /\ stage' = [stage EXCEPT ![j] = "collecting"]
        /\ work \in [DOMAIN stage -> Entries] /\ forwards' = forwards
    BY <1>1, <1>2 DEF Conclude, Pool!StartCollecting, Pool!NothingToCollect, Pool!Goto, IInv, TypeOK, Entries, Fresh
  <2>6. {g \in DOMAIN stage' : stage'[g] \notin {"done", "leaked"}} = live /\ j \in live
    BY <2>5
  <2>7. InHands' = InHands \cup {NewUuid}
    <3> DEFINE held == UuidsIn(forwards) \cup UuidsIn({work[i] : i \in live \ {j}})
    <3>1. \A i \in live \ {j} : work'[i] = work[i]
      BY <2>5
    <3>2. work'[j].uuid = NewUuid
      BY <2>5 DEF Entries
    <3>3. InHands = held \cup UuidsIn({work[j]})
      BY <2>6 DEF InHands, UuidsIn
    <3>4. InHands' = held \cup UuidsIn({work'[j]})
      BY <2>5, <2>6, <3>1 DEF InHands, UuidsIn
    <3>5. UuidsIn({work[j]}) = {}
      BY <2>5 DEF UuidsIn
    <3>6. NewUuid # NoUuid
      BY <1>1
    <3>7. UuidsIn({work'[j]}) = {NewUuid}
      BY <3>2, <3>6 DEF UuidsIn
    <3> HIDE DEF held
    <3> QED
      BY <3>3, <3>4, <3>5, <3>7
  <2>8. NewUuid \notin InHands
    BY <1>1, <2>5 DEF InHands, Unused, Remembered, UuidsIn, Range
  <2> HIDE DEF o
  <2>9. o.content = j.fwd /\ o.uuid = NewUuid
    BY DEF o
  <2>10. Abstract!Add
    BY <1>2, <1>3, <2>2, <2>3, <2>4, <2>7, <2>8, <2>9 DEF Abstract!Add
  <2> QED
    BY <2>10 DEF Abstract!Next
<1> QED
  BY <1>4, <1>5

\* deletePortForward removes a forward that is not configured, or whose resource is
\* tainted; or one that is not its own, or gone.
LEMMA DeleteForwardRemoves ==
  ASSUME RInv, RInv', NEW j \in DOMAIN stage, DeleteForward(j)
  PROVE  Abstract!Next
<1> USE DEF RInv, DeleteForward, NoFault, HandlerState
<1> DEFINE u == work[j].uuid
<1>1. cloud' = {c \in cloud : c.uuid # u}
  BY DEF RemoveForward
<1>2. ~Idle /\ Blinded' = Blinded /\ Idle' = Idle /\ config' = config /\ saved' = saved /\ faults' = faults
  BY DEF Blinded, Idle, Deleting
<1>3. CASE Own' = Own
  BY <1>2, <1>3, HarmlessSteps DEF Harmless
<1>4. CASE Blinded
  <2>1. Abstract!Book
    BY <1>2, <1>4 DEF Abstract!Book, Abstract!Ids, Objects, KnownUuids
  <2> QED
    BY <2>1 DEF Abstract!Next
<1>5. CASE ~Blinded /\ Own' # Own
  <2>1. PICK c \in Own : c.uuid = u
    BY <1>1, <1>5 DEF Own
  <2> DEFINE o == [uuid |-> u, content |-> c.fwd]
  <2>2. Objects' = Objects \ {o} /\ o \in Objects
    <3>1. \A d \in Own : d.uuid = u => d = c
      BY <2>1 DEF Distinct, Own
    <3>2. Own' = {d \in Own : d.uuid # u}
      BY <1>1 DEF Own
    <3> QED
      BY <1>2, <1>5, <2>1, <3>1, <3>2 DEF Objects
  <2>3. c.fwd = j.fwd
    <3>1. work[j] \in Listed
      BY DEF Listed, Range, IInv, TypeOK
    <3> QED
      BY <1>5, <2>1, <3>1 DEF Agree, Purpose
  <2>4. saved.tainted \/ c.fwd \notin config.forwards
    BY <2>3 DEF Purpose, Deleting
  <2>5. KnownUuids = InHands /\ KnownUuids' = InHands'
    BY <1>2, <1>5 DEF KnownUuids
  <2>6. /\ stage[j] = "working" /\ work \in [DOMAIN stage -> Entries] /\ forwards' = forwards
        /\ work' = [work EXCEPT ![j].uuid = NoUuid] /\ stage' = [stage EXCEPT ![j] = "done"]
    BY DEF Conclude, Pool!StartCollecting, Pool!NothingToCollect, Pool!Goto, IInv, TypeOK, Entries
  <2>7. InHands' \in {InHands, InHands \ {u}}
    <3> DEFINE live == {g \in DOMAIN stage : stage[g] \notin {"done", "leaked"}}
               held == UuidsIn(forwards) \cup UuidsIn({work[i] : i \in live \ {j}})
    <3>1. {g \in DOMAIN stage' : stage'[g] \notin {"done", "leaked"}} = live \ {j} /\ j \in live
      BY <2>6
    <3>2. \A i \in live \ {j} : work'[i] = work[i]
      BY <2>6
    <3>3. InHands' = held
      BY <2>6, <3>1, <3>2 DEF InHands, UuidsIn
    <3>4. InHands = held \cup UuidsIn({work[j]})
      BY <3>1 DEF InHands, UuidsIn
    <3>5. UuidsIn({work[j]}) = {u} \ {NoUuid}
      BY DEF UuidsIn
    <3> QED
      BY <3>3, <3>4, <3>5
  <2> HIDE DEF o, u
  <2>8. o.content = c.fwd /\ o.uuid = u
    BY DEF o
  <2>9. Abstract!Remove
    BY <1>2, <2>2, <2>4, <2>5, <2>7, <2>8 DEF Abstract!Remove
  <2> QED
    BY <2>9 DEF Abstract!Next
<1> QED
  BY <1>3, <1>4, <1>5

LEMMA EditEdits == ASSUME IInv, Edit PROVE Abstract!Next
<1>1. Objects' = Objects /\ KnownUuids' = KnownUuids /\ saved' = saved /\ faults' = faults
  <2>1. Blinded' = Blinded /\ Idle' = Idle /\ Idle
    BY DEF Edit, Blinded, Idle
  <2> QED
    BY <2>1 DEF Edit, Objects, KnownUuids, Own
<1>2. Abstract!Edit
  BY <1>1 DEF Abstract!Edit
<1> QED
  BY <1>2 DEF Abstract!Next

LEMMA FinishHarmless == ASSUME NEW es, FinishWithRead(es), UNCHANGED <<cloud, config>> PROVE Harmless
BY DEF FinishWithRead, Harmless, Own, FaultKinds, NoFault

LEMMA DieHarmless ==
  ASSUME TypeOK, Die, NEW kind \in {"crash", "race"}, Fault(kind)
  PROVE  Harmless
<1>1. Blinded'
  BY FaultFacts DEF Blinded, Blinding
<1> QED
  BY <1>1 DEF Die, Harmless, FaultKinds

LEMMA GoroutineSteps == ASSUME RInv, RInv', NEW j \in DOMAIN stage, Goroutine(j) PROVE Abstract!Next
<1> USE DEF HandlerState, Harmless, FaultKinds, NoFault
<1>1. CASE Acquire(j) \/ RejectForward(j)
  BY <1>1, HarmlessSteps DEF Acquire, RejectForward, Own
<1>2. CASE CreateForwardFails(j)
  <2>1. UNCHANGED cloud \/ (Fault("lostReply") /\ Blinded')
    BY <1>2, FaultFacts DEF CreateForwardFails, Blinded, Blinding, RInv, IInv
  <2> QED
    BY <1>2, <2>1, HarmlessSteps DEF CreateForwardFails, Own
<1>3. CASE DeleteForwardFails(j)
  BY <1>3, HarmlessSteps DEF DeleteForwardFails, RemoveForward, Own
<1>4. CASE Add(j)
  BY <1>4, HarmlessSteps DEF Add, Own
<1>5. CASE ConcurrentMapWrites(j)
  BY <1>5, DieHarmless, HarmlessSteps DEF ConcurrentMapWrites, RInv, IInv
<1> QED
  BY <1>1, <1>2, <1>3, <1>4, <1>5, CreateForwardAdds, DeleteForwardRemoves DEF Goroutine

\* What a handler does to the state, and to its goroutines.
LEMMA HandlerSteps == ASSUME RInv, RInv', Terraform \/ Return PROVE Abstract!Next
<1> USE DEF Harmless, NoFault
<1>1. CASE Refresh \/ Create \/ Delete
  BY <1>1, HarmlessSteps DEF Refresh, Create, Delete, Own
<1>2. CASE Update
  <2>1. (FinishWithRead(saved.forwards) \/ UNCHANGED faults) /\ UNCHANGED <<cloud, config>>
    BY <1>2 DEF Update
  <2> QED
    BY <2>1, FinishHarmless, HarmlessSteps DEF Own
<1>3. CASE ReturnError \/ CreateTheRest \/ ReturnDeleted
  BY <1>3, HarmlessSteps DEF ReturnError, CreateTheRest, ReturnDeleted, Own
<1>4. CASE ReturnRead
  BY <1>4, FinishHarmless, HarmlessSteps DEF ReturnRead
<1> QED
  BY <1>1, <1>2, <1>3, <1>4 DEF Terraform, Return

LEMMA EnvironmentSteps == ASSUME RInv, RInv', Environment PROVE Abstract!Next
<1> USE DEF Harmless, FaultKinds, NoFault
<1>1. CASE Edit
  BY <1>1, EditEdits DEF RInv
<1>2. CASE Import
  BY <1>2, HarmlessSteps DEF Import, Own
<1>3. CASE DeleteOutOfBand
  BY <1>3, HarmlessSteps DEF DeleteOutOfBand, RemoveForward, ProviderState, Own
<1>4. CASE CreateForeign
  BY <1>4, HarmlessSteps DEF CreateForeign, NewForward, ProviderState, Own
<1>5. CASE ReleaseIp
  BY <1>5, HarmlessSteps DEF ReleaseIp, ProviderState, Own
<1>6. CASE Crash
  BY <1>6, DieHarmless, HarmlessSteps DEF Crash, RInv, IInv
<1> QED
  BY <1>1, <1>2, <1>3, <1>4, <1>5, <1>6 DEF Environment

LEMMA StutterSteps == UNCHANGED vars => UNCHANGED Abstract!vars
BY DEF vars, Abstract!vars, Objects, KnownUuids, InHands, Blinded, Idle, Own

LEMMA NextSteps == RInv /\ RInv' /\ [Next]_vars => [Abstract!Next]_(Abstract!vars)
<1> SUFFICES ASSUME RInv, RInv', [Next]_vars PROVE [Abstract!Next]_(Abstract!vars)
  OBVIOUS
<1>1. CASE Terraform \/ Return
  BY <1>1, HandlerSteps
<1>2. CASE \E j \in DOMAIN stage : Goroutine(j)
  BY <1>2, GoroutineSteps
<1>3. CASE Environment
  BY <1>3, EnvironmentSteps
<1>4. CASE UNCHANGED vars
  BY <1>4, StutterSteps
<1> QED
  BY <1>1, <1>2, <1>3, <1>4 DEF Next, Provider

LEMMA InitSteps == Init => Abstract!Init
BY DEF Init, Abstract!Init, Objects, KnownUuids, Blinded, Blinding, Own, UuidsIn, Idle, Gone, Absent

-----------------------------------------------------------------------------
(* Success means applied.                                                  *)

Undisturbed == faults.kinds \cap {"outOfBand", "ipReleased"} = {}

\* After a refresh, and until the plan made from it is carried out, a listed forward
\* exists, under its name or as a dummy, and no uuid is listed twice.
FreshReal ==
  Idle /\ fresh /\ Undisturbed =>
    \A e \in saved.forwards :
      /\ \E c \in cloud : c.uuid = e.uuid /\ (c.fwd = e.fwd \/ e.fwd \in Uuid)
      /\ \A d \in saved.forwards : d.uuid = e.uuid => d = e

\* The forward is in place, and no goroutine is about to delete it.
InPlace(f) ==
  \E c \in cloud : c.fwd = f /\ (op = "delete" => \A j \in DOMAIN stage : work[j].uuid # c.uuid)

\* A goroutine has yet to ask for the forward.
InProgress(f) == Creating /\ \E j \in DOMAIN stage : j.fwd = f /\ stage[j] \in {"spawned", "working"}

\* As long as no error is reported, every configured forward is in place, is being
\* asked for, or waits until the old ones are deleted.
Promised ==
  op \in {"create", "delete", "update"} /\ ~failed /\ Undisturbed =>
    \A f \in config.forwards : Entry(f) \in later \/ InProgress(f) \/ InPlace(f)

AInv == RInv /\ FreshReal /\ Promised /\ OkMeansApplied

\* Nothing a busy handler does touches what is said of the time between operations.
LEMMA BusyFacts == ~Idle' => FreshReal' /\ OkMeansApplied'
BY DEF FreshReal, OkMeansApplied, Idle

LEMMA UndisturbedFacts ==
  ASSUME TypeOK, (NoFault \/ \E kind \in FaultKinds : Fault(kind))
  PROVE  Undisturbed' => Undisturbed
BY FaultFacts DEF NoFault, Undisturbed

\* One goroutine goes on with its forward, and no error is reported.
LEMMA GoroutineAStep ==
  ASSUME RInv, Promised, NEW j \in DOMAIN stage, Goroutine(j), ~ConcurrentMapWrites(j)
  PROVE  FreshReal' /\ Promised' /\ OkMeansApplied'
<1> USE DEF RInv, IInv, HandlerState, Pool!Goto
<1>1. ~Idle /\ work \in [DOMAIN stage -> Entries] /\ work[j].fwd = j.fwd
  BY DEF Quiet, TypeOK, Purpose
<1>2. UNCHANGED <<config, op, later>> /\ DOMAIN stage' = DOMAIN stage /\ (~failed' => ~failed)
      /\ \A i \in DOMAIN stage \ {j} : stage'[i] = stage[i] /\ work'[i] = work[i]
  BY DEF Goroutine, Acquire, Pool!Acquire, RejectForward, CreateForward, CreateForwardFails, DeleteForward,
         DeleteForwardFails, Add, Pool!Collected, Conclude, Pool!StartCollecting, Pool!NothingToCollect, TypeOK
<1>3. Undisturbed' => Undisturbed
  <2>1. NoFault \/ \E kind \in FaultKinds : Fault(kind)
    BY DEF Goroutine, Acquire, RejectForward, CreateForward, CreateForwardFails, DeleteForward,
           DeleteForwardFails, Add, NoFault, FaultKinds
  <2> QED
    BY <2>1, UndisturbedFacts
<1>4. FreshReal' /\ OkMeansApplied'
  BY <1>1, <1>2, BusyFacts DEF Idle
<1>5. Promised'
  <2> SUFFICES ASSUME op \in {"create", "delete", "update"}, ~failed, ~failed', Undisturbed, NEW f \in config.forwards
               PROVE  Entry(f) \in later \/ InProgress(f)' \/ InPlace(f)'
    BY <1>2, <1>3 DEF Promised
  <2>1. Entry(f) \in later \/ InProgress(f) \/ InPlace(f)
    BY DEF Promised
  <2>2. Acquire(j) \/ CreateForward(j) \/ DeleteForward(j) \/ Add(j)
    BY DEF Goroutine, RejectForward, CreateForwardFails, DeleteForwardFails
  <2>3. CASE InProgress(f)
    <3>1. PICK i \in DOMAIN stage : i.fwd = f /\ stage[i] \in {"spawned", "working"} /\ Creating
      BY <2>3 DEF InProgress
    <3>2. Creating'
      BY <1>2, <3>1 DEF Creating
    <3>3. CASE i # j
      BY <1>2, <3>1, <3>2, <3>3 DEF InProgress
    <3>4. CASE i = j /\ Acquire(j)
      BY <1>2, <3>1, <3>2, <3>4 DEF InProgress, Acquire, Pool!Acquire
    <3>5. CASE i = j /\ CreateForward(j)
      <4>1. [uuid |-> NewUuid, fwd |-> f] \in cloud' /\ op' # "delete"
        BY <1>2, <3>1, <3>5 DEF CreateForward, NewForward, Creating
      <4> QED
        BY <4>1 DEF InPlace
    <3>6. CASE i = j /\ (DeleteForward(j) \/ Add(j))
      BY <3>1, <3>6 DEF DeleteForward, Deleting, Creating, Add, Pool!Collected
    <3> QED
      BY <2>2, <3>3, <3>4, <3>5, <3>6
  <2>4. CASE InPlace(f)
    <3>1. PICK c \in cloud : c.fwd = f /\ (op = "delete" => \A i \in DOMAIN stage : work[i].uuid # c.uuid)
      BY <2>4 DEF InPlace
    <3>2. c.uuid # NoUuid
      BY UuidFacts DEF TypeOK
    <3>3. CASE ~DeleteForward(j)
      <4>1. cloud \subseteq cloud' /\ (op = "delete" => work' = work)
        BY <2>2, <3>3 DEF Acquire, CreateForward, NewForward, Creating, Add
      <4> QED
        BY <1>2, <3>1, <4>1 DEF InPlace
    <3>4. CASE DeleteForward(j)
      <4>1. op = "delete" /\ work' = [work EXCEPT ![j].uuid = NoUuid] /\ RemoveForward(work[j].uuid)
        BY <3>4 DEF DeleteForward, Deleting
      <4>2. c \in cloud'
        BY <3>1, <4>1 DEF RemoveForward
      <4>3. \A i \in DOMAIN stage : work'[i].uuid # c.uuid
        BY <1>1, <3>1, <3>2, <4>1 DEF Entries
      <4> QED
        BY <1>2, <3>1, <4>2, <4>3 DEF InPlace
    <3> QED
      BY <3>3, <3>4
  <2> QED
    BY <1>2, <2>1, <2>3, <2>4
<1> QED
  BY <1>4, <1>5

\* Read lists what exists, nothing twice.
LEMMA ReadReal ==
  ASSUME TypeOK, Distinct, NEW es, NEW managed
  PROVE  \A e \in ReadForwards(es, managed) :
           /\ \E c \in cloud : c.uuid = e.uuid /\ (c.fwd = e.fwd \/ e.fwd \in Uuid)
           /\ \A d \in ReadForwards(es, managed) : d.uuid = e.uuid => d = e
<1>1. \A e \in StillThere(es) : \E c \in cloud : c.uuid \in UuidsIn(es) /\ e = Known(c)
  BY DEF StillThere
<1>2. \A e \in ReadForwards(es, managed) \ StillThere(es) :
        \E c \in cloud : c.uuid \notin UuidsIn(es) /\ e = Dummy(c.uuid)
  BY DEF ReadForwards, Ids
<1>3. \A c \in cloud : Known(c).uuid = c.uuid /\ Known(c).fwd = c.fwd /\ c.uuid \in Uuid
                       /\ Dummy(c.uuid).uuid = c.uuid /\ Dummy(c.uuid).fwd = c.uuid
  BY DEF Known, Dummy, TypeOK
<1> HIDE DEF Known, Dummy
<1> QED
  BY <1>1, <1>2, <1>3 DEF Distinct

\* Every way to end a handler forgets that a refresh preceded it.
LEMMA StaleFacts ==
  ASSUME fresh' = FALSE, Idle' \/ op' \notin {"create", "delete", "update"}
  PROVE  FreshReal' /\ Promised'
BY DEF FreshReal, Promised, Idle

LEMMA RefreshAStep == ASSUME RInv, Refresh PROVE FreshReal' /\ Promised' /\ OkMeansApplied'
<1>1. /\ Idle' /\ told' = "read" /\ UNCHANGED <<cloud, faults>>
      /\ saved'.forwards \subseteq ReadForwards(saved.forwards, saved.managed)
  BY DEF Refresh, Idle, ReadState, State, Gone
<1>2. FreshReal'
  BY <1>1, ReadReal DEF RInv, IInv, FreshReal, Undisturbed
<1> QED
  BY <1>1, <1>2 DEF Promised, OkMeansApplied, Idle

\* The handler ends in a Read that succeeds only with everything in place.
LEMMA FinishApplied ==
  ASSUME TypeOK, NEW es, FinishWithRead(es), Idle', UNCHANGED <<cloud, config>>,
         Undisturbed => config.forwards \subseteq {c.fwd : c \in cloud}
  PROVE  FreshReal' /\ Promised' /\ OkMeansApplied'
<1>1. fresh' = FALSE
  BY DEF FinishWithRead, Save
<1>2. NoFault \/ told' = "error"
  BY DEF FinishWithRead, Save
<1>3. OkMeansApplied'
  BY <1>2 DEF NoFault, OkMeansApplied, Undisturbed
<1> QED
  BY <1>1, <1>3, StaleFacts

LEMMA CreateAStep == ASSUME RInv, Create PROVE FreshReal' /\ Promised' /\ OkMeansApplied'
<1>1. /\ op' = "create" /\ stage' = [e \in Wanted |-> "spawned"] /\ UNCHANGED <<config, faults>>
  BY DEF Create, Launch, Pool!Spawn
<1>2. \A f \in config.forwards : Entry(f) \in Wanted /\ Entry(f).fwd = f
  BY DEF Wanted, Entry
<1>3. \A f \in config.forwards : InProgress(f)'
  BY <1>1, <1>2 DEF InProgress, Creating
<1> QED
  BY <1>1, <1>3, BusyFacts DEF Promised, Idle

LEMMA UpdateAStep == ASSUME RInv, FreshReal, Update PROVE FreshReal' /\ Promised' /\ OkMeansApplied'
<1> DEFINE ors == Minus(saved.forwards, Wanted)
           nrs == Minus(Wanted, saved.forwards)
<1>1. Idle /\ fresh /\ UNCHANGED <<cloud, config>> /\ TypeOK /\ config.forwards \subseteq Forwards
  BY DEF Update, RInv, IInv, TypeOK
<1>2. \A f \in config.forwards : Entry(f) \in Wanted /\ Entry(f).fwd = f
  BY DEF Wanted, Entry
\* What is listed under the name of a configured forward is that forward.
<1>3. ASSUME Undisturbed, NEW f \in config.forwards, NEW e \in saved.forwards, e.fwd = f
      PROVE  \E c \in cloud : c.fwd = f /\ c.uuid = e.uuid
  BY <1>1, <1>3, PortForwardAssumption DEF FreshReal, PortForwardAssumption, Uuid
<1>4. CASE Differs /\ UNCHANGED <<saved, told, fresh, faults>>
  <2>1. /\ work' = [e \in DOMAIN stage' |-> e] /\ \A e \in DOMAIN stage' : stage'[e] = "spawned"
        /\ \/ DOMAIN stage' = ors /\ op' = "delete" /\ later' = nrs
           \/ DOMAIN stage' = nrs /\ op' = "update" /\ later' = {}
    BY <1>1, <1>4 DEF Update, Launch, Pool!Spawn, FinishWithRead, Save
  <2>2. \A f \in config.forwards : Entry(f) \in nrs \/ \E e \in saved.forwards : e.fwd = f
    BY <1>2 DEF Minus, Contents
  <2>3. \A e \in ors : e \in saved.forwards /\ e.fwd \notin config.forwards
    BY WantedFacts DEF Minus
  <2> HIDE DEF ors, nrs
  <2>4. ASSUME Undisturbed, NEW f \in config.forwards PROVE Entry(f) \in later' \/ InProgress(f)' \/ InPlace(f)'
    <3>1. CASE Entry(f) \in nrs
      BY <1>2, <2>1, <3>1 DEF InProgress, Creating
    <3>2. CASE \E e \in saved.forwards : e.fwd = f
      <4>1. PICK e \in saved.forwards : e.fwd = f
        BY <3>2
      <4>2. PICK c \in cloud : c.fwd = f /\ c.uuid = e.uuid
        BY <1>3, <2>4, <4>1
      <4>3. op' = "delete" => \A j \in DOMAIN stage' : work'[j].uuid # c.uuid
        BY <1>1, <2>1, <2>3, <2>4, <4>1, <4>2 DEF FreshReal
      <4> QED
        BY <1>1, <4>2, <4>3 DEF InPlace
    <3> QED
      BY <2>2, <3>1, <3>2
  <2> QED
    BY <1>1, <1>4, <2>1, <2>4, BusyFacts DEF Promised, Undisturbed, Idle
<1>5. CASE ~Differs /\ FinishWithRead(saved.forwards) /\ UNCHANGED op
  <2>1. Contents(saved.forwards) = config.forwards
    BY <1>5, WantedFacts DEF Differs
  <2>2. Undisturbed => config.forwards \subseteq {c.fwd : c \in cloud}
    BY <1>3, <2>1 DEF Contents
  <2> QED
    BY <1>1, <1>5, <2>2, FinishApplied DEF Idle
<1> QED
  BY <1>4, <1>5 DEF Update

LEMMA DeleteAStep == ASSUME RInv, OkMeansApplied, FreshReal, Delete PROVE FreshReal' /\ Promised' /\ OkMeansApplied'
<1>1. \/ op' = "destroy"
      \/ fresh' = FALSE /\ told' = "none" /\ Idle'
  BY DEF Delete, Launch, Save, Idle
<1> QED
  BY <1>1, BusyFacts DEF FreshReal, Promised, OkMeansApplied, Idle

\* wg.Wait returned.
LEMMA ReturnAStep == ASSUME RInv, Promised, Return PROVE FreshReal' /\ Promised' /\ OkMeansApplied'
<1>1. CASE ReturnError \/ ReturnDeleted
  <2>1. Idle' /\ fresh' = FALSE /\ told' # "ok"
    BY <1>1 DEF ReturnError, ReturnDeleted, Stop, Save, Idle
  <2> QED
    BY <2>1, StaleFacts DEF OkMeansApplied
<1>2. CASE CreateTheRest
  <2>1. /\ op = "delete" /\ op' = "update" /\ ~failed /\ stage' = [e \in later |-> "spawned"]
        /\ UNCHANGED <<cloud, config, faults>>
    BY <1>2 DEF CreateTheRest, Launch, Pool!Spawn, Waited
  <2>2. ASSUME Undisturbed, NEW f \in config.forwards PROVE InProgress(f)' \/ InPlace(f)'
    <3>1. Entry(f) \in later \/ InPlace(f)
      BY <2>1, <2>2 DEF Promised, InProgress, Creating
    <3> QED
      BY <2>1, <3>1 DEF InProgress, InPlace, Creating, Entry
  <2> QED
    BY <2>1, <2>2, BusyFacts DEF Promised, Undisturbed, Idle
<1>3. CASE ReturnRead
  <2>1. /\ op \in {"create", "delete", "update"} /\ ~failed /\ later = {} /\ Pool!Returned
        /\ FinishWithRead(forwards) /\ Idle' /\ UNCHANGED <<cloud, config>>
    BY <1>3 DEF ReturnRead, Waited, Stop, Idle
  <2>2. Undisturbed => \A f \in config.forwards : InPlace(f)
    BY <2>1 DEF Promised, InProgress, Pool!Returned
  <2>3. Undisturbed => config.forwards \subseteq {c.fwd : c \in cloud}
    BY <2>2 DEF InPlace
  <2> QED
    BY <2>1, <2>3, FinishApplied DEF RInv, IInv
<1> QED
  BY <1>1, <1>2, <1>3 DEF Return

LEMMA EnvironmentAStep == ASSUME AInv, Environment PROVE FreshReal' /\ Promised' /\ OkMeansApplied'
<1> USE DEF AInv
<1>1. CASE Edit \/ Import \/ Crash
  <2>1. Idle' /\ fresh' = FALSE /\ told' # "ok"
    BY <1>1 DEF Edit, Import, Save, Crash, Die, Stop, Idle
  <2> QED
    BY <2>1, StaleFacts DEF OkMeansApplied
<1>2. CASE DeleteOutOfBand \/ ReleaseIp
  <2>1. ~Undisturbed'
    BY <1>2, FaultFacts DEF DeleteOutOfBand, ReleaseIp, Undisturbed, RInv, IInv
  <2> QED
    BY <2>1 DEF FreshReal, Promised, OkMeansApplied, Undisturbed
<1>3. CASE CreateForeign
  <2>1. /\ told' = "none" /\ cloud \subseteq cloud'
        /\ UNCHANGED <<config, saved, fresh, op, later, work, stage, failed>>
    BY <1>3 DEF CreateForeign, NewForward, ProviderState
  <2>2. Undisturbed' => Undisturbed
    BY <1>3, FaultFacts DEF CreateForeign, Undisturbed, RInv, IInv
  <2>3. FreshReal'
    BY <2>1, <2>2 DEF FreshReal, Idle
  <2>4. \A f \in config.forwards : (InProgress(f) => InProgress(f)') /\ (InPlace(f) => InPlace(f)')
    BY <2>1 DEF InProgress, InPlace, Creating
  <2>5. Promised'
    BY <2>1, <2>2, <2>4 DEF Promised
  <2> QED
    BY <2>1, <2>3, <2>5 DEF OkMeansApplied
<1> QED
  BY <1>1, <1>2, <1>3 DEF Environment

LEMMA NextAInv == AInv /\ [Next]_vars => AInv'
<1> SUFFICES ASSUME AInv, [Next]_vars PROVE FreshReal' /\ Promised' /\ OkMeansApplied'
  BY NextRInv DEF AInv
<1>1. CASE Terraform
  BY <1>1, RefreshAStep, CreateAStep, UpdateAStep, DeleteAStep DEF Terraform, AInv
<1>2. CASE \E j \in DOMAIN stage : Goroutine(j)
  <2>1. PICK j \in DOMAIN stage : Goroutine(j)
    BY <1>2
  <2>2. CASE ConcurrentMapWrites(j)
    <3>1. Idle' /\ fresh' = FALSE /\ told' # "ok"
      BY <2>2 DEF ConcurrentMapWrites, Die, Stop, Idle
    <3> QED
      BY <3>1, StaleFacts DEF OkMeansApplied
  <2> QED
    BY <2>1, <2>2, GoroutineAStep DEF AInv
<1>3. CASE Return
  BY <1>3, ReturnAStep DEF AInv
<1>4. CASE Environment
  BY <1>4, EnvironmentAStep
<1>5. CASE UNCHANGED vars
  BY <1>5 DEF vars, AInv, FreshReal, Promised, OkMeansApplied, Undisturbed, InProgress, InPlace, Creating, Idle
<1> QED
  BY <1>1, <1>2, <1>3, <1>4, <1>5 DEF Next, Provider

LEMMA InitAInv == Init => AInv
BY InitRInv DEF Init, AInv, FreshReal, Promised, OkMeansApplied, Gone, Idle

-----------------------------------------------------------------------------
\* The port forward resource implements the reconciler: whatever its goroutines, the
\* failing calls and the other users do, it creates only what is configured and not
\* there, deletes only what is not, or its tainted self, and knows what it made, until
\* an answer is lost, the provider dies or two goroutines meet.
THEOREM Implements == Spec => Reconciles
<1>1. Spec => []RInv
  BY InitRInv, NextRInv, PTL DEF Spec
<1>2. Spec => Abstract!Spec
  BY <1>1, InitSteps, NextSteps, PTL DEF Spec, Abstract!Spec
<1> QED
  BY <1>2 DEF Reconciles

\* An operation that reports success leaves every configured forward in place, however
\* its goroutines were interleaved and whatever failed before it, unless someone
\* deleted a forward or released the address.
THEOREM SuccessApplied == Spec => []OkMeansApplied
<1>1. AInv => OkMeansApplied
  BY DEF AInv
<1> QED
  BY <1>1, InitAInv, NextAInv, PTL DEF Spec

-----------------------------------------------------------------------------
(* What the users of a reconciler can rely on, and so those of the forwards. *)

\* Everything that was made and exists is known.
EverythingKnown == Abstract!Ids(Objects) \subseteq KnownUuids

\* No uuid stands for two objects, and nothing is there twice.
NoDoubles == \A o, p \in Objects : o.uuid = p.uuid \/ o.content = p.content => o = p

LEMMA InitDoubles == Abstract!Init => EverythingKnown /\ NoDoubles
BY DEF Abstract!Init, EverythingKnown, NoDoubles, Abstract!Ids

LEMMA NextDoubles ==
  EverythingKnown /\ NoDoubles /\ [Abstract!Next]_(Abstract!vars) => EverythingKnown' /\ NoDoubles'
<1> SUFFICES ASSUME EverythingKnown, NoDoubles, [Abstract!Next]_(Abstract!vars)
             PROVE  EverythingKnown' /\ NoDoubles'
  OBVIOUS
<1> USE DEF EverythingKnown, NoDoubles, Abstract!Ids
<1> HIDE DEF Objects, KnownUuids
<1>1. CASE Abstract!Edit
  BY <1>1 DEF Abstract!Edit
<1>2. CASE Abstract!Add
  BY <1>2 DEF Abstract!Add, Abstract!Contents
<1>3. CASE Abstract!Remove
  BY <1>3 DEF Abstract!Remove
<1>4. CASE Abstract!Book
  BY <1>4 DEF Abstract!Book
<1>5. CASE Abstract!Mishap
  BY <1>5 DEF Abstract!Mishap
<1>6. CASE UNCHANGED Abstract!vars
  BY <1>6 DEF Abstract!vars
<1> QED
  BY <1>1, <1>2, <1>3, <1>4, <1>5, <1>6 DEF Abstract!Next

\* A reconciler knows what it has made, and has made nothing twice; and so the
\* resource never creates a forward a second time, until a fault blinds it.
THEOREM NothingLostOrDoubled == Spec => [](EverythingKnown /\ NoDoubles)
<1>1. Spec => Abstract!Spec
  BY Implements DEF Reconciles
<1> QED
  BY <1>1, InitDoubles, NextDoubles, PTL DEF Abstract!Spec
=============================================================================
