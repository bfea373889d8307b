--------------------------- MODULE Firewall_proofs ---------------------------
(***************************************************************************)
(* For any rules, any configurations and any bounds, and for both firewall *)
(* resources: no rule is forgotten, however few of its ports were created  *)
(* or deleted, and an operation that reports success has opened every port *)
(* of the configuration.                                                   *)
(***************************************************************************)
EXTENDS EgressFirewall, TLAPS

-----------------------------------------------------------------------------
(* The inductive invariant.                                                *)

\* The block e has the uuid u at one of the ports it lists: only those Read looks
\* for.
Names(e, u) == \E p \in e.ports \cap DOMAIN e.uuids : e.uuids[p] = u

\* Between operations no handler has anything in its hands.
Quiet == Idle => DOMAIN stage = {} /\ rules = {} /\ later = {}

\* What is to be created is configured.
Fresh ==
  /\ \A e \in later : e.rule \in Rules
  /\ Creating => \A j \in DOMAIN stage : work[j].rule \in Rules

Unborn == ~saved.id => saved.rules = {}

\* A destroy without an error has put nothing back.
Destroyed ==
  op = "destroy" /\ ~failed => rules = {} /\ \A j \in DOMAIN stage : stage[j] # "collecting"

\* The goroutines that have not finished.
Live == {j \in DOMAIN stage : stage[j] \in {"spawned", "working", "collecting"}}

\* Some block of the set has the uuid of a rule, or a goroutine has yet to put it
\* there; between operations one of the state has it.
Held ==
  ~Blinded /\ ~Idle => \A c \in Own :
    (\E e \in rules : Names(e, c.uuid)) \/ (\E j \in Live : Names(work[j], c.uuid))
Kept == ~Blinded /\ Idle => \A c \in Own : \E e \in saved.rules : Names(e, c.uuid)

IInv == TypeOK /\ Quiet /\ Fresh /\ Unborn /\ Destroyed /\ Held /\ Kept /\ StateIsReal

-----------------------------------------------------------------------------
(* Blocks.                                                                 *)

LEMMA EntryFacts ==
  ASSUME NEW r \in Rules PROVE EntryOK(Entry(r)) /\ Entry(r).rule = r
<1>1. PortsOf[r] \subseteq Keys
  BY DEF Keys
<1>2. DOMAIN Entry(r) = {"rule", "ports", "uuids"} /\ Entry(r).rule = r /\ Entry(r).ports = PortsOf[r]
      /\ Entry(r).uuids = NoUuids
  BY DEF Entry
<1>3. DOMAIN NoUuids = {}
  BY DEF NoUuids
<1> QED
  BY <1>1, <1>2, <1>3 DEF EntryOK, EntryUuids, Range

\* A port gets a uuid: it is named, and whatever was, still is.
LEMMA WithUuidFacts ==
  ASSUME NEW e, EntryOK(e), NEW p \in Keys, p \notin DOMAIN e.uuids, NEW u \in Uuid
  PROVE  /\ EntryOK(WithUuid(e, p, u)) /\ WithUuid(e, p, u).rule = e.rule
         /\ Names(WithUuid(e, p, u), u)
         /\ \A v : Names(e, v) => Names(WithUuid(e, p, u), v)
         /\ DOMAIN WithUuid(e, p, u).uuids = DOMAIN e.uuids \cup {p} /\ WithUuid(e, p, u).uuids[p] = u
         /\ \A x \in DOMAIN e.uuids : WithUuid(e, p, u).uuids[x] = e.uuids[x]
<1> DEFINE f == WithUuid(e, p, u)
<1>1. DOMAIN f = {"rule", "ports", "uuids"} /\ f.rule = e.rule /\ f.ports = DOMAIN e.uuids \cup {p}
      /\ f.uuids = [x \in DOMAIN e.uuids \cup {p} |-> IF x = p THEN u ELSE e.uuids[x]]
  BY DEF WithUuid, EntryOK
<1> HIDE DEF f
<1>2. DOMAIN f.uuids = DOMAIN e.uuids \cup {p} /\ f.uuids[p] = u
      /\ \A x \in DOMAIN e.uuids : f.uuids[x] = e.uuids[x]
  BY <1>1
<1>3. EntryOK(f)
  BY <1>1, <1>2 DEF EntryOK, EntryUuids, Range
<1>4. Names(f, u) /\ \A v : Names(e, v) => Names(f, v)
  BY <1>1, <1>2 DEF Names
<1> QED
  BY <1>1, <1>2, <1>3, <1>4 DEF f

\* The key k loses its uuid: all others are still named.
Less(e, k) == [e EXCEPT !.uuids = Restrict(e.uuids, DOMAIN e.uuids \ {k})]

LEMMA LessFacts ==
  ASSUME NEW e, EntryOK(e), NEW k \in DOMAIN e.uuids
  PROVE  /\ EntryOK(Less(e, k)) /\ Less(e, k).rule = e.rule /\ Less(e, k).ports = e.ports
         /\ \A v : Names(e, v) /\ v # e.uuids[k] => Names(Less(e, k), v)
         /\ DOMAIN Less(e, k).uuids = DOMAIN e.uuids \ {k}
         /\ \A x \in DOMAIN e.uuids \ {k} : Less(e, k).uuids[x] = e.uuids[x]
<1> DEFINE f == Less(e, k)
<1>1. DOMAIN f = {"rule", "ports", "uuids"} /\ f.rule = e.rule /\ f.ports = e.ports
      /\ f.uuids = [x \in DOMAIN e.uuids \ {k} |-> e.uuids[x]]
  BY DEF Less, EntryOK, Restrict
<1> HIDE DEF f
<1>2. DOMAIN f.uuids = DOMAIN e.uuids \ {k} /\ \A x \in DOMAIN e.uuids \ {k} : f.uuids[x] = e.uuids[x]
  BY <1>1
<1>3. EntryOK(f)
  BY <1>1, <1>2 DEF EntryOK, EntryUuids, Range
<1>4. \A v : Names(e, v) /\ v # e.uuids[k] => Names(f, v)
  BY <1>1, <1>2 DEF Names
<1> QED
  BY <1>1, <1>2, <1>3, <1>4 DEF f

LEMMA NothingNamed == ASSUME NEW e, e.uuids = NoUuids PROVE \A u : ~Names(e, u)
  BY DEF Names, NoUuids

\* A fault is one more, and is remembered.
LEMMA FaultFacts ==
  ASSUME TypeOK, NEW kind, Fault(kind)
  PROVE  /\ faults' \in [number : 0..MaxFaults, kinds : SUBSET FaultKinds]
         /\ faults'.kinds = faults.kinds \cup {kind}
  BY FirewallAssumption DEF TypeOK, Fault, FirewallAssumption

LEMMA NewUuidFacts == ASSUME Unused # {} PROVE NewUuid \in Uuid
  BY DEF NewUuid, Unused

LEMMA InitIInv == Init => IInv
<1> SUFFICES ASSUME Init PROVE IInv
  OBVIOUS
<1> USE DEF Init, Pool!Spawn, Idle
<1>1. DOMAIN saved = {"id", "tainted", "managed", "rules"} /\ saved.rules = {} /\ saved.id = FALSE
      /\ saved.tainted = FALSE /\ saved.managed = FALSE
  BY DEF Gone
<1>2. config \in [present : BOOLEAN, managed : BOOLEAN, rules : SUBSET Rules]
  BY DEF Absent
<1>3. faults \in [number : 0..MaxFaults, kinds : SUBSET FaultKinds] /\ changes \in 0..MaxChanges
  BY FirewallAssumption DEF FirewallAssumption
<1>4. TypeOK
  BY <1>1, <1>2, <1>3 DEF TypeOK
<1>5. Quiet /\ Fresh /\ Unborn /\ Destroyed
  BY <1>1 DEF Quiet, Fresh, Creating, Unborn, Destroyed
<1>6. Held /\ Kept /\ StateIsReal
  BY <1>1 DEF Held, Kept, StateIsReal, Own
<1> QED
  BY <1>4, <1>5, <1>6 DEF IInv

-----------------------------------------------------------------------------
(* The goroutines.                                                         *)

\* One goroutine goes on with the block e; the handler and the set are untouched.
\* What a rule is named by in its hands stays named, and a new rule is.
GoesOn(j, e) ==
  /\ DOMAIN stage' = DOMAIN stage /\ DOMAIN work' = DOMAIN work
  /\ \A i \in DOMAIN stage \ {j} : stage'[i] = stage[i] /\ work'[i] = work[i]
  /\ work'[j] = e /\ EntryOK(e) /\ e.rule = work[j].rule /\ stage'[j] \in Pool!Stages
  /\ stage[j] \in {"spawned", "working"}
  /\ stage'[j] \in {"spawned", "working", "collecting"} \/ \A u : ~Names(e, u)
  /\ UNCHANGED <<rules, HandlerState>>
  /\ \A c \in cloud' : c.uuid \in Uuid /\ c.rule \in Rules \cup {Foreign} /\ c.port \in Keys
  /\ failed' \in BOOLEAN /\ (failed => failed')
  /\ op = "destroy" /\ ~failed' => stage'[j] # "collecting"
  /\ faults' \in [number : 0..MaxFaults, kinds : SUBSET FaultKinds]
  /\ ~Blinded' => /\ ~Blinded
                  /\ \A c \in Own' : Names(e, c.uuid) \/ (c \in Own /\ ~Names(work[j], c.uuid))

LEMMA GoesOnStep == ASSUME IInv, NEW j \in DOMAIN stage, NEW e, GoesOn(j, e) PROVE IInv'
<1> USE DEF IInv, HandlerState
<1>1. ~Idle
  BY DEF Quiet
<1>2. /\ DOMAIN stage' = DOMAIN stage /\ DOMAIN work' = DOMAIN work
      /\ \A i \in DOMAIN stage \ {j} : stage'[i] = stage[i] /\ work'[i] = work[i]
      /\ work'[j] = e /\ EntryOK(e) /\ e.rule = work[j].rule /\ stage'[j] \in Pool!Stages
      /\ UNCHANGED <<rules, config, saved, fresh, op, later, told, changes>>
  BY DEF GoesOn
<1>3. TypeOK'
  <2>1. \A i \in DOMAIN stage' : EntryOK(i) /\ EntryOK(work'[i]) /\ stage'[i] \in Pool!Stages
    BY <1>2 DEF TypeOK
  <2> QED
    BY <1>2, <2>1 DEF GoesOn, TypeOK
<1>4. Quiet' /\ Unborn' /\ Kept' /\ StateIsReal'
  BY <1>1, <1>2 DEF Quiet, Unborn, Kept, StateIsReal, Idle
<1>5. Fresh'
  BY <1>2 DEF Fresh, Creating
<1>6. Destroyed'
  BY <1>2 DEF Destroyed, GoesOn
<1>7. Held'
  <2> SUFFICES ASSUME ~Blinded', NEW c \in Own'
               PROVE  (\E x \in rules' : Names(x, c.uuid)) \/ (\E i \in Live' : Names(work'[i], c.uuid))
    BY DEF Held
  <2>1. Names(e, c.uuid) \/ (c \in Own /\ ~Names(work[j], c.uuid) /\ ~Blinded)
    BY DEF GoesOn
  <2>2. CASE Names(e, c.uuid)
    <3>1. j \in Live'
      BY <1>2, <2>2 DEF GoesOn, Live
    <3> QED
      BY <1>2, <2>2, <3>1
  <2>3. CASE c \in Own /\ ~Names(work[j], c.uuid) /\ ~Blinded
    <3>1. (\E x \in rules : Names(x, c.uuid)) \/ (\E i \in Live : Names(work[i], c.uuid))
      BY <1>1, <2>3 DEF Held
    <3>2. \A i \in Live : Names(work[i], c.uuid) => i \in Live' /\ work'[i] = work[i]
      BY <1>2, <2>3 DEF Live
    <3> QED
      BY <1>2, <3>1, <3>2
  <2> QED
    BY <2>1, <2>2, <2>3
<1> QED
  BY <1>3, <1>4, <1>5, <1>6, <1>7

\* The goroutine is done with its block, or puts it into the set.
LEMMA ConcludeFacts ==
  ASSUME NEW j \in DOMAIN stage, NEW e, Conclude(j, e)
  PROVE  /\ stage[j] = "working" /\ DOMAIN stage' = DOMAIN stage
         /\ \A i \in DOMAIN stage \ {j} : stage'[i] = stage[i]
         /\ stage'[j] \in Pool!Stages
         /\ stage'[j] = "collecting" \/ \A u : ~Names(e, u)
         /\ e.uuids = NoUuids => stage'[j] = "done"
  BY NothingNamed DEF Conclude, Pool!StartCollecting, Pool!NothingToCollect, Pool!Goto, Pool!Stages

LEMMA AcquireStep == ASSUME IInv, NEW j \in DOMAIN stage, Acquire(j) PROVE IInv'
<1> USE DEF IInv
<1>1. /\ stage[j] = "spawned" /\ stage' = [stage EXCEPT ![j] = "working"]
      /\ UNCHANGED <<cloud, rules, work, failed, faults, HandlerState>>
  BY DEF Acquire, Pool!Acquire, Pool!Goto
<1>2. GoesOn(j, work[j])
  BY <1>1 DEF GoesOn, TypeOK, Blinded, Own, Pool!Stages
<1> QED
  BY <1>2, GoesOnStep

LEMMA RejectStep == ASSUME IInv, NEW j \in DOMAIN stage, RejectRule(j) PROVE IInv'
<1> USE DEF IInv
<1>1. /\ Conclude(j, work[j]) /\ failed' = TRUE
      /\ UNCHANGED <<cloud, rules, work, faults, HandlerState>>
  BY DEF RejectRule
<1>2. GoesOn(j, work[j])
  BY <1>1, ConcludeFacts DEF GoesOn, TypeOK, Blinded, Own
<1> QED
  BY <1>2, GoesOnStep

\* A rule that is asked for at the port p.
LEMMA NewRuleFacts ==
  ASSUME TypeOK, NEW r \in Rules, NEW p \in PortsOf[r], NewRule(r, p)
  PROVE  /\ NewUuid \in Uuid /\ p \in Keys
         /\ \A c \in cloud' : c.uuid \in Uuid /\ c.rule \in Rules \cup {Foreign} /\ c.port \in Keys
         /\ \A c \in Own' : c \in Own \/ c.uuid = NewUuid
<1>1. p \in Keys
  BY DEF Keys
<1> QED
  BY <1>1, NewUuidFacts DEF NewRule, TypeOK, Own

LEMMA CreatePortStep ==
  ASSUME IInv, NEW j \in DOMAIN stage, stage[j] = "working", Creating, NEW p \in Todo(work[j]), CreatePort(j, p)
  PROVE  IInv'
<1> USE DEF IInv
<1> DEFINE e == work[j]
           f == WithUuid(e, p, NewUuid)
<1>1. e.rule \in Rules /\ p \in PortsOf[e.rule] /\ p \notin DOMAIN e.uuids /\ EntryOK(e) /\ op # "destroy"
  BY DEF Fresh, Todo, Creating, TypeOK
<1>2. /\ NewRule(e.rule, p) /\ work' = [work EXCEPT ![j] = f] /\ faults' = faults
      /\ Conclude(j, f) \/ stage' = stage
      /\ UNCHANGED <<rules, failed, HandlerState>>
  BY DEF CreatePort, NoFault
<1>3. /\ NewUuid \in Uuid /\ p \in Keys
      /\ \A c \in cloud' : c.uuid \in Uuid /\ c.rule \in Rules \cup {Foreign} /\ c.port \in Keys
      /\ \A c \in Own' : c \in Own \/ c.uuid = NewUuid
  BY <1>1, <1>2, NewRuleFacts
<1>4. EntryOK(f) /\ f.rule = e.rule /\ Names(f, NewUuid) /\ \A v : Names(e, v) => Names(f, v)
  BY <1>1, <1>3, WithUuidFacts
<1> HIDE DEF f
<1>5. /\ DOMAIN stage' = DOMAIN stage /\ \A i \in DOMAIN stage \ {j} : stage'[i] = stage[i]
      /\ stage'[j] \in {"working", "collecting"} /\ stage'[j] \in Pool!Stages
  BY <1>2, <1>4, ConcludeFacts DEF TypeOK
<1>6. GoesOn(j, f)
  BY <1>1, <1>2, <1>3, <1>4, <1>5 DEF GoesOn, TypeOK, Blinded
<1> QED
  BY <1>6, GoesOnStep

LEMMA CreatePortFailsStep ==
  ASSUME IInv, NEW j \in DOMAIN stage, Creating, NEW p \in Todo(work[j]), CreatePortFails(j, p),
         work[j].rule \in Rules
  PROVE  IInv'
<1> USE DEF IInv
<1>1. /\ Conclude(j, work[j]) /\ failed' = TRUE /\ UNCHANGED <<rules, work, HandlerState>>
  BY DEF CreatePortFails
<1>2. /\ faults' \in [number : 0..MaxFaults, kinds : SUBSET FaultKinds]
      /\ ~Blinded' => ~Blinded /\ cloud' = cloud
  BY FaultFacts DEF CreatePortFails, NoFault, Blinded, Blinding, TypeOK
<1>3. \A c \in cloud' : c.uuid \in Uuid /\ c.rule \in Rules \cup {Foreign} /\ c.port \in Keys
  BY NewRuleFacts DEF CreatePortFails, TypeOK, Todo
<1>4. GoesOn(j, work[j])
  BY <1>1, <1>2, <1>3, ConcludeFacts DEF GoesOn, TypeOK, Own
<1> QED
  BY <1>4, GoesOnStep

LEMMA CreateRuleStep == ASSUME IInv, NEW j \in DOMAIN stage, CreateRule(j) PROVE IInv'
<1>1. work[j].rule \in Rules /\ Creating /\ stage[j] = "working"
  BY DEF IInv, Fresh, CreateRule
<1>2. CASE \E p \in Todo(work[j]) : CreatePort(j, p) \/ CreatePortFails(j, p)
  BY <1>1, <1>2, CreatePortStep, CreatePortFailsStep
<1>3. CASE Conclude(j, work[j]) /\ UNCHANGED <<cloud, rules, work, failed, faults, HandlerState>>
  <2>1. op # "destroy"
    BY <1>1 DEF Creating
  <2>2. GoesOn(j, work[j])
    BY <1>3, <2>1, ConcludeFacts DEF GoesOn, IInv, TypeOK, Blinded, Own
  <2> QED
    BY <2>2, GoesOnStep
<1> QED
  BY <1>2, <1>3 DEF CreateRule

LEMMA DeleteRuleStep == ASSUME IInv, NEW j \in DOMAIN stage, DeleteRule(j) PROVE IInv'
<1> USE DEF IInv
<1> DEFINE e == work[j]
<1>1. stage[j] = "working" /\ EntryOK(e)
  BY DEF DeleteRule, TypeOK
<1>2. PICK k \in DOMAIN e.uuids : DeletePort(j, k) \/ DeletePortFails(j, k)
  BY DEF DeleteRule
<1>3. CASE DeletePort(j, k)
  <2>1. /\ RemoveRule(e.uuids[k]) /\ faults' = faults /\ work' = [work EXCEPT ![j] = Less(e, k)]
        /\ (Less(e, k).uuids = NoUuids /\ Conclude(j, Less(e, k))) \/ stage' = stage
        /\ UNCHANGED <<rules, failed, HandlerState>>
    BY <1>3 DEF DeletePort, NoFault, Less
  <2>2. /\ EntryOK(Less(e, k)) /\ Less(e, k).rule = e.rule
        /\ \A v : Names(e, v) /\ v # e.uuids[k] => Names(Less(e, k), v)
    BY <1>1, LessFacts
  <2>3. /\ DOMAIN stage' = DOMAIN stage /\ \A i \in DOMAIN stage \ {j} : stage'[i] = stage[i]
        /\ stage'[j] \in Pool!Stages /\ stage'[j] # "collecting"
        /\ stage'[j] = "working" \/ \A u : ~Names(Less(e, k), u)
    BY <1>1, <2>1, ConcludeFacts DEF TypeOK
  <2>4. \A c \in cloud' : c \in cloud /\ c.uuid # e.uuids[k]
    BY <2>1 DEF RemoveRule
  <2>5. GoesOn(j, Less(e, k))
    BY <1>1, <2>1, <2>2, <2>3, <2>4 DEF GoesOn, TypeOK, Blinded, Own
  <2> QED
    BY <2>5, GoesOnStep
<1>4. CASE DeletePortFails(j, k)
  <2>1. /\ Conclude(j, e) /\ failed' = TRUE /\ UNCHANGED <<rules, work, HandlerState>>
        /\ \A c \in cloud' : c \in cloud
    BY <1>4 DEF DeletePortFails, RemoveRule
  <2>2. faults' \in [number : 0..MaxFaults, kinds : SUBSET FaultKinds] /\ (~Blinded' => ~Blinded)
    BY <1>4, FaultFacts DEF DeletePortFails, Blinded
  <2>3. GoesOn(j, e)
    BY <1>1, <2>1, <2>2, ConcludeFacts DEF GoesOn, TypeOK, Own
  <2> QED
    BY <2>3, GoesOnStep
<1> QED
  BY <1>2, <1>3, <1>4

LEMMA AddStep == ASSUME IInv, NEW j \in DOMAIN stage, Add(j) PROVE IInv'
<1> USE DEF IInv
<1>1. /\ stage[j] = "collecting" /\ stage' = [stage EXCEPT ![j] = "done"]
      /\ rules \subseteq rules' /\ rules' \subseteq rules \cup {work[j]}
      /\ faults' \in [number : 0..MaxFaults, kinds : SUBSET FaultKinds]
      /\ ~Blinded' => ~Blinded /\ rules' = rules \cup {work[j]}
      /\ UNCHANGED <<cloud, work, failed, config, saved, fresh, op, later, told, changes>>
  <2>1. /\ stage[j] = "collecting" /\ stage' = [stage EXCEPT ![j] = "done"]
        /\ UNCHANGED <<cloud, work, failed, config, saved, fresh, op, later, told, changes>>
    BY DEF Add, HandlerState, Pool!Collected, Pool!Goto
  <2>2. CASE rules' = rules \cup {work[j]} /\ NoFault
    BY <2>1, <2>2 DEF NoFault, Blinded, TypeOK
  <2>3. CASE Fault("race") /\ UNCHANGED rules
    BY <2>1, <2>3, FaultFacts DEF Blinded, Blinding
  <2> QED
    BY <2>2, <2>3 DEF Add
<1>2. ~Idle
  BY DEF Quiet
<1>3. TypeOK'
  BY <1>1 DEF TypeOK, Pool!Stages
<1>4. Quiet' /\ Fresh' /\ Unborn' /\ Kept' /\ StateIsReal'
  BY <1>1, <1>2 DEF Quiet, Fresh, Creating, Unborn, Kept, StateIsReal, Idle
<1>5. Destroyed'
  BY <1>1 DEF Destroyed
<1>6. Held'
  <2> SUFFICES ASSUME ~Blinded', NEW c \in Own
               PROVE  (\E x \in rules' : Names(x, c.uuid)) \/ (\E i \in Live' : Names(work'[i], c.uuid))
    BY <1>1 DEF Held, Own
  <2>1. (\E x \in rules : Names(x, c.uuid)) \/ (\E i \in Live : Names(work[i], c.uuid))
    BY <1>1, <1>2 DEF Held
  <2>2. \A i \in Live : i = j \/ i \in Live'
    BY <1>1 DEF Live, TypeOK
  <2> QED
    BY <1>1, <2>1, <2>2
<1> QED
  BY <1>3, <1>4, <1>5, <1>6

-----------------------------------------------------------------------------
(* What Read makes of the blocks es.                                       *)

LEMMA KnownFacts ==
  ASSUME NEW es, \A e \in es : EntryOK(e)
  PROVE  /\ \A x \in Known(es) : EntryOK(x) /\ EntryUuids(x) \subseteq Ids(cloud) /\ x.ports = DOMAIN x.uuids
         /\ \A c \in cloud : (\E e \in es : Names(e, c.uuid)) => \E x \in Known(es) : Names(x, c.uuid)
<1> DEFINE Left(e) == [rule |-> e.rule, ports |-> Found(e), uuids |-> Restrict(e.uuids, Found(e))]
<1>1. ASSUME NEW e \in es
      PROVE  /\ DOMAIN Left(e) = {"rule", "ports", "uuids"} /\ Left(e).rule = e.rule /\ Left(e).ports = Found(e)
             /\ DOMAIN Left(e).uuids = Found(e) /\ \A p \in Found(e) : Left(e).uuids[p] = e.uuids[p]
  BY DEF Restrict
<1>2. Known(es) = {Left(e) : e \in {x \in es : Found(x) # {}}}
  BY DEF Known
<1> HIDE DEF Left
<1>3. ASSUME NEW e \in es
      PROVE  /\ EntryOK(Left(e)) /\ EntryUuids(Left(e)) \subseteq Ids(cloud)
             /\ Left(e).ports = DOMAIN Left(e).uuids
  <2>1. \A p \in Found(e) : p \in e.ports /\ p \in DOMAIN e.uuids /\ e.uuids[p] \in Ids(cloud)
    BY DEF Found
  <2>2. EntryUuids(Left(e)) \subseteq Ids(cloud) /\ EntryUuids(Left(e)) \subseteq EntryUuids(e)
    BY <1>1, <2>1 DEF EntryUuids, Range
  <2> QED
    BY <1>1, <2>1, <2>2 DEF EntryOK
<1>4. ASSUME NEW c \in cloud, NEW e \in es, Names(e, c.uuid)
      PROVE  Found(e) # {} /\ Names(Left(e), c.uuid)
  <2>1. PICK p \in e.ports \cap DOMAIN e.uuids : e.uuids[p] = c.uuid
    BY <1>4 DEF Names
  <2>2. p \in Found(e)
    BY <2>1 DEF Found, Ids
  <2> QED
    BY <1>1, <2>1, <2>2 DEF Names
<1> QED
  BY <1>2, <1>3, <1>4

LEMMA DummyFacts ==
  ASSUME NEW u \in Uuid PROVE EntryOK(Dummy(u)) /\ EntryUuids(Dummy(u)) = {u} /\ Dummy(u).rule \notin Rules
<1>1. DOMAIN Dummy(u) = {"rule", "ports", "uuids"} /\ Dummy(u).rule = u /\ Dummy(u).ports = {}
      /\ DOMAIN Dummy(u).uuids = {u} /\ Dummy(u).uuids[u] = u
  BY DEF Dummy
<1>2. EntryUuids(Dummy(u)) = {u}
  BY <1>1 DEF EntryUuids, Range
<1>3. u \in Keys /\ u \notin Rules
  BY FirewallAssumption DEF Keys, Uuid, FirewallAssumption
<1> QED
  BY <1>1, <1>2, <1>3 DEF EntryOK

\* The state is well formed, and lists what exists.
StateOK(s) ==
  /\ DOMAIN s = {"id", "tainted", "managed", "rules"}
  /\ {s.id, s.tainted, s.managed} \subseteq BOOLEAN
  /\ \A e \in s.rules : EntryOK(e)
  /\ ~s.id => s.rules = {}
Lists(es) == \A c \in Own : \E e \in es : Names(e, c.uuid)
Real(s) ==
  \/ s.managed /\ cloud = {}
  \/ \A e \in s.rules : EntryUuids(e) \subseteq Ids(cloud) /\ (e.rule \in Rules => e.ports = DOMAIN e.uuids)

LEMMA ReadFacts ==
  ASSUME TypeOK, NEW es, \A e \in es : EntryOK(e), NEW tainted \in BOOLEAN, NEW managed \in BOOLEAN
  PROVE  LET s == ReadState(es, tainted, managed)
         IN StateOK(s) /\ Real(s) /\ (Lists(es) => Lists(s.rules))
<1> DEFINE rs == ReadRules(es, managed)
           s == ReadState(es, tainted, managed)
<1>1. /\ \A x \in Known(es) : EntryOK(x) /\ EntryUuids(x) \subseteq Ids(cloud) /\ x.ports = DOMAIN x.uuids
      /\ \A c \in cloud : (\E e \in es : Names(e, c.uuid)) => \E x \in Known(es) : Names(x, c.uuid)
  BY KnownFacts
<1>2. \A u \in Unknown(es) :
        u \in Ids(cloud) /\ EntryOK(Dummy(u)) /\ EntryUuids(Dummy(u)) = {u} /\ Dummy(u).rule \notin Rules
  <2>1. Ids(cloud) \subseteq Uuid
    BY DEF TypeOK, Ids
  <2> QED
    BY <2>1, DummyFacts DEF Unknown
<1>3. \A x \in rs : EntryOK(x) /\ EntryUuids(x) \subseteq Ids(cloud) /\ (x.rule \in Rules => x.ports = DOMAIN x.uuids)
  BY <1>1, <1>2 DEF ReadRules
<1>4. Lists(es) => Lists(rs)
  BY <1>1 DEF Lists, ReadRules, Own
<1> HIDE DEF rs
<1>5. CASE rs # {}
  <2>1. s = [id |-> TRUE, tainted |-> tainted, managed |-> managed, rules |-> rs]
    BY <1>5 DEF ReadState, State, rs
  <2> QED
    BY <1>3, <1>4, <2>1 DEF StateOK, Real
<1>6. CASE rs = {} /\ managed
  <2>1. s = [id |-> TRUE, tainted |-> tainted, managed |-> managed, rules |-> es]
    BY <1>6 DEF ReadState, State, rs
  <2>2. Known(es) = {} /\ Unknown(es) = {}
    BY <1>6 DEF ReadRules, rs
  <2>3. cloud = {}
    BY <2>2 DEF Unknown, UuidsIn, Ids
  <2>4. /\ DOMAIN s = {"id", "tainted", "managed", "rules"} /\ s.id = TRUE
        /\ s.tainted = tainted /\ s.managed = managed /\ s.rules = es
    BY <2>1
  <2> HIDE DEF s
  <2>5. StateOK(s) /\ Real(s) /\ (Lists(es) => Lists(s.rules))
    BY <1>6, <2>3, <2>4 DEF StateOK, Real
  <2> QED
    BY <2>5 DEF s
<1>7. CASE rs = {} /\ ~managed
  <2>1. s = [id |-> FALSE, tainted |-> FALSE, managed |-> FALSE, rules |-> {}]
    BY <1>7 DEF ReadState, Gone, rs
  <2> QED
    BY <1>4, <1>7, <2>1 DEF StateOK, Real
<1> QED
  BY <1>5, <1>6, <1>7

\* The state a handler leaves behind when it ends in Read, or fails in it.
LEMMA FinishFacts ==
  ASSUME TypeOK, NEW es, \A e \in es : EntryOK(e), FinishWithRead(es)
  PROVE  /\ StateOK(saved') /\ fresh' = FALSE /\ told' \in {"ok", "error"}
         /\ faults' \in [number : 0..MaxFaults, kinds : SUBSET FaultKinds]
         /\ ~Blinded' => ~Blinded
         /\ Lists(es) => Lists(saved'.rules)
         /\ told' = "ok" => Real(saved')
<1>1. config.managed \in BOOLEAN /\ saved.managed \in BOOLEAN /\ saved.id \in BOOLEAN /\ saved.tainted \in BOOLEAN
  BY DEF TypeOK
<1>2. CASE NoFault /\ Save(ReadState(es, FALSE, config.managed), "ok")
  <2> DEFINE s == ReadState(es, FALSE, config.managed)
  <2>1. StateOK(s) /\ Real(s) /\ (Lists(es) => Lists(s.rules))
    BY <1>1, ReadFacts
  <2>2. saved' = s /\ told' = "ok" /\ fresh' = FALSE /\ faults' = faults
    BY <1>2 DEF NoFault, Save
  <2> HIDE DEF s
  <2>3. faults' \in [number : 0..MaxFaults, kinds : SUBSET FaultKinds] /\ (~Blinded' => ~Blinded)
    BY <2>2 DEF TypeOK, Blinded
  <2> QED
    BY <2>1, <2>2, <2>3
<1>3. CASE Fault("apiError") /\ Save(Partial(es), "error")
  <2>1. saved' = Partial(es) /\ told' = "error" /\ fresh' = FALSE
    BY <1>3 DEF Save
  <2>2. StateOK(saved') /\ saved'.rules = es
    BY <1>1, <2>1 DEF Partial, State, StateOK
  <2>3. faults' \in [number : 0..MaxFaults, kinds : SUBSET FaultKinds] /\ (~Blinded' => ~Blinded)
    BY <1>3, FaultFacts DEF Blinded
  <2> QED
    BY <2>1, <2>2, <2>3
<1> QED
  BY <1>2, <1>3 DEF FinishWithRead

-----------------------------------------------------------------------------
(* The handlers up to their first fan-out.                                 *)

\* A step between operations that only changes the state.
LEMMA IdleStep ==
  ASSUME IInv, Idle, UNCHANGED <<cloud, op, rules, later, work, stage, failed, config, changes>>,
         StateOK(saved'), fresh' \in BOOLEAN, told' \in {"none", "ok", "error", "read"},
         faults' \in [number : 0..MaxFaults, kinds : SUBSET FaultKinds],
         ~Blinded' => ~Blinded /\ (Lists(saved.rules) => Lists(saved'.rules)),
         told' \in {"ok", "read"} => Real(saved')
  PROVE  IInv'
<1> USE DEF IInv
<1>1. TypeOK'
  BY DEF TypeOK, StateOK
<1>2. Quiet' /\ Fresh' /\ Unborn' /\ Destroyed' /\ Held'
  BY DEF Quiet, Fresh, Creating, Unborn, Destroyed, Held, Idle, StateOK
<1>3. Kept'
  <2>1. ~Blinded' => Lists(saved'.rules)
    BY DEF Kept, Lists
  <2> QED
    BY <2>1 DEF Kept, Lists, Own
<1>4. StateIsReal'
  BY DEF StateIsReal, Real, Overlooked, Ids
<1> QED
  BY <1>1, <1>2, <1>3, <1>4

\* A fan-out over `batch': what the state named is in its hands, or stays in the set.
LEMMA LaunchStep ==
  ASSUME IInv, NEW phase \in {"create", "delete", "update", "destroy"}, NEW batch, Launch(phase, batch),
         UNCHANGED <<cloud, saved, fresh, told, config, faults, changes>>,
         \A e \in batch \cup rules' \cup later' : EntryOK(e),
         phase \in {"create", "update"} => \A e \in batch : e.rule \in Rules,
         phase = "destroy" => rules' = {},
         \A e \in later' : e.rule \in Rules,
         ~Blinded => Lists(rules' \cup batch)
  PROVE  IInv'
<1> USE DEF IInv
<1>1. /\ op' = phase /\ failed' = FALSE /\ work' = [e \in batch |-> e]
      /\ DOMAIN stage' = batch /\ \A e \in batch : stage'[e] = "spawned"
  BY DEF Launch, Pool!Spawn
<1> HIDE DEF Launch
<1>2. TypeOK'
  BY <1>1 DEF TypeOK, Pool!Stages
<1>3. Quiet' /\ Fresh' /\ Unborn' /\ Destroyed' /\ Kept' /\ StateIsReal'
  BY <1>1 DEF Quiet, Fresh, Creating, Unborn, Destroyed, Kept, StateIsReal, Idle
<1>4. Live' = batch
  BY <1>1 DEF Live
<1>5. Held'
  BY <1>1, <1>4 DEF Held, Lists, Own, Blinded
<1> QED
  BY <1>2, <1>3, <1>5

LEMMA WantedFacts == ASSUME TypeOK PROVE \A e \in Wanted : EntryOK(e) /\ e.rule \in Rules
<1>1. config.rules \subseteq Rules
  BY DEF TypeOK
<1> QED
  BY <1>1, EntryFacts DEF Wanted

LEMMA RefreshStep == ASSUME IInv, Refresh PROVE IInv'
<1> USE DEF IInv
<1>1. Idle /\ told' = "read" /\ fresh' = TRUE /\ saved' = ReadState(saved.rules, saved.tainted, saved.managed)
      /\ UNCHANGED <<cloud, config, op, rules, later, work, stage, failed, changes>>
      /\ (faults' = faults \/ faults' = [faults EXCEPT !.kinds = @ \cup {"overlooked"}])
  BY DEF Refresh, NoFault
<1>2. saved.tainted \in BOOLEAN /\ saved.managed \in BOOLEAN /\ \A e \in saved.rules : EntryOK(e)
  BY DEF TypeOK
<1>3. StateOK(saved') /\ Real(saved') /\ (Lists(saved.rules) => Lists(saved'.rules))
  BY <1>1, <1>2, ReadFacts
<1>4. faults' \in [number : 0..MaxFaults, kinds : SUBSET FaultKinds] /\ (~Blinded' => ~Blinded)
  <2>1. faults \in [number : 0..MaxFaults, kinds : SUBSET FaultKinds]
    BY DEF TypeOK
  <2>2. faults'.number = faults.number /\ faults'.kinds \in {faults.kinds, faults.kinds \cup {"overlooked"}}
        /\ DOMAIN faults' = DOMAIN faults
    BY <1>1, <2>1
  <2>3. faults' \in [number : 0..MaxFaults, kinds : SUBSET FaultKinds]
    BY <1>1, <2>1 DEF FaultKinds
  <2> QED
    BY <2>2, <2>3 DEF Blinded
<1> QED
  BY <1>1, <1>3, <1>4, IdleStep

LEMMA CreateStep == ASSUME IInv, Create PROVE IInv'
<1> USE DEF IInv
<1>1. Idle /\ saved.rules = {} /\ UNCHANGED <<cloud, config, changes>>
  BY DEF Create, CanCreate, Unborn
<1>2. CASE Launch("create", Wanted) /\ rules' = {} /\ NoFault /\ UNCHANGED <<saved, told, fresh, later>>
  <2>1. later' = {}
    BY <1>1, <1>2 DEF Quiet
  <2>2. ~Blinded => Lists(rules' \cup Wanted)
    BY <1>1 DEF Kept, Lists
  <2> QED
    BY <1>1, <1>2, <2>1, <2>2, WantedFacts, LaunchStep DEF NoFault
<1>3. CASE FinishWithRead({}) /\ UNCHANGED <<op, rules, later, work, stage, failed>>
  BY <1>1, <1>3, FinishFacts, IdleStep
<1> QED
  BY <1>2, <1>3 DEF Create

LEMMA UpdateStep == ASSUME IInv, Update PROVE IInv'
<1> USE DEF IInv
<1>1. Idle /\ UNCHANGED <<cloud, config, changes>> /\ \A e \in saved.rules : EntryOK(e)
  BY DEF Update, CanUpdate, TypeOK
<1>2. CASE RejectUpdate
  <2>1. /\ saved' = [saved EXCEPT !.managed = config.managed, !.rules = Wanted] /\ told' = "error" /\ fresh' = FALSE
        /\ faults' = [faults EXCEPT !.kinds = @ \cup {"emptied"}]
        /\ UNCHANGED <<op, rules, later, work, stage, failed>>
    BY <1>2 DEF RejectUpdate, Save
  <2>2. faults' \in [number : 0..MaxFaults, kinds : SUBSET FaultKinds] /\ Blinded'
    BY <2>1 DEF TypeOK, FaultKinds, Blinded, Blinding
  <2>3. StateOK(saved')
    BY <1>1, <1>2, <2>1, WantedFacts DEF StateOK, TypeOK, Update, CanUpdate
  <2> QED
    BY <1>1, <2>1, <2>2, <2>3, IdleStep
<1>3. CASE UpdateNothing
  BY <1>1, <1>3, FinishFacts, IdleStep DEF UpdateNothing
<1>4. CASE StartUpdate
  <2> DEFINE ors == Minus(saved.rules, Wanted)
             nrs == Minus(Wanted, saved.rules)
  <2>1. ors \subseteq saved.rules /\ nrs \subseteq Wanted
    BY DEF Minus
  <2>2. /\ rules' = saved.rules \ ors
        /\ \/ ors # {} /\ Launch("delete", ors) /\ later' = nrs
           \/ ors = {} /\ Launch("update", nrs) /\ later' = {}
        /\ UNCHANGED <<saved, told, fresh, faults>>
    BY <1>4 DEF StartUpdate, NoFault
  <2> HIDE DEF ors, nrs
  <2>3. ~Blinded => Lists(saved.rules)
    BY <1>1 DEF Kept, Lists
  <2>4. ~Blinded => Lists(rules' \cup ors) /\ (ors = {} => Lists(rules' \cup nrs))
    BY <2>1, <2>2, <2>3 DEF Lists
  <2>5. \A e \in ors \cup nrs \cup rules' : EntryOK(e)
    BY <1>1, <2>1, <2>2, WantedFacts
  <2>6. \A e \in nrs : e.rule \in Rules
    BY <2>1, WantedFacts
  <2>7. CASE Launch("delete", ors) /\ later' = nrs
    BY <1>1, <2>2, <2>4, <2>5, <2>6, <2>7, LaunchStep
  <2>8. CASE ors = {} /\ Launch("update", nrs) /\ later' = {}
    BY <1>1, <2>2, <2>4, <2>5, <2>6, <2>8, LaunchStep
  <2> QED
    BY <2>2, <2>7, <2>8
<1> QED
  BY <1>2, <1>3, <1>4 DEF Update

LEMMA DeleteStep == ASSUME IInv, Delete PROVE IInv'
<1> USE DEF IInv
<1>1. Idle /\ UNCHANGED <<cloud, config, faults, changes>> /\ \A e \in saved.rules : EntryOK(e)
  BY DEF Delete, TypeOK
<1>2. CASE Launch("destroy", saved.rules) /\ rules' = {} /\ UNCHANGED <<saved, told, fresh, later>>
  <2>1. later' = {}
    BY <1>1, <1>2 DEF Quiet
  <2>2. ~Blinded => Lists(rules' \cup saved.rules)
    BY <1>1 DEF Kept, Lists
  <2> QED
    BY <1>1, <1>2, <2>1, <2>2, LaunchStep
<1>3. CASE saved.rules = {} /\ Save(Gone, "none") /\ UNCHANGED <<op, rules, later, work, stage, failed>>
  <2>1. saved' = Gone /\ told' = "none" /\ fresh' = FALSE
    BY <1>3 DEF Save
  <2>2. StateOK(saved') /\ saved'.rules = saved.rules
    BY <1>3, <2>1 DEF StateOK, Gone
  <2>3. faults' \in [number : 0..MaxFaults, kinds : SUBSET FaultKinds] /\ Blinded' = Blinded
    BY <1>1 DEF TypeOK, Blinded
  <2> QED
    BY <1>1, <1>3, <2>1, <2>2, <2>3, IdleStep
<1> QED
  BY <1>2, <1>3 DEF Delete

-----------------------------------------------------------------------------
(* wg.Wait returned: whatever is held is in the set.                       *)

LEMMA ReturnedFacts ==
  ASSUME IInv, ~Idle, Pool!Returned
  PROVE  (~Blinded => Lists(rules)) /\ \A e \in rules \cup later : EntryOK(e)
<1>1. Live = {}
  BY DEF Live, Pool!Returned
<1> QED
  BY <1>1 DEF IInv, Held, Lists, TypeOK

\* Every way to end leaves the handler's hands empty.
LEMMA StopStep ==
  ASSUME IInv, Stop, UNCHANGED <<cloud, config, changes>>,
         StateOK(saved'), fresh' \in BOOLEAN, told' \in {"none", "ok", "error", "read"},
         faults' \in [number : 0..MaxFaults, kinds : SUBSET FaultKinds],
         ~Blinded' => Lists(saved'.rules),
         told' \in {"ok", "read"} => Real(saved')
  PROVE  IInv'
<1> USE DEF IInv
<1>1. op' = "idle" /\ DOMAIN stage' = {} /\ DOMAIN work' = {} /\ failed' = FALSE /\ rules' = {} /\ later' = {}
  BY DEF Stop, Pool!Spawn
<1>2. TypeOK'
  BY <1>1 DEF TypeOK, StateOK
<1>3. Quiet' /\ Fresh' /\ Unborn' /\ Destroyed' /\ Held'
  BY <1>1 DEF Quiet, Fresh, Creating, Unborn, Destroyed, Held, Idle, StateOK
<1>4. Kept'
  BY DEF Kept, Lists, Own
<1>5. StateIsReal'
  BY DEF StateIsReal, Real, Overlooked, Ids
<1> QED
  BY <1>2, <1>3, <1>4, <1>5

LEMMA DieStep ==
  ASSUME IInv, Die, faults' \in [number : 0..MaxFaults, kinds : SUBSET FaultKinds], Blinded'
  PROVE  IInv'
<1>2. Stop /\ fresh' = FALSE /\ told' = "error" /\ UNCHANGED <<cloud, config, saved, changes>>
  BY DEF Die
<1>3. StateOK(saved')
  BY <1>2 DEF IInv, TypeOK, Unborn, StateOK
<1> QED
  BY <1>2, <1>3, StopStep

\* A fault the provider dies of.
LEMMA DeadlyFacts ==
  ASSUME TypeOK, NEW kind \in {"crash", "race"},
         Fault(kind) \/ faults' = [faults EXCEPT !.kinds = @ \cup {kind}]
  PROVE  faults' \in [number : 0..MaxFaults, kinds : SUBSET FaultKinds] /\ Blinded'
BY FaultFacts DEF TypeOK, Blinded, Blinding, FaultKinds

LEMMA ReturnErrorStep == ASSUME IInv, ReturnError PROVE IInv'
<1>1. /\ saved' = Partial(rules) /\ told' = "error" /\ fresh' = FALSE /\ Stop
      /\ UNCHANGED <<cloud, config, faults, changes>>
      /\ ~Idle /\ Pool!Returned
  BY DEF ReturnError, Save, Waited, Idle
<1>2. (~Blinded => Lists(rules)) /\ \A e \in rules : EntryOK(e)
  BY <1>1, ReturnedFacts
<1>3. StateOK(saved') /\ saved'.rules = rules
  BY <1>1, <1>2 DEF Partial, State, StateOK, IInv, TypeOK
<1>4. faults' \in [number : 0..MaxFaults, kinds : SUBSET FaultKinds] /\ Blinded' = Blinded
  BY <1>1 DEF IInv, TypeOK, Blinded
<1> QED
  BY <1>1, <1>2, <1>3, <1>4, StopStep

LEMMA CreateTheRestStep == ASSUME IInv, CreateTheRest PROVE IInv'
<1>1. /\ Launch("update", later) /\ later' = {} /\ ~Idle /\ Pool!Returned
      /\ UNCHANGED <<cloud, config, saved, fresh, rules, told, faults, changes>>
  BY DEF CreateTheRest, Waited, Idle
<1>2. (~Blinded => Lists(rules)) /\ \A e \in rules \cup later : EntryOK(e)
  BY <1>1, ReturnedFacts
<1>3. ~Blinded => Lists(rules' \cup later)
  BY <1>1, <1>2 DEF Lists
<1>4. \A e \in later : e.rule \in Rules
  BY DEF IInv, Fresh
<1> QED
  BY <1>1, <1>2, <1>3, <1>4, LaunchStep

LEMMA ReturnReadStep == ASSUME IInv, ReturnRead PROVE IInv'
<1>1. FinishWithRead(rules) /\ Stop /\ UNCHANGED <<cloud, config, changes>> /\ ~Idle /\ Pool!Returned
  BY DEF ReturnRead, CanReturnRead, Waited, Idle
<1>2. (~Blinded => Lists(rules)) /\ \A e \in rules : EntryOK(e)
  BY <1>1, ReturnedFacts
<1> QED
  BY <1>1, <1>2, FinishFacts, StopStep DEF IInv

\* A destroy that reports no error has deleted everything it knew.
LEMMA ReturnDeletedStep == ASSUME IInv, ReturnDeleted PROVE IInv'
<1>1. /\ saved' = Gone /\ told' = "none" /\ fresh' = FALSE /\ Stop
      /\ UNCHANGED <<cloud, config, faults, changes>>
      /\ op = "destroy" /\ ~failed /\ ~Idle /\ Pool!Returned
  BY DEF ReturnDeleted, Save, Waited, Idle
<1>2. ~Blinded => Lists({})
  BY <1>1, ReturnedFacts DEF IInv, Destroyed
<1>3. StateOK(saved') /\ saved'.rules = {}
  BY <1>1 DEF Gone, StateOK
<1>4. faults' \in [number : 0..MaxFaults, kinds : SUBSET FaultKinds] /\ Blinded' = Blinded
  BY <1>1 DEF IInv, TypeOK, Blinded
<1> QED
  BY <1>1, <1>2, <1>3, <1>4, StopStep

-----------------------------------------------------------------------------
(* The user and the other users of the account.                            *)

LEMMA EditStep == ASSUME IInv, Edit PROVE IInv'
<1> USE DEF IInv
<1>1. /\ Idle /\ changes < MaxChanges /\ changes' = changes + 1 /\ told' = "none" /\ fresh' = FALSE
      /\ \/ \E c \in Configs : config' = [present |-> TRUE, managed |-> c.managed, rules |-> c.rules]
         \/ config' = Absent
      /\ UNCHANGED <<cloud, saved, op, rules, later, work, stage, failed, faults>>
  BY DEF Edit
<1>2. config' \in [present : BOOLEAN, managed : BOOLEAN, rules : SUBSET Rules]
  <2>1. CASE config' = Absent
    BY <2>1 DEF Absent
  <2>2. CASE \E c \in Configs : config' = [present |-> TRUE, managed |-> c.managed, rules |-> c.rules]
    <3>1. PICK c \in Configs : config' = [present |-> TRUE, managed |-> c.managed, rules |-> c.rules]
      BY <2>2
    <3>2. c \in [managed : BOOLEAN, rules : SUBSET Rules]
      BY FirewallAssumption DEF FirewallAssumption
    <3> QED
      BY <3>1, <3>2
  <2> QED
    BY <1>1, <2>1, <2>2
<1>3. changes' \in 0..MaxChanges
  BY <1>1, FirewallAssumption DEF FirewallAssumption, TypeOK
<1>4. TypeOK'
  BY <1>1, <1>2, <1>3 DEF TypeOK
<1>5. Quiet' /\ Fresh' /\ Unborn' /\ Destroyed' /\ Held' /\ StateIsReal'
  BY <1>1 DEF Quiet, Fresh, Creating, Unborn, Destroyed, Held, StateIsReal, Idle
<1>6. Kept'
  BY <1>1 DEF Kept, Blinded, Idle, Own
<1> QED
  BY <1>4, <1>5, <1>6

\* A fault that leaves the provider alone and makes no new rule of its own.
LEMMA OutsideStep ==
  ASSUME IInv, NEW kind, Fault(kind), told' = "none",
         UNCHANGED <<config, saved, fresh, op, rules, later, work, stage, failed, changes>>,
         \A c \in cloud' : c.uuid \in Uuid /\ c.rule \in Rules \cup {Foreign} /\ c.port \in Keys,
         \A c \in cloud' : c \in cloud \/ c.rule = Foreign
  PROVE  IInv'
<1> USE DEF IInv
<1>1. faults' \in [number : 0..MaxFaults, kinds : SUBSET FaultKinds] /\ (~Blinded' => ~Blinded)
  BY FaultFacts DEF Blinded
<1>2. TypeOK'
  BY <1>1 DEF TypeOK
<1>3. Quiet' /\ Fresh' /\ Unborn' /\ Destroyed' /\ StateIsReal'
  BY DEF Quiet, Fresh, Creating, Unborn, Destroyed, StateIsReal, Idle
<1>4. \A c \in Own' : c \in Own
  BY DEF Own
<1>5. Held' /\ Kept'
  BY <1>1, <1>4 DEF Held, Kept, Idle, Live
<1> QED
  BY <1>2, <1>3, <1>5

LEMMA EnvironmentStep == ASSUME IInv, Environment PROVE IInv'
<1>1. CASE Edit
  BY <1>1, EditStep
<1>2. CASE DeleteOutOfBand
  BY <1>2, OutsideStep DEF DeleteOutOfBand, RemoveRule, IInv, TypeOK
<1>3. CASE CreateForeign
  BY <1>3, OutsideStep, NewUuidFacts DEF CreateForeign, NewRule, IInv, TypeOK, Keys
<1>4. CASE Crash
  BY <1>4, DieStep, DeadlyFacts DEF Crash, IInv
<1> QED
  BY <1>1, <1>2, <1>3, <1>4 DEF Environment

-----------------------------------------------------------------------------
LEMMA GoroutineStep == ASSUME IInv, NEW j \in DOMAIN stage, Goroutine(j) PROVE IInv'
<1>1. CASE ConcurrentMapWrites(j)
  BY <1>1, DieStep, DeadlyFacts DEF ConcurrentMapWrites, IInv
<1> QED
  BY <1>1, AcquireStep, RejectStep, CreateRuleStep, DeleteRuleStep, AddStep DEF Goroutine

LEMMA StutterStep == ASSUME IInv, UNCHANGED vars PROVE IInv'
<1> USE DEF IInv, vars
<1>1. TypeOK' /\ Quiet' /\ Fresh' /\ Unborn' /\ Destroyed'
  BY DEF TypeOK, Quiet, Fresh, Creating, Unborn, Destroyed, Idle
<1>2. Held' /\ Kept' /\ StateIsReal'
  BY DEF Held, Kept, StateIsReal, Overlooked, Blinded, Idle, Live, Ids, Own
<1> QED
  BY <1>1, <1>2

LEMMA NextIInv == IInv /\ [Next]_vars => IInv'
<1> SUFFICES ASSUME IInv, [Next]_vars PROVE IInv'
  OBVIOUS
<1>1. CASE Terraform
  BY <1>1, RefreshStep, CreateStep, UpdateStep, DeleteStep DEF Terraform
<1>2. CASE Provider
  BY <1>2, GoroutineStep, ReturnErrorStep, CreateTheRestStep, ReturnReadStep, ReturnDeletedStep
  DEF Provider, Return
<1>3. CASE Environment
  BY <1>3, EnvironmentStep
<1>4. CASE UNCHANGED vars
  BY <1>4, StutterStep
<1> QED
  BY <1>1, <1>2, <1>3, <1>4 DEF Next

-----------------------------------------------------------------------------
(* Success means applied.                                                  *)

Undisturbed == faults.kinds \cap {"outOfBand", "overlooked"} = {}

Listed == saved.rules \cup rules \cup Range(work)

\* A uuid of the block that exists is that of its rule, at the port it stands for; a
\* dummy has no ports.
Right(e) ==
  /\ e.rule \in Rules => \A p \in DOMAIN e.uuids, c \in cloud :
                           c.uuid = e.uuids[p] => c.rule = e.rule /\ c.port = p
  /\ e.rule \notin Rules => e.ports = {}
Agree == \A e \in Listed : Right(e)

\* No two of the blocks are of one rule.
Alone(es) == \A d, e \in es : d.rule = e.rule /\ e.rule \in Rules => d = e

\* A goroutine puts the block of its rule into a set that has none of that rule, and
\* a deletion without an error puts nothing there.
OneEach ==
  /\ Alone(saved.rules) /\ Alone(rules) /\ Alone(DOMAIN stage)
  /\ \A j \in DOMAIN stage : work[j].rule = j.rule
  /\ \A j \in Live : \A e \in rules : e.rule \in Rules => e.rule # j.rule
  /\ \A e \in later : e = Entry(e.rule)
  /\ op = "delete" /\ ~failed =>
       /\ \A j \in DOMAIN stage : stage[j] # "collecting"
       /\ \A e \in rules : \A d \in later : e.rule # d.rule

\* After a refresh, and until the plan made from it is carried out, every port of a
\* listed rule is open, under a uuid that no other block has.
FreshReal ==
  Idle /\ fresh /\ Undisturbed =>
    \A e \in saved.rules : e.rule \in Rules => \A p \in e.ports :
      /\ p \in DOMAIN e.uuids
      /\ \E c \in cloud : /\ c.uuid = e.uuids[p] /\ c.rule = e.rule /\ c.port = p
                          /\ \A d \in saved.rules : c.uuid \in EntryUuids(d) => d = e

\* The port is open, and no goroutine is about to close it.
InPlace(r, p) ==
  \E c \in cloud : /\ c.rule = r /\ c.port = p
                   /\ op = "delete" => \A j \in DOMAIN stage : c.uuid \notin EntryUuids(work[j])

\* A goroutine has yet to ask for the port.
InProgress(r, p) ==
  Creating /\ \E j \in DOMAIN stage : j.rule = r /\ stage[j] \in {"spawned", "working"} /\ p \in Todo(work[j])

\* As long as no error is reported, every port of a configured rule is open, is being
\* asked for, or waits until the old rules are deleted.
Promised ==
  op \in {"create", "delete", "update"} /\ ~failed /\ Undisturbed =>
    \A r \in config.rules : Entry(r) \in later \/ \A p \in PortsOf[r] : InProgress(r, p) \/ InPlace(r, p)

Applies == Agree /\ OneEach /\ FreshReal /\ Promised /\ OkMeansApplied

AInv == IInv /\ Applies

\* Nothing a busy handler does touches what is said of the time between operations.
LEMMA BusyFacts == ~Idle' => FreshReal' /\ OkMeansApplied'
BY DEF FreshReal, OkMeansApplied, Idle

\* Part of what another block says of its uuids.
PartOf(e, d) ==
  /\ e.rule = d.rule /\ e.ports \subseteq d.ports
  /\ DOMAIN e.uuids \subseteq DOMAIN d.uuids /\ \A p \in DOMAIN e.uuids : e.uuids[p] = d.uuids[p]

\* Blocks stay right: those afterwards are parts of those before, and what is new in the
\* cloud has a uuid that no block lists.
LEMMA RightFacts ==
  ASSUME NEW e, NEW d, PartOf(e, d), Right(d), \A c \in cloud' : c \in cloud \/ c.uuid \notin EntryUuids(d)
  PROVE  Right(e)'
<1> SUFFICES ASSUME e.rule \in Rules, NEW p \in DOMAIN e.uuids, NEW c \in cloud', c.uuid = e.uuids[p]
             PROVE  c.rule = e.rule /\ c.port = p
  BY DEF Right, PartOf
<1>1. d.rule = e.rule /\ p \in DOMAIN d.uuids /\ c.uuid = d.uuids[p]
  BY DEF PartOf
<1>2. c \in cloud
  BY <1>1 DEF EntryUuids, Range
<1> QED
  BY <1>1, <1>2 DEF Right

LEMMA AgreeFacts ==
  ASSUME Agree, \A e \in Listed' : \E d \in Listed : PartOf(e, d),
         \A c \in cloud' : c \in cloud \/ c.uuid \notin UuidsIn(Listed)
  PROVE  Agree'
<1> SUFFICES ASSUME NEW e \in Listed' PROVE Right(e)'
  BY DEF Agree
<1>1. PICK d \in Listed : PartOf(e, d)
  OBVIOUS
<1>2. Right(d) /\ \A c \in cloud' : c \in cloud \/ c.uuid \notin EntryUuids(d)
  BY DEF Agree, UuidsIn
<1> QED
  BY <1>1, <1>2, RightFacts

LEMMA PartOfItself == \A e : PartOf(e, e)
BY DEF PartOf

\* A uuid nobody knows.
LEMMA UnusedFacts ==
  ASSUME Unused # {} PROVE NewUuid \in Uuid /\ NewUuid \notin UuidsIn(Listed) /\ \A c \in cloud : c.uuid # NewUuid
<1>1. NewUuid \in Unused
  BY DEF NewUuid
<1>2. UuidsIn(Listed) \subseteq Remembered
  BY DEF UuidsIn, Listed, Remembered
<1> QED
  BY <1>1, <1>2 DEF Unused, Ids

-----------------------------------------------------------------------------
(* The goroutines.                                                         *)

\* What their steps have in common: the block e of the goroutine j, and the set.
Steps(j, e) ==
  /\ ~Idle
  /\ UNCHANGED <<config, saved, op, later>>
  /\ DOMAIN stage' = DOMAIN stage /\ DOMAIN work = DOMAIN stage /\ DOMAIN work' = DOMAIN stage
  /\ \A i \in DOMAIN stage \ {j} : stage'[i] = stage[i] /\ work'[i] = work[i]
  /\ work'[j] = e /\ e.rule = work[j].rule
  /\ ~failed' => ~failed
  /\ Undisturbed' => Undisturbed
  /\ op = "delete" /\ ~failed' => stage'[j] # "collecting"
  /\ \/ rules' = rules /\ stage[j] \in {"spawned", "working"}
     \/ rules' \subseteq rules \cup {work[j]} /\ stage[j] = "collecting" /\ stage'[j] = "done"

\* No second block of a rule comes about.
LEMMA StepsOneEach == ASSUME OneEach, NEW j \in DOMAIN stage, NEW e, Steps(j, e) PROVE OneEach'
<1> USE DEF OneEach, Steps
<1>1. \A i \in Live' : i \in Live
  BY DEF Live
<1>2. Alone(rules')
  <2>1. \A d \in rules : d.rule \in Rules /\ stage[j] = "collecting" => d.rule # work[j].rule
    BY DEF Live
  <2>2. Alone(rules) /\ (rules' = rules \/ (rules' \subseteq rules \cup {work[j]} /\ stage[j] = "collecting"))
    OBVIOUS
  <2> HIDE DEF OneEach, Steps
  <2> QED
    BY <2>1, <2>2 DEF Alone
<1>3. \A i \in DOMAIN stage' : work'[i].rule = i.rule
  OBVIOUS
<1>4. \A i \in Live' : \A d \in rules' : d.rule \in Rules => d.rule # i.rule
  <2> SUFFICES ASSUME NEW i \in Live', NEW d \in rules', d.rule \in Rules, d \notin rules PROVE d.rule # i.rule
    BY <1>1
  <2>1. d = work[j] /\ stage'[j] = "done" /\ d.rule = j.rule
    OBVIOUS
  <2>2. i # j /\ i \in DOMAIN stage
    BY <2>1 DEF Live
  <2> QED
    BY <2>1, <2>2 DEF Alone
<1>5. op' = "delete" /\ ~failed' =>
       /\ \A i \in DOMAIN stage' : stage'[i] # "collecting"
       /\ \A d \in rules' : \A x \in later' : d.rule # x.rule
  OBVIOUS
<1>6. Alone(saved'.rules) /\ Alone(DOMAIN stage') /\ \A x \in later' : x = Entry(x.rule)
  OBVIOUS
<1> HIDE DEF Steps
<1> QED
  BY <1>2, <1>3, <1>4, <1>5, <1>6

\* What is promised stays so when the goroutine's part does.
LEMMA StepsPromised ==
  ASSUME Promised, NEW j \in DOMAIN stage, NEW e, Steps(j, e),
         ASSUME ~failed', Creating, NEW p \in Todo(work[j]), stage[j] \in {"spawned", "working"}
         PROVE  \/ stage'[j] \in {"spawned", "working"} /\ p \in Todo(e)
                \/ \E c \in cloud' : c.rule = j.rule /\ c.port = p,
         ASSUME ~failed', op # "destroy", NEW c \in cloud, op = "delete" => c.uuid \notin EntryUuids(work[j]), Undisturbed
         PROVE  c \in cloud' /\ (op = "delete" => c.uuid \notin EntryUuids(e))
  PROVE  Promised'
<1> USE DEF Steps
<1> SUFFICES ASSUME op \in {"create", "delete", "update"}, ~failed, ~failed', Undisturbed, NEW r \in config.rules,
                    Entry(r) \notin later, NEW p \in PortsOf[r]
             PROVE  InProgress(r, p)' \/ InPlace(r, p)'
  BY DEF Promised
<1>1. InProgress(r, p) \/ InPlace(r, p)
  BY DEF Promised
<1>2. CASE InProgress(r, p)
  <2>1. PICK i \in DOMAIN stage : i.rule = r /\ stage[i] \in {"spawned", "working"} /\ p \in Todo(work[i]) /\ Creating
    BY <1>2 DEF InProgress
  <2>2. Creating' /\ op' # "delete"
    BY <2>1 DEF Creating
  <2>3. CASE i # j
    BY <2>1, <2>2, <2>3 DEF InProgress, Todo
  <2>4. CASE i = j
    <3>1. \/ stage'[j] \in {"spawned", "working"} /\ p \in Todo(e)
          \/ \E c \in cloud' : c.rule = j.rule /\ c.port = p
      BY <2>1, <2>4
    <3> QED
      BY <2>1, <2>2, <2>4, <3>1 DEF InProgress, InPlace, Todo
  <2> QED
    BY <2>3, <2>4
<1>3. CASE InPlace(r, p)
  <2>1. PICK c \in cloud : /\ c.rule = r /\ c.port = p
                           /\ op = "delete" => \A i \in DOMAIN stage : c.uuid \notin EntryUuids(work[i])
    BY <1>3 DEF InPlace
  <2>2. op # "destroy"
    OBVIOUS
  <2>3. c \in cloud' /\ (op = "delete" => c.uuid \notin EntryUuids(e))
    BY <2>1, <2>2
  <2> QED
    BY <2>1, <2>3 DEF InPlace, EntryUuids
<1> QED
  BY <1>1, <1>2, <1>3

LEMMA StepsAgree ==
  ASSUME Agree, NEW j \in DOMAIN stage, NEW e, Steps(j, e), PartOf(e, work[j]),
         \A c \in cloud' : c \in cloud \/ c.uuid \notin UuidsIn(Listed)
  PROVE  Agree'
<1>1. \A x \in Listed' : x \in Listed \/ x = e
  BY DEF Steps, Listed, Range
<1>2. work[j] \in Listed
  BY DEF Steps, Listed, Range
<1>3. \A x \in Listed' : \E d \in Listed : PartOf(x, d)
  BY <1>1, <1>2, PartOfItself
<1> QED
  BY <1>3, AgreeFacts

LEMMA UndisturbedFacts ==
  ASSUME TypeOK, (NoFault \/ \E kind \in FaultKinds : Fault(kind))
  PROVE  Undisturbed' => Undisturbed
BY FaultFacts DEF NoFault, Undisturbed

LEMMA StepsFacts ==
  ASSUME Applies, NEW j \in DOMAIN stage, NEW e, Steps(j, e), Agree', Promised'
  PROVE  Applies'
<1>1. ~Idle'
  BY DEF Steps, Idle
<1> QED
  BY <1>1, StepsOneEach, BusyFacts DEF Applies

\* A step that leaves the block alone, and all else too unless it reports an error.
LEMMA PlainAStep ==
  ASSUME AInv, NEW j \in DOMAIN stage, Steps(j, work[j]),
         \A c \in cloud' : c \in cloud \/ c.uuid \notin UuidsIn(Listed),
         failed' \/ cloud' = cloud,
         failed' \/ stage'[j] \in {"spawned", "working"} \/ ~Creating \/ Todo(work[j]) = {}
                 \/ stage[j] \notin {"spawned", "working"}
  PROVE  Applies'
<1> USE DEF AInv, Applies
<1>1. Agree'
  BY StepsAgree, PartOfItself
<1>2. Promised'
  <2>1. ASSUME ~failed', Creating, NEW p \in Todo(work[j]), stage[j] \in {"spawned", "working"}
        PROVE  stage'[j] \in {"spawned", "working"} /\ p \in Todo(work[j])
    BY <2>1
  <2>2. ASSUME ~failed', NEW c \in cloud, op = "delete" => c.uuid \notin EntryUuids(work[j])
        PROVE  c \in cloud' /\ (op = "delete" => c.uuid \notin EntryUuids(work[j]))
    BY <2>2
  <2>3. Promised
    OBVIOUS
  <2> HIDE DEF AInv, Applies
  <2> QED
    BY <2>1, <2>2, <2>3, StepsPromised
<1> QED
  BY <1>1, <1>2, StepsFacts

LEMMA BusyBlocks == ASSUME IInv, NEW j \in DOMAIN stage PROVE ~Idle /\ TypeOK /\ DOMAIN work = DOMAIN stage
BY DEF IInv, Quiet, TypeOK

LEMMA AcquireAStep == ASSUME AInv, NEW j \in DOMAIN stage, Acquire(j) PROVE Applies'
<1>1. /\ stage[j] = "spawned" /\ stage' = [stage EXCEPT ![j] = "working"]
      /\ UNCHANGED <<cloud, rules, work, failed, faults, config, saved, op, later>>
  BY DEF Acquire, Pool!Acquire, Pool!Goto, HandlerState
<1>2. Steps(j, work[j])
  BY <1>1, BusyBlocks DEF AInv, Steps, Undisturbed
<1> QED
  BY <1>1, <1>2, PlainAStep

\* The call, or the verification, ended in an error.
LEMMA FailAStep ==
  ASSUME AInv, NEW j \in DOMAIN stage, Conclude(j, work[j]), failed' = TRUE,
         UNCHANGED <<rules, work, HandlerState>>,
         (NoFault \/ \E kind \in FaultKinds : Fault(kind)),
         \A c \in cloud' : c \in cloud \/ c.uuid \notin UuidsIn(Listed)
  PROVE  Applies'
<1>1. Undisturbed' => Undisturbed
  BY UndisturbedFacts DEF AInv, IInv
<1>2. Steps(j, work[j])
  BY <1>1, ConcludeFacts, BusyBlocks DEF AInv, Steps, HandlerState
<1> QED
  BY <1>2, PlainAStep

LEMMA RejectAStep == ASSUME AInv, NEW j \in DOMAIN stage, RejectRule(j) PROVE Applies'
BY FailAStep DEF RejectRule, NoFault

LEMMA CreatePortFailsAStep ==
  ASSUME AInv, NEW j \in DOMAIN stage, NEW p, CreatePortFails(j, p)
  PROVE  Applies'
<1>1. \A c \in cloud' : c \in cloud \/ c.uuid \notin UuidsIn(Listed)
  BY UnusedFacts DEF CreatePortFails, NewRule
<1> QED
  BY <1>1, FailAStep DEF CreatePortFails, FaultKinds

LEMMA DeletePortFailsAStep ==
  ASSUME AInv, NEW j \in DOMAIN stage, NEW k, DeletePortFails(j, k)
  PROVE  Applies'
<1>1. \A c \in cloud' : c \in cloud
  BY DEF DeletePortFails, RemoveRule
<1> QED
  BY <1>1, FailAStep DEF DeletePortFails, FaultKinds

LEMMA CreatePortAStep ==
  ASSUME AInv, NEW j \in DOMAIN stage, stage[j] = "working", Creating, NEW p \in Todo(work[j]), CreatePort(j, p)
  PROVE  Applies'
<1> USE DEF AInv, Applies
<1> DEFINE e == work[j]
           f == WithUuid(e, p, NewUuid)
           new == [uuid |-> NewUuid, rule |-> e.rule, port |-> p]
<1>1. e.rule = j.rule /\ p \in Keys /\ p \notin DOMAIN e.uuids /\ EntryOK(e)
  <2>1. p \in PortsOf[e.rule] /\ p \notin DOMAIN e.uuids /\ EntryOK(e) /\ e.rule \in Rules
    BY DEF Todo, IInv, TypeOK, Fresh
  <2> QED
    BY <2>1 DEF OneEach, Keys
<1>2. /\ Unused # {} /\ cloud' = cloud \cup {new}
      /\ work' = [work EXCEPT ![j] = f] /\ faults' = faults
      /\ (Todo(f) = {} /\ Conclude(j, f)) \/ stage' = stage
      /\ (Todo(f) # {} => stage' = stage)
      /\ UNCHANGED <<rules, failed, config, saved, op, later>>
  BY DEF CreatePort, NoFault, NewRule, HandlerState
<1>3. NewUuid \in Uuid /\ NewUuid \notin UuidsIn(Listed) /\ \A c \in cloud : c.uuid # NewUuid
  BY <1>2, UnusedFacts
<1>4. /\ f.rule = e.rule /\ DOMAIN f.uuids = DOMAIN e.uuids \cup {p} /\ f.uuids[p] = NewUuid
      /\ \A x \in DOMAIN e.uuids : f.uuids[x] = e.uuids[x]
  BY <1>1, <1>3, WithUuidFacts
<1> HIDE DEF f
<1>5. Steps(j, f)
  <2>1. DOMAIN stage' = DOMAIN stage /\ \A i \in DOMAIN stage \ {j} : stage'[i] = stage[i]
    BY <1>2, ConcludeFacts
  <2> QED
    BY <1>2, <1>4, <2>1, BusyBlocks DEF Steps, Creating, Undisturbed
<1>6. e \in Listed /\ Right(e)
  BY BusyBlocks DEF Listed, Range, Agree
<1>7. Agree'
  <2>1. \A x \in Listed' : x \in Listed \/ x = f
    BY <1>2, <1>5 DEF Steps, Listed, Range
  <2>2. ASSUME NEW x \in Listed PROVE Right(x)'
    <3>1. Right(x) /\ NewUuid \notin EntryUuids(x)
      BY <1>3 DEF Agree, UuidsIn
    <3> QED
      BY <1>2, <3>1, RightFacts, PartOfItself
  <2>3. ASSUME NEW x, x = f PROVE Right(x)'
    <3> SUFFICES ASSUME NEW q \in DOMAIN x.uuids, NEW c \in cloud', c.uuid = x.uuids[q]
                 PROVE  c.rule = x.rule /\ c.port = q
      BY <1>4, <2>3 DEF Right, IInv, Fresh
    <3>1. CASE q = p
      BY <1>2, <1>3, <1>4, <2>3, <3>1
    <3>2. CASE q # p
      <4>1. q \in DOMAIN e.uuids /\ x.uuids[q] = e.uuids[q] /\ x.uuids[q] # NewUuid
        BY <1>3, <1>4, <1>6, <2>3, <3>2 DEF UuidsIn, EntryUuids, Range
      <4>2. c \in cloud /\ e.rule \in Rules
        BY <1>2, <4>1 DEF IInv, Fresh
      <4> QED
        BY <1>4, <1>6, <2>3, <4>1, <4>2 DEF Right
    <3> QED
      BY <3>1, <3>2
  <2> QED
    BY <2>1, <2>2, <2>3 DEF Agree
<1>8. Promised'
  <2>1. ASSUME NEW q \in Todo(e)
        PROVE  \/ stage'[j] \in {"spawned", "working"} /\ q \in Todo(f)
               \/ \E c \in cloud' : c.rule = j.rule /\ c.port = q
    <3>1. CASE q = p
      <4>1. new \in cloud' /\ new.rule = j.rule /\ new.port = q
        BY <1>1, <1>2, <3>1
      <4> QED
        BY <4>1
    <3>2. CASE q # p
      <4>1. q \in Todo(f)
        BY <1>4, <3>2 DEF Todo
      <4> QED
        BY <1>2, <4>1
    <3> QED
      BY <3>1, <3>2
  <2>2. ASSUME NEW c \in cloud PROVE c \in cloud' /\ op # "delete"
    BY <1>2 DEF Creating
  <2>3. Promised
    OBVIOUS
  <2> HIDE DEF AInv, Applies
  <2> QED
    BY <1>5, <2>1, <2>2, <2>3, StepsPromised
<1> QED
  BY <1>5, <1>7, <1>8, StepsFacts

LEMMA CreateRuleAStep == ASSUME AInv, NEW j \in DOMAIN stage, CreateRule(j) PROVE Applies'
<1>1. Creating /\ stage[j] = "working"
  BY DEF CreateRule
<1>2. CASE \E p \in Todo(work[j]) : CreatePort(j, p) \/ CreatePortFails(j, p)
  BY <1>1, <1>2, CreatePortAStep, CreatePortFailsAStep
<1>3. CASE /\ Todo(work[j]) = {} /\ Conclude(j, work[j])
           /\ UNCHANGED <<cloud, rules, work, failed, faults, HandlerState>>
  <2>1. Steps(j, work[j])
    BY <1>1, <1>3, ConcludeFacts, BusyBlocks DEF AInv, Steps, HandlerState, Undisturbed, Creating
  <2> QED
    BY <1>3, <2>1, PlainAStep
<1> QED
  BY <1>2, <1>3 DEF CreateRule

LEMMA DeletePortAStep ==
  ASSUME AInv, NEW j \in DOMAIN stage, stage[j] = "working", Deleting, NEW k \in DOMAIN work[j].uuids, DeletePort(j, k)
  PROVE  Applies'
<1> USE DEF AInv, Applies
<1> DEFINE e == work[j]
           f == Less(e, k)
<1>1. /\ RemoveRule(e.uuids[k]) /\ faults' = faults /\ work' = [work EXCEPT ![j] = f]
      /\ (f.uuids = NoUuids /\ Conclude(j, f)) \/ stage' = stage
      /\ UNCHANGED <<rules, failed, config, saved, op, later>>
  BY DEF DeletePort, NoFault, Less, HandlerState
<1>2. /\ f.rule = e.rule /\ f.ports = e.ports /\ DOMAIN f.uuids = DOMAIN e.uuids \ {k}
      /\ \A x \in DOMAIN e.uuids \ {k} : f.uuids[x] = e.uuids[x]
  BY LessFacts DEF IInv, TypeOK
<1> HIDE DEF f
<1>3. Steps(j, f)
  <2>1. /\ DOMAIN stage' = DOMAIN stage /\ \A i \in DOMAIN stage \ {j} : stage'[i] = stage[i]
        /\ stage'[j] # "collecting"
    BY <1>1, ConcludeFacts
  <2> QED
    BY <1>1, <1>2, <2>1, BusyBlocks DEF Steps, Undisturbed
<1>4. PartOf(f, e)
  BY <1>2 DEF PartOf
<1>5. Agree'
  BY <1>1, <1>3, <1>4, StepsAgree DEF RemoveRule
<1>6. Promised'
  <2>1. ~Creating
    BY DEF Creating, Deleting
  <2>2. ASSUME op # "destroy", NEW c \in cloud, op = "delete" => c.uuid \notin EntryUuids(e)
        PROVE  c \in cloud' /\ (op = "delete" => c.uuid \notin EntryUuids(f))
    <3>1. c.uuid \notin EntryUuids(e)
      BY <2>2 DEF Deleting
    <3>2. EntryUuids(f) \subseteq EntryUuids(e) /\ e.uuids[k] \in EntryUuids(e)
      BY <1>2 DEF EntryUuids, Range
    <3> QED
      BY <1>1, <3>1, <3>2 DEF RemoveRule
  <2>3. Promised
    OBVIOUS
  <2> HIDE DEF AInv, Applies
  <2> QED
    BY <1>3, <2>1, <2>2, <2>3, StepsPromised
<1> QED
  BY <1>3, <1>5, <1>6, StepsFacts

LEMMA DeleteRuleAStep == ASSUME AInv, NEW j \in DOMAIN stage, DeleteRule(j) PROVE Applies'
BY DeletePortAStep, DeletePortFailsAStep DEF DeleteRule

LEMMA AddAStep == ASSUME AInv, NEW j \in DOMAIN stage, Add(j) PROVE Applies'
<1>1. /\ stage[j] = "collecting" /\ stage' = [stage EXCEPT ![j] = "done"]
      /\ rules' \subseteq rules \cup {work[j]}
      /\ UNCHANGED <<cloud, work, failed, config, saved, op, later>>
  BY DEF Add, Pool!Collected, Pool!Goto, HandlerState
<1>2. Undisturbed' => Undisturbed
  <2>1. NoFault \/ \E kind \in FaultKinds : Fault(kind)
    BY DEF Add, FaultKinds
  <2> QED
    BY <2>1, UndisturbedFacts DEF AInv, IInv
<1>3. Steps(j, work[j])
  BY <1>1, <1>2, BusyBlocks DEF AInv, Steps
<1> QED
  BY <1>1, <1>3, PlainAStep

-----------------------------------------------------------------------------
(* The handlers.                                                           *)

\* A handler that has ended leaves no blocks but those of the state.
LEMMA IdleApplies ==
  ASSUME IInv', Idle', \A e \in saved'.rules : Right(e)', Alone(saved'.rules), FreshReal', OkMeansApplied'
  PROVE  Applies'
<1>1. DOMAIN stage' = {} /\ DOMAIN work' = {} /\ rules' = {} /\ later' = {} /\ op' = "idle"
  BY DEF IInv, Quiet, TypeOK, Idle
<1>2. Agree'
  <2>1. Listed' = saved'.rules
    BY <1>1 DEF Listed, Range
  <2> QED
    BY <2>1 DEF Agree
<1>3. OneEach'
  BY <1>1 DEF OneEach, Alone, Live
<1>4. Promised'
  BY <1>1 DEF Promised
<1> QED
  BY <1>2, <1>3, <1>4 DEF Applies

\* What Read makes of the blocks es.
LEMMA KnownParts ==
  ASSUME NEW es, NEW x \in Known(es)
  PROVE  \E e \in es : PartOf(x, e) /\ x.ports = DOMAIN x.uuids /\ \A p \in x.ports : x.uuids[p] \in Ids(cloud)
<1>1. PICK e \in es : x = [rule |-> e.rule, ports |-> Found(e), uuids |-> Restrict(e.uuids, Found(e))]
  BY DEF Known
<1>2. /\ x.rule = e.rule /\ x.ports = Found(e) /\ DOMAIN x.uuids = Found(e)
      /\ \A p \in Found(e) : x.uuids[p] = e.uuids[p]
  BY <1>1 DEF Restrict
<1>3. \A p \in Found(e) : p \in e.ports /\ p \in DOMAIN e.uuids /\ e.uuids[p] \in Ids(cloud)
  BY DEF Found
<1> QED
  BY <1>2, <1>3 DEF PartOf

LEMMA KnownAlone == ASSUME NEW es, Alone(es) PROVE Alone(Known(es))
<1> SUFFICES ASSUME NEW x \in Known(es), NEW y \in Known(es), x.rule = y.rule, x.rule \in Rules PROVE x = y
  BY DEF Alone
<1>1. PICK d \in es : x = [rule |-> d.rule, ports |-> Found(d), uuids |-> Restrict(d.uuids, Found(d))]
  BY DEF Known
<1>2. PICK e \in es : y = [rule |-> e.rule, ports |-> Found(e), uuids |-> Restrict(e.uuids, Found(e))]
  BY DEF Known
<1>3. d = e
  BY <1>1, <1>2 DEF Alone
<1> QED
  BY <1>1, <1>2, <1>3

LEMMA ReadReal ==
  ASSUME TypeOK, NEW es, \A e \in es : Right(e), Alone(es), NEW managed
  PROVE  LET rs == ReadRules(es, managed)
         IN /\ \A e \in rs : Right(e)
            /\ Alone(rs)
            /\ \A e \in rs : e.rule \in Rules => \A p \in e.ports :
                 /\ p \in DOMAIN e.uuids
                 /\ \E c \in cloud : /\ c.uuid = e.uuids[p] /\ c.rule = e.rule /\ c.port = p
                                     /\ \A d \in rs : c.uuid \in EntryUuids(d) => d = e
<1> DEFINE rs == ReadRules(es, managed)
<1>1. ASSUME NEW x \in Known(es)
      PROVE  Right(x) /\ x.ports = DOMAIN x.uuids /\ \A p \in x.ports : x.uuids[p] \in Ids(cloud)
  <2>1. PICK e \in es : PartOf(x, e) /\ x.ports = DOMAIN x.uuids /\ \A p \in x.ports : x.uuids[p] \in Ids(cloud)
    BY KnownParts
  <2> QED
    BY <2>1 DEF PartOf, Right
<1>2. Alone(Known(es))
  BY KnownAlone
<1>3. \A x \in rs : x \in Known(es) \/ \E u \in Unknown(es) : x = Dummy(u)
  BY DEF ReadRules
<1>4. ASSUME NEW u \in Unknown(es)
      PROVE  Dummy(u).rule \notin Rules /\ EntryUuids(Dummy(u)) = {u} /\ u \notin UuidsIn(Known(es))
  <2>1. u \in Uuid
    BY DEF Unknown, Ids, TypeOK
  <2> QED
    BY <2>1, DummyFacts DEF Unknown
<1> HIDE DEF rs
<1>5. \A e \in rs : e.rule \in Rules => e \in Known(es)
  BY <1>3, <1>4
<1>6. \A e \in rs : Right(e)
  <2>1. \A u : Dummy(u).ports = {}
    BY DEF Dummy
  <2> QED
    BY <1>1, <1>3, <1>4, <2>1 DEF Right
<1>7. Alone(rs)
  BY <1>2, <1>5 DEF Alone
<1>8. ASSUME NEW e \in rs, e.rule \in Rules, NEW p \in e.ports
      PROVE  /\ p \in DOMAIN e.uuids
             /\ \E c \in cloud : /\ c.uuid = e.uuids[p] /\ c.rule = e.rule /\ c.port = p
                                 /\ \A d \in rs : c.uuid \in EntryUuids(d) => d = e
  <2>1. e \in Known(es) /\ Right(e) /\ p \in DOMAIN e.uuids /\ e.uuids[p] \in Ids(cloud)
    BY <1>1, <1>5, <1>8
  <2>2. PICK c \in cloud : c.uuid = e.uuids[p]
    BY <2>1 DEF Ids
  <2>3. c.rule = e.rule /\ c.port = p /\ c.uuid \in UuidsIn(Known(es))
    BY <1>8, <2>1, <2>2 DEF Right, UuidsIn, EntryUuids, Range
  <2>4. ASSUME NEW d \in rs, c.uuid \in EntryUuids(d) PROVE d = e
    <3>1. d \in Known(es)
      BY <1>3, <1>4, <2>3, <2>4
    <3>2. PICK q \in DOMAIN d.uuids : d.uuids[q] = c.uuid
      BY <2>4 DEF EntryUuids, Range
    <3>3. d.rule = e.rule
      BY <1>1, <2>3, <3>1, <3>2 DEF Right
    <3> QED
      BY <1>7, <1>8, <3>3 DEF Alone
  <2> QED
    BY <2>1, <2>2, <2>3, <2>4
<1> QED
  BY <1>6, <1>7, <1>8 DEF rs

\* The state Read leaves.
LEMMA ReadStateReal ==
  ASSUME TypeOK, NEW es, \A e \in es : Right(e), Alone(es), NEW tainted, NEW managed
  PROVE  LET s == ReadState(es, tainted, managed)
         IN /\ \A e \in s.rules : Right(e)
            /\ Alone(s.rules)
            /\ s.rules = ReadRules(es, managed) \/ s.rules = {} \/ (s.rules = es /\ managed /\ ReadRules(es, managed) = {})
<1> DEFINE s == ReadState(es, tainted, managed)
           rs == ReadRules(es, managed)
<1>1. s.rules = rs \/ s.rules = {} \/ (s.rules = es /\ managed /\ rs = {})
  BY DEF ReadState, State, Gone
<1>2. (\A e \in rs : Right(e)) /\ Alone(rs)
  BY ReadReal
<1> HIDE DEF s, rs
<1>3. (\A e \in s.rules : Right(e)) /\ Alone(s.rules)
  BY <1>1, <1>2 DEF Alone
<1> QED
  BY <1>1, <1>3 DEF s, rs

LEMMA SavedRight == ASSUME AInv PROVE (\A e \in saved.rules \cup rules : Right(e)) /\ Alone(saved.rules) /\ Alone(rules)
BY DEF AInv, Applies, Agree, Listed, OneEach

\* A handler that ends in Read: when it succeeds, everything is applied.
LEMMA FinishApplies ==
  ASSUME AInv, IInv', NEW es, FinishWithRead(es), Idle', UNCHANGED <<cloud, config>>,
         \A e \in es : Right(e), Alone(es),
         Undisturbed => PortKeys(config.rules) \subseteq OpenPorts(Own)
  PROVE  Applies'
<1>1. fresh' = FALSE
  BY DEF FinishWithRead, Save
<1>2. FreshReal'
  BY <1>1 DEF FreshReal
<1>3. OkMeansApplied'
  <2>1. faults' = faults \/ told' = "error"
    BY DEF FinishWithRead, Save, NoFault
  <2> QED
    BY <2>1 DEF OkMeansApplied, Undisturbed, Own, OpenPorts
<1>4. (\A e \in saved'.rules : Right(e)) /\ Alone(saved'.rules)
  <2>1. CASE Save(ReadState(es, FALSE, config.managed), "ok")
    BY <2>1, ReadStateReal DEF Save, AInv, IInv
  <2>2. CASE Save(Partial(es), "error")
    BY <2>2 DEF Save, Partial, State
  <2> QED
    BY <2>1, <2>2 DEF FinishWithRead
<1>5. \A e \in saved'.rules : Right(e)'
  BY <1>4 DEF Right
<1> QED
  BY <1>2, <1>3, <1>4, <1>5, IdleApplies

LEMMA RefreshAStep == ASSUME AInv, IInv', Refresh PROVE Applies'
<1>1. Idle' /\ told' = "read" /\ cloud' = cloud /\ saved' = ReadState(saved.rules, saved.tainted, saved.managed)
  BY DEF Refresh, Idle
\* A Read that overlooks that all rules are gone disturbs.
<1>0. saved.managed /\ ReadRules(saved.rules, TRUE) = {} /\ saved.rules # {} => ~Undisturbed'
  <2> SUFFICES ASSUME faults' = [faults EXCEPT !.kinds = @ \cup {"overlooked"}] PROVE ~Undisturbed'
    BY DEF Refresh
  <2>1. faults'.kinds = faults.kinds \cup {"overlooked"}
    BY DEF AInv, IInv, TypeOK
  <2> QED
    BY <2>1 DEF Undisturbed
<1> DEFINE rs == ReadRules(saved.rules, saved.managed)
<1>2. /\ \A e \in saved'.rules : Right(e)
      /\ Alone(saved'.rules)
      /\ saved'.rules = rs \/ saved'.rules = {} \/ (saved'.rules = saved.rules /\ saved.managed /\ rs = {})
  BY <1>1, SavedRight, ReadStateReal DEF AInv, IInv
<1>3. FreshReal'
  <2> SUFFICES ASSUME Undisturbed', NEW e \in saved'.rules, e.rule \in Rules, NEW p \in e.ports
               PROVE  /\ p \in DOMAIN e.uuids
                      /\ \E c \in cloud' : /\ c.uuid = e.uuids[p] /\ c.rule = e.rule /\ c.port = p
                                           /\ \A d \in saved'.rules : c.uuid \in EntryUuids(d) => d = e
    BY DEF FreshReal
  <2>1. saved'.rules = rs
    BY <1>0, <1>2 DEF AInv, IInv, TypeOK
  <2> QED
    BY <1>1, <2>1, SavedRight, ReadReal DEF AInv, IInv
<1>4. \A e \in saved'.rules : Right(e)'
  BY <1>1, <1>2 DEF Right
<1>5. OkMeansApplied'
  BY <1>1 DEF OkMeansApplied
<1> QED
  BY <1>1, <1>2, <1>3, <1>4, <1>5, IdleApplies

\* A fan-out: what the goroutines are given, and what stays in the set.
LEMMA LaunchApplies ==
  ASSUME AInv, NEW phase \in {"create", "delete", "update", "destroy"}, NEW batch, Launch(phase, batch),
         UNCHANGED <<cloud, saved>>,
         \A e \in batch \cup rules' : Right(e), Alone(batch), Alone(rules'),
         \A e \in rules' : \A d \in batch : e.rule \in Rules => e.rule # d.rule,
         \A d \in later' : d = Entry(d.rule),
         phase = "delete" => \A e \in rules' : \A d \in later' : e.rule # d.rule,
         Promised'
  PROVE  Applies'
<1>1. /\ op' = phase /\ work' = [e \in batch |-> e]
      /\ DOMAIN stage' = batch /\ \A e \in batch : stage'[e] = "spawned"
  BY DEF Launch, Pool!Spawn
<1>2. ~Idle'
  BY <1>1 DEF Idle
<1>3. Agree'
  <2>1. \A e \in Listed' : Right(e)
    BY <1>1, SavedRight DEF Listed, Range
  <2> QED
    BY <2>1 DEF Agree, Right
<1>4. OneEach'
  BY <1>1, SavedRight DEF OneEach, Live
<1> QED
  BY <1>2, <1>3, <1>4, BusyFacts DEF Applies

\* What is wanted, as it stands in the configuration.
LEMMA WantedBlocks ==
  ASSUME TypeOK
  PROVE  /\ \A r \in config.rules : Entry(r) \in Wanted /\ Entry(r).rule = r /\ Content(Entry(r)) = <<r, PortsOf[r]>>
                                     /\ Todo(Entry(r)) = PortsOf[r]
         /\ \A e \in Wanted : /\ e.rule \in config.rules /\ e = Entry(e.rule) /\ Right(e)
                              /\ Content(e) = <<e.rule, PortsOf[e.rule]>>
         /\ Alone(Wanted)
<1>1. config.rules \subseteq Rules
  BY DEF TypeOK
<1>2. \A r : /\ Entry(r).rule = r /\ Entry(r).ports = PortsOf[r] /\ DOMAIN Entry(r).uuids = {}
             /\ Content(Entry(r)) = <<r, PortsOf[r]>>
  BY DEF Entry, NoUuids, Content
<1>3. \A e \in Wanted : \E r \in config.rules : e = Entry(r)
  BY DEF Wanted
<1>4. \A r \in config.rules : Entry(r) \in Wanted
  BY DEF Wanted
<1> QED
  BY <1>1, <1>2, <1>3, <1>4 DEF Right, Alone, Todo

\* What a goroutine was just given is in progress.
LEMMA LaunchPromises ==
  ASSUME NEW batch, Launch("create", batch) \/ Launch("update", batch), NEW r, Entry(r) \in batch,
         NEW p \in Todo(Entry(r))
  PROVE  InProgress(r, p)'
<1>1. /\ Creating' /\ work' = [e \in batch |-> e]
      /\ DOMAIN stage' = batch /\ \A e \in batch : stage'[e] = "spawned"
  BY DEF Launch, Pool!Spawn, Creating
<1>2. Entry(r).rule = r
  BY DEF Entry
<1> QED
  BY <1>1, <1>2 DEF InProgress, Todo

LEMMA CreateAStep == ASSUME AInv, IInv', Create PROVE Applies'
<1>1. TypeOK /\ UNCHANGED <<cloud, config>>
  BY DEF AInv, IInv, Create
<1>2. CASE Launch("create", Wanted) /\ rules' = {} /\ NoFault /\ UNCHANGED <<saved, told, fresh, later>>
  <2>1. later' = {}
    BY <1>2 DEF Create, CanCreate, AInv, IInv, Quiet
  <2>2. Promised'
    BY <1>1, <1>2, WantedBlocks, LaunchPromises DEF Promised
  <2> QED
    BY <1>1, <1>2, <2>1, <2>2, WantedBlocks, LaunchApplies DEF Alone
<1>3. CASE Wanted = {} /\ FinishWithRead({}) /\ UNCHANGED op
  <2>1. PortKeys(config.rules) = {}
    BY <1>1, <1>3, WantedBlocks DEF PortKeys
  <2>2. Idle'
    BY <1>3 DEF Create, CanCreate, Idle
  <2> QED
    BY <1>1, <1>3, <2>1, <2>2, FinishApplies DEF Alone
<1> QED
  BY <1>2, <1>3 DEF Create

LEMMA UpdateAStep == ASSUME AInv, IInv', Update PROVE Applies'
<1> DEFINE ors == Minus(saved.rules, Wanted)
           nrs == Minus(Wanted, saved.rules)
<1>1. Idle /\ fresh /\ UNCHANGED <<cloud, config>> /\ TypeOK /\ config.rules \subseteq Rules
  BY DEF Update, CanUpdate, AInv, IInv, TypeOK
<1>2. FreshReal
  BY DEF AInv, Applies
\* A configured rule that the state lists as it is configured is open.
<1>3. ASSUME Undisturbed, NEW r \in config.rules, NEW e \in saved.rules, Content(e) = <<r, PortsOf[r]>>,
             NEW p \in PortsOf[r]
      PROVE  \E c \in cloud : /\ c.rule = r /\ c.port = p
                              /\ \A d \in saved.rules : c.uuid \in EntryUuids(d) => d = e
  <2>1. e.rule = r /\ e.ports = PortsOf[r] /\ r \in Rules
    BY <1>1, <1>3 DEF Content
  <2> QED
    BY <1>1, <1>2, <1>3, <2>1 DEF FreshReal
<1>4. CASE RejectUpdate
  <2>1. saved'.rules = Wanted /\ told' = "error" /\ fresh' = FALSE /\ Idle'
    BY <1>1, <1>4 DEF RejectUpdate, Save, AInv, IInv, TypeOK, Idle
  <2>2. FreshReal' /\ OkMeansApplied'
    BY <2>1 DEF FreshReal, OkMeansApplied
  <2>3. \A e \in saved'.rules : Right(e)'
    BY <1>1, <2>1, WantedBlocks DEF Right
  <2> QED
    BY <1>1, <2>1, <2>2, <2>3, WantedBlocks, IdleApplies
<1>5. CASE UpdateNothing
  <2>1. FinishWithRead(saved.rules) /\ Idle' /\ Contents(saved.rules) = Contents(Wanted)
    BY <1>1, <1>5 DEF UpdateNothing, RulesDiffer, Idle
  <2>2. ASSUME Undisturbed, NEW r \in config.rules, NEW p \in PortsOf[r]
        PROVE  \E c \in Own : c.rule = r /\ c.port = p
    <3>1. PICK e \in saved.rules : Content(e) = <<r, PortsOf[r]>>
      BY <1>1, <2>1, WantedBlocks DEF Contents
    <3>2. r # Foreign
      BY <1>1, FirewallAssumption DEF FirewallAssumption
    <3> QED
      BY <1>3, <2>2, <3>1, <3>2 DEF Own
  <2>3. Undisturbed => PortKeys(config.rules) \subseteq OpenPorts(Own)
    BY <2>2 DEF PortKeys, OpenPorts
  <2> QED
    BY <1>1, <2>1, <2>3, SavedRight, FinishApplies
<1>6. CASE StartUpdate
  <2>1. /\ rules' = saved.rules \ ors
        /\ \/ ors # {} /\ Launch("delete", ors) /\ later' = nrs
           \/ ors = {} /\ Launch("update", nrs) /\ later' = {}
        /\ UNCHANGED <<saved, faults>>
    BY <1>6 DEF StartUpdate, NoFault
  <2>2. /\ \A e \in ors : e \in saved.rules /\ Content(e) \notin Contents(Wanted)
        /\ \A e \in saved.rules \ ors : Content(e) \in Contents(Wanted)
        /\ \A e \in nrs : e \in Wanted /\ Content(e) \notin Contents(saved.rules)
        /\ \A e \in Wanted \ nrs : Content(e) \in Contents(saved.rules)
    BY DEF Minus
  <2> HIDE DEF ors, nrs
  <2>3. \A e \in rules' : \E r \in config.rules : Content(e) = <<r, PortsOf[r]>>
    BY <1>1, <2>1, <2>2, WantedBlocks DEF Contents
  <2>4. \A e \in rules', d \in nrs : e.rule # d.rule
    <3> SUFFICES ASSUME NEW e \in rules', NEW d \in nrs, e.rule = d.rule PROVE FALSE
      OBVIOUS
    <3>1. Content(e) = <<e.rule, PortsOf[e.rule]>>
      BY <2>3 DEF Content
    <3>2. Content(d) = <<d.rule, PortsOf[d.rule]>>
      BY <1>1, <2>2, WantedBlocks
    <3> QED
      BY <2>1, <2>2, <3>1, <3>2 DEF Contents
  <2>5. \A e \in rules', d \in ors : e.rule \in Rules => e.rule # d.rule
    BY <2>1, <2>2, SavedRight DEF Alone
  <2>6. /\ \A e \in ors \cup nrs \cup rules' : Right(e)
        /\ Alone(ors) /\ Alone(nrs) /\ Alone(rules') /\ \A d \in nrs : d = Entry(d.rule)
    BY <1>1, <2>1, <2>2, SavedRight, WantedBlocks DEF Alone
  <2>7. \A r \in config.rules : Entry(r) \in nrs \/ \E e \in saved.rules : Content(e) = <<r, PortsOf[r]>>
    BY <1>1, <2>2, WantedBlocks DEF Contents
  <2>8. ASSUME NEW r \in config.rules, NEW e \in saved.rules, Content(e) = <<r, PortsOf[r]>> PROVE e \notin ors
    BY <1>1, <2>2, <2>8, WantedBlocks DEF Contents
  <2>9. CASE Launch("delete", ors) /\ later' = nrs
    <3>1. op' = "delete" /\ work' = [e \in ors |-> e] /\ DOMAIN stage' = ors
      BY <2>9 DEF Launch, Pool!Spawn
    <3>2. ASSUME Undisturbed, NEW r \in config.rules, Entry(r) \notin nrs, NEW p \in PortsOf[r] PROVE InPlace(r, p)'
      <4>1. PICK e \in saved.rules : Content(e) = <<r, PortsOf[r]>>
        BY <2>7, <3>2
      <4>2. PICK c \in cloud : /\ c.rule = r /\ c.port = p
                               /\ \A d \in saved.rules : c.uuid \in EntryUuids(d) => d = e
        BY <1>3, <3>2, <4>1
      <4>3. \A d \in ors : c.uuid \notin EntryUuids(d)
        BY <2>2, <2>8, <4>1, <4>2
      <4> QED
        BY <1>1, <3>1, <4>2, <4>3 DEF InPlace, EntryUuids
    <3>3. Promised'
      BY <1>1, <2>1, <2>9, <3>2 DEF Promised, Undisturbed
    <3> QED
      BY <1>1, <2>1, <2>4, <2>5, <2>6, <2>9, <3>3, LaunchApplies
  <2>10. CASE Launch("update", nrs) /\ later' = {}
    <3>1. op' = "update"
      BY <2>10 DEF Launch
    <3>2. ASSUME Undisturbed, NEW r \in config.rules, NEW p \in PortsOf[r] PROVE InProgress(r, p)' \/ InPlace(r, p)'
      <4>1. CASE Entry(r) \in nrs
        BY <1>1, <2>10, <4>1, WantedBlocks, LaunchPromises
      <4>2. CASE \E e \in saved.rules : Content(e) = <<r, PortsOf[r]>>
        BY <1>1, <1>3, <3>1, <3>2, <4>2 DEF InPlace
      <4> QED
        BY <2>7, <4>1, <4>2
    <3>3. Promised'
      BY <1>1, <2>1, <3>2 DEF Promised, Undisturbed
    <3> QED
      BY <1>1, <2>1, <2>4, <2>6, <2>10, <3>3, LaunchApplies
  <2> QED
    BY <2>1, <2>9, <2>10
<1> QED
  BY <1>4, <1>5, <1>6 DEF Update

LEMMA DeleteAStep == ASSUME AInv, IInv', Delete PROVE Applies'
<1>1. Idle /\ UNCHANGED <<cloud, config>>
  BY DEF Delete
<1>2. CASE Launch("destroy", saved.rules) /\ rules' = {} /\ UNCHANGED <<saved, told, fresh, later>>
  <2>1. later' = {} /\ op' = "destroy"
    BY <1>1, <1>2 DEF AInv, IInv, Quiet, Launch
  <2>2. Promised'
    BY <2>1 DEF Promised
  <2> QED
    BY <1>1, <1>2, <2>1, <2>2, SavedRight, LaunchApplies DEF Alone
<1>3. CASE Save(Gone, "none") /\ UNCHANGED op
  <2>1. saved'.rules = {} /\ told' = "none" /\ Idle'
    BY <1>1, <1>3 DEF Save, Gone, Idle
  <2> QED
    BY <2>1, IdleApplies DEF FreshReal, OkMeansApplied, Alone
<1> QED
  BY <1>2, <1>3 DEF Delete

\* A handler that stops without success and leaves blocks in the state that it had.
LEMMA StopApplies ==
  ASSUME AInv, IInv', Idle', fresh' = FALSE, told' # "ok", cloud' = cloud,
         saved'.rules \in {{}, rules, saved.rules}
  PROVE  Applies'
<1>1. (\A e \in saved'.rules : Right(e)) /\ Alone(saved'.rules)
  BY SavedRight DEF Alone
<1>2. \A e \in saved'.rules : Right(e)'
  BY <1>1 DEF Right
<1>3. FreshReal' /\ OkMeansApplied'
  BY DEF FreshReal, OkMeansApplied
<1> QED
  BY <1>1, <1>2, <1>3, IdleApplies

LEMMA DieAStep == ASSUME AInv, IInv', Die PROVE Applies'
BY StopApplies DEF Die, Stop, Idle

LEMMA CreateTheRestAStep == ASSUME AInv, IInv', CreateTheRest PROVE Applies'
<1>1. /\ Launch("update", later) /\ later' = {} /\ op = "delete" /\ ~failed /\ Pool!Returned
      /\ UNCHANGED <<cloud, config, saved, rules, faults>>
  BY DEF CreateTheRest, Waited
<1>2. /\ \A e \in later : e = Entry(e.rule)
      /\ \A e \in rules : \A d \in later : e.rule # d.rule
  BY <1>1 DEF AInv, Applies, OneEach
<1>3. \A e \in later : DOMAIN e.uuids = {} /\ e.rule \in Rules /\ Todo(e) = PortsOf[e.rule]
  BY <1>2 DEF AInv, IInv, Fresh, Entry, NoUuids, Todo
<1>4. (\A e \in later : Right(e)) /\ Alone(later)
  BY <1>2, <1>3 DEF Right, Alone
<1>5. Promised'
  <2> SUFFICES ASSUME Undisturbed, NEW r \in config.rules, NEW p \in PortsOf[r]
               PROVE  InProgress(r, p)' \/ InPlace(r, p)'
    BY <1>1 DEF Promised, Undisturbed
  <2>1. Entry(r) \in later \/ InProgress(r, p) \/ InPlace(r, p)
    BY <1>1 DEF AInv, Applies, Promised
  <2>2. CASE Entry(r) \in later
    <3>1. Entry(r).rule = r
      BY DEF Entry
    <3> QED
      BY <1>1, <1>3, <2>2, <3>1, LaunchPromises
  <2>3. CASE InProgress(r, p) \/ InPlace(r, p)
    BY <1>1, <2>3 DEF InProgress, InPlace, Creating, Launch
  <2> QED
    BY <2>1, <2>2, <2>3
<1> QED
  BY <1>1, <1>2, <1>4, <1>5, SavedRight, LaunchApplies

\* wg.Wait returned, nothing failed and nothing is left to do: all ports are open.
LEMMA AllOpen ==
  ASSUME AInv, CanReturnRead, Undisturbed PROVE PortKeys(config.rules) \subseteq OpenPorts(Own)
<1>1. op \in {"create", "delete", "update"} /\ ~failed /\ later = {} /\ Pool!Returned
  BY DEF CanReturnRead, Waited
<1>2. ASSUME NEW r \in config.rules, NEW p \in PortsOf[r] PROVE \E c \in Own : c.rule = r /\ c.port = p
  <2>1. InPlace(r, p)
    BY <1>1 DEF AInv, Applies, Promised, InProgress, Pool!Returned
  <2>2. r # Foreign
    BY FirewallAssumption DEF FirewallAssumption, AInv, IInv, TypeOK
  <2> QED
    BY <2>1, <2>2 DEF InPlace, Own
<1> QED
  BY <1>2 DEF PortKeys, OpenPorts

LEMMA ReturnAStep == ASSUME AInv, IInv', Return PROVE Applies'
<1>1. CASE ReturnError
  BY <1>1, StopApplies DEF ReturnError, Stop, Idle, Save, Partial, State
<1>2. CASE ReturnDeleted
  BY <1>2, StopApplies DEF ReturnDeleted, Stop, Idle, Save, Gone
<1>3. CASE CreateTheRest
  BY <1>3, CreateTheRestAStep
<1>4. CASE ReturnRead
  BY <1>4, AllOpen, SavedRight, FinishApplies DEF ReturnRead, Stop, Idle
<1> QED
  BY <1>1, <1>2, <1>3, <1>4 DEF Return

-----------------------------------------------------------------------------
(* The user and the other users of the account.                            *)

\* A fault that leaves the provider alone, and deletes nothing undisturbed.
LEMMA OutsideAStep ==
  ASSUME AInv, NEW kind, Fault(kind), told' = "none",
         UNCHANGED <<config, saved, fresh, op, rules, later, work, stage, failed, changes>>,
         \A c \in cloud' : c \in cloud \/ c.uuid \notin UuidsIn(Listed),
         Undisturbed' => cloud \subseteq cloud'
  PROVE  Applies'
<1> USE DEF AInv, Applies
<1>1. Undisturbed' => Undisturbed
  BY FaultFacts DEF Undisturbed, IInv
<1>2. Agree'
  <2>1. Listed' = Listed
    BY DEF Listed
  <2> QED
    BY <2>1, AgreeFacts, PartOfItself
<1>3. OneEach'
  BY DEF OneEach, Live
<1>4. FreshReal'
  <2>1. FreshReal
    OBVIOUS
  <2> HIDE DEF AInv, Applies
  <2> QED
    BY <1>1, <2>1 DEF FreshReal, Idle
<1>5. Promised'
  <2>1. ASSUME Undisturbed', NEW r, NEW p PROVE (InProgress(r, p) => InProgress(r, p)') /\ (InPlace(r, p) => InPlace(r, p)')
    BY <2>1 DEF InProgress, InPlace, Creating
  <2>2. Promised
    OBVIOUS
  <2> HIDE DEF AInv, Applies
  <2> QED
    BY <1>1, <2>1, <2>2 DEF Promised
<1>6. OkMeansApplied'
  BY DEF OkMeansApplied
<1> QED
  BY <1>2, <1>3, <1>4, <1>5, <1>6

LEMMA EnvironmentAStep == ASSUME AInv, IInv', Environment PROVE Applies'
<1>1. CASE Edit
  BY <1>1, StopApplies DEF Edit, Idle
<1>2. CASE DeleteOutOfBand
  <2>1. ~Undisturbed'
    BY <1>2, FaultFacts DEF DeleteOutOfBand, Undisturbed, AInv, IInv
  <2> QED
    BY <1>2, <2>1, OutsideAStep DEF DeleteOutOfBand, RemoveRule
<1>3. CASE CreateForeign
  BY <1>3, OutsideAStep, UnusedFacts DEF CreateForeign, NewRule
<1>4. CASE Crash
  BY <1>4, DieAStep DEF Crash
<1> QED
  BY <1>1, <1>2, <1>3, <1>4 DEF Environment

LEMMA GoroutineAStep == ASSUME AInv, IInv', NEW j \in DOMAIN stage, Goroutine(j) PROVE Applies'
BY DieAStep, AcquireAStep, RejectAStep, CreateRuleAStep, DeleteRuleAStep, AddAStep
DEF Goroutine, ConcurrentMapWrites

LEMMA NextAInv == AInv /\ [Next]_vars => AInv'
<1> SUFFICES ASSUME AInv, [Next]_vars, IInv' PROVE Applies'
  BY NextIInv DEF AInv
<1>1. CASE Terraform
  BY <1>1, RefreshAStep, CreateAStep, UpdateAStep, DeleteAStep DEF Terraform
<1>2. CASE Provider
  BY <1>2, GoroutineAStep, ReturnAStep DEF Provider
<1>3. CASE Environment
  BY <1>3, EnvironmentAStep
<1>4. CASE UNCHANGED vars
  <2>1. Agree' /\ OneEach' /\ FreshReal' /\ OkMeansApplied'
    BY <1>4 DEF vars, AInv, Applies, Agree, Listed, Right, OneEach, Live, FreshReal, OkMeansApplied,
                Undisturbed, Idle, Own
  <2>2. Promised'
    BY <1>4 DEF vars, AInv, Applies, Promised, Undisturbed, InProgress, InPlace, Creating
  <2> QED
    BY <2>1, <2>2 DEF Applies
<1> QED
  BY <1>1, <1>2, <1>3, <1>4 DEF Next

LEMMA InitAInv == Init => AInv
<1> SUFFICES ASSUME Init PROVE Applies
  BY InitIInv DEF AInv
<1>1. saved.rules = {} /\ op = "idle" /\ rules = {} /\ later = {} /\ DOMAIN stage = {} /\ DOMAIN work = {}
      /\ told = "none"
  BY DEF Init, Gone, Pool!Spawn
<1>2. Agree /\ OneEach
  BY <1>1 DEF Agree, Listed, Range, OneEach, Alone, Live
<1>3. FreshReal /\ Promised /\ OkMeansApplied
  BY <1>1 DEF FreshReal, Promised, OkMeansApplied
<1> QED
  BY <1>2, <1>3 DEF Applies

-----------------------------------------------------------------------------
(* The egress rules: a step is one of Firewall's, or the provider dies in  *)
(* a Read.                                                                 *)

LEMMA EgressSteps == [EgressNext]_vars => [Next]_vars \/ \E es : PanicInRead(es)
BY DEF EgressNext, EgressTerraform, EgressRefresh, EgressCreate, EgressUpdate, EgressProvider, EgressReturn,
       EgressReturnRead, Next, Terraform, Provider, Return

LEMMA NextEgress == AInv /\ [EgressNext]_vars => AInv'
<1> SUFFICES ASSUME AInv, NEW es, PanicInRead(es) PROVE AInv'
  BY EgressSteps, NextAInv
<1>1. Die /\ faults' = [faults EXCEPT !.kinds = @ \cup {"crash"}] /\ IInv
  BY DEF PanicInRead, AInv
<1>2. IInv'
  BY <1>1, DieStep, DeadlyFacts DEF IInv
<1> QED
  BY <1>1, <1>2, DieAStep DEF AInv

-----------------------------------------------------------------------------
(* What follows for every behaviour.                                       *)

\* Type correctness of the resource.
THEOREM TypeCorrect == Spec => []TypeOK
<1>1. IInv => TypeOK
  BY DEF IInv
<1> QED
  BY <1>1, InitIInv, NextIInv, PTL DEF Spec

LEMMA InvTracked == IInv => Tracked
<1> SUFFICES ASSUME IInv, ~Blinded, NEW c \in Own PROVE c.uuid \in Remembered
  BY DEF Tracked, NothingForgotten, Ids
<1>1. \A e : Names(e, c.uuid) => c.uuid \in EntryUuids(e)
  BY DEF Names, EntryUuids, Range
<1>2. CASE Idle
  BY <1>1, <1>2 DEF IInv, Kept, Remembered, UuidsIn
<1>3. CASE ~Idle
  <2>1. \A j \in Live : work[j] \in Range(work)
    BY DEF IInv, TypeOK, Live, Range
  <2> QED
    BY <1>1, <1>3, <2>1 DEF IInv, Held, Remembered, UuidsIn
<1> QED
  BY <1>2, <1>3

\* No firewall rule that createFirewallRule made, for whatever port of a block, is
\* forgotten: neither in the middle of an operation nor by the state that one of
\* them leaves behind, with the exceptions that Blinded names.
THEOREM RulesTracked == Spec => []Tracked
BY InvTracked, InitIInv, NextIInv, PTL DEF Spec

\* After a refresh or a successful operation the state of Terraform lists existing
\* rules only, each block with the ports that have a uuid.
THEOREM RealState == Spec => []StateIsReal
<1>1. IInv => StateIsReal
  BY DEF IInv
<1> QED
  BY <1>1, InitIInv, NextIInv, PTL DEF Spec

\* An operation that reports success leaves every port of every configured rule open,
\* however its goroutines were interleaved and whatever failed before it, unless
\* someone deleted a rule or a Read overlooked that all of them were gone.
THEOREM SuccessApplied == Spec => []OkMeansApplied
<1>1. AInv => OkMeansApplied
  BY DEF AInv, Applies
<1> QED
  BY <1>1, InitAInv, NextAInv, PTL DEF Spec

\* All of it holds of the egress rules of a network, too, whose Read may panic.
THEOREM EgressAlike == EgressSpec => [](TypeOK /\ Tracked /\ StateIsReal /\ OkMeansApplied)
<1>1. AInv => TypeOK /\ Tracked /\ StateIsReal /\ OkMeansApplied
  BY InvTracked DEF AInv, Applies, IInv
<1> QED
  BY <1>1, InitAInv, NextEgress, PTL DEF EgressSpec
=============================================================================
