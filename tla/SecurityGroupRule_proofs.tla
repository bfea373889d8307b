---------------------- MODULE SecurityGroupRule_proofs ----------------------
(***************************************************************************)
(* For any rules, sources, ports, configurations and bounds: no rule of    *)
(* the group is forgotten, wherever among its sources a goroutine stopped, *)
(* and an operation that reports success has opened every port to every    *)
(* source, with the exceptions that the properties name.                   *)
(***************************************************************************)
EXTENDS SecurityGroupRule, TLAPS

-----------------------------------------------------------------------------
(* The inductive invariant.                                                *)

Knows(e, u) == u \in EntryUuids(e)

\* Between operations no handler has anything in its hands.
Quiet == Idle => DOMAIN stage = {} /\ rules = {} /\ later = {}

\* What is to be created starts from nothing.
Fresh == \A e \in later : e.rule \in Rules /\ e = Entry(e.rule)

\* The goroutine j of a creation has no uuid for the sources before it, nor for the
\* ports it has yet to ask for at its present one, and a rule it rejects has none.
Making(j, w) ==
  /\ j.rule \in Invalid => w.entry.uuids = NoUuids
  /\ w.entry.ports \cup w.left \cup w.got \subseteq PortsOf[j.rule]
  /\ w.sources \subseteq SourcesOf[j.rule]
  /\ \A k \in DOMAIN w.entry.uuids : k[1] \notin w.sources
  /\ \A p \in w.left : <<w.at, p>> \notin DOMAIN w.entry.uuids
  /\ w.left # {} => w.at \in SourcesOf[j.rule] \ w.sources

InHand ==
  /\ \A j \in DOMAIN stage : work[j].entry.rule = j.rule
  /\ \A j \in DOMAIN stage : stage[j] = "leaked" => work[j].entry.uuids = NoUuids
  /\ Creating => \A j \in DOMAIN stage : Making(j, work[j])

Unborn == ~saved.id => saved.rules = {}

\* A destroy without an error has put nothing back.
Destroyed ==
  op = "destroy" /\ ~failed => rules = {} /\ \A j \in DOMAIN stage : stage[j] # "collecting"

\* The goroutines that have not finished.
Live == {j \in DOMAIN stage : stage[j] \in {"spawned", "working", "collecting"}}

\* Some block of the set has the uuid of a rule, or a goroutine has yet to put it
\* there; between operations one of the state has it.
Held ==
  ~Blinded /\ ~Idle => \A c \in cloud :
    (\E e \in rules : Knows(e, c.uuid)) \/ (\E j \in Live : Knows(work[j].entry, c.uuid))
Kept == ~Blinded /\ Idle => \A c \in cloud : \E e \in saved.rules : Knows(e, c.uuid)

IInv == TypeOK /\ Quiet /\ Fresh /\ InHand /\ Unborn /\ Destroyed /\ Held /\ Kept

-----------------------------------------------------------------------------
(* Blocks.                                                                 *)

LEMMA KeyFacts ==
  ASSUME NEW r \in Rules
  PROVE  KeysOf(r) \subseteq Keys /\ PortsOf[r] \subseteq Ports /\ SourcesOf[r] \subseteq Sources
BY DEF Keys, Ports, Sources

LEMMA EntryFacts ==
  ASSUME NEW r \in Rules
  PROVE  /\ EntryOK(Entry(r)) /\ Entry(r).rule = r /\ Entry(r).ports = PortsOf[r]
         /\ Entry(r).uuids = NoUuids /\ DOMAIN Entry(r).uuids = {}
<1>1. DOMAIN Entry(r) = {"rule", "ports", "uuids"} /\ Entry(r).rule = r /\ Entry(r).ports = PortsOf[r]
      /\ Entry(r).uuids = NoUuids /\ DOMAIN NoUuids = {}
  BY DEF Entry, NoUuids
<1> QED
  BY <1>1, KeyFacts DEF EntryOK, EntryUuids, Range

\* A port gets a uuid: it is known, and whatever was, still is.
Got(e, k, u, got) == [WithUuid(e, k, u) EXCEPT !.ports = got]

LEMMA GotFacts ==
  ASSUME NEW e, EntryOK(e), NEW k \in Keys, k \notin DOMAIN e.uuids, NEW u \in Uuid, NEW got, got \subseteq Ports
  PROVE  /\ EntryOK(Got(e, k, u, got)) /\ Got(e, k, u, got).rule = e.rule /\ Got(e, k, u, got).ports = got
         /\ \A v : Knows(Got(e, k, u, got), v) <=> v = u \/ Knows(e, v)
         /\ DOMAIN Got(e, k, u, got).uuids = DOMAIN e.uuids \cup {k}
         /\ Got(e, k, u, got).uuids[k] = u
         /\ \A x \in DOMAIN e.uuids : Got(e, k, u, got).uuids[x] = e.uuids[x]
<1> DEFINE f == Got(e, k, u, got)
<1>1. DOMAIN f = {"rule", "ports", "uuids"} /\ f.rule = e.rule /\ f.ports = got
      /\ f.uuids = [x \in DOMAIN e.uuids \cup {k} |-> IF x = k THEN u ELSE e.uuids[x]]
  BY DEF Got, WithUuid, EntryOK
<1> HIDE DEF f
<1>2. DOMAIN f.uuids = DOMAIN e.uuids \cup {k} /\ f.uuids[k] = u
      /\ \A x \in DOMAIN e.uuids : f.uuids[x] = e.uuids[x]
  BY <1>1
<1>3. EntryOK(f)
  BY <1>1, <1>2 DEF EntryOK, EntryUuids, Range
<1>4. \A v : Knows(f, v) <=> v = u \/ Knows(e, v)
  BY <1>2 DEF Knows, EntryUuids, Range
<1> QED
  BY <1>1, <1>2, <1>3, <1>4 DEF f

\* The key k loses its uuid: all others are still known.
Less(e, k) == [e EXCEPT !.uuids = Restrict(e.uuids, DOMAIN e.uuids \ {k})]

LEMMA LessFacts ==
  ASSUME NEW e, EntryOK(e), NEW k \in DOMAIN e.uuids
  PROVE  /\ EntryOK(Less(e, k)) /\ Less(e, k).rule = e.rule /\ Less(e, k).ports = e.ports
         /\ \A v : Knows(e, v) /\ v # e.uuids[k] => Knows(Less(e, k), v)
         /\ DOMAIN Less(e, k).uuids = DOMAIN e.uuids \ {k}
         /\ \A x \in DOMAIN e.uuids \ {k} : Less(e, k).uuids[x] = e.uuids[x]
<1> DEFINE f == Less(e, k)
<1>1. DOMAIN f = {"rule", "ports", "uuids"} /\ f.rule = e.rule /\ f.ports = e.ports
      /\ f.uuids = [x \in DOMAIN e.uuids \ {k} |-> e.uuids[x]]
  BY DEF Less, EntryOK, Restrict
<1> HIDE DEF f
<1>2. DOMAIN f.uuids = DOMAIN e.uuids \ {k} /\ \A x \in DOMAIN e.uuids \ {k} : f.uuids[x] = e.uuids[x]
  BY <1>1
<1>3. EntryOK(f)
  BY <1>1, <1>2 DEF EntryOK, EntryUuids, Range
<1>4. \A v : Knows(e, v) /\ v # e.uuids[k] => Knows(f, v)
  BY <1>1, <1>2 DEF Knows, EntryUuids, Range
<1> QED
  BY <1>1, <1>2, <1>3, <1>4 DEF f

LEMMA NothingKnown == ASSUME NEW e, e.uuids = NoUuids PROVE \A u : ~Knows(e, u)
BY DEF Knows, EntryUuids, Range, NoUuids

\* A fault is one more, and is remembered.
LEMMA FaultFacts ==
  ASSUME TypeOK, NEW kind, Fault(kind)
  PROVE  /\ faults' \in [number : 0..MaxFaults, kinds : SUBSET FaultKinds]
         /\ faults'.kinds = faults.kinds \cup {kind}
BY SecurityGroupRuleAssumption DEF TypeOK, Fault, SecurityGroupRuleAssumption

\* A uuid nobody knows.
LEMMA UnusedFacts ==
  ASSUME Unused # {}
  PROVE  NewUuid \in Uuid /\ NewUuid \notin Remembered /\ \A c \in cloud : c.uuid # NewUuid
<1>1. NewUuid \in Unused
  BY DEF NewUuid
<1> QED
  BY <1>1 DEF Unused, Ids

\* A rule that is authorised for the key k.
LEMMA NewRuleFacts ==
  ASSUME TypeOK, NEW r \in Rules, NEW k \in KeysOf(r), NewRule(r, k)
  PROVE  /\ NewUuid \in Uuid
         /\ \A c \in cloud' : c.uuid \in Uuid /\ c.rule \in Rules /\ c.key \in Keys
         /\ \A c \in cloud' : c \in cloud \/ c.uuid = NewUuid
BY UnusedFacts, KeyFacts DEF NewRule, TypeOK

LEMMA InitIInv == Init => IInv
<1> SUFFICES ASSUME Init PROVE IInv
  OBVIOUS
<1> USE DEF Init, Pool!Spawn, Idle
<1>1. DOMAIN saved = {"id", "tainted", "rules"} /\ saved.rules = {} /\ saved.id = FALSE /\ saved.tainted = FALSE
  BY DEF Gone
<1>2. config \in [present : BOOLEAN, rules : SUBSET Rules]
  OBVIOUS
<1>3. faults \in [number : 0..MaxFaults, kinds : SUBSET FaultKinds] /\ changes \in 0..MaxChanges
  BY SecurityGroupRuleAssumption DEF SecurityGroupRuleAssumption
<1>4. TypeOK
  BY <1>1, <1>2, <1>3 DEF TypeOK
<1>5. Quiet /\ Fresh /\ InHand /\ Unborn /\ Destroyed
  BY <1>1 DEF Quiet, Fresh, InHand, Creating, Unborn, Destroyed
<1>6. Held /\ Kept
  BY DEF Held, Kept
<1> QED
  BY <1>4, <1>5, <1>6 DEF IInv

-----------------------------------------------------------------------------
(* The goroutines.                                                         *)

\* The goroutine j goes on with w; the handler and the set are untouched.  What it
\* knows stays known, and a new rule is.
GoesOn(j, w) ==
  /\ DOMAIN stage' = DOMAIN stage /\ DOMAIN work' = DOMAIN work
  /\ \A i \in DOMAIN stage \ {j} : stage'[i] = stage[i] /\ work'[i] = work[i]
  /\ work'[j] = w /\ WorkOK(w) /\ w.entry.rule = j.rule /\ stage'[j] \in Pool!Stages
  /\ Creating => Making(j, w)
  /\ stage[j] \in {"spawned", "working"}
  /\ stage'[j] \in {"spawned", "working", "collecting"} \/ w.entry.uuids = NoUuids
  /\ UNCHANGED <<rules, HandlerState>>
  /\ \A c \in cloud' : c.uuid \in Uuid /\ c.rule \in Rules /\ c.key \in Keys
  /\ failed' \in BOOLEAN /\ (failed => failed')
  /\ op = "destroy" /\ ~failed' => stage'[j] # "collecting"
  /\ faults' \in [number : 0..MaxFaults, kinds : SUBSET FaultKinds]
  /\ ~Blinded' => /\ ~Blinded
                  /\ \A c \in cloud' : Knows(w.entry, c.uuid) \/ (c \in cloud /\ ~Knows(work[j].entry, c.uuid))

LEMMA GoesOnStep == ASSUME IInv, NEW j \in DOMAIN stage, NEW w, GoesOn(j, w) PROVE IInv'
<1> USE DEF IInv, HandlerState
<1>1. ~Idle
  BY DEF Quiet
<1>2. /\ DOMAIN stage' = DOMAIN stage /\ DOMAIN work' = DOMAIN work
      /\ \A i \in DOMAIN stage \ {j} : stage'[i] = stage[i] /\ work'[i] = work[i]
      /\ work'[j] = w /\ WorkOK(w) /\ w.entry.rule = j.rule /\ stage'[j] \in Pool!Stages
      /\ UNCHANGED <<rules, config, saved, fresh, op, later, told, changes>>
  BY DEF GoesOn
<1>3. TypeOK'
  <2>1. \A i \in DOMAIN stage' : EntryOK(i) /\ WorkOK(work'[i]) /\ stage'[i] \in Pool!Stages
    BY <1>2 DEF TypeOK
  <2> QED
    BY <1>2, <2>1 DEF GoesOn, TypeOK
<1>4. Quiet' /\ Unborn' /\ Kept' /\ Fresh'
  BY <1>1, <1>2 DEF Quiet, Unborn, Kept, Fresh, Idle
<1>5. InHand'
  BY <1>2 DEF InHand, Creating, GoesOn
<1>6. Destroyed'
  BY <1>2 DEF Destroyed, GoesOn
<1>7. Held'
  <2> SUFFICES ASSUME ~Blinded', NEW c \in cloud'
               PROVE  (\E x \in rules' : Knows(x, c.uuid)) \/ (\E i \in Live' : Knows(work'[i].entry, c.uuid))
    BY DEF Held
  <2>1. Knows(w.entry, c.uuid) \/ (c \in cloud /\ ~Knows(work[j].entry, c.uuid) /\ ~Blinded)
    BY DEF GoesOn
  <2>2. CASE Knows(w.entry, c.uuid)
    <3>1. j \in Live'
      BY <1>2, <2>2, NothingKnown DEF GoesOn, Live
    <3> QED
      BY <1>2, <2>2, <3>1
  <2>3. CASE c \in cloud /\ ~Knows(work[j].entry, c.uuid) /\ ~Blinded
    <3>1. (\E x \in rules : Knows(x, c.uuid)) \/ (\E i \in Live : Knows(work[i].entry, c.uuid))
      BY <1>1, <2>3 DEF Held
    <3>2. \A i \in Live : Knows(work[i].entry, c.uuid) => i \in Live' /\ work'[i] = work[i]
      BY <1>2, <2>3 DEF Live
    <3> QED
      BY <1>2, <3>1, <3>2
  <2> QED
    BY <2>1, <2>2, <2>3
<1> QED
  BY <1>3, <1>4, <1>5, <1>6, <1>7

\* The goroutine is done with its block, or puts it into the set.
LEMMA ConcludeFacts ==
  ASSUME NEW j \in DOMAIN stage, Conclude(j)
  PROVE  /\ stage[j] = "working" /\ DOMAIN stage' = DOMAIN stage
         /\ \A i \in DOMAIN stage \ {j} : stage'[i] = stage[i]
         /\ stage'[j] \in {"collecting", "done"} /\ stage'[j] \in Pool!Stages
         /\ stage'[j] = "collecting" \/ work[j].entry.uuids = NoUuids
         /\ work[j].entry.uuids = NoUuids => stage'[j] = "done"
BY DEF Conclude, Pool!StartCollecting, Pool!NothingToCollect, Pool!Goto, Pool!Stages

\* What is known of a goroutine's work.
LEMMA WorkFacts ==
  ASSUME IInv, NEW j \in DOMAIN stage
  PROVE  /\ ~Idle /\ DOMAIN work = DOMAIN stage
         /\ EntryOK(j) /\ WorkOK(work[j]) /\ work[j].entry.rule = j.rule /\ j.rule \in Rules
         /\ Creating => Making(j, work[j])
         /\ \A c \in cloud : c.uuid \in Uuid /\ c.rule \in Rules /\ c.key \in Keys
         /\ failed \in BOOLEAN
         /\ faults \in [number : 0..MaxFaults, kinds : SUBSET FaultKinds]
BY DEF IInv, Quiet, TypeOK, InHand, EntryOK

LEMMA AcquireStep == ASSUME IInv, NEW j \in DOMAIN stage, Acquire(j) PROVE IInv'
<1>1. /\ stage[j] = "spawned" /\ stage' = [stage EXCEPT ![j] = "working"]
      /\ UNCHANGED <<cloud, rules, work, failed, faults, HandlerState>>
  BY DEF Acquire, Pool!Acquire, Pool!Goto
<1>2. GoesOn(j, work[j])
  BY <1>1, WorkFacts DEF GoesOn, Blinded, Pool!Stages
<1> QED
  BY <1>2, GoesOnStep

\* The slot of the semaphore is lost, and no uuid with it.
LEMMA RejectStep == ASSUME IInv, NEW j \in DOMAIN stage, RejectRule(j) PROVE IInv'
<1>1. /\ stage[j] = "working" /\ stage' = [stage EXCEPT ![j] = "leaked"] /\ failed' = TRUE
      /\ Creating /\ j.rule \in Invalid
      /\ UNCHANGED <<cloud, rules, work, faults, HandlerState>>
  BY DEF RejectRule, Pool!Leak, Pool!Goto
<1>2. work[j].entry.uuids = NoUuids
  BY <1>1, WorkFacts DEF Making
<1>3. GoesOn(j, work[j])
  BY <1>1, <1>2, WorkFacts DEF GoesOn, Blinded, Pool!Stages
<1> QED
  BY <1>3, GoesOnStep

LEMMA NextSourceStep == ASSUME IInv, NEW j \in DOMAIN stage, NextSource(j) PROVE IInv'
<1>1. PICK s \in work[j].sources : work' = [work EXCEPT ![j] = Turned(work[j], s)]
  BY DEF NextSource, Turned
<1> DEFINE w == Turned(work[j], s)
<1>2. /\ stage[j] = "working" /\ Creating /\ j.rule \notin Invalid /\ op # "destroy"
      /\ UNCHANGED <<cloud, rules, stage, failed, faults, HandlerState>>
  BY DEF NextSource, Working, Creating
<1>3. work' = [work EXCEPT ![j] = w]
  BY <1>1
<1>4. /\ DOMAIN w = {"entry", "sources", "at", "left", "got"}
      /\ w.entry = work[j].entry /\ w.sources = work[j].sources \ {s} /\ w.at = s
      /\ w.left = work[j].entry.ports /\ w.got = {}
  BY WorkFacts DEF WorkOK, Turned
<1> HIDE DEF w
<1>5. WorkOK(w)
  BY <1>4, WorkFacts DEF WorkOK, EntryOK
<1>6. Making(j, w)
  <2>1. Making(j, work[j])
    BY <1>2, WorkFacts
  <2>2. \A p \in w.left : <<s, p>> \notin DOMAIN w.entry.uuids
    BY <1>4, <2>1 DEF Making
  <2> QED
    BY <1>2, <1>4, <2>1, <2>2 DEF Making
<1>7. GoesOn(j, w)
  BY <1>2, <1>3, <1>4, <1>5, <1>6, WorkFacts DEF GoesOn, Blinded, Pool!Stages
<1> QED
  BY <1>7, GoesOnStep

\* The goroutine has a uuid for the port p of its source: x is what it then has in
\* its hands.
Furthers(j, w, p, u, x) ==
  /\ <<w.at, p>> \in KeysOf(j.rule) /\ <<w.at, p>> \notin DOMAIN w.entry.uuids
  /\ DOMAIN x.entry.uuids = DOMAIN w.entry.uuids \cup {<<w.at, p>>}
  /\ x.entry.uuids[<<w.at, p>>] = u
  /\ \A k \in DOMAIN w.entry.uuids : x.entry.uuids[k] = w.entry.uuids[k]
  /\ x.sources = w.sources /\ x.at = w.at
  /\ x.left = w.left \ {p} /\ x.got = w.got \cup {p}
  /\ WorkOK(x) /\ Making(j, x)
  /\ x.entry.rule = j.rule /\ x.entry.ports = w.got \cup {p}
  /\ \A v : Knows(x.entry, v) <=> v = u \/ Knows(w.entry, v)

LEMMA FurtherFacts ==
  ASSUME NEW j, j.rule \in Rules, j.rule \notin Invalid, NEW w, WorkOK(w), w.entry.rule = j.rule, Making(j, w),
         NEW p \in w.left, NEW u \in Uuid
  PROVE  Furthers(j, w, p, u, Further(w, p, u))
<1> DEFINE x == Further(w, p, u)
           k == <<w.at, p>>
<1>1. w.at \in SourcesOf[j.rule] \ w.sources /\ p \in PortsOf[j.rule] /\ k \notin DOMAIN w.entry.uuids
  BY DEF Making
<1>2. k \in KeysOf(j.rule) /\ k \in Keys
  BY <1>1, KeyFacts DEF KeysOf
<1>3. /\ DOMAIN x = {"entry", "sources", "at", "left", "got"}
      /\ x.entry = Got(w.entry, k, u, w.got \cup {p})
      /\ x.sources = w.sources /\ x.at = w.at /\ x.left = w.left \ {p} /\ x.got = w.got \cup {p}
  BY DEF Further, WorkOK, Got
<1>4. w.got \cup {p} \subseteq Ports
  BY DEF WorkOK
<1>5. /\ EntryOK(x.entry) /\ x.entry.rule = j.rule /\ x.entry.ports = w.got \cup {p}
      /\ \A v : Knows(x.entry, v) <=> v = u \/ Knows(w.entry, v)
      /\ DOMAIN x.entry.uuids = DOMAIN w.entry.uuids \cup {k} /\ x.entry.uuids[k] = u
      /\ \A y \in DOMAIN w.entry.uuids : x.entry.uuids[y] = w.entry.uuids[y]
  BY <1>1, <1>2, <1>3, <1>4, GotFacts DEF WorkOK
<1> HIDE DEF x
<1>6. WorkOK(x)
  BY <1>3, <1>4, <1>5 DEF WorkOK
<1>7. Making(j, x)
  <2>1. \A q \in x.left : <<x.at, q>> \notin DOMAIN x.entry.uuids
    BY <1>3, <1>5 DEF Making
  <2>2. \A y \in DOMAIN x.entry.uuids : y[1] \notin x.sources
    <3>1. k[1] \notin x.sources
      BY <1>1, <1>3
    <3>2. \A y \in DOMAIN w.entry.uuids : y[1] \notin x.sources
      BY <1>3 DEF Making
    <3> QED
      BY <1>5, <3>1, <3>2
  <2> QED
    BY <1>1, <1>3, <1>5, <2>1, <2>2 DEF Making
<1> QED
  BY <1>1, <1>2, <1>3, <1>5, <1>6, <1>7 DEF x, Furthers

LEMMA CreatePortStep == ASSUME IInv, NEW j \in DOMAIN stage, CreatePort(j) PROVE IInv'
<1>1. PICK p \in work[j].left :
        /\ NewRule(j.rule, <<work[j].at, p>>) /\ NoFault
        /\ work' = [work EXCEPT ![j] = Further(work[j], p, NewUuid)]
  BY DEF CreatePort
<1>2. /\ stage[j] = "working" /\ Creating /\ j.rule \notin Invalid /\ op # "destroy" /\ faults' = faults
      /\ UNCHANGED <<rules, stage, failed, HandlerState>>
  BY <1>1 DEF CreatePort, Working, Creating, NoFault
<1>3. Unused # {} /\ NewUuid \in Uuid
  BY <1>1, UnusedFacts DEF NewRule
<1> DEFINE w == Further(work[j], p, NewUuid)
<1>4. /\ <<work[j].at, p>> \in KeysOf(j.rule) /\ WorkOK(w) /\ w.entry.rule = j.rule /\ Making(j, w)
      /\ \A v : Knows(w.entry, v) <=> v = NewUuid \/ Knows(work[j].entry, v)
  <2>1. Furthers(j, work[j], p, NewUuid, w)
    BY <1>2, <1>3, WorkFacts, FurtherFacts
  <2> QED
    BY <2>1 DEF Furthers
<1>5. work' = [work EXCEPT ![j] = w]
  BY <1>1
<1> HIDE DEF w
<1>6. /\ \A c \in cloud' : c.uuid \in Uuid /\ c.rule \in Rules /\ c.key \in Keys
      /\ \A c \in cloud' : c \in cloud \/ c.uuid = NewUuid
  BY <1>1, <1>4, NewRuleFacts, WorkFacts DEF IInv
<1>7. GoesOn(j, w)
  BY <1>2, <1>4, <1>5, <1>6, WorkFacts DEF GoesOn, Blinded, Pool!Stages
<1> QED
  BY <1>7, GoesOnStep

LEMMA CreatePortFailsStep == ASSUME IInv, NEW j \in DOMAIN stage, CreatePortFails(j) PROVE IInv'
<1>1. PICK p \in work[j].left :
        \/ UNCHANGED cloud /\ NoFault
        \/ Fault("apiError") /\ UNCHANGED cloud
        \/ Fault("lostReply") /\ NewRule(j.rule, <<work[j].at, p>>)
  BY DEF CreatePortFails
<1>2. /\ stage[j] = "working" /\ Creating /\ j.rule \notin Invalid /\ op # "destroy" /\ failed' = TRUE
      /\ work' = [work EXCEPT ![j].left = {}]
      /\ UNCHANGED <<rules, stage, HandlerState>>
  BY DEF CreatePortFails, Working, Creating
<1> DEFINE w == [work[j] EXCEPT !.left = {}]
<1>3. work' = [work EXCEPT ![j] = w]
  BY <1>2
<1>4. /\ DOMAIN w = {"entry", "sources", "at", "left", "got"} /\ w.entry = work[j].entry
      /\ w.sources = work[j].sources /\ w.at = work[j].at /\ w.left = {} /\ w.got = work[j].got
  BY WorkFacts DEF WorkOK
<1> HIDE DEF w
<1>5. WorkOK(w) /\ Making(j, w)
  BY <1>2, <1>4, WorkFacts DEF WorkOK, Making
<1>6. /\ faults' \in [number : 0..MaxFaults, kinds : SUBSET FaultKinds]
      /\ ~Blinded' => ~Blinded /\ cloud' = cloud
  BY <1>1, FaultFacts DEF NoFault, Blinded, Blinding, IInv, TypeOK
<1>7. \A c \in cloud' : c.uuid \in Uuid /\ c.rule \in Rules /\ c.key \in Keys
  <2>1. <<work[j].at, p>> \in KeysOf(j.rule)
    BY <1>2, WorkFacts DEF Making, KeysOf
  <2> QED
    BY <1>1, <2>1, NewRuleFacts, WorkFacts DEF IInv
<1>8. GoesOn(j, w)
  BY <1>2, <1>3, <1>4, <1>5, <1>6, <1>7, WorkFacts DEF GoesOn, Pool!Stages
<1> QED
  BY <1>8, GoesOnStep

\* The goroutine ends with what it has.
LEMMA EndsStep ==
  ASSUME IInv, NEW j \in DOMAIN stage, Conclude(j), UNCHANGED <<rules, work, HandlerState>>,
         \A c \in cloud' : c \in cloud, failed' \in BOOLEAN, failed => failed',
         op = "destroy" /\ ~failed' => work[j].entry.uuids = NoUuids,
         faults' \in [number : 0..MaxFaults, kinds : SUBSET FaultKinds], ~Blinded' => ~Blinded
  PROVE  IInv'
<1>1. GoesOn(j, work[j])
  BY ConcludeFacts, WorkFacts DEF GoesOn
<1> QED
  BY <1>1, GoesOnStep

LEMMA CreateEndsStep == ASSUME IInv, NEW j \in DOMAIN stage, CreateEnds(j) PROVE IInv'
<1>1. op # "destroy"
  BY DEF CreateEnds, Working, Creating
<1> QED
  BY <1>1, EndsStep, WorkFacts DEF CreateEnds, Blinded

LEMMA DeleteEndsStep == ASSUME IInv, NEW j \in DOMAIN stage, DeleteEnds(j) PROVE IInv'
BY EndsStep, WorkFacts DEF DeleteEnds, Blinded

LEMMA DeletePortFailsStep == ASSUME IInv, NEW j \in DOMAIN stage, DeletePortFails(j) PROVE IInv'
<1>1. \A c \in cloud' : c \in cloud
  BY DEF DeletePortFails, RemoveRule
<1>2. faults' \in [number : 0..MaxFaults, kinds : SUBSET FaultKinds] /\ (~Blinded' => ~Blinded)
  BY FaultFacts DEF DeletePortFails, Blinded, IInv
<1> QED
  BY <1>1, <1>2, EndsStep DEF DeletePortFails

\* The goroutine has deleted the rule of the key k.
Without(w, k) == [w EXCEPT !.entry = Less(w.entry, k)]

LEMMA WithoutFacts ==
  ASSUME NEW w, WorkOK(w), NEW k \in DOMAIN w.entry.uuids
  PROVE  /\ WorkOK(Without(w, k)) /\ Without(w, k).entry = Less(w.entry, k)
         /\ Without(w, k).sources = w.sources /\ Without(w, k).at = w.at /\ Without(w, k).left = w.left
<1>1. /\ DOMAIN Without(w, k) = {"entry", "sources", "at", "left", "got"} /\ Without(w, k).entry = Less(w.entry, k)
      /\ Without(w, k).sources = w.sources /\ Without(w, k).at = w.at /\ Without(w, k).left = w.left
      /\ Without(w, k).got = w.got
  BY DEF Without, WorkOK
<1> QED
  BY <1>1, LessFacts DEF WorkOK

LEMMA DeletePortFacts ==
  ASSUME IInv, NEW j \in DOMAIN stage, DeletePort(j)
  PROVE  \E k \in DOMAIN work[j].entry.uuids :
           RemoveRule(work[j].entry.uuids[k]) /\ work' = [work EXCEPT ![j] = Without(work[j], k)]
<1>1. PICK k \in DOMAIN work[j].entry.uuids :
        /\ RemoveRule(work[j].entry.uuids[k])
        /\ work' = [work EXCEPT ![j].entry.uuids = Restrict(work[j].entry.uuids, DOMAIN work[j].entry.uuids \ {k})]
  BY DEF DeletePort
<1>2. work' = [work EXCEPT ![j] = Without(work[j], k)]
  BY <1>1, WorkFacts DEF Without, Less
<1> QED
  BY <1>1, <1>2

LEMMA DeletePortStep == ASSUME IInv, NEW j \in DOMAIN stage, DeletePort(j) PROVE IInv'
<1>1. PICK k \in DOMAIN work[j].entry.uuids :
        RemoveRule(work[j].entry.uuids[k]) /\ work' = [work EXCEPT ![j] = Without(work[j], k)]
  BY DeletePortFacts
<1> DEFINE w == Without(work[j], k)
<1>2. stage[j] = "working" /\ ~Creating /\ faults' = faults /\ UNCHANGED <<rules, stage, failed, HandlerState>>
  BY DEF DeletePort, Deleting, Creating, NoFault
<1>3. /\ WorkOK(w) /\ w.entry.rule = j.rule
      /\ \A v : Knows(work[j].entry, v) /\ v # work[j].entry.uuids[k] => Knows(w.entry, v)
  <2>1. WorkOK(work[j]) /\ EntryOK(work[j].entry) /\ work[j].entry.rule = j.rule
    BY WorkFacts DEF WorkOK
  <2> QED
    BY <2>1, WithoutFacts, LessFacts
<1>4. work' = [work EXCEPT ![j] = w]
  BY <1>1
<1> HIDE DEF w
<1>5. \A c \in cloud' : c \in cloud /\ c.uuid # work[j].entry.uuids[k]
  BY <1>1 DEF RemoveRule
<1>6. GoesOn(j, w)
  BY <1>2, <1>3, <1>4, <1>5, WorkFacts DEF GoesOn, Blinded, Pool!Stages
<1> QED
  BY <1>6, GoesOnStep

LEMMA AddStep == ASSUME IInv, NEW j \in DOMAIN stage, Add(j) PROVE IInv'
<1> USE DEF IInv
<1>1. /\ stage[j] = "collecting" /\ stage' = [stage EXCEPT ![j] = "done"]
      /\ rules \subseteq rules' /\ rules' \subseteq rules \cup {work[j].entry}
      /\ faults' \in [number : 0..MaxFaults, kinds : SUBSET FaultKinds]
      /\ ~Blinded' => ~Blinded /\ rules' = rules \cup {work[j].entry}
      /\ UNCHANGED <<cloud, work, failed, config, saved, fresh, op, later, told, changes>>
  <2>1. /\ stage[j] = "collecting" /\ stage' = [stage EXCEPT ![j] = "done"]
        /\ UNCHANGED <<cloud, work, failed, config, saved, fresh, op, later, told, changes>>
    BY DEF Add, HandlerState, Pool!Collected, Pool!Goto
  <2>2. CASE rules' = rules \cup {work[j].entry} /\ NoFault
    BY <2>1, <2>2 DEF NoFault, Blinded, TypeOK
  <2>3. CASE Fault("race") /\ UNCHANGED rules
    BY <2>1, <2>3, FaultFacts DEF Blinded, Blinding
  <2> QED
    BY <2>2, <2>3 DEF Add
<1>2. ~Idle
  BY DEF Quiet
<1>3. TypeOK'
  <2>1. EntryOK(work[j].entry)
    BY DEF TypeOK, WorkOK
  <2> QED
    BY <1>1, <2>1 DEF TypeOK, Pool!Stages
<1>4. Quiet' /\ Fresh' /\ Unborn' /\ Kept'
  BY <1>1, <1>2 DEF Quiet, Fresh, Unborn, Kept, Idle
<1>5. InHand'
  BY <1>1 DEF InHand, Creating
<1>6. Destroyed'
  BY <1>1 DEF Destroyed
<1>7. Held'
  <2> SUFFICES ASSUME ~Blinded', NEW c \in cloud
               PROVE  (\E x \in rules' : Knows(x, c.uuid)) \/ (\E i \in Live' : Knows(work'[i].entry, c.uuid))
    BY <1>1 DEF Held
  <2>1. (\E x \in rules : Knows(x, c.uuid)) \/ (\E i \in Live : Knows(work[i].entry, c.uuid))
    BY <1>1, <1>2 DEF Held
  <2>2. \A i \in Live : i = j \/ i \in Live'
    BY <1>1 DEF Live, TypeOK
  <2> QED
    BY <1>1, <2>1, <2>2
<1> QED
  BY <1>3, <1>4, <1>5, <1>6, <1>7

-----------------------------------------------------------------------------
(* The handlers.                                                           *)

\* The state is well formed, and lists what exists.
StateOK(s) ==
  /\ DOMAIN s = {"id", "tainted", "rules"}
  /\ s.id \in BOOLEAN /\ s.tainted \in BOOLEAN
  /\ \A e \in s.rules : EntryOK(e)
  /\ ~s.id => s.rules = {}
Lists(es) == \A c \in cloud : \E e \in es : Knows(e, c.uuid)

LEMMA StateFacts ==
  ASSUME TypeOK, NEW es, \A e \in es : EntryOK(e)
  PROVE  /\ \A b \in BOOLEAN : StateOK(ReadState(es, b)) /\ ReadState(es, b).rules = es
         /\ StateOK(Partial(es)) /\ Partial(es).rules = es
BY DEF TypeOK, StateOK, ReadState, Partial

\* The state a handler leaves behind when it ends in Read, or fails in it.
LEMMA FinishFacts ==
  ASSUME TypeOK, NEW es, \A e \in es : EntryOK(e), FinishWithRead(es)
  PROVE  /\ StateOK(saved') /\ saved'.rules = es /\ fresh' = FALSE /\ told' \in {"ok", "error"}
         /\ faults' \in [number : 0..MaxFaults, kinds : SUBSET FaultKinds]
         /\ ~Blinded' => ~Blinded
         /\ told' = "ok" => faults' = faults
<1>1. CASE NoFault /\ Save(ReadState(es, FALSE), "ok")
  BY <1>1, StateFacts DEF NoFault, Save, TypeOK, Blinded
<1>2. CASE Fault("apiError") /\ Save(Partial(es), "error")
  BY <1>2, StateFacts, FaultFacts DEF Save, Blinded
<1> QED
  BY <1>1, <1>2 DEF FinishWithRead

\* A step between operations that only changes the state.
LEMMA IdleStep ==
  ASSUME IInv, Idle, UNCHANGED <<cloud, op, rules, later, work, stage, failed, config, changes>>,
         StateOK(saved'), fresh' \in BOOLEAN, told' \in {"none", "ok", "error", "read"},
         faults' \in [number : 0..MaxFaults, kinds : SUBSET FaultKinds],
         ~Blinded' => ~Blinded, saved.rules \subseteq saved'.rules
  PROVE  IInv'
<1> USE DEF IInv
<1>1. TypeOK'
  BY DEF TypeOK, StateOK
<1>2. Quiet' /\ Fresh' /\ InHand' /\ Unborn' /\ Destroyed' /\ Held'
  BY DEF Quiet, Fresh, InHand, Creating, Unborn, Destroyed, Held, Idle, StateOK
<1>3. Kept'
  BY DEF Kept
<1> QED
  BY <1>1, <1>2, <1>3

\* A fan-out over `batch': what the state named is in its hands, or stays in the set.
LEMMA LaunchStep ==
  ASSUME IInv, NEW phase \in {"create", "delete", "update", "destroy"}, NEW batch, Launch(phase, batch),
         UNCHANGED <<cloud, saved, fresh, told, config, faults, changes>>,
         \A e \in batch \cup rules' : EntryOK(e),
         phase \in {"create", "update"} => \A e \in batch : e = Entry(e.rule),
         phase = "destroy" => rules' = {},
         \A e \in later' : e.rule \in Rules /\ e = Entry(e.rule),
         ~Blinded => Lists(rules' \cup batch)
  PROVE  IInv'
<1> USE DEF IInv
<1> DEFINE handed(e) == [entry |-> e, sources |-> SourcesOf[e.rule], at |-> NoSource, left |-> {}, got |-> {}]
<1>1. /\ op' = phase /\ failed' = FALSE /\ work' = [e \in batch |-> handed(e)]
      /\ DOMAIN stage' = batch /\ \A e \in batch : stage'[e] = "spawned"
  BY DEF Launch, Pool!Spawn
<1>2. ASSUME NEW e \in batch PROVE work'[e] = handed(e) /\ WorkOK(work'[e]) /\ work'[e].entry = e
  <2>1. DOMAIN handed(e) = {"entry", "sources", "at", "left", "got"} /\ handed(e).entry = e
        /\ handed(e).sources = SourcesOf[e.rule] /\ handed(e).at = NoSource /\ handed(e).left = {}
        /\ handed(e).got = {}
    OBVIOUS
  <2>2. work'[e] = handed(e)
    BY <1>1
  <2>3. EntryOK(e) /\ SourcesOf[e.rule] \subseteq Sources
    BY KeyFacts DEF EntryOK
  <2> QED
    BY <2>1, <2>2, <2>3 DEF WorkOK
<1>3. ASSUME NEW e \in batch, phase \in {"create", "update"} PROVE Making(e, handed(e))
  <2>1. e.ports = PortsOf[e.rule] /\ e.uuids = NoUuids /\ DOMAIN e.uuids = {}
    BY <1>3, EntryFacts DEF EntryOK
  <2> QED
    BY <2>1 DEF Making
<1> HIDE DEF Launch, handed
<1>4. TypeOK'
  <2>1. \A e \in later' : EntryOK(e)
    BY EntryFacts
  <2> QED
    BY <1>1, <1>2, <2>1 DEF TypeOK, Pool!Stages
<1>5. InHand'
  BY <1>1, <1>2, <1>3 DEF InHand, Creating
<1>6. Quiet' /\ Fresh' /\ Unborn' /\ Destroyed' /\ Kept'
  BY <1>1 DEF Quiet, Fresh, Unborn, Destroyed, Kept, Idle
<1>7. Held'
  <2>1. Live' = batch
    BY <1>1 DEF Live
  <2> QED
    BY <1>1, <1>2, <2>1 DEF Held, Lists, Blinded
<1> QED
  BY <1>4, <1>5, <1>6, <1>7

LEMMA WantedFacts == ASSUME TypeOK PROVE \A e \in Wanted : EntryOK(e) /\ e.rule \in Rules /\ e = Entry(e.rule)
<1>1. config.rules \subseteq Rules
  BY DEF TypeOK
<1> QED
  BY <1>1, EntryFacts DEF Wanted

LEMMA RefreshStep == ASSUME IInv, Refresh PROVE IInv'
<1>1. /\ Idle /\ saved.id /\ saved' = ReadState(saved.rules, saved.tainted) /\ fresh' = TRUE /\ told' = "read"
      /\ UNCHANGED <<cloud, config, op, rules, later, work, stage, failed, faults, changes>>
  BY DEF Refresh
<1>2. StateOK(saved') /\ saved'.rules = saved.rules
  BY <1>1, StateFacts DEF IInv, TypeOK
<1>3. faults' \in [number : 0..MaxFaults, kinds : SUBSET FaultKinds] /\ Blinded' = Blinded
  BY <1>1 DEF IInv, TypeOK, Blinded
<1> QED
  BY <1>1, <1>2, <1>3, IdleStep

LEMMA CreateStep == ASSUME IInv, Create PROVE IInv'
<1>1. Idle /\ TypeOK /\ saved.rules = {} /\ rules = {} /\ later = {} /\ UNCHANGED <<cloud, config, changes>>
  BY DEF Create, IInv, Unborn, Quiet
<1>2. CASE Launch("create", Wanted) /\ rules' = {} /\ NoFault /\ UNCHANGED <<saved, told, fresh, later>>
  <2>1. ~Blinded => Lists(rules' \cup Wanted)
    BY <1>1 DEF IInv, Kept, Lists
  <2> QED
    BY <1>1, <1>2, <2>1, WantedFacts, LaunchStep DEF NoFault
<1>3. CASE FinishWithRead({}) /\ UNCHANGED <<op, rules, later, work, stage, failed>>
  BY <1>1, <1>3, FinishFacts, IdleStep
<1> QED
  BY <1>2, <1>3 DEF Create

LEMMA UpdateStep == ASSUME IInv, Update PROVE IInv'
<1> DEFINE ors == Minus(saved.rules, Wanted)
           nrs == Minus(Wanted, saved.rules)
<1>1. /\ Idle /\ rules' = saved.rules \ ors
      /\ \/ ors # {} /\ Launch("delete", ors) /\ later' = nrs
         \/ ors = {} /\ Launch("update", nrs) /\ later' = {}
      /\ UNCHANGED <<cloud, config, saved, told, fresh, faults, changes>>
  BY DEF Update
<1>2. ors \subseteq saved.rules /\ nrs \subseteq Wanted
  BY DEF Minus
<1> HIDE DEF ors, nrs
<1>3. \A e \in ors \cup nrs \cup rules' : EntryOK(e)
  BY <1>1, <1>2, WantedFacts DEF IInv, TypeOK
<1>4. \A e \in nrs : e.rule \in Rules /\ e = Entry(e.rule)
  BY <1>2, WantedFacts DEF IInv
<1>5. ~Blinded => Lists(rules' \cup ors) /\ (ors = {} => Lists(rules' \cup nrs))
  BY <1>1, <1>2 DEF IInv, Kept, Lists
<1>6. CASE Launch("delete", ors) /\ later' = nrs
  BY <1>1, <1>3, <1>4, <1>5, <1>6, LaunchStep
<1>7. CASE ors = {} /\ Launch("update", nrs) /\ later' = {}
  BY <1>1, <1>3, <1>4, <1>5, <1>7, LaunchStep
<1> QED
  BY <1>1, <1>6, <1>7

LEMMA DeleteStep == ASSUME IInv, Delete PROVE IInv'
<1>1. Idle /\ TypeOK /\ rules = {} /\ later = {} /\ UNCHANGED <<cloud, config, faults, changes>>
  BY DEF Delete, IInv, Quiet
<1>2. CASE Launch("destroy", saved.rules) /\ rules' = {} /\ UNCHANGED <<saved, told, fresh, later>>
  <2>1. ~Blinded => Lists(rules' \cup saved.rules)
    BY <1>1 DEF IInv, Kept, Lists
  <2> QED
    BY <1>1, <1>2, <2>1, LaunchStep DEF TypeOK
<1>3. CASE saved.rules = {} /\ Save(Gone, "none") /\ UNCHANGED <<op, rules, later, work, stage, failed>>
  <2>1. saved' = Gone /\ told' = "none" /\ fresh' = FALSE
    BY <1>3 DEF Save
  <2>2. StateOK(saved') /\ saved'.rules = {}
    BY <2>1 DEF Gone, StateOK
  <2>3. faults' \in [number : 0..MaxFaults, kinds : SUBSET FaultKinds] /\ Blinded' = Blinded
    BY <1>1 DEF TypeOK, Blinded
  <2> QED
    BY <1>1, <1>3, <2>1, <2>2, <2>3, IdleStep
<1> QED
  BY <1>2, <1>3 DEF Delete

-----------------------------------------------------------------------------
(* wg.Wait returned: whatever is held is in the set.                       *)

LEMMA ReturnedFacts ==
  ASSUME IInv, ~Idle, Pool!Returned
  PROVE  (~Blinded => Lists(rules)) /\ \A e \in rules \cup later : EntryOK(e)
<1>1. Live = {}
  BY DEF Live, Pool!Returned
<1> QED
  BY <1>1 DEF IInv, Held, Lists, TypeOK

\* Every way to end leaves the handler's hands empty.
LEMMA StopStep ==
  ASSUME IInv, Stop, UNCHANGED <<cloud, config, changes>>,
         StateOK(saved'), fresh' \in BOOLEAN, told' \in {"none", "ok", "error", "read"},
         faults' \in [number : 0..MaxFaults, kinds : SUBSET FaultKinds],
         ~Blinded' => Lists(saved'.rules)
  PROVE  IInv'
<1> USE DEF IInv
<1>1. op' = "idle" /\ DOMAIN stage' = {} /\ DOMAIN work' = {} /\ failed' = FALSE /\ rules' = {} /\ later' = {}
  BY DEF Stop, Pool!Spawn
<1>2. TypeOK'
  BY <1>1 DEF TypeOK, StateOK
<1>3. Quiet' /\ Fresh' /\ InHand' /\ Unborn' /\ Destroyed' /\ Held'
  BY <1>1 DEF Quiet, Fresh, InHand, Creating, Unborn, Destroyed, Held, Idle, StateOK
<1>4. Kept'
  BY DEF Kept, Lists
<1> QED
  BY <1>2, <1>3, <1>4

LEMMA DieStep == ASSUME IInv, Die, NEW kind \in {"crash", "race"}, Fault(kind) PROVE IInv'
<1>1. Stop /\ fresh' = FALSE /\ told' = "error" /\ UNCHANGED <<cloud, config, saved, changes>>
  BY DEF Die
<1>2. StateOK(saved')
  BY <1>1 DEF IInv, TypeOK, Unborn, StateOK
<1>3. faults' \in [number : 0..MaxFaults, kinds : SUBSET FaultKinds] /\ Blinded'
  BY FaultFacts DEF IInv, Blinded, Blinding
<1> QED
  BY <1>1, <1>2, <1>3, StopStep

LEMMA ReturnErrorStep == ASSUME IInv, ReturnError PROVE IInv'
<1>1. /\ saved' = Partial(rules) /\ told' = "error" /\ fresh' = FALSE /\ Stop
      /\ UNCHANGED <<cloud, config, faults, changes>>
      /\ ~Idle /\ Pool!Returned
  BY DEF ReturnError, Save, Waited, Idle
<1>2. (~Blinded => Lists(rules)) /\ \A e \in rules : EntryOK(e)
  BY <1>1, ReturnedFacts
<1>3. StateOK(saved') /\ saved'.rules = rules
  BY <1>1, <1>2, StateFacts DEF IInv
<1>4. faults' \in [number : 0..MaxFaults, kinds : SUBSET FaultKinds] /\ Blinded' = Blinded
  BY <1>1 DEF IInv, TypeOK, Blinded
<1> QED
  BY <1>1, <1>2, <1>3, <1>4, StopStep

LEMMA CreateTheRestStep == ASSUME IInv, CreateTheRest PROVE IInv'
<1>1. /\ Launch("update", later) /\ later' = {} /\ ~Idle /\ Pool!Returned
      /\ UNCHANGED <<cloud, config, saved, fresh, rules, told, faults, changes>>
  BY DEF CreateTheRest, Waited, Idle
<1>2. (~Blinded => Lists(rules)) /\ \A e \in rules \cup later : EntryOK(e)
  BY <1>1, ReturnedFacts
<1>3. ~Blinded => Lists(rules' \cup later)
  BY <1>1, <1>2 DEF Lists
<1>4. \A e \in later : e = Entry(e.rule)
  BY DEF IInv, Fresh
<1> QED
  BY <1>1, <1>2, <1>3, <1>4, LaunchStep

LEMMA ReturnReadStep == ASSUME IInv, ReturnRead PROVE IInv'
<1>1. FinishWithRead(rules) /\ Stop /\ UNCHANGED <<cloud, config, changes>> /\ ~Idle /\ Pool!Returned
  BY DEF ReturnRead, Waited, Idle
<1>2. (~Blinded => Lists(rules)) /\ \A e \in rules : EntryOK(e)
  BY <1>1, ReturnedFacts
<1> QED
  BY <1>1, <1>2, FinishFacts, StopStep DEF IInv

\* A destroy that reports no error has revoked everything it knew.
LEMMA ReturnDeletedStep == ASSUME IInv, ReturnDeleted PROVE IInv'
<1>1. /\ saved' = Gone /\ told' = "none" /\ fresh' = FALSE /\ Stop
      /\ UNCHANGED <<cloud, config, faults, changes>>
      /\ op = "destroy" /\ ~failed /\ ~Idle /\ Pool!Returned
  BY DEF ReturnDeleted, Save, Waited, Idle
<1>2. ~Blinded => Lists({})
  BY <1>1, ReturnedFacts DEF IInv, Destroyed
<1>3. StateOK(saved') /\ saved'.rules = {}
  BY <1>1 DEF Gone, StateOK
<1>4. faults' \in [number : 0..MaxFaults, kinds : SUBSET FaultKinds] /\ Blinded' = Blinded
  BY <1>1 DEF IInv, TypeOK, Blinded
<1> QED
  BY <1>1, <1>2, <1>3, <1>4, StopStep

-----------------------------------------------------------------------------
(* The user and the other users of the account.                            *)

LEMMA EditStep == ASSUME IInv, Edit PROVE IInv'
<1> USE DEF IInv
<1>1. /\ Idle /\ changes < MaxChanges /\ changes' = changes + 1 /\ told' = "none" /\ fresh' = FALSE
      /\ \/ \E rs \in Configs : config' = [present |-> TRUE, rules |-> rs]
         \/ config' = [present |-> FALSE, rules |-> {}]
      /\ UNCHANGED <<cloud, saved, op, rules, later, work, stage, failed, faults>>
  BY DEF Edit
<1>2. config' \in [present : BOOLEAN, rules : SUBSET Rules]
  <2>1. CASE config' = [present |-> FALSE, rules |-> {}]
    BY <2>1
  <2>2. CASE \E rs \in Configs : config' = [present |-> TRUE, rules |-> rs]
    <3>1. PICK rs \in Configs : config' = [present |-> TRUE, rules |-> rs]
      BY <2>2
    <3>2. rs \subseteq Rules
      BY SecurityGroupRuleAssumption DEF SecurityGroupRuleAssumption
    <3> QED
      BY <3>1, <3>2
  <2> QED
    BY <1>1, <2>1, <2>2
<1>3. changes' \in 0..MaxChanges
  BY <1>1, SecurityGroupRuleAssumption DEF SecurityGroupRuleAssumption, TypeOK
<1>4. TypeOK'
  BY <1>1, <1>2, <1>3 DEF TypeOK
<1>5. Quiet' /\ Fresh' /\ InHand' /\ Unborn' /\ Destroyed' /\ Held'
  BY <1>1 DEF Quiet, Fresh, InHand, Creating, Unborn, Destroyed, Held, Idle
<1>6. Kept'
  BY <1>1 DEF Kept, Blinded, Idle
<1> QED
  BY <1>4, <1>5, <1>6

LEMMA DeleteOutOfBandStep == ASSUME IInv, DeleteOutOfBand PROVE IInv'
<1> USE DEF IInv
<1>1. /\ Fault("outOfBand") /\ told' = "none" /\ \A c \in cloud' : c \in cloud
      /\ UNCHANGED <<config, saved, fresh, op, rules, later, work, stage, failed, changes>>
  BY DEF DeleteOutOfBand, RemoveRule
<1>2. faults' \in [number : 0..MaxFaults, kinds : SUBSET FaultKinds] /\ (~Blinded' => ~Blinded)
  BY <1>1, FaultFacts DEF Blinded
<1>3. TypeOK'
  BY <1>1, <1>2 DEF TypeOK
<1>4. Quiet' /\ Fresh' /\ InHand' /\ Unborn' /\ Destroyed'
  BY <1>1 DEF Quiet, Fresh, InHand, Creating, Unborn, Destroyed, Idle
<1>5. Held' /\ Kept'
  BY <1>1, <1>2 DEF Held, Kept, Idle, Live
<1> QED
  BY <1>3, <1>4, <1>5

-----------------------------------------------------------------------------
LEMMA GoroutineStep == ASSUME IInv, NEW j \in DOMAIN stage, Goroutine(j) PROVE IInv'
<1>1. CASE ConcurrentMapWrites(j)
  BY <1>1, DieStep DEF ConcurrentMapWrites
<1> QED
  BY <1>1, AcquireStep, RejectStep, NextSourceStep, CreatePortStep, CreatePortFailsStep, CreateEndsStep,
     DeletePortStep, DeletePortFailsStep, DeleteEndsStep, AddStep
  DEF Goroutine

LEMMA StutterStep == ASSUME IInv, UNCHANGED vars PROVE IInv'
<1> USE DEF IInv, vars
<1>1. TypeOK' /\ Quiet' /\ Fresh' /\ InHand' /\ Unborn' /\ Destroyed'
  BY DEF TypeOK, Quiet, Fresh, InHand, Creating, Unborn, Destroyed, Idle
<1>2. Held' /\ Kept'
  BY DEF Held, Kept, Blinded, Idle, Live
<1> QED
  BY <1>1, <1>2

LEMMA NextIInv == IInv /\ [Next]_vars => IInv'
<1> SUFFICES ASSUME IInv, [Next]_vars PROVE IInv'
  OBVIOUS
<1>1. CASE Terraform
  BY <1>1, RefreshStep, CreateStep, UpdateStep, DeleteStep DEF Terraform
<1>2. CASE Provider
  BY <1>2, GoroutineStep, ReturnErrorStep, CreateTheRestStep, ReturnReadStep, ReturnDeletedStep
  DEF Provider, Return
<1>3. CASE Environment
  BY <1>3, EditStep, DeleteOutOfBandStep, DieStep DEF Environment, Crash
<1>4. CASE UNCHANGED vars
  BY <1>4, StutterStep
<1> QED
  BY <1>1, <1>2, <1>3, <1>4 DEF Next

-----------------------------------------------------------------------------
(* Success means applied.                                                  *)

Undisturbed == "outOfBand" \notin faults.kinds

Listed == saved.rules \cup rules \cup {work[j].entry : j \in DOMAIN work}

\* A uuid of the block that exists is that of its rule, for the source and the port it
\* stands for.
Right(e) ==
  \A k \in DOMAIN e.uuids, c \in cloud : c.uuid = e.uuids[k] => c.rule = e.rule /\ c.key = k
Agree == \A e \in Listed : Right(e)

\* As long as no call failed, the ports a goroutine asks for at the next source are all
\* those of its rule.
Whole(j, w) ==
  IF w.left = {} THEN w.entry.ports = PortsOf[j.rule] ELSE w.left \cup w.got = PortsOf[j.rule]
AllPorts == Creating /\ ~failed => \A j \in DOMAIN stage : Whole(j, work[j])

\* The block of a configured rule, as it was in the state when the operation began.
Stays(r) == \E e \in rules : Content(e) = <<r, PortsOf[r]>>

\* A goroutine has yet to ask for the port.
Asks(w, k) == k[1] \in w.sources \/ (k[1] = w.at /\ k[2] \in w.left)
InProgress(r, k) ==
  \E j \in DOMAIN stage : j.rule = r /\ stage[j] \in {"spawned", "working"} /\ Asks(work[j], k)

Open(r, k) == \E c \in cloud : c.rule = r /\ c.key = k

\* As long as no error is reported, a configured rule stays as it is, waits until the
\* old rules are deleted, or each of its ports is open or being asked for.
Promised ==
  op \in {"create", "delete", "update"} /\ ~failed /\ Undisturbed =>
    \A r \in config.rules :
      Entry(r) \in later \/ Stays(r) \/ (Creating /\ \A k \in KeysOf(r) : InProgress(r, k) \/ Open(r, k))

Applies == Agree /\ AllPorts /\ Promised /\ OkMeansApplied

AInv == IInv /\ Applies

\* Part of what another block says of its uuids.
PartOf(e, d) ==
  e.rule = d.rule /\ DOMAIN e.uuids \subseteq DOMAIN d.uuids /\ \A k \in DOMAIN e.uuids : e.uuids[k] = d.uuids[k]

\* Blocks stay right: those afterwards are parts of those before, and what is new in the
\* cloud has a uuid that no block lists.
LEMMA RightFacts ==
  ASSUME NEW e, NEW d, PartOf(e, d), Right(d), \A c \in cloud' : c \in cloud \/ ~Knows(d, c.uuid)
  PROVE  Right(e)'
<1> SUFFICES ASSUME NEW k \in DOMAIN e.uuids, NEW c \in cloud', c.uuid = e.uuids[k]
             PROVE  c.rule = e.rule /\ c.key = k
  BY DEF Right
<1>1. d.rule = e.rule /\ k \in DOMAIN d.uuids /\ c.uuid = d.uuids[k]
  BY DEF PartOf
<1>2. c \in cloud
  BY <1>1 DEF Knows, EntryUuids, Range
<1> QED
  BY <1>1, <1>2 DEF Right

LEMMA PartOfItself == \A e : PartOf(e, e)
BY DEF PartOf

LEMMA AgreeFacts ==
  ASSUME Agree, \A e \in Listed' : \E d \in Listed : PartOf(e, d),
         \A c \in cloud' : c \in cloud \/ \A d \in Listed : ~Knows(d, c.uuid)
  PROVE  Agree'
<1> SUFFICES ASSUME NEW e \in Listed' PROVE Right(e)'
  BY DEF Agree
<1>1. PICK d \in Listed : PartOf(e, d)
  OBVIOUS
<1> QED
  BY <1>1, RightFacts DEF Agree

\* A new rule has a uuid that no block lists.
LEMMA NewRuleUnlisted ==
  ASSUME NEW r, NEW k, NewRule(r, k)
  PROVE  /\ cloud' = cloud \cup {[uuid |-> NewUuid, rule |-> r, key |-> k]}
         /\ \A c \in cloud : c.uuid # NewUuid
         /\ \A d \in Listed : ~Knows(d, NewUuid)
<1>1. Unused # {} /\ cloud' = cloud \cup {[uuid |-> NewUuid, rule |-> r, key |-> k]}
  BY DEF NewRule
<1>2. \A d \in Listed : \A u : Knows(d, u) => u \in Remembered
  BY DEF Listed, Remembered, UuidsIn, Knows
<1> QED
  BY <1>1, <1>2, UnusedFacts

-----------------------------------------------------------------------------
(* The goroutines.                                                         *)

\* Nothing a busy handler does touches what is said of the time between operations.
LEMMA BusyFacts == ~Idle' => OkMeansApplied'
BY DEF OkMeansApplied, Idle

\* What the steps of a goroutine have in common: the work w of the goroutine j, and the
\* set, which nothing leaves.
Steps(j, w) ==
  /\ ~Idle
  /\ UNCHANGED <<config, saved, op, later>>
  /\ DOMAIN stage' = DOMAIN stage /\ DOMAIN work = DOMAIN stage /\ DOMAIN work' = DOMAIN stage
  /\ \A i \in DOMAIN stage \ {j} : stage'[i] = stage[i] /\ work'[i] = work[i]
  /\ work'[j] = w
  /\ ~failed' => ~failed
  /\ Undisturbed' => Undisturbed
  /\ rules \subseteq rules' /\ rules' \subseteq rules \cup {work[j].entry}

\* What is promised stays so when the goroutine's part does.
LEMMA StepsPromised ==
  ASSUME Promised, NEW j \in DOMAIN stage, NEW w, Steps(j, w),
         ASSUME ~failed', Creating, NEW k \in KeysOf(j.rule), stage[j] \in {"spawned", "working"}, Asks(work[j], k)
         PROVE  (stage'[j] \in {"spawned", "working"} /\ Asks(w, k)) \/ Open(j.rule, k)',
         ASSUME Undisturbed', ~failed', Creating PROVE cloud \subseteq cloud'
  PROVE  Promised'
<1> USE DEF Steps
<1> SUFFICES ASSUME op \in {"create", "delete", "update"}, ~failed, ~failed', Undisturbed', NEW r \in config.rules,
                    Entry(r) \notin later, ~Stays(r)
             PROVE  Creating /\ \A k \in KeysOf(r) : InProgress(r, k)' \/ Open(r, k)'
  BY DEF Promised, Stays, Creating
<1>1. Creating /\ \A k \in KeysOf(r) : InProgress(r, k) \/ Open(r, k)
  BY DEF Promised
<1>2. ASSUME NEW k \in KeysOf(r) PROVE InProgress(r, k)' \/ Open(r, k)'
  <2>1. CASE Open(r, k)
    BY <1>1, <2>1 DEF Open
  <2>2. CASE InProgress(r, k)
    <3>1. PICK i \in DOMAIN stage : i.rule = r /\ stage[i] \in {"spawned", "working"} /\ Asks(work[i], k)
      BY <2>2 DEF InProgress
    <3>2. CASE i # j
      BY <3>1, <3>2 DEF InProgress, Asks
    <3>3. CASE i = j
      <4>1. (stage'[j] \in {"spawned", "working"} /\ Asks(w, k)) \/ Open(j.rule, k)'
        BY <1>1, <3>1, <3>3
      <4> QED
        BY <3>1, <3>3, <4>1 DEF InProgress, Asks
    <3> QED
      BY <3>2, <3>3
  <2> QED
    BY <1>1, <1>2, <2>1, <2>2
<1> QED
  BY <1>1, <1>2

LEMMA StepsAgree ==
  ASSUME Agree, NEW j \in DOMAIN stage, NEW w, Steps(j, w), PartOf(w.entry, work[j].entry),
         \A c \in cloud' : c \in cloud \/ \A d \in Listed : ~Knows(d, c.uuid)
  PROVE  Agree'
<1>1. \A x \in Listed' : x \in Listed \/ x = w.entry
  BY DEF Steps, Listed
<1>2. work[j].entry \in Listed
  BY DEF Steps, Listed
<1>3. \A x \in Listed' : \E d \in Listed : PartOf(x, d)
  BY <1>1, <1>2, PartOfItself
<1> QED
  BY <1>3, AgreeFacts

LEMMA StepsAllPorts ==
  ASSUME AllPorts, NEW j \in DOMAIN stage, NEW w, Steps(j, w),
         Creating /\ ~failed' => Whole(j, w)
  PROVE  AllPorts'
BY DEF Steps, AllPorts, Creating

LEMMA UndisturbedFacts ==
  ASSUME TypeOK, (NoFault \/ \E kind \in FaultKinds : Fault(kind))
  PROVE  Undisturbed' => Undisturbed
BY FaultFacts DEF NoFault, Undisturbed

\* A step that leaves the work alone, and all else too unless it reports an error.
LEMMA PlainAStep ==
  ASSUME AInv, NEW j \in DOMAIN stage, Steps(j, work[j]),
         \A c \in cloud' : c \in cloud \/ \A d \in Listed : ~Knows(d, c.uuid),
         failed' \/ ~Creating \/ cloud' = cloud,
         failed' \/ stage'[j] \in {"spawned", "working"} \/ ~Creating
                 \/ (work[j].left = {} /\ work[j].sources = {}) \/ stage[j] \notin {"spawned", "working"}
  PROVE  Applies'
<1> USE DEF AInv, Applies
<1>1. Agree'
  BY StepsAgree, PartOfItself
<1>2. AllPorts'
  BY StepsAllPorts DEF Steps, AllPorts
<1>3. Promised'
  <2>1. ASSUME ~failed', Creating, NEW k \in KeysOf(j.rule), stage[j] \in {"spawned", "working"}, Asks(work[j], k)
        PROVE  stage'[j] \in {"spawned", "working"} /\ Asks(work[j], k)
    BY <2>1 DEF Asks
  <2>2. ASSUME ~failed', Creating PROVE cloud \subseteq cloud'
    BY <2>2
  <2>3. Promised
    OBVIOUS
  <2> HIDE DEF AInv, Applies
  <2> QED
    BY <2>1, <2>2, <2>3, StepsPromised
<1>4. ~Idle'
  BY DEF Steps, Idle
<1> QED
  BY <1>1, <1>2, <1>3, <1>4, BusyFacts

LEMMA StepsApplies ==
  ASSUME AInv, NEW j \in DOMAIN stage, NEW w, Steps(j, w), Agree', Promised', Creating /\ ~failed' => Whole(j, w)
  PROVE  Applies'
<1>1. ~Idle'
  BY DEF Steps, Idle
<1> QED
  BY <1>1, StepsAllPorts, BusyFacts DEF AInv, Applies

LEMMA AcquireAStep == ASSUME AInv, NEW j \in DOMAIN stage, Acquire(j) PROVE Applies'
<1>1. /\ stage[j] = "spawned" /\ stage' = [stage EXCEPT ![j] = "working"]
      /\ UNCHANGED <<cloud, rules, work, failed, faults, config, saved, op, later>>
  BY DEF Acquire, Pool!Acquire, Pool!Goto, HandlerState
<1>2. Steps(j, work[j])
  BY <1>1, WorkFacts DEF AInv, Steps, Undisturbed
<1> QED
  BY <1>1, <1>2, PlainAStep

LEMMA RejectAStep == ASSUME AInv, NEW j \in DOMAIN stage, RejectRule(j) PROVE Applies'
<1>1. /\ stage' = [stage EXCEPT ![j] = "leaked"] /\ failed' = TRUE
      /\ UNCHANGED <<cloud, rules, work, faults, config, saved, op, later>>
  BY DEF RejectRule, Pool!Leak, Pool!Goto, HandlerState
<1>2. Steps(j, work[j])
  BY <1>1, WorkFacts DEF AInv, Steps, Undisturbed
<1> QED
  BY <1>1, <1>2, PlainAStep

\* The goroutine ends, for good or with an error.
LEMMA EndsAStep ==
  ASSUME AInv, NEW j \in DOMAIN stage, Conclude(j), UNCHANGED <<rules, work, HandlerState>>,
         (NoFault \/ \E kind \in FaultKinds : Fault(kind)), ~failed' => ~failed,
         \A c \in cloud' : c \in cloud,
         failed' \/ ~Creating \/ (cloud' = cloud /\ work[j].left = {} /\ work[j].sources = {})
  PROVE  Applies'
<1>1. Undisturbed' => Undisturbed
  BY UndisturbedFacts DEF AInv, IInv
<1>2. Steps(j, work[j])
  BY <1>1, ConcludeFacts, WorkFacts DEF AInv, Steps, HandlerState
<1> QED
  BY <1>2, PlainAStep

LEMMA CreateEndsAStep == ASSUME AInv, NEW j \in DOMAIN stage, CreateEnds(j) PROVE Applies'
BY EndsAStep DEF CreateEnds, NoFault

LEMMA DeleteEndsAStep == ASSUME AInv, NEW j \in DOMAIN stage, DeleteEnds(j) PROVE Applies'
BY EndsAStep DEF DeleteEnds, NoFault, Deleting, Creating

LEMMA DeletePortFailsAStep == ASSUME AInv, NEW j \in DOMAIN stage, DeletePortFails(j) PROVE Applies'
<1>1. \A c \in cloud' : c \in cloud
  BY DEF DeletePortFails, RemoveRule
<1> QED
  BY <1>1, EndsAStep DEF DeletePortFails, FaultKinds

LEMMA AddAStep == ASSUME AInv, NEW j \in DOMAIN stage, Add(j) PROVE Applies'
<1>1. /\ stage[j] = "collecting" /\ stage' = [stage EXCEPT ![j] = "done"]
      /\ rules \subseteq rules' /\ rules' \subseteq rules \cup {work[j].entry}
      /\ UNCHANGED <<cloud, work, failed, config, saved, op, later>>
  BY DEF Add, Pool!Collected, Pool!Goto, HandlerState
<1>2. Undisturbed' => Undisturbed
  <2>1. NoFault \/ \E kind \in FaultKinds : Fault(kind)
    BY DEF Add, FaultKinds
  <2> QED
    BY <2>1, UndisturbedFacts DEF AInv, IInv
<1>3. Steps(j, work[j])
  BY <1>1, <1>2, WorkFacts DEF AInv, Steps
<1> QED
  BY <1>1, <1>3, PlainAStep

\* The ports of the next source are all those of the rule.
LEMMA NextSourceAStep == ASSUME AInv, NEW j \in DOMAIN stage, NextSource(j) PROVE Applies'
<1>1. PICK s \in work[j].sources : work' = [work EXCEPT ![j] = Turned(work[j], s)]
  BY DEF NextSource
<1> DEFINE w == Turned(work[j], s)
<1>2. /\ stage[j] = "working" /\ Creating /\ work[j].left = {}
      /\ UNCHANGED <<cloud, rules, stage, failed, faults, config, saved, op, later>>
  BY DEF NextSource, Working, HandlerState
<1>3. work' = [work EXCEPT ![j] = w]
  BY <1>1
<1>4. w.entry = work[j].entry /\ w.sources = work[j].sources \ {s} /\ w.at = s
      /\ w.left = work[j].entry.ports /\ w.got = {}
  BY WorkFacts DEF AInv, WorkOK, Turned
<1> HIDE DEF w
<1>5. Steps(j, w)
  BY <1>2, <1>3, WorkFacts DEF AInv, Steps, Undisturbed
<1>6. ~failed => w.left = PortsOf[j.rule]
  BY <1>2, <1>4 DEF AInv, Applies, AllPorts, Whole
<1>7. ~failed' => Whole(j, w)
  BY <1>2, <1>4, <1>6 DEF Whole
<1>8. Agree'
  BY <1>2, <1>4, <1>5, StepsAgree, PartOfItself DEF AInv, Applies
<1>9. Promised'
  <2>1. ASSUME ~failed', NEW k \in KeysOf(j.rule), Asks(work[j], k)
        PROVE  stage'[j] \in {"spawned", "working"} /\ Asks(w, k)
    BY <1>2, <1>4, <1>6, <2>1 DEF Asks, KeysOf
  <2> QED
    BY <1>2, <1>5, <2>1, StepsPromised DEF AInv, Applies
<1> QED
  BY <1>5, <1>7, <1>8, <1>9, StepsApplies

LEMMA CreatePortAStep == ASSUME AInv, NEW j \in DOMAIN stage, CreatePort(j) PROVE Applies'
<1>1. PICK p \in work[j].left :
        /\ NewRule(j.rule, <<work[j].at, p>>) /\ NoFault
        /\ work' = [work EXCEPT ![j] = Further(work[j], p, NewUuid)]
  BY DEF CreatePort
<1> DEFINE w == Further(work[j], p, NewUuid)
           e == work[j].entry
           k == <<work[j].at, p>>
           new == [uuid |-> NewUuid, rule |-> j.rule, key |-> k]
<1>2. /\ stage[j] = "working" /\ Creating /\ j.rule \notin Invalid /\ faults' = faults
      /\ UNCHANGED <<rules, stage, failed, config, saved, op, later>>
  BY <1>1 DEF CreatePort, Working, NoFault, HandlerState
<1>3. NewUuid \in Uuid
  BY <1>1, UnusedFacts DEF NewRule
<1>4. Furthers(j, work[j], p, NewUuid, w)
  BY <1>2, <1>3, WorkFacts, FurtherFacts DEF AInv
<1>5. work' = [work EXCEPT ![j] = w]
  BY <1>1
<1> HIDE DEF w
<1>6. /\ cloud' = cloud \cup {new} /\ \A c \in cloud : c.uuid # NewUuid
      /\ \A d \in Listed : ~Knows(d, NewUuid)
  BY <1>1, NewRuleUnlisted
<1>7. Steps(j, w)
  BY <1>2, <1>5, WorkFacts DEF AInv, Steps, Undisturbed
<1>8. e \in Listed /\ Right(e) /\ e.rule = j.rule
  BY WorkFacts DEF AInv, Applies, Agree, Listed
<1>9. ASSUME NEW x, x = w.entry PROVE Right(x)'
  <2> SUFFICES ASSUME NEW q \in DOMAIN x.uuids, NEW c \in cloud', c.uuid = x.uuids[q]
               PROVE  c.rule = x.rule /\ c.key = q
    BY DEF Right
  <2>1. /\ x.rule = j.rule /\ DOMAIN x.uuids = DOMAIN e.uuids \cup {k} /\ x.uuids[k] = NewUuid
        /\ \A y \in DOMAIN e.uuids : x.uuids[y] = e.uuids[y]
    BY <1>4, <1>9 DEF Furthers
  <2>2. CASE q = k
    BY <1>6, <2>1, <2>2
  <2>3. CASE q # k
    <3>1. q \in DOMAIN e.uuids /\ c.uuid = e.uuids[q] /\ Knows(e, c.uuid)
      BY <2>1, <2>3 DEF Knows, EntryUuids, Range
    <3>2. c \in cloud
      BY <1>6, <1>8, <3>1
    <3> QED
      BY <1>8, <2>1, <3>1, <3>2 DEF Right
  <2> QED
    BY <2>2, <2>3
<1>10. Agree'
  <2>1. \A x \in Listed' : x \in Listed \/ x = w.entry
    BY <1>2, <1>7 DEF Steps, Listed
  <2>2. ASSUME NEW x \in Listed PROVE Right(x)'
    <3>1. Right(x) /\ ~Knows(x, NewUuid)
      BY <1>6 DEF AInv, Applies, Agree
    <3> QED
      BY <1>6, <3>1, RightFacts, PartOfItself
  <2> QED
    BY <1>9, <2>1, <2>2 DEF Agree
<1>11. ~failed' => Whole(j, w)
  <2>1. ~failed' => work[j].left \cup work[j].got = PortsOf[j.rule]
    BY <1>2 DEF AInv, Applies, AllPorts, Whole
  <2> QED
    BY <1>4, <2>1 DEF Furthers, Whole
<1>12. Promised'
  <2>1. ASSUME NEW y \in KeysOf(j.rule), Asks(work[j], y) PROVE Asks(w, y) \/ Open(j.rule, y)'
    <3>1. CASE y = k
      <4>1. new \in cloud' /\ new.rule = j.rule /\ new.key = y
        BY <1>6, <3>1
      <4> QED
        BY <4>1 DEF Open
    <3>2. CASE y # k
      <4>1. y = <<y[1], y[2]>>
        BY DEF KeysOf
      <4> QED
        BY <1>4, <2>1, <3>2, <4>1 DEF Asks, Furthers
    <3> QED
      BY <3>1, <3>2
  <2> QED
    BY <1>2, <1>6, <1>7, <2>1, StepsPromised DEF AInv, Applies
<1> QED
  BY <1>7, <1>10, <1>11, <1>12, StepsApplies

LEMMA CreatePortFailsAStep == ASSUME AInv, NEW j \in DOMAIN stage, CreatePortFails(j) PROVE Applies'
<1> DEFINE w == [work[j] EXCEPT !.left = {}]
<1>1. /\ stage[j] = "working" /\ Creating /\ failed' = TRUE /\ work' = [work EXCEPT ![j] = w]
      /\ UNCHANGED <<rules, stage, config, saved, op, later>>
  BY DEF CreatePortFails, Working, HandlerState
<1>2. w.entry = work[j].entry
  BY WorkFacts DEF AInv, WorkOK
<1> HIDE DEF w
<1>3. Undisturbed' => Undisturbed
  <2>1. NoFault \/ \E kind \in FaultKinds : Fault(kind)
    BY DEF CreatePortFails, FaultKinds
  <2> QED
    BY <2>1, UndisturbedFacts DEF AInv, IInv
<1>4. \A c \in cloud' : c \in cloud \/ \A d \in Listed : ~Knows(d, c.uuid)
  <2>1. PICK p \in work[j].left : cloud' = cloud \/ NewRule(j.rule, <<work[j].at, p>>)
    BY DEF CreatePortFails
  <2>2. CASE NewRule(j.rule, <<work[j].at, p>>)
    BY <2>2, NewRuleUnlisted
  <2> QED
    BY <2>1, <2>2
<1>5. Steps(j, w)
  BY <1>1, <1>3, WorkFacts DEF AInv, Steps
<1>6. Agree'
  BY <1>2, <1>4, <1>5, StepsAgree, PartOfItself DEF AInv, Applies
<1>7. Promised'
  BY <1>1 DEF Promised
<1> QED
  BY <1>1, <1>5, <1>6, <1>7, StepsApplies

LEMMA DeletePortAStep == ASSUME AInv, NEW j \in DOMAIN stage, DeletePort(j) PROVE Applies'
<1>1. PICK k \in DOMAIN work[j].entry.uuids :
        RemoveRule(work[j].entry.uuids[k]) /\ work' = [work EXCEPT ![j] = Without(work[j], k)]
  BY DeletePortFacts DEF AInv
<1> DEFINE w == Without(work[j], k)
<1>2. ~Creating /\ UNCHANGED <<rules, stage, failed, faults, config, saved, op, later>>
  BY DEF DeletePort, Deleting, Creating, NoFault, HandlerState
<1>3. PartOf(w.entry, work[j].entry)
  <2>1. WorkOK(work[j]) /\ EntryOK(work[j].entry)
    BY WorkFacts DEF AInv, WorkOK
  <2> QED
    BY <2>1, WithoutFacts, LessFacts DEF PartOf
<1>4. work' = [work EXCEPT ![j] = w]
  BY <1>1
<1> HIDE DEF w
<1>5. Steps(j, w)
  BY <1>2, <1>4, WorkFacts DEF AInv, Steps, Undisturbed
<1>6. Agree'
  BY <1>1, <1>3, <1>5, StepsAgree DEF AInv, Applies, RemoveRule
<1>7. Promised'
  BY <1>2, <1>5, StepsPromised DEF AInv, Applies
<1> QED
  BY <1>2, <1>5, <1>6, <1>7, StepsApplies

-----------------------------------------------------------------------------
(* The handlers.                                                           *)

\* A handler that has ended leaves no blocks but those of the state.
LEMMA IdleApplies ==
  ASSUME IInv', Idle', \A e \in saved'.rules : Right(e)', OkMeansApplied'
  PROVE  Applies'
<1>1. DOMAIN stage' = {} /\ DOMAIN work' = {} /\ rules' = {} /\ later' = {} /\ op' = "idle"
  BY DEF IInv, Quiet, TypeOK, Idle
<1>2. Agree'
  <2>1. Listed' = saved'.rules
    BY <1>1 DEF Listed
  <2> QED
    BY <2>1 DEF Agree
<1>3. AllPorts' /\ Promised'
  BY <1>1 DEF AllPorts, Creating, Promised
<1> QED
  BY <1>2, <1>3 DEF Applies

LEMMA SavedRight == ASSUME AInv PROVE \A e \in saved.rules \cup rules : Right(e)
BY DEF AInv, Applies, Agree, Listed

\* What is wanted, as it stands in the configuration.
LEMMA WantedBlocks ==
  ASSUME TypeOK
  PROVE  /\ \A r \in config.rules : Entry(r) \in Wanted /\ Entry(r).rule = r /\ r \in Rules
                                    /\ Content(Entry(r)) = <<r, PortsOf[r]>>
         /\ \A e \in Wanted : e.rule \in Rules /\ e = Entry(e.rule) /\ DOMAIN e.uuids = {} /\ Right(e)
<1>1. config.rules \subseteq Rules
  BY DEF TypeOK
<1>2. \A r \in Rules : /\ Entry(r).rule = r /\ DOMAIN Entry(r).uuids = {}
                       /\ Content(Entry(r)) = <<r, PortsOf[r]>>
  BY EntryFacts DEF Content
<1>3. \A e \in Wanted : \E r \in config.rules : e = Entry(r)
  BY DEF Wanted
<1>4. \A r \in config.rules : Entry(r) \in Wanted
  BY DEF Wanted
<1> QED
  BY <1>1, <1>2, <1>3, <1>4 DEF Right

\* A block that stays as it is configured, is not masked and lists existing rules only.
LEMMA StaysOpen ==
  ASSUME TypeOK, NEW r \in config.rules, NEW e, Content(e) = <<r, PortsOf[r]>>, Right(e), ~Masked(e), ~Believed(e),
         NEW k \in KeysOf(r)
  PROVE  Open(r, k)
<1>1. e.rule = r
  BY DEF Content
<1>2. Content(e) \in Contents(Wanted)
  BY WantedBlocks DEF Contents
<1>3. k \in DOMAIN e.uuids
  BY <1>1, <1>2 DEF Masked
<1>4. e.uuids[k] \in EntryUuids(e)
  BY <1>3 DEF EntryUuids, Range
<1>5. e.uuids[k] \in Ids(cloud)
  BY <1>4 DEF Believed
<1> QED
  BY <1>1, <1>3, <1>5 DEF Ids, Right, Open

\* A handler that ends in Read: when it succeeds, everything is applied.
LEMMA FinishApplies ==
  ASSUME AInv, IInv', NEW es, FinishWithRead(es), Idle', UNCHANGED <<cloud, config>>,
         \A e \in es : EntryOK(e) /\ Right(e),
         Undisturbed => \A r \in config.rules :
                          (\E e \in es : Content(e) = <<r, PortsOf[r]>>) \/ \A k \in KeysOf(r) : Open(r, k)
  PROVE  Applies'
<1>1. TypeOK /\ saved'.rules = es /\ (told' = "ok" => faults' = faults)
  BY FinishFacts DEF AInv, IInv
<1>2. OkMeansApplied'
  <2> SUFFICES ASSUME Undisturbed, \A e \in es : ~Masked(e) /\ ~Believed(e), NEW r \in config.rules, NEW k \in KeysOf(r)
               PROVE  Open(r, k)
    BY <1>1 DEF OkMeansApplied, Undisturbed, Masked, Believed, Grants, Granted, Open, Wanted, Ids
  <2> QED
    BY <1>1, StaysOpen
<1>3. \A e \in saved'.rules : Right(e)'
  BY <1>1 DEF Right
<1> QED
  BY <1>2, <1>3, IdleApplies

\* A handler that stops without success and leaves blocks in the state that it had.
LEMMA StopApplies ==
  ASSUME AInv, IInv', Idle', told' # "ok", cloud' = cloud, saved'.rules \in {{}, rules, saved.rules}
  PROVE  Applies'
<1>1. \A e \in saved'.rules : Right(e)'
  BY SavedRight DEF Right
<1>2. OkMeansApplied'
  BY DEF OkMeansApplied
<1> QED
  BY <1>1, <1>2, IdleApplies

LEMMA DieAStep == ASSUME AInv, IInv', Die PROVE Applies'
BY StopApplies DEF Die, Stop, Idle

LEMMA RefreshAStep == ASSUME AInv, IInv', Refresh PROVE Applies'
BY StopApplies DEF Refresh, Idle, ReadState

\* What a creation is given, it has in progress.
LEMMA LaunchPromises ==
  ASSUME NEW batch, NEW phase, Launch(phase, batch), NEW r \in Rules, Entry(r) \in batch, NEW k \in KeysOf(r)
  PROVE  InProgress(r, k)'
<1>1. /\ work' = [e \in batch |->
                    [entry |-> e, sources |-> SourcesOf[e.rule], at |-> NoSource, left |-> {}, got |-> {}]]
      /\ DOMAIN stage' = batch /\ \A e \in batch : stage'[e] = "spawned"
  BY DEF Launch, Pool!Spawn
<1>2. Entry(r).rule = r
  BY EntryFacts
<1>3. work'[Entry(r)].sources = SourcesOf[r]
  BY <1>1, <1>2
<1>4. k[1] \in SourcesOf[r]
  BY DEF KeysOf
<1> QED
  BY <1>1, <1>2, <1>3, <1>4 DEF InProgress, Asks

\* A fan-out: what the goroutines are given, and what stays in the set.
LEMMA LaunchApplies ==
  ASSUME AInv, NEW phase \in {"create", "delete", "update", "destroy"}, NEW batch, Launch(phase, batch),
         UNCHANGED <<cloud, saved>>, \A e \in batch \cup rules' : Right(e),
         phase \in {"create", "update"} => \A e \in batch : e.rule \in Rules /\ e = Entry(e.rule),
         Promised'
  PROVE  Applies'
<1> DEFINE handed(e) == [entry |-> e, sources |-> SourcesOf[e.rule], at |-> NoSource, left |-> {}, got |-> {}]
<1>1. op' = phase /\ work' = [e \in batch |-> handed(e)] /\ DOMAIN stage' = batch
  BY DEF Launch, Pool!Spawn
<1>2. \A e \in batch : work'[e].entry = e /\ work'[e].left = {}
  BY <1>1
<1>3. ~Idle'
  BY <1>1 DEF Idle
<1>4. Agree'
  <2>1. \A e \in Listed' : Right(e)
    <3>1. Listed' = saved.rules \cup rules' \cup batch
      BY <1>1, <1>2 DEF Listed
    <3> QED
      BY <3>1, SavedRight
  <2> QED
    BY <2>1 DEF Agree, Right
<1>5. AllPorts'
  <2> SUFFICES ASSUME Creating', NEW e \in batch PROVE Whole(e, work'[e])
    BY <1>1 DEF AllPorts
  <2>1. e.rule \in Rules /\ e = Entry(e.rule)
    BY <1>1 DEF Creating
  <2>2. e.ports = PortsOf[e.rule]
    BY <2>1, EntryFacts
  <2> QED
    BY <1>2, <2>2 DEF Whole
<1> QED
  BY <1>3, <1>4, <1>5, BusyFacts DEF Applies

LEMMA CreateAStep == ASSUME AInv, IInv', Create PROVE Applies'
<1>1. TypeOK /\ Idle /\ UNCHANGED <<cloud, config>>
  BY DEF AInv, IInv, Create
<1>2. CASE Launch("create", Wanted) /\ rules' = {} /\ NoFault /\ UNCHANGED <<saved, told, fresh, later>>
  <2>1. op' = "create"
    BY <1>2 DEF Launch
  <2>2. ASSUME NEW r \in config.rules, NEW k \in KeysOf(r) PROVE InProgress(r, k)'
    BY <1>1, <1>2, WantedBlocks, LaunchPromises
  <2>3. Promised'
    BY <1>1, <2>1, <2>2 DEF Promised, Creating
  <2> QED
    BY <1>1, <1>2, <2>3, WantedBlocks, LaunchApplies
<1>3. CASE Wanted = {} /\ FinishWithRead({}) /\ UNCHANGED op
  <2>1. config.rules = {}
    BY <1>1, <1>3, WantedBlocks
  <2>2. Idle'
    BY <1>1, <1>3 DEF Idle
  <2> QED
    BY <1>1, <1>3, <2>1, <2>2, FinishApplies
<1> QED
  BY <1>2, <1>3 DEF Create

LEMMA UpdateAStep == ASSUME AInv, IInv', Update PROVE Applies'
<1> DEFINE ors == Minus(saved.rules, Wanted)
           nrs == Minus(Wanted, saved.rules)
<1>1. /\ TypeOK /\ rules' = saved.rules \ ors
      /\ \/ ors # {} /\ Launch("delete", ors) /\ later' = nrs
         \/ ors = {} /\ Launch("update", nrs) /\ later' = {}
      /\ UNCHANGED <<cloud, config, saved>>
  BY DEF Update, AInv, IInv
<1>2. /\ \A e \in ors : e \in saved.rules /\ Content(e) \notin Contents(Wanted)
      /\ \A e \in nrs : e \in Wanted
      /\ \A e \in Wanted \ nrs : Content(e) \in Contents(saved.rules)
  BY DEF Minus
<1> HIDE DEF ors, nrs
<1>3. \A e \in ors \cup nrs \cup rules' : Right(e)
  BY <1>1, <1>2, SavedRight, WantedBlocks
<1>4. \A e \in nrs : e.rule \in Rules /\ e = Entry(e.rule)
  BY <1>1, <1>2, WantedBlocks
<1>5. ASSUME NEW r \in config.rules, Entry(r) \notin nrs PROVE Stays(r)'
  <2>1. Content(Entry(r)) = <<r, PortsOf[r]>> /\ Content(Entry(r)) \in Contents(Wanted)
        /\ Content(Entry(r)) \in Contents(saved.rules)
    BY <1>1, <1>2, <1>5, WantedBlocks DEF Contents
  <2>2. PICK e \in saved.rules : Content(e) = Content(Entry(r))
    BY <2>1 DEF Contents
  <2>3. e \in rules'
    BY <1>1, <1>2, <2>1, <2>2
  <2> QED
    BY <2>1, <2>2, <2>3 DEF Stays
<1>6. CASE Launch("delete", ors) /\ later' = nrs
  <2>1. Promised'
    BY <1>1, <1>5, <1>6 DEF Promised
  <2> QED
    BY <1>1, <1>3, <1>6, <2>1, LaunchApplies
<1>7. CASE Launch("update", nrs) /\ later' = {}
  <2>1. op' = "update"
    BY <1>7 DEF Launch
  <2>2. ASSUME NEW r \in config.rules, Entry(r) \in nrs, NEW k \in KeysOf(r) PROVE InProgress(r, k)'
    BY <1>1, <1>7, <2>2, WantedBlocks, LaunchPromises
  <2>3. Promised'
    BY <1>1, <1>5, <2>1, <2>2 DEF Promised, Creating
  <2> QED
    BY <1>1, <1>3, <1>4, <1>7, <2>3, LaunchApplies
<1> QED
  BY <1>1, <1>6, <1>7

LEMMA DeleteAStep == ASSUME AInv, IInv', Delete PROVE Applies'
<1>1. Idle /\ UNCHANGED cloud
  BY DEF Delete
<1>2. CASE Launch("destroy", saved.rules) /\ rules' = {} /\ UNCHANGED saved
  <2>1. Promised'
    BY <1>2 DEF Promised, Launch
  <2> QED
    BY <1>1, <1>2, <2>1, SavedRight, LaunchApplies
<1>3. CASE Save(Gone, "none") /\ UNCHANGED op
  BY <1>1, <1>3, StopApplies DEF Save, Gone, Idle
<1> QED
  BY <1>2, <1>3 DEF Delete

LEMMA CreateTheRestAStep == ASSUME AInv, IInv', CreateTheRest PROVE Applies'
<1>1. /\ Launch("update", later) /\ later' = {} /\ op = "delete" /\ ~failed
      /\ UNCHANGED <<cloud, config, saved, rules, faults>> /\ config.rules \subseteq Rules
  BY DEF CreateTheRest, Waited, AInv, IInv, TypeOK
<1>2. \A e \in later : e.rule \in Rules /\ e = Entry(e.rule) /\ DOMAIN e.uuids = {}
  BY EntryFacts DEF AInv, IInv, Fresh
<1>3. Promised'
  <2>1. op' = "update"
    BY <1>1 DEF Launch
  <2> SUFFICES ASSUME Undisturbed, NEW r \in config.rules, ~Stays(r), NEW k \in KeysOf(r) PROVE InProgress(r, k)'
    BY <1>1, <2>1 DEF Promised, Undisturbed, Stays, Creating
  <2>2. Entry(r) \in later
    BY <1>1 DEF AInv, Applies, Promised, Creating
  <2> QED
    BY <1>1, <2>2, LaunchPromises
<1>4. \A e \in later \cup rules' : Right(e)
  BY <1>1, <1>2, SavedRight DEF Right
<1> QED
  BY <1>1, <1>2, <1>3, <1>4, LaunchApplies

\* wg.Wait returned, nothing failed and nothing is left to do.
LEMMA ReturnReadAStep == ASSUME AInv, IInv', ReturnRead PROVE Applies'
<1>1. /\ op \in {"create", "delete", "update"} /\ ~failed /\ later = {} /\ Pool!Returned
      /\ FinishWithRead(rules) /\ Idle' /\ UNCHANGED <<cloud, config>>
  BY DEF ReturnRead, Waited, Stop, Idle
<1>2. ASSUME Undisturbed, NEW r \in config.rules, NEW k \in KeysOf(r), ~Stays(r) PROVE Open(r, k)
  <2>1. ~InProgress(r, k)
    BY <1>1 DEF InProgress, Pool!Returned
  <2> QED
    BY <1>1, <1>2, <2>1 DEF AInv, Applies, Promised
<1>3. \A e \in rules : EntryOK(e) /\ Right(e)
  BY SavedRight DEF AInv, IInv, TypeOK
<1> QED
  BY <1>1, <1>2, <1>3, FinishApplies DEF Stays

LEMMA ReturnAStep == ASSUME AInv, IInv', Return PROVE Applies'
<1>1. CASE ReturnError
  BY <1>1, StopApplies DEF ReturnError, Stop, Idle, Save, Partial
<1>2. CASE ReturnDeleted
  BY <1>2, StopApplies DEF ReturnDeleted, Stop, Idle, Save, Gone
<1> QED
  BY <1>1, <1>2, CreateTheRestAStep, ReturnReadAStep DEF Return

-----------------------------------------------------------------------------
(* The user and the other users of the account.                            *)

LEMMA DeleteOutOfBandAStep == ASSUME AInv, DeleteOutOfBand PROVE Applies'
<1> USE DEF AInv, Applies
<1>1. /\ Fault("outOfBand") /\ told' = "none" /\ \A c \in cloud' : c \in cloud
      /\ UNCHANGED <<config, saved, fresh, op, rules, later, work, stage, failed, changes>>
  BY DEF DeleteOutOfBand, RemoveRule
<1>2. ~Undisturbed'
  BY <1>1, FaultFacts DEF Undisturbed, IInv
<1>3. Agree'
  <2>1. Listed' = Listed
    BY <1>1 DEF Listed
  <2> QED
    BY <1>1, <2>1, AgreeFacts, PartOfItself
<1>4. AllPorts' /\ Promised' /\ OkMeansApplied'
  BY <1>1, <1>2 DEF AllPorts, Creating, Promised, OkMeansApplied
<1> QED
  BY <1>3, <1>4

LEMMA EnvironmentAStep == ASSUME AInv, IInv', Environment PROVE Applies'
<1>1. CASE Edit
  BY <1>1, StopApplies DEF Edit, Idle
<1> QED
  BY <1>1, DeleteOutOfBandAStep, DieAStep DEF Environment, Crash

LEMMA GoroutineAStep == ASSUME AInv, IInv', NEW j \in DOMAIN stage, Goroutine(j) PROVE Applies'
BY AcquireAStep, RejectAStep, NextSourceAStep, CreatePortAStep, CreatePortFailsAStep, CreateEndsAStep,
   DeletePortAStep, DeletePortFailsAStep, DeleteEndsAStep, AddAStep, DieAStep
DEF Goroutine, ConcurrentMapWrites

LEMMA NextAInv == AInv /\ [Next]_vars => AInv'
<1> SUFFICES ASSUME AInv, [Next]_vars, IInv' PROVE Applies'
  BY NextIInv DEF AInv
<1>1. CASE Terraform
  BY <1>1, RefreshAStep, CreateAStep, UpdateAStep, DeleteAStep DEF Terraform
<1>2. CASE Provider
  BY <1>2, GoroutineAStep, ReturnAStep DEF Provider
<1>3. CASE Environment
  BY <1>3, EnvironmentAStep
<1>4. CASE UNCHANGED vars
  BY <1>4 DEF vars, AInv, Applies, Agree, Listed, Right, AllPorts, Creating, Promised, Stays, InProgress, Open,
              OkMeansApplied, Masked, Believed, Wanted, Undisturbed, Idle, Ids, Granted
<1> QED
  BY <1>1, <1>2, <1>3, <1>4 DEF Next

LEMMA InitAInv == Init => AInv
<1> SUFFICES ASSUME Init PROVE Applies
  BY InitIInv DEF AInv
<1>1. saved.rules = {} /\ op = "idle" /\ rules = {} /\ DOMAIN stage = {} /\ DOMAIN work = {} /\ told = "none"
  BY DEF Init, Gone, Pool!Spawn
<1> QED
  BY <1>1 DEF Applies, Agree, Listed, AllPorts, Creating, Promised, OkMeansApplied

-----------------------------------------------------------------------------
(* What follows for every behaviour.                                       *)

\* Type correctness of the resource.
THEOREM TypeCorrect == Spec => []TypeOK
<1>1. IInv => TypeOK
  BY DEF IInv
<1> QED
  BY <1>1, InitIInv, NextIInv, PTL DEF Spec

\* No rule that createSecurityGroupRule authorised, for whatever source and port, is
\* forgotten, although a goroutine goes on to the next source after an error and one
\* that rejects its rule leaves its slot behind; Blinded names the exceptions.
THEOREM RulesTracked == Spec => []Tracked
<1>1. IInv => Tracked
  <2> SUFFICES ASSUME IInv, ~Blinded, NEW c \in cloud PROVE c.uuid \in Remembered
    BY DEF Tracked, NothingForgotten, Ids
  <2>1. CASE Idle
    BY <2>1 DEF IInv, Kept, Knows, Remembered, UuidsIn
  <2>2. CASE ~Idle
    <3>1. \A j \in Live : j \in DOMAIN work
      BY DEF IInv, TypeOK, Live
    <3> QED
      BY <2>2, <3>1 DEF IInv, Held, Knows, Remembered, UuidsIn
  <2> QED
    BY <2>1, <2>2
<1> QED
  BY <1>1, InitIInv, NextIInv, PTL DEF Spec

\* An operation that reports success leaves every port of every configured rule open to
\* every source, with the exceptions that OkMeansApplied names.
THEOREM SuccessApplied == Spec => []OkMeansApplied
<1>1. AInv => OkMeansApplied
  BY DEF AInv, Applies
<1> QED
  BY <1>1, InitAInv, NextAInv, PTL DEF Spec
=============================================================================
