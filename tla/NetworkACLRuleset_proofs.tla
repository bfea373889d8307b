---------------------- MODULE NetworkACLRuleset_proofs ----------------------
(***************************************************************************)
(* For any rules, configurations and bounds: no rule that a ruleset made   *)
(* is forgotten, an update deletes only what the configuration lost, and   *)
(* an operation that reports success has put every configured rule into    *)
(* the ACL, with the exceptions that the properties name.                  *)
(***************************************************************************)
EXTENDS NetworkACLRuleset, TLAPS

-----------------------------------------------------------------------------
(* The inductive invariant.                                                *)

\* Between operations no handler has anything in its hands.
Quiet == Idle => DOMAIN stage = {} /\ rules = {} /\ later = Nothing

\* What is written has one rule per number.
OnePerNumber == \A r, s \in config.rules : r.number = s.number => r = s

\* Each fan-out works on what Create or Update put aside for it.
Jobs ==
  /\ \A j \in later.create : j = Job(Entry(j.new), j.new)
  /\ op = "create" => \A j \in DOMAIN stage : j.entry = Entry(j.new)
  /\ op = "change" => DOMAIN stage = later.change
  /\ \A j \in later.change : j.new \in config.rules /\ j.new.number = j.entry.rule.number
  /\ op = "delete" => \A j \in DOMAIN stage : j.entry.rule.number \notin NumbersIn(config.rules)

\* Until its calls are over a goroutine holds the rule it was given, and only then
\* does it go to the set, which nobody else writes meanwhile.  The uuid it was given
\* changes when the rule is deleted, or made anew.
Turn(j) ==
  /\ ~work[j].over => work[j].entry = j.entry /\ stage[j] \in {"spawned", "working"}
  /\ stage[j] = "spawned" => ~work[j].over
  /\ stage[j] # "leaked"
  /\ stage[j] = "collecting" => work[j].seen = rules /\ work[j].entry.uuid # NoUuid /\ ~Pool!Overlapped(j)
  /\ \/ work[j].entry.uuid \in {j.entry.uuid, NoUuid}
     \/ op = "create" \/ (op = "change" /\ work[j].cut)

Turns == \A j \in DOMAIN stage : Turn(j)

\* A rule that exists is the one listed under its uuid: for the state of a plan, and
\* for what is still to be deleted or changed.
Current(e) == \A c \in cloud : c.uuid = e.uuid => c.rule = e.rule

Pending == {j \in DOMAIN stage : op \in {"delete", "change"} /\ ~work[j].over}
Waiting == IF op = "delete" THEN later.change ELSE {}

Truthful ==
  /\ Idle /\ fresh => \A e \in saved.rules : Current(e)
  /\ \A j \in Pending \cup Waiting : Current(j.entry)
  /\ op = "change" => \A j \in DOMAIN stage : work[j].cut => j.entry.uuid \notin Ids(cloud)

Alone == \A c, d \in cloud : c.uuid = d.uuid => c = d

\* A destroy without an error has put nothing back.
Destroyed ==
  op = "destroy" /\ ~failed =>
    rules = {} /\ \A j \in DOMAIN stage :
      stage[j] # "collecting" /\ (work[j].over => work[j].entry.uuid = NoUuid)

\* Only Create runs without a state, and then each rule it made is in the hands of
\* one of its goroutines, finished or not.
Unborn ==
  ~saved.id => /\ saved.rules = {} /\ (Idle \/ op = "create")
               /\ ~Blinded /\ ~Idle =>
                    Ids(Owned("resource")) \subseteq UuidsIn({work[j].entry : j \in DOMAIN work})

\* The goroutines that have not finished.
Live == {j \in DOMAIN stage : stage[j] \in {"spawned", "working", "collecting"}}

\* The set has the uuid of a rule, or a goroutine has yet to put it there; between
\* operations the state has it.
Held ==
  ~Blinded /\ ~Idle =>
    Ids(Owned("resource")) \subseteq UuidsIn(rules \cup {work[j].entry : j \in Live})
Kept == ~Blinded /\ Idle => Ids(Owned("resource")) \subseteq UuidsIn(saved.rules)

IInv ==
  /\ TypeOK /\ Quiet /\ OnePerNumber /\ Jobs /\ Turns /\ Truthful /\ Alone
  /\ Destroyed /\ Unborn /\ Held /\ Kept

\* The faults that OkMeansApplied excepts.
Clear == faults.kinds \cap {"outOfBand", "overlooked"} = {}

\* The state of a plan lists existing rules only.
Real == Clear /\ Idle /\ fresh => saved.rules \subseteq {FromAPI(c) : c \in cloud}

\* While Create or Update has met no error, each configured rule is still to be
\* created or to be made of another one, or it exists and stays.
Exists(r) ==
  \E c \in cloud : Agrees(c, r) /\ \A j \in Pending \cup Waiting : j.entry.uuid # c.uuid

ToCome(r) ==
  \/ op # "create" /\ \E j \in later.create : j.new = r
  \/ op = "delete" /\ \E j \in later.change : j.new = r
  \/ op # "delete" /\ \E j \in DOMAIN stage : j.new = r /\ ~work[j].over

Promised ==
  Clear /\ ~Idle /\ op # "destroy" /\ ~failed => \A r \in config.rules : Exists(r) \/ ToCome(r)

Applies == Real /\ Promised /\ OkMeansApplied

AInv == IInv /\ Applies

-----------------------------------------------------------------------------
(* Rules, uuids and faults.                                                *)

LEMMA EntryFacts ==
  ASSUME NEW r \in Contents
  PROVE  EntryOK(Entry(r)) /\ Entry(r).rule = r /\ Entry(r).uuid = NoUuid
BY DEF EntryOK, Entries, Entry

\* NoUuid is not among the uuids.
LEMMA UuidFacts == NoUuid \notin Uuid
BY RulesetAssumption DEF Uuid, NoUuid, RulesetAssumption

\* A fault is one more, and is remembered.
LEMMA FaultFacts ==
  ASSUME TypeOK, NEW kind, Fault(kind)
  PROVE  /\ faults' \in [number : 0..MaxFaults, kinds : SUBSET FaultKinds]
         /\ faults'.kinds = faults.kinds \cup {kind}
BY RulesetAssumption DEF TypeOK, Fault, RulesetAssumption

\* A uuid nobody knows.
LEMMA UnusedFacts ==
  ASSUME NEW u \in Unused
  PROVE  /\ u \in Uuid /\ u # NoUuid /\ u \notin Ids(cloud)
         /\ \A e \in saved.rules \cup rules : e.uuid # u
         /\ \A j \in DOMAIN work : j.entry.uuid # u /\ work[j].entry.uuid # u
         /\ \A j \in later.change : j.entry.uuid # u
<1>1. u \in Uuid /\ u # NoUuid /\ u \notin Ids(cloud) /\ u \notin Remembered /\ u \notin Mentioned
  BY UuidFacts DEF Unused
<1>2. \A e \in saved.rules \cup rules : e.uuid # u
  BY <1>1 DEF Remembered, UuidsIn
<1>3. \A j \in DOMAIN work : work[j].entry.uuid # u
  BY <1>1 DEF Remembered, UuidsIn
<1>4. \A j \in DOMAIN work \cup later.change : j.entry.uuid # u
  BY <1>1 DEF Mentioned, UuidsIn
<1> QED
  BY <1>1, <1>2, <1>3, <1>4

\* A rule that is made.
LEMMA NewRuleFacts ==
  ASSUME NEW r \in Contents, NEW owner \in {"resource", "nobody", "other"}, NewRule(r, owner)
  PROVE  /\ NewUuid \in Unused /\ NewUuid \in Uuid
         /\ cloud' = cloud \cup {[uuid |-> NewUuid, rule |-> r, owner |-> owner]}
         /\ [uuid |-> NewUuid, rule |-> r, owner |-> owner] \in
              [uuid : Uuid, rule : Contents, owner : {"resource", "nobody", "other"}]
<1>1. NewUuid \in Unused
  BY DEF NewRule, NewUuid
<1> QED
  BY <1>1, UnusedFacts DEF NewRule

\* The rules of the ACL stay, go, or come with a uuid nobody knows.
Grown == \A c \in cloud' : c \in cloud \/ c.uuid \in Unused

LEMMA NewRuleGrown ==
  ASSUME Alone, NEW r \in Contents, NEW owner \in {"resource", "nobody", "other"}, NewRule(r, owner)
  PROVE  Grown /\ Alone'
<1>1. NewUuid \in Unused /\ cloud' = cloud \cup {[uuid |-> NewUuid, rule |-> r, owner |-> owner]}
      /\ NewUuid \notin Ids(cloud)
  BY NewRuleFacts, UnusedFacts
<1> QED
  BY <1>1 DEF Grown, Alone, Ids

LEMMA FewerGrown == ASSUME Alone, cloud' \subseteq cloud PROVE Grown /\ Alone'
BY DEF Grown, Alone

LEMMA RemoveRuleFacts == ASSUME NEW u, RemoveRule(u) PROVE cloud' \subseteq cloud /\ u \notin Ids(cloud')
BY DEF RemoveRule, Ids

\* What becomes of a rule that is asked to become r.
LEMMA AmendedFacts ==
  ASSUME NEW c, NEW old \in Contents, NEW r \in Contents, c.rule = Amended(old, r)
  PROVE  Agrees(c, r) /\ c.rule \in Contents
<1>1. Amended(old, r) = [r EXCEPT !.port = IF r.port \in Unsent THEN old.port ELSE r.port]
  BY DEF Amended
<1>2. CASE r.port \in Unsent
  <2>1. c.rule = [r EXCEPT !.port = old.port] /\ c.rule.port = old.port
    BY <1>1, <1>2 DEF Contents
  <2> QED
    BY <1>2, <2>1 DEF Agrees, Contents
<1>3. CASE r.port \notin Unsent
  BY <1>1, <1>3 DEF Agrees, Contents
<1> QED
  BY <1>2, <1>3

LEMMA ChangeRuleFacts ==
  ASSUME cloud \subseteq [uuid : Uuid, rule : Contents, owner : {"resource", "nobody", "other"}],
         NEW u, NEW r \in Contents, ChangeRule(u, r)
  PROVE  /\ cloud' \subseteq [uuid : Uuid, rule : Contents, owner : {"resource", "nobody", "other"}]
         /\ \A c \in cloud' : IF c.uuid = u THEN Agrees(c, r) /\ \E d \in cloud : c = [d EXCEPT !.rule = Amended(d.rule, r)]
                                           ELSE c \in cloud
         /\ \A d \in cloud : \E c \in cloud' : c.uuid = d.uuid /\ (IF c.uuid = u THEN Agrees(c, r) ELSE c = d)
<1> DEFINE Made(d) == [d EXCEPT !.rule = Amended(d.rule, r)]
<1>1. \A d \in cloud : (IF d.uuid = u THEN Made(d) ELSE d) \in cloud'
  BY DEF ChangeRule
<1>2. \A c \in cloud' : \E d \in cloud : c = IF d.uuid = u THEN Made(d) ELSE d
  BY DEF ChangeRule
<1>3. \A d \in cloud : /\ Made(d).uuid = d.uuid /\ Agrees(Made(d), r)
                       /\ Made(d) \in [uuid : Uuid, rule : Contents, owner : {"resource", "nobody", "other"}]
  <2> SUFFICES ASSUME NEW d \in cloud
               PROVE  /\ Made(d).uuid = d.uuid /\ Agrees(Made(d), r)
                      /\ Made(d) \in [uuid : Uuid, rule : Contents, owner : {"resource", "nobody", "other"}]
    OBVIOUS
  <2>1. d \in [uuid : Uuid, rule : Contents, owner : {"resource", "nobody", "other"}]
    OBVIOUS
  <2>2. Made(d).rule = Amended(d.rule, r) /\ Made(d).uuid = d.uuid
    BY <2>1
  <2>3. Agrees(Made(d), r) /\ Made(d).rule \in Contents
    <3> HIDE DEF Made
    <3> QED
      BY <2>1, <2>2, AmendedFacts
  <2>4. Amended(d.rule, r) \in Contents
    BY <2>2, <2>3
  <2>5. Made(d) \in [uuid : Uuid, rule : Contents, owner : {"resource", "nobody", "other"}]
    BY <2>1, <2>4
  <2> QED
    BY <2>2, <2>3, <2>5
<1> HIDE DEF Made
<1>4. \A c \in cloud' : c.uuid = u => \E d \in cloud : d.uuid = u /\ c = Made(d)
  BY <1>2, <1>3
<1>5. cloud' \subseteq [uuid : Uuid, rule : Contents, owner : {"resource", "nobody", "other"}]
  BY <1>2, <1>3
<1>6. \A c \in cloud' : IF c.uuid = u THEN Agrees(c, r) ELSE c \in cloud
  BY <1>2, <1>3, <1>4
<1>7. \A c \in cloud' : c.uuid = u => \E d \in cloud : c = [d EXCEPT !.rule = Amended(d.rule, r)]
  BY <1>4 DEF Made
<1>8. \A d \in cloud : \E c \in cloud' : c.uuid = d.uuid /\ (IF c.uuid = u THEN Agrees(c, r) ELSE c = d)
  BY <1>1, <1>3
<1> QED
  BY <1>5, <1>6, <1>7, <1>8

LEMMA InitIInv == Init => IInv
<1> SUFFICES ASSUME Init PROVE IInv
  OBVIOUS
<1> USE DEF Init, Pool!Spawn, Idle
<1>1. DOMAIN saved = {"id", "tainted", "managed", "rules"} /\ saved.rules = {} /\ saved.id = FALSE
      /\ saved.tainted = FALSE /\ saved.managed = FALSE
  BY DEF Gone
<1>2. config \in [present : BOOLEAN, managed : BOOLEAN, rules : SUBSET Contents] /\ config.rules = {}
  BY DEF Absent
<1>3. faults \in [number : 0..MaxFaults, kinds : SUBSET FaultKinds] /\ changes \in 0..MaxChanges
  BY RulesetAssumption DEF RulesetAssumption
<1>4. DOMAIN later = {"change", "create"} /\ later.change = {} /\ later.create = {}
  BY DEF Nothing
<1>5. TypeOK
  BY <1>1, <1>2, <1>3, <1>4 DEF TypeOK
<1>6. Quiet /\ OnePerNumber /\ Jobs /\ Turns
  BY <1>2, <1>4 DEF Quiet, OnePerNumber, Jobs, Turns
<1>7. Truthful /\ Alone /\ Destroyed
  BY <1>1, <1>4 DEF Truthful, Pending, Waiting, Alone, Destroyed
<1>8. Unborn /\ Held /\ Kept
  BY <1>1 DEF Unborn, Held, Kept, Owned, Ids
<1> QED
  BY <1>5, <1>6, <1>7, <1>8 DEF IInv

-----------------------------------------------------------------------------
(* The goroutines.                                                         *)

\* The goroutine j goes on to w; the handler is not involved.
Steps(j, w) ==
  /\ DOMAIN stage' = DOMAIN stage /\ DOMAIN work' = DOMAIN work
  /\ \A i \in DOMAIN stage \ {j} : stage'[i] = stage[i] /\ work'[i] = work[i]
  /\ work'[j] = w /\ (work[j].over => w.over)
  /\ UNCHANGED HandlerState

\* It gives no uuid of an existing rule up, nor leaves with one.
KeepsUuids(j, w) ==
  /\ ~Blinded' => ~Blinded
  /\ ~Blinded' =>
       \A u \in Ids(Owned("resource")') :
         u = w.entry.uuid \/ (u \in Ids(Owned("resource")) /\ u # work[j].entry.uuid)
  /\ stage'[j] \in {"spawned", "working", "collecting"} \/ w.entry.uuid = NoUuid

LEMMA StepsType ==
  ASSUME TypeOK, NEW j \in DOMAIN stage, NEW w, Steps(j, w), WorkOK(w), stage'[j] \in Pool!Stages,
         cloud' \subseteq [uuid : Uuid, rule : Contents, owner : {"resource", "nobody", "other"}],
         \A e \in rules' : EntryOK(e), failed' \in BOOLEAN,
         NoFault \/ \E kind : Fault(kind)
  PROVE  TypeOK'
<1> USE DEF Steps, HandlerState
<1>1. faults' \in [number : 0..MaxFaults, kinds : SUBSET FaultKinds]
  BY FaultFacts DEF NoFault, TypeOK
<1>2. \A i \in DOMAIN stage' : WorkOK(work'[i]) /\ stage'[i] \in Pool!Stages
  BY DEF TypeOK
<1> QED
  BY <1>1, <1>2 DEF TypeOK

LEMMA StepsTurns ==
  ASSUME TypeOK, Turns, NEW j \in DOMAIN stage, NEW w, Steps(j, w), rules' = rules,
         stage'[j] = "collecting" => ~Pool!Overlapped(j), Turn(j)'
  PROVE  Turns'
<1> SUFFICES ASSUME NEW i \in DOMAIN stage, i # j PROVE Turn(i)'
  BY DEF Turns, Steps
<1>1. stage'[i] = stage[i] /\ work'[i] = work[i] /\ op' = op
  BY DEF Steps, HandlerState
<1>2. Turn(i)
  BY DEF Turns
<1>3. stage[i] = "collecting" => ~Pool!Overlapped(i)'
  BY <1>1, <1>2 DEF Turn, Pool!Overlapped, Steps
<1> QED
  BY <1>1, <1>2, <1>3 DEF Turn

LEMMA StepsTruthful ==
  ASSUME TypeOK, Truthful, ~Idle, NEW j \in DOMAIN stage, NEW w, Steps(j, w), Grown,
         op = "change" /\ w.cut => work[j].cut \/ j.entry.uuid \notin Ids(cloud')
  PROVE  Truthful'
<1> USE DEF Steps, HandlerState
<1>1. Pending' \subseteq Pending /\ Waiting' = Waiting
  BY DEF Pending, Waiting
<1>2. \A i \in DOMAIN stage \cup later.change : i.entry.uuid \notin Ids(cloud) => i.entry.uuid \notin Ids(cloud')
  BY UnusedFacts DEF Grown, Ids, TypeOK
<1>3. \A i \in Pending \cup Waiting : i \in DOMAIN stage \cup later.change
  BY DEF Pending, Waiting
<1>4. \A i \in Pending' \cup Waiting' : Current(i.entry)'
  <2> SUFFICES ASSUME NEW i \in Pending \cup Waiting, NEW c \in cloud', c.uuid = i.entry.uuid
               PROVE  c.rule = i.entry.rule
    BY <1>1 DEF Current
  <2>1. c \in cloud
    BY <1>3, UnusedFacts DEF Grown, TypeOK
  <2> QED
    BY <2>1 DEF Truthful, Current
<1>5. ASSUME op = "change", NEW i \in DOMAIN stage, work'[i].cut PROVE i.entry.uuid \notin Ids(cloud')
  BY <1>2, <1>5 DEF Truthful
<1> QED
  BY <1>4, <1>5 DEF Truthful, Idle

LEMMA StepsHeld ==
  ASSUME TypeOK, Held, Unborn, ~Idle, NEW j \in DOMAIN stage, NEW w, Steps(j, w), rules' = rules,
         WorkOK(w), cloud' \subseteq [uuid : Uuid, rule : Contents, owner : {"resource", "nobody", "other"}],
         KeepsUuids(j, w)
  PROVE  Held' /\ Unborn'
<1> USE DEF Steps, HandlerState
<1>1. \A u \in Ids(Owned("resource")') : u # NoUuid
  BY UuidFacts DEF Ids, Owned
<1>2. Held'
  <2> SUFFICES ASSUME ~Blinded', NEW u \in Ids(Owned("resource")'),
                      \A e \in rules : e.uuid # u
               PROVE  \E i \in Live' : work'[i].entry.uuid = u
    BY <1>1 DEF Held, UuidsIn
  <2>1. CASE u = w.entry.uuid
    <3>1. j \in Live'
      BY <1>1, <2>1 DEF KeepsUuids, Live
    <3> QED
      BY <2>1, <3>1
  <2>2. CASE u \in Ids(Owned("resource")) /\ u # work[j].entry.uuid
    <3>1. PICK i \in Live : work[i].entry.uuid = u
      BY <2>2 DEF Held, UuidsIn, KeepsUuids
    <3> QED
      BY <2>2, <3>1 DEF Live
  <2> QED
    BY <2>1, <2>2 DEF KeepsUuids
<1>3. Unborn'
  <2>1. ~saved'.id => saved'.rules = {} /\ op' = "create"
    BY DEF Unborn
  <2> SUFFICES ASSUME ~saved.id, ~Blinded', NEW u \in Ids(Owned("resource")')
               PROVE  \E i \in DOMAIN work' : work'[i].entry.uuid = u
    BY <1>1, <2>1 DEF Unborn, UuidsIn
  <2>2. CASE u = w.entry.uuid
    BY <2>2 DEF TypeOK
  <2>3. CASE u \in Ids(Owned("resource")) /\ u # work[j].entry.uuid
    <3>1. PICK i \in DOMAIN work : work[i].entry.uuid = u
      BY <2>3 DEF Unborn, UuidsIn, KeepsUuids
    <3> QED
      BY <2>3, <3>1 DEF TypeOK
  <2> QED
    BY <2>2, <2>3 DEF KeepsUuids
<1> QED
  BY <1>2, <1>3

\* What a step of a goroutine must keep.
GoesOn(j, w) ==
  /\ Steps(j, w) /\ KeepsUuids(j, w) /\ WorkOK(w) /\ rules' = rules
  /\ stage'[j] \in {"working", "collecting", "done"}
  /\ cloud' \subseteq [uuid : Uuid, rule : Contents, owner : {"resource", "nobody", "other"}]
  /\ failed' \in BOOLEAN /\ (failed => failed')
  /\ NoFault \/ \E kind : Fault(kind)
  /\ ~w.over => w.entry = j.entry /\ stage'[j] = "working"
  /\ stage'[j] = "collecting" => w.seen = rules /\ w.entry.uuid # NoUuid /\ ~Pool!Overlapped(j)
  /\ w.entry.uuid \in {j.entry.uuid, NoUuid} \/ op = "create" \/ (op = "change" /\ w.cut)
  /\ op = "destroy" /\ ~failed' => stage'[j] # "collecting" /\ (w.over => w.entry.uuid = NoUuid)

LEMMA GoesOnStep ==
  ASSUME IInv, NEW j \in DOMAIN stage, NEW w, GoesOn(j, w), Truthful', Alone'
  PROVE  IInv'
<1> USE DEF IInv
<1>1. ~Idle
  BY DEF Quiet
<1>2. TypeOK'
  BY StepsType DEF GoesOn, TypeOK, Pool!Stages
<1>3. Quiet' /\ OnePerNumber' /\ Jobs' /\ Kept'
  BY <1>1 DEF GoesOn, Steps, HandlerState, Quiet, Idle, OnePerNumber, Jobs, Kept
<1>4. Turn(j)'
  <2>1. work'[j] = w /\ op' = op /\ rules' = rules /\ (Pool!Overlapped(j)' => Pool!Overlapped(j))
    BY DEF GoesOn, Steps, HandlerState, Pool!Overlapped
  <2> QED
    BY <2>1 DEF GoesOn, Turn
<1>5. Turns'
  BY <1>4, StepsTurns DEF GoesOn
<1>6. Destroyed'
  BY DEF GoesOn, Steps, HandlerState, Destroyed
<1>7. Held' /\ Unborn'
  BY <1>1, StepsHeld DEF GoesOn
<1> QED
  BY <1>2, <1>3, <1>5, <1>6, <1>7

\* A goroutine at work, and what it holds.
LEMMA WorkFacts ==
  ASSUME IInv, NEW j \in DOMAIN stage
  PROVE  /\ TypeOK /\ ~Idle /\ DOMAIN work = DOMAIN stage /\ WorkOK(work[j]) /\ Turn(j) /\ JobOK(j)
         /\ failed \in BOOLEAN /\ stage[j] \in Pool!Stages
         /\ Truthful /\ Alone
BY DEF IInv, TypeOK, Quiet, Turns

LEMMA AcquireStep == ASSUME IInv, NEW j \in DOMAIN stage, Acquire(j) PROVE IInv'
<1>1. /\ stage[j] = "spawned" /\ stage' = [stage EXCEPT ![j] = "working"]
      /\ UNCHANGED <<cloud, rules, work, failed, faults, HandlerState>>
  BY DEF Acquire, Pool!Acquire, Pool!Goto
<1>2. Steps(j, work[j]) /\ KeepsUuids(j, work[j])
  BY <1>1, WorkFacts DEF Steps, KeepsUuids, Blinded, Owned, Ids
<1>3. ~work[j].over /\ work[j].entry = j.entry
  BY <1>1, WorkFacts DEF Turn
<1>4. GoesOn(j, work[j])
  BY <1>1, <1>2, <1>3, WorkFacts DEF GoesOn, TypeOK, NoFault
<1>5. Grown
  BY <1>1 DEF Grown
<1>6. Truthful' /\ Alone'
  BY <1>1, <1>2, <1>5, WorkFacts, StepsTruthful DEF Alone, Truthful
<1> QED
  BY <1>4, <1>6, GoesOnStep

Ended(w) == [w EXCEPT !.over = TRUE]

LEMMA EndedFacts ==
  ASSUME NEW w, WorkOK(w)
  PROVE  WorkOK(Ended(w)) /\ Ended(w).over = TRUE /\ Ended(w).entry = w.entry /\ Ended(w).cut = w.cut
BY DEF Ended, WorkOK

\* A goroutine reports an error; what it had done before may have had its effect.
LEMMA AbortStep ==
  ASSUME IInv, NEW j \in DOMAIN stage, Running(j), Abort(j), UNCHANGED <<rules, stage, HandlerState>>,
         cloud' \subseteq [uuid : Uuid, rule : Contents, owner : {"resource", "nobody", "other"}],
         Truthful', Alone', NoFault \/ \E kind : Fault(kind),
         ~Blinded' => ~Blinded /\ Ids(Owned("resource")') \subseteq Ids(Owned("resource"))
  PROVE  IInv'
<1> DEFINE w == Ended(work[j])
<1>1. work' = [work EXCEPT ![j] = w] /\ failed' = TRUE
  BY DEF Abort, Ended
<1>2. WorkOK(w) /\ w.over = TRUE /\ w.entry = work[j].entry /\ w.cut = work[j].cut /\ w.entry = j.entry
  BY EndedFacts, WorkFacts DEF Turn, Running
<1> HIDE DEF w
<1>3. Steps(j, w)
  BY <1>1, <1>2, WorkFacts DEF Steps
<1>4. KeepsUuids(j, w)
  BY <1>2 DEF KeepsUuids, Running
<1>5. GoesOn(j, w)
  BY <1>1, <1>2, <1>3, <1>4 DEF GoesOn, Running
<1> QED
  BY <1>5, GoesOnStep

\* It may try again.
LEMMA RetryStep ==
  ASSUME IInv, NEW j \in DOMAIN stage, Running(j), Retry(j), UNCHANGED <<rules, stage, HandlerState>>,
         cloud' \subseteq [uuid : Uuid, rule : Contents, owner : {"resource", "nobody", "other"}],
         Truthful', Alone', NoFault \/ \E kind : Fault(kind),
         ~Blinded' => ~Blinded /\ Ids(Owned("resource")') \subseteq Ids(Owned("resource"))
  PROVE  IInv'
<1>1. CASE work[j].tries + 1 < Attempts
  <2> DEFINE w == [work[j] EXCEPT !.tries = @ + 1]
  <2>1. work' = [work EXCEPT ![j] = w] /\ failed' = failed
    BY <1>1 DEF Retry
  <2>2. WorkOK(w) /\ w.over = work[j].over /\ w.entry = work[j].entry /\ w.cut = work[j].cut
    BY <1>1, WorkFacts, RulesetAssumption DEF WorkOK, RulesetAssumption
  <2> HIDE DEF w
  <2>3. ~work[j].over /\ work[j].entry = j.entry
    BY WorkFacts DEF Turn, Running
  <2>4. Steps(j, w) /\ KeepsUuids(j, w)
    BY <2>1, <2>2, WorkFacts DEF Steps, KeepsUuids, Running
  <2>5. GoesOn(j, w)
    BY <2>1, <2>2, <2>3, <2>4, WorkFacts DEF GoesOn, Running
  <2> QED
    BY <2>5, GoesOnStep
<1>2. CASE ~(work[j].tries + 1 < Attempts)
  BY <1>2, AbortStep DEF Retry
<1> QED
  BY <1>1, <1>2

LEMMA RejectStep == ASSUME IInv, NEW j \in DOMAIN stage, RejectRule(j) PROVE IInv'
<1> USE DEF RejectRule
<1>1. work' = [work EXCEPT ![j] = Ended(work[j])] /\ WorkOK(work[j])
  BY WorkFacts DEF Abort, Ended
<1>2. Steps(j, Ended(work[j]))
  BY <1>1, EndedFacts, WorkFacts DEF Steps
<1>3. Grown /\ Alone'
  BY WorkFacts DEF Grown, Alone
<1>4. Truthful'
  BY <1>1, <1>2, <1>3, EndedFacts, WorkFacts, StepsTruthful
<1>5. cloud' \subseteq [uuid : Uuid, rule : Contents, owner : {"resource", "nobody", "other"}]
  BY WorkFacts DEF TypeOK
<1>6. ~Blinded' => ~Blinded /\ Ids(Owned("resource")') \subseteq Ids(Owned("resource"))
  BY DEF Blinded, Owned, Ids
<1> QED
  BY <1>3, <1>4, <1>5, <1>6, AbortStep DEF NoFault

\* With a change of any goroutine's state that is not a deletion of its rule, what is
\* said of the rules in hand stays true as long as no rule changes.
LEMMA UncutTruthful ==
  ASSUME IInv, NEW j \in DOMAIN stage, NEW w, work' = [work EXCEPT ![j] = w], w.cut = work[j].cut,
         work[j].over => w.over, UNCHANGED <<stage, HandlerState>>, Grown
  PROVE  Truthful'
<1>1. Steps(j, w)
  BY WorkFacts DEF Steps
<1> QED
  BY <1>1, WorkFacts, StepsTruthful

LEMMA CreateRuleStep == ASSUME IInv, NEW j \in DOMAIN stage, CreateRule(j) PROVE IInv'
<1> USE DEF CreateRule
<1> DEFINE w == [work[j] EXCEPT !.over = TRUE, !.entry.uuid = NewUuid]
<1>1. work' = [work EXCEPT ![j] = w]
  BY DEF Over
<1>2. j.new \in Contents /\ NewRule(j.new, "resource") /\ WorkOK(work[j]) /\ EntryOK(work[j].entry)
  BY WorkFacts DEF JobOK, EntryOK, Entries, WorkOK
<1>3. /\ NewUuid \in Unused /\ NewUuid \in Uuid
      /\ cloud' = cloud \cup {[uuid |-> NewUuid, rule |-> j.new, owner |-> "resource"]}
      /\ [uuid |-> NewUuid, rule |-> j.new, owner |-> "resource"] \in
           [uuid : Uuid, rule : Contents, owner : {"resource", "nobody", "other"}]
  BY <1>2, NewRuleFacts
<1>4. /\ DOMAIN w = {"entry", "tries", "cut", "over", "seen"} /\ w.over = TRUE /\ w.cut = work[j].cut
      /\ w.tries = work[j].tries /\ w.seen = work[j].seen /\ w.entry = [work[j].entry EXCEPT !.uuid = NewUuid]
  BY <1>2 DEF WorkOK
<1> HIDE DEF w
<1>5. EntryOK(w.entry) /\ w.entry.uuid = NewUuid
  BY <1>2, <1>3, <1>4 DEF EntryOK, Entries
<1>6. WorkOK(w)
  BY <1>2, <1>4, <1>5 DEF WorkOK
<1>7. Steps(j, w)
  BY <1>1, <1>4, WorkFacts DEF Steps
<1>8. Grown /\ Alone'
  BY <1>2, NewRuleGrown, WorkFacts
<1>9. Truthful'
  BY <1>1, <1>4, <1>8, UncutTruthful
<1>10. work[j].entry.uuid \notin Ids(cloud)
  <2>1. work[j].entry = j.entry
    BY WorkFacts DEF Turn, Running
  <2>2. CASE op = "create"
    <3>1. j.entry = Entry(j.new)
      BY <2>2 DEF IInv, Jobs
    <3>2. work[j].entry.uuid = NoUuid
      BY <1>2, <2>1, <3>1, EntryFacts
    <3> QED
      BY <3>2, UuidFacts, WorkFacts DEF TypeOK, Ids
  <2>3. CASE op = "change" /\ work[j].cut
    BY <2>1, <2>3, WorkFacts DEF Truthful
  <2> QED
    BY <2>2, <2>3 DEF Creates, Replaces
<1>11. KeepsUuids(j, w)
  <2>1. \A u \in Ids(Owned("resource")') : u = NewUuid \/ u \in Ids(Owned("resource"))
    BY <1>3 DEF Ids, Owned
  <2>2. Blinded' = Blinded
    BY DEF NoFault, Blinded
  <2> QED
    BY <1>5, <1>10, <2>1, <2>2 DEF KeepsUuids, Ids, Owned, Running
<1>12. op = "create" \/ (op = "change" /\ w.cut)
  BY <1>4 DEF Creates, Replaces
<1>13. GoesOn(j, w)
  BY <1>3, <1>4, <1>5, <1>6, <1>7, <1>11, <1>12, WorkFacts DEF GoesOn, Running, TypeOK
<1> QED
  BY <1>8, <1>9, <1>13, GoesOnStep

LEMMA CreateFailsStep == ASSUME IInv, NEW j \in DOMAIN stage, CreateFails(j) PROVE IInv'
<1> USE DEF CreateFails
<1>1. PICK w : work' = [work EXCEPT ![j] = w] /\ w.cut = work[j].cut /\ (work[j].over => w.over)
  <2>1. CASE work' = [work EXCEPT ![j] = Ended(work[j])]
    BY <2>1, EndedFacts, WorkFacts
  <2>2. CASE work' = [work EXCEPT ![j] = [work[j] EXCEPT !.tries = @ + 1]]
    <3>1. [work[j] EXCEPT !.tries = @ + 1].cut = work[j].cut /\ [work[j] EXCEPT !.tries = @ + 1].over = work[j].over
      BY WorkFacts DEF WorkOK
    <3> QED
      BY <2>2, <3>1
  <2> QED
    BY <2>1, <2>2 DEF Retry, Abort, Ended
<1>2. CASE UNCHANGED cloud /\ Retry(j) /\ (NoFault \/ Fault("apiError"))
  <2>1. Grown /\ Alone'
    BY <1>2, WorkFacts DEF Grown, Alone
  <2>2. cloud' \subseteq [uuid : Uuid, rule : Contents, owner : {"resource", "nobody", "other"}]
    BY <1>2, WorkFacts DEF TypeOK
  <2>3. ~Blinded' => ~Blinded /\ Ids(Owned("resource")') \subseteq Ids(Owned("resource"))
    BY <1>2, FaultFacts, WorkFacts DEF Blinded, Owned, Ids, NoFault
  <2> QED
    BY <1>1, <1>2, <2>1, <2>2, <2>3, UncutTruthful, RetryStep
<1>3. CASE /\ (Fault("lostReply") /\ Retry(j)) \/ (Fault("asyncTimeout") /\ Abort(j))
           /\ NewRule(j.new, "resource")
  <2>1. j.new \in Contents
    BY WorkFacts DEF JobOK, EntryOK, Entries
  <2>2. Grown /\ Alone'
    BY <1>3, <2>1, WorkFacts, NewRuleGrown
  <2>3. cloud' \subseteq [uuid : Uuid, rule : Contents, owner : {"resource", "nobody", "other"}]
    BY <1>3, <2>1, NewRuleFacts, WorkFacts DEF TypeOK
  <2>4. Blinded'
    BY <1>3, FaultFacts, WorkFacts DEF Blinded, Blinding
  <2> QED
    BY <1>1, <1>3, <2>2, <2>3, <2>4, UncutTruthful, RetryStep, AbortStep
<1> QED
  BY <1>2, <1>3

LEMMA DeleteRuleStep == ASSUME IInv, NEW j \in DOMAIN stage, DeleteRule(j) PROVE IInv'
<1> USE DEF DeleteRule
<1>1. /\ cloud' \subseteq cloud /\ work[j].entry.uuid \notin Ids(cloud') /\ work[j].entry = j.entry
      /\ WorkOK(work[j]) /\ EntryOK(work[j].entry) /\ Blinded' = Blinded
  BY RemoveRuleFacts, WorkFacts DEF Turn, Running, WorkOK, Blinded, NoFault
<1>2. Grown /\ Alone'
  BY <1>1, FewerGrown, WorkFacts
<1>3. \A u \in Ids(Owned("resource")') : u \in Ids(Owned("resource")) /\ u # work[j].entry.uuid
  BY <1>1 DEF Ids, Owned
<1>4. cloud' \subseteq [uuid : Uuid, rule : Contents, owner : {"resource", "nobody", "other"}]
  BY <1>1, WorkFacts DEF TypeOK
<1>5. CASE op = "change"
  <2> DEFINE w == [work[j] EXCEPT !.cut = TRUE]
  <2>1. work' = [work EXCEPT ![j] = w]
    BY <1>5
  <2>2. WorkOK(w) /\ w.over = work[j].over /\ w.entry = work[j].entry /\ w.cut = TRUE
    BY <1>1 DEF WorkOK
  <2> HIDE DEF w
  <2>3. Steps(j, w) /\ KeepsUuids(j, w)
    BY <1>1, <1>3, <2>1, <2>2, WorkFacts DEF Steps, KeepsUuids, Running
  <2>4. Truthful'
    BY <1>1, <1>2, <2>3, WorkFacts, StepsTruthful
  <2>5. GoesOn(j, w)
    BY <1>1, <1>4, <1>5, <2>2, <2>3, WorkFacts DEF GoesOn, Running
  <2> QED
    BY <1>2, <2>4, <2>5, GoesOnStep
<1>6. CASE op # "change"
  <2> DEFINE w == [work[j] EXCEPT !.over = TRUE, !.entry.uuid = NoUuid]
  <2>1. work' = [work EXCEPT ![j] = w]
    BY <1>6 DEF Over
  <2>2. /\ DOMAIN w = {"entry", "tries", "cut", "over", "seen"} /\ w.over = TRUE /\ w.cut = work[j].cut
        /\ w.tries = work[j].tries /\ w.seen = work[j].seen /\ w.entry = [work[j].entry EXCEPT !.uuid = NoUuid]
    BY <1>1 DEF WorkOK
  <2> HIDE DEF w
  <2>3. EntryOK(w.entry) /\ w.entry.uuid = NoUuid
    BY <1>1, <2>2 DEF EntryOK, Entries
  <2>4. WorkOK(w)
    BY <1>1, <2>2, <2>3 DEF WorkOK
  <2>5. Steps(j, w) /\ KeepsUuids(j, w)
    BY <1>1, <1>3, <2>1, <2>2, WorkFacts DEF Steps, KeepsUuids, Running
  <2>6. Truthful'
    BY <1>2, <1>6, <2>5, WorkFacts, StepsTruthful
  <2>7. GoesOn(j, w)
    BY <1>1, <1>4, <2>2, <2>3, <2>4, <2>5, WorkFacts DEF GoesOn, Running
  <2> QED
    BY <1>2, <2>6, <2>7, GoesOnStep
<1> QED
  BY <1>5, <1>6

LEMMA DeleteFailsStep == ASSUME IInv, NEW j \in DOMAIN stage, DeleteFails(j) PROVE IInv'
<1> USE DEF DeleteFails
<1>1. cloud' \subseteq cloud /\ (cloud' = cloud \/ Blinded')
  <2>1. CASE Fault("lostReply") /\ RemoveRule(work[j].entry.uuid)
    BY <2>1, FaultFacts, WorkFacts, RemoveRuleFacts DEF Blinded, Blinding
  <2> QED
    BY <2>1
<1>2. work' = [work EXCEPT ![j] = Ended(work[j])]
  BY DEF Abort, Ended
<1>3. Grown /\ Alone'
  BY <1>1, FewerGrown, WorkFacts
<1>4. Truthful'
  BY <1>2, <1>3, EndedFacts, WorkFacts, UncutTruthful
<1>5. cloud' \subseteq [uuid : Uuid, rule : Contents, owner : {"resource", "nobody", "other"}]
  BY <1>1, WorkFacts DEF TypeOK
<1>6. NoFault \/ \E kind : Fault(kind)
  OBVIOUS
<1>7. ~Blinded' => ~Blinded /\ Ids(Owned("resource")') \subseteq Ids(Owned("resource"))
  <2>1. Blinded => Blinded'
    BY <1>6, FaultFacts, WorkFacts DEF Blinded, NoFault
  <2> QED
    BY <1>1, <2>1 DEF Ids, Owned
<1> QED
  BY <1>3, <1>4, <1>5, <1>6, <1>7, AbortStep

\* No two goroutines of an update change the same rule.
LEMMA OneEach ==
  ASSUME IInv, op = "change", NEW i \in Pending, NEW j \in Pending,
         i.entry.uuid = j.entry.uuid, i.entry.uuid \in Ids(cloud)
  PROVE  i = j
<1>1. PICK c \in cloud : c.uuid = i.entry.uuid
  BY DEF Ids
<1>2. i.entry.rule = c.rule /\ j.entry.rule = c.rule
  BY <1>1 DEF IInv, Truthful, Current
<1>3. /\ JobOK(i) /\ JobOK(j) /\ i.new \in config.rules /\ j.new \in config.rules
      /\ i.new.number = j.new.number
  BY <1>2 DEF IInv, TypeOK, Jobs, Pending
<1>4. i.new = j.new
  BY <1>3 DEF IInv, OnePerNumber
<1>5. i.entry = j.entry
  BY <1>2, <1>3 DEF JobOK, EntryOK, Entries
<1> QED
  BY <1>3, <1>4, <1>5 DEF JobOK, EntryOK, Entries

\* UpdateNetworkACLItem, whether or not its answer arrives.
LEMMA ChangeTruthful ==
  ASSUME IInv, NEW j \in DOMAIN stage, Running(j), Changes(j), NEW w, Steps(j, w), w.over, w.cut = work[j].cut,
         ChangeRule(j.entry.uuid, j.new)
  PROVE  Truthful' /\ Alone'
<1> USE DEF Steps, HandlerState
<1>1. op = "change" /\ j \in Pending /\ j.new \in Contents /\ TypeOK
  BY WorkFacts DEF Changes, Pending, Running, JobOK, EntryOK, Entries
<1>2. /\ cloud \subseteq [uuid : Uuid, rule : Contents, owner : {"resource", "nobody", "other"}]
      /\ \A c \in cloud' : IF c.uuid = j.entry.uuid
                           THEN \E d \in cloud : c = [d EXCEPT !.rule = Amended(d.rule, j.new)] ELSE c \in cloud
  BY <1>1, ChangeRuleFacts DEF TypeOK
<1>3. \A c \in cloud' : c.uuid \in Ids(cloud)
  BY <1>2 DEF Ids
<1>4. Alone'
  <2> SUFFICES ASSUME NEW c \in cloud', NEW d \in cloud', c.uuid = d.uuid PROVE c = d
    BY DEF Alone
  <2>1. CASE c.uuid = j.entry.uuid
    <3>1. PICK x \in cloud : c = [x EXCEPT !.rule = Amended(x.rule, j.new)]
      BY <1>2, <2>1
    <3>2. PICK y \in cloud : d = [y EXCEPT !.rule = Amended(y.rule, j.new)]
      BY <1>2, <2>1
    <3>3. x.uuid = y.uuid
      BY <1>2, <3>1, <3>2
    <3> QED
      BY <3>1, <3>2, <3>3, WorkFacts DEF Alone
  <2>2. CASE c.uuid # j.entry.uuid
    BY <1>2, <2>2, WorkFacts DEF Alone
  <2> QED
    BY <2>1, <2>2
<1>5. \A i \in Pending' \cup Waiting' : Current(i.entry)'
  <2> SUFFICES ASSUME NEW i \in Pending', NEW c \in cloud', c.uuid = i.entry.uuid PROVE c.rule = i.entry.rule
    BY <1>1 DEF Waiting, Current
  <2>1. i # j /\ i \in Pending
    BY DEF Pending
  <2>2. c.uuid # j.entry.uuid
    BY <1>1, <1>3, <2>1, OneEach
  <2> QED
    BY <1>2, <2>1, <2>2, WorkFacts DEF Truthful, Current
<1>6. ASSUME NEW i \in DOMAIN stage, work'[i].cut PROVE i.entry.uuid \notin Ids(cloud')
  BY <1>1, <1>3, <1>6, WorkFacts DEF Truthful, Ids
<1> QED
  BY <1>1, <1>4, <1>5, <1>6 DEF Truthful, Idle

LEMMA ChangeInPlaceStep == ASSUME IInv, NEW j \in DOMAIN stage, ChangeInPlace(j) PROVE IInv'
<1> USE DEF ChangeInPlace
<1>1. /\ work[j].entry = j.entry /\ WorkOK(work[j]) /\ EntryOK(j.entry) /\ TypeOK /\ Blinded' = Blinded
      /\ j.new \in Contents
  BY WorkFacts DEF Turn, Running, JobOK, EntryOK, Entries, NoFault, Blinded
<1> DEFINE w == [work[j] EXCEPT !.over = TRUE, !.entry.uuid = j.entry.uuid]
<1>2. work' = [work EXCEPT ![j] = w]
  BY <1>1 DEF Over
<1>3. /\ DOMAIN w = {"entry", "tries", "cut", "over", "seen"} /\ w.over = TRUE /\ w.cut = work[j].cut
      /\ w.tries = work[j].tries /\ w.seen = work[j].seen /\ w.entry = [work[j].entry EXCEPT !.uuid = j.entry.uuid]
  BY <1>1 DEF WorkOK
<1> HIDE DEF w
<1>4. w.entry = j.entry
  BY <1>1, <1>3 DEF EntryOK, Entries
<1>5. WorkOK(w)
  BY <1>1, <1>3, <1>4 DEF WorkOK
<1>6. Steps(j, w)
  BY <1>2, <1>3, WorkFacts DEF Steps
<1>7. Truthful' /\ Alone'
  BY <1>1, <1>3, <1>6, ChangeTruthful
<1>8. cloud' \subseteq [uuid : Uuid, rule : Contents, owner : {"resource", "nobody", "other"}]
  BY <1>1, ChangeRuleFacts DEF TypeOK
<1>9. KeepsUuids(j, w)
  <2>1. \A u \in Ids(Owned("resource")') : u \in Ids(Owned("resource"))
    <3> SUFFICES ASSUME NEW c \in cloud', c.owner = "resource"
                 PROVE  \E d \in cloud : d.uuid = c.uuid /\ d.owner = "resource"
      BY DEF Ids, Owned
    <3>1. CASE c \in cloud
      BY <3>1
    <3>2. CASE \E d \in cloud : c = [d EXCEPT !.rule = Amended(d.rule, j.new)]
      BY <1>1, <3>2 DEF TypeOK
    <3> QED
      BY <1>1, <3>1, <3>2, ChangeRuleFacts DEF TypeOK
  <2> QED
    BY <1>1, <1>4, <2>1 DEF KeepsUuids, Running
<1>10. GoesOn(j, w)
  BY <1>3, <1>4, <1>5, <1>6, <1>8, <1>9, WorkFacts DEF GoesOn, Running, Changes
<1> QED
  BY <1>7, <1>10, GoesOnStep

LEMMA ChangeFailsStep == ASSUME IInv, NEW j \in DOMAIN stage, ChangeFails(j) PROVE IInv'
<1> USE DEF ChangeFails
<1>1. work[j].entry = j.entry /\ WorkOK(work[j]) /\ TypeOK /\ j.new \in Contents
  BY WorkFacts DEF Turn, Running, JobOK, EntryOK, Entries
<1>2. work' = [work EXCEPT ![j] = Ended(work[j])] /\ Ended(work[j]).over /\ Ended(work[j]).cut = work[j].cut
  BY <1>1, EndedFacts DEF Abort, Ended
<1>3. CASE UNCHANGED cloud /\ (NoFault \/ Fault("apiError"))
  <2>1. Grown /\ Alone'
    BY <1>3, WorkFacts DEF Grown, Alone
  <2>2. Truthful'
    BY <1>2, <2>1, UncutTruthful
  <2>3. ~Blinded' => ~Blinded /\ Ids(Owned("resource")') \subseteq Ids(Owned("resource"))
    BY <1>1, <1>3, FaultFacts DEF Blinded, Owned, Ids, NoFault
  <2> QED
    BY <1>1, <1>3, <2>1, <2>2, <2>3, AbortStep DEF TypeOK
<1>4. CASE Fault("lostReply") /\ ChangeRule(work[j].entry.uuid, j.new)
  <2>1. Blinded'
    BY <1>1, <1>4, FaultFacts DEF Blinded, Blinding
  <2>2. Steps(j, Ended(work[j]))
    BY <1>2, WorkFacts DEF Steps
  <2>3. Truthful' /\ Alone'
    BY <1>1, <1>2, <1>4, <2>2, ChangeTruthful
  <2>4. cloud' \subseteq [uuid : Uuid, rule : Contents, owner : {"resource", "nobody", "other"}]
    BY <1>1, <1>4, ChangeRuleFacts DEF TypeOK
  <2> QED
    BY <1>4, <2>1, <2>3, <2>4, AbortStep
<1> QED
  BY <1>3, <1>4

LEMMA LockStep == ASSUME IInv, NEW j \in DOMAIN stage, Lock(j) PROVE IInv'
<1> USE DEF Lock
<1>1. WorkOK(work[j]) /\ TypeOK /\ Turn(j) /\ Blinded' = Blinded /\ NoFault
  BY WorkFacts DEF NoFault, Blinded
<1>2. PICK w : /\ DOMAIN work' = DOMAIN work /\ work'[j] = w /\ \A i \in DOMAIN work \ {j} : work'[i] = work[i]
               /\ WorkOK(w) /\ w.over /\ w.entry = work[j].entry /\ w.cut = work[j].cut
               /\ (w.entry.uuid # NoUuid => w.seen = rules)
  <2>1. CASE work[j].entry.uuid # NoUuid
    <3>1. work' = [work EXCEPT ![j] = [work[j] EXCEPT !.seen = rules]] /\ j \in DOMAIN work
      BY <2>1, WorkFacts
    <3>2. LET w == [work[j] EXCEPT !.seen = rules]
          IN WorkOK(w) /\ w.over /\ w.entry = work[j].entry /\ w.cut = work[j].cut /\ w.seen = rules
      BY <1>1 DEF WorkOK, TypeOK
    <3> QED
      BY <3>1, <3>2
  <2>2. CASE work[j].entry.uuid = NoUuid
    BY <1>1, <2>2
  <2> QED
    BY <2>1, <2>2
<1>3. /\ stage[j] = "working" /\ DOMAIN stage' = DOMAIN stage /\ \A i \in DOMAIN stage \ {j} : stage'[i] = stage[i]
      /\ stage'[j] = IF w.entry.uuid # NoUuid THEN "collecting" ELSE "done"
  BY <1>2 DEF Pool!StartCollecting, Pool!NothingToCollect, Pool!Goto
<1>4. Steps(j, w) /\ KeepsUuids(j, w)
  BY <1>1, <1>2, <1>3, WorkFacts DEF Steps, KeepsUuids, Owned, Ids
<1>5. Grown /\ Alone'
  BY WorkFacts DEF Grown, Alone
<1>6. Truthful'
  BY <1>2, <1>4, <1>5, WorkFacts, StepsTruthful
<1>7. op = "destroy" /\ ~failed => w.entry.uuid = NoUuid
  BY <1>2 DEF IInv, Destroyed
<1>8. GoesOn(j, w)
  BY <1>1, <1>2, <1>3, <1>4, <1>7, WorkFacts DEF GoesOn, Turn, TypeOK
<1> QED
  BY <1>5, <1>6, <1>8, GoesOnStep

LEMMA AddStep == ASSUME IInv, NEW j \in DOMAIN stage, Add(j) PROVE IInv'
<1> USE DEF IInv, HandlerState
<1> DEFINE x == [work[j].entry EXCEPT !.rule = j.new]
<1>1. /\ stage[j] = "collecting" /\ stage' = [stage EXCEPT ![j] = "done"]
      /\ rules' = (work[j].seen \ {j.entry}) \cup {x}
      /\ UNCHANGED <<cloud, work, failed, faults, config, saved, fresh, op, later, told, changes>>
  BY DEF Add, Pool!Collected, Pool!Goto
<1>2. /\ ~Idle /\ work[j].seen = rules /\ work[j].entry.uuid # NoUuid /\ ~Pool!Overlapped(j) /\ work[j].over
      /\ JobOK(j) /\ EntryOK(work[j].entry)
  BY <1>1, WorkFacts DEF Turn, WorkOK
<1>3. EntryOK(x) /\ x.uuid = work[j].entry.uuid
  BY <1>2 DEF EntryOK, Entries, JobOK
<1> HIDE DEF x
<1>4. TypeOK'
  <2>1. \A e \in rules' : EntryOK(e)
    BY <1>1, <1>2, <1>3 DEF TypeOK
  <2> QED
    BY <1>1, <2>1 DEF TypeOK, Pool!Stages
<1>5. Quiet' /\ OnePerNumber' /\ Jobs' /\ Alone' /\ Kept'
  BY <1>1, <1>2 DEF Quiet, OnePerNumber, Jobs, Alone, Kept, Idle
<1>6. Turns'
  <2> SUFFICES ASSUME NEW i \in DOMAIN stage PROVE Turn(i)'
    BY <1>1 DEF Turns
  <2>1. Turn(i)
    BY DEF Turns
  <2>2. stage'[i] # "collecting"
    BY <1>1, <1>2 DEF Pool!Overlapped
  <2>3. i = j => stage'[i] = "done"
    BY <1>1
  <2> QED
    BY <1>1, <1>2, <2>1, <2>2, <2>3 DEF Turn
<1>7. Truthful'
  BY <1>1, <1>2 DEF Truthful, Pending, Waiting, Current, Idle, Ids
<1>8. Destroyed'
  BY <1>1 DEF Destroyed
<1>9. Unborn'
  BY <1>1 DEF Unborn, Blinded, Idle, Owned, Ids
<1>10. Held'
  <2> SUFFICES ASSUME ~Blinded, NEW c \in cloud, c.owner = "resource"
               PROVE  c.uuid # NoUuid /\ ((\E e \in rules' : e.uuid = c.uuid)
                        \/ (\E i \in Live' : work[i].entry.uuid = c.uuid))
    BY <1>1 DEF Held, Owned, Ids, UuidsIn, Blinded
  <2>1. c.uuid # NoUuid
    BY UuidFacts DEF TypeOK
  <2>2. CASE \E e \in rules : e.uuid = c.uuid
    <3>1. PICK e \in rules : e.uuid = c.uuid
      BY <2>2
    <3>2. CASE e # j.entry
      BY <1>1, <1>2, <2>1, <3>1, <3>2
    <3>3. CASE e = j.entry
      <4>1. c.uuid = j.entry.uuid /\ c.uuid \in Ids(cloud)
        BY <3>1, <3>3 DEF Ids
      <4>2. op # "create"
        <5>1. op = "create" => j.entry = Entry(j.new)
          BY DEF Jobs
        <5> QED
          BY <1>2, <2>1, <4>1, <5>1, EntryFacts DEF JobOK, EntryOK, Entries
      <4>3. work[j].entry.uuid = j.entry.uuid
        BY <1>2, <4>1, <4>2, WorkFacts DEF Turn, Truthful
      <4> QED
        BY <1>1, <1>3, <2>1, <4>1, <4>3
    <3> QED
      BY <3>2, <3>3
  <2>3. CASE \E i \in Live : work[i].entry.uuid = c.uuid
    <3>1. PICK i \in Live : work[i].entry.uuid = c.uuid
      BY <2>3
    <3>2. CASE i = j
      BY <1>1, <1>3, <2>1, <3>1, <3>2
    <3>3. CASE i # j
      BY <1>1, <2>1, <3>1, <3>3 DEF Live
    <3> QED
      BY <3>2, <3>3
  <2>4. (\E e \in rules : e.uuid = c.uuid) \/ (\E i \in Live : work[i].entry.uuid = c.uuid)
    BY <1>2 DEF Held, Owned, Ids, UuidsIn
  <2> QED
    BY <2>2, <2>3, <2>4
<1> QED
  BY <1>4, <1>5, <1>6, <1>7, <1>8, <1>9, <1>10

-----------------------------------------------------------------------------
(* Read.                                                                   *)

LEMMA GoneFacts ==
  /\ DOMAIN Gone = {"id", "tainted", "managed", "rules"} /\ Gone.rules = {}
  /\ Gone.id = FALSE /\ Gone.tainted = FALSE /\ Gone.managed = FALSE
BY DEF Gone

\* A rule of the ACL, as the state shows it.
LEMMA FromAPIFacts ==
  ASSUME TypeOK, NEW c \in cloud
  PROVE  /\ EntryOK(FromAPI(c)) /\ FromAPI(c).uuid = c.uuid /\ FromAPI(c).rule = c.rule /\ c.uuid # NoUuid
         /\ (Alone => Current(FromAPI(c)))
<1>1. c \in [uuid : Uuid, rule : Contents, owner : {"resource", "nobody", "other"}]
  BY DEF TypeOK
<1>2. EntryOK(FromAPI(c)) /\ FromAPI(c).uuid = c.uuid /\ FromAPI(c).rule = c.rule /\ c.uuid # NoUuid
  BY <1>1, UuidFacts DEF EntryOK, Entries, FromAPI
<1> QED
  BY <1>2 DEF Alone, Current

\* Read reports existing rules, and at least those whose uuid it was given.
LEMMA ReadFacts ==
  ASSUME NEW es, NEW managed
  PROVE  /\ \A e \in ReadRules(es, managed) : \E c \in cloud : e = FromAPI(c)
         /\ \A c \in cloud : managed \/ c.uuid \in UuidsIn(es) => FromAPI(c) \in ReadRules(es, managed)
BY DEF ReadRules, Known

\* A state as it should be.
Typed(s) ==
  /\ DOMAIN s = {"id", "tainted", "managed", "rules"} /\ {s.id, s.tainted, s.managed} \subseteq BOOLEAN
  /\ \A e \in s.rules : EntryOK(e)
  /\ ~s.id => s.rules = {}

\* What Read leaves in the state: the rules of the ACL, nothing, or what was there.
LEMMA ReadStateFacts ==
  ASSUME TypeOK, Alone, NEW es, NEW tainted, NEW managed, {tainted, managed} \subseteq BOOLEAN,
         \A e \in es : EntryOK(e), NEW s, s = ReadState(es, tainted, managed)
  PROVE  /\ Typed(s) /\ \A e \in s.rules : Current(e)
         /\ \A c \in cloud : c.uuid \in UuidsIn(es) => c.uuid \in UuidsIn(s.rules)
         /\ s.rules \subseteq {FromAPI(c) : c \in cloud} \/ (managed /\ s.rules = es /\ ReadRules(es, managed) = {})
<1> DEFINE rs == ReadRules(es, managed)
<1>1. \A e \in rs : EntryOK(e) /\ Current(e)
  BY ReadFacts, FromAPIFacts
<1>2. \A c \in cloud : c.uuid \in UuidsIn(es) => c.uuid \in UuidsIn(rs)
  BY ReadFacts, FromAPIFacts DEF UuidsIn
<1>3. rs \subseteq {FromAPI(c) : c \in cloud}
  BY ReadFacts
<1>4. rs = {} /\ managed => cloud = {}
  BY ReadFacts
<1>5. UuidsIn({}) = {}
  BY DEF UuidsIn
<1>6. CASE rs # {}
  <2> HIDE DEF rs
  <2>1. s = State(tainted, managed, rs)
    BY <1>6 DEF ReadState, rs
  <2>2. /\ DOMAIN s = {"id", "tainted", "managed", "rules"} /\ s.id = TRUE /\ s.tainted = tainted
        /\ s.managed = managed /\ s.rules = rs
    BY <2>1 DEF State
  <2>3. Typed(s)
    BY <1>1, <2>2 DEF Typed
  <2> QED
    BY <1>1, <1>2, <1>3, <2>2, <2>3
<1>7. CASE rs = {} /\ managed
  <2>1. s = State(tainted, managed, es)
    BY <1>7 DEF ReadState
  <2>2. \A e \in es : Current(e)
    BY <1>4, <1>7 DEF Current
  <2>3. /\ DOMAIN s = {"id", "tainted", "managed", "rules"} /\ s.id = TRUE /\ s.tainted = tainted
        /\ s.managed = managed /\ s.rules = es
    BY <2>1 DEF State
  <2>4. Typed(s)
    BY <2>3 DEF Typed
  <2> QED
    BY <1>4, <1>7, <2>2, <2>3, <2>4
<1>8. CASE rs = {} /\ ~managed
  <2>1. s = Gone
    BY <1>8 DEF ReadState
  <2>2. Typed(s) /\ s.rules = {}
    BY <2>1, GoneFacts DEF Typed
  <2> HIDE DEF rs
  <2> QED
    BY <1>2, <1>5, <1>8, <2>2
<1> QED
  BY <1>6, <1>7, <1>8

-----------------------------------------------------------------------------
(* Between operations.                                                     *)

\* What every way back to idle must keep.
LEMMA IdleStep ==
  ASSUME op' = "idle", DOMAIN stage' = {}, DOMAIN work' = {}, rules' = {}, later' = Nothing,
         cloud' \subseteq [uuid : Uuid, rule : Contents, owner : {"resource", "nobody", "other"}], Alone',
         config' \in [present : BOOLEAN, managed : BOOLEAN, rules : SUBSET Contents], OnePerNumber',
         {fresh', failed'} \subseteq BOOLEAN, told' \in {"none", "ok", "error", "read"},
         faults' \in [number : 0..MaxFaults, kinds : SUBSET FaultKinds], changes' \in 0..MaxChanges,
         Typed(saved'), fresh' => \A e \in saved'.rules : Current(e)', Kept'
  PROVE  IInv'
<1>1. later'.change = {} /\ later'.create = {}
  BY DEF Nothing
<1>2. TypeOK'
  BY <1>1 DEF TypeOK, Typed
<1>3. Quiet' /\ Jobs' /\ Turns' /\ Unborn'
  BY <1>1 DEF Quiet, Jobs, Turns, Unborn, Typed, Idle
<1>4. Truthful' /\ Destroyed' /\ Held'
  BY <1>1 DEF Truthful, Pending, Waiting, Destroyed, Held, Idle
<1> QED
  BY <1>2, <1>3, <1>4 DEF IInv

LEMMA StopFacts ==
  ASSUME Stop
  PROVE  /\ op' = "idle" /\ DOMAIN stage' = {} /\ DOMAIN work' = {} /\ rules' = {} /\ later' = Nothing
         /\ failed' = FALSE
BY DEF Stop, Pool!Spawn

\* An idle handler has nothing in its hands.
LEMMA IdleFacts ==
  ASSUME IInv, Idle
  PROVE  /\ TypeOK /\ Alone /\ OnePerNumber /\ op = "idle" /\ DOMAIN stage = {} /\ DOMAIN work = {}
         /\ rules = {} /\ later = Nothing /\ failed \in BOOLEAN /\ Typed(saved)
         /\ fresh => \A e \in saved.rules : Current(e)
         /\ ~Blinded => Ids(Owned("resource")) \subseteq UuidsIn(saved.rules)
BY DEF IInv, Idle, Quiet, TypeOK, Truthful, Kept, Typed, Unborn

\* The final Read of Create and Update.
LEMMA FinishFacts ==
  ASSUME TypeOK, Alone, NEW es, \A e \in es : EntryOK(e), FinishWithRead(es), UNCHANGED <<cloud, config>>,
         op # "destroy", ~Blinded => Ids(Owned("resource")) \subseteq UuidsIn(es), op' = "idle"
  PROVE  /\ Typed(saved') /\ fresh' = FALSE /\ told' \in {"ok", "error"} /\ Kept'
         /\ faults' \in [number : 0..MaxFaults, kinds : SUBSET FaultKinds]
<1>1. faults' \in [number : 0..MaxFaults, kinds : SUBSET FaultKinds] /\ (Blinded => Blinded')
  BY FaultFacts DEF FinishWithRead, NoFault, TypeOK, Blinded
<1>2. \A c \in cloud : c.uuid # NoUuid
  BY FromAPIFacts
<1>3. CASE Save(ReadState(es, FALSE, config.managed), "ok")
  <2>1. config.managed \in BOOLEAN
    BY DEF TypeOK
  <2>2. Typed(saved') /\ \A c \in cloud : c.uuid \in UuidsIn(es) => c.uuid \in UuidsIn(saved'.rules)
    BY <1>3, <2>1, ReadStateFacts DEF Save
  <2> QED
    BY <1>1, <1>3, <2>2 DEF Save, Kept, Owned, Ids
<1>4. CASE Save(Partial(es), "error")
  <2>1. {~saved.id \/ saved.tainted, config.managed} \subseteq BOOLEAN
    BY DEF TypeOK
  <2>2. PICK tainted \in BOOLEAN, managed \in BOOLEAN : saved' = State(tainted, managed, es)
    BY <1>4, <2>1 DEF Save, Partial
  <2>3. Typed(saved') /\ saved'.rules = es
    BY <2>2 DEF State, Typed
  <2> QED
    BY <1>1, <1>4, <2>3 DEF Save, Kept, Owned, Ids
<1> QED
  BY <1>1, <1>3, <1>4 DEF FinishWithRead

LEMMA RefreshStep == ASSUME IInv, Refresh PROVE IInv'
<1>1. /\ Idle /\ saved' = ReadState(saved.rules, saved.tainted, saved.managed) /\ fresh' = TRUE /\ told' = "read"
      /\ UNCHANGED <<cloud, config, op, rules, later, work, stage, failed, changes>>
  BY DEF Refresh
<1> USE IdleFacts
<1>2. TypeOK /\ Alone /\ {saved.tainted, saved.managed} \subseteq BOOLEAN /\ \A e \in saved.rules : EntryOK(e)
  BY <1>1 DEF Typed
<1> HIDE IdleFacts
<1>3. /\ Typed(saved') /\ \A e \in saved'.rules : Current(e)
      /\ \A c \in cloud : c.uuid \in UuidsIn(saved.rules) => c.uuid \in UuidsIn(saved'.rules)
  BY <1>1, <1>2, ReadStateFacts
<1> USE IdleFacts
<1>4. /\ faults' \in [number : 0..MaxFaults, kinds : SUBSET FaultKinds]
      /\ Blinded' = Blinded
  <2>1. CASE NoFault
    BY <1>1, <2>1 DEF NoFault, TypeOK, Blinded
  <2>2. CASE faults' = [faults EXCEPT !.kinds = @ \cup {"overlooked"}]
    BY <1>1, <2>2 DEF TypeOK, FaultKinds, Blinded, Blinding
  <2> QED
    BY <2>1, <2>2 DEF Refresh
<1>5. \A e \in saved'.rules : Current(e)'
  BY <1>1, <1>3 DEF Current
<1>6. Kept'
  BY <1>1, <1>3, <1>4 DEF Kept, Owned, Ids
<1>7. Alone' /\ OnePerNumber'
  BY <1>1 DEF Alone, OnePerNumber
<1> QED
  BY <1>1, <1>3, <1>4, <1>5, <1>6, <1>7, IdleStep DEF TypeOK

LEMMA UpdateNothingStep == ASSUME IInv, UpdateNothing PROVE IInv'
<1>1. /\ Idle /\ FinishWithRead(saved.rules)
      /\ UNCHANGED <<cloud, config, op, rules, later, work, stage, failed, changes>>
  BY DEF UpdateNothing, CanUpdate
<1> USE IdleFacts
<1>2. /\ Typed(saved') /\ fresh' = FALSE /\ told' \in {"ok", "error"} /\ Kept'
      /\ faults' \in [number : 0..MaxFaults, kinds : SUBSET FaultKinds]
  BY <1>1, FinishFacts DEF Typed
<1>3. Alone' /\ OnePerNumber'
  BY <1>1 DEF Alone, OnePerNumber
<1> QED
  BY <1>1, <1>2, <1>3, IdleStep DEF TypeOK

-----------------------------------------------------------------------------
(* The fan-outs begin.                                                     *)

LEMMA LaunchFacts ==
  ASSUME NEW phase, NEW jobs, Launch(phase, jobs)
  PROVE  /\ op' = phase /\ failed' = FALSE /\ DOMAIN stage' = jobs /\ DOMAIN work' = jobs
         /\ \A j \in jobs : /\ stage'[j] = "spawned" /\ DOMAIN work'[j] = {"entry", "tries", "cut", "over", "seen"}
                            /\ work'[j].entry = j.entry /\ work'[j].tries = 0 /\ work'[j].cut = FALSE
                            /\ work'[j].over = FALSE /\ work'[j].seen = {}
BY DEF Launch, Pool!Spawn

LEMMA LaunchStep ==
  ASSUME IInv, NEW phase \in {"create", "delete", "change", "destroy"}, NEW jobs, Launch(phase, jobs),
         \A j \in jobs : JobOK(j), UNCHANGED <<cloud, config, saved, fresh, told, faults, changes>>,
         \A e \in rules' : EntryOK(e), \A j \in later'.change \cup later'.create : JobOK(j),
         phase = "destroy" => rules' = {},
         Jobs', \A j \in Waiting' : Current(j.entry)',
         phase \in {"delete", "change"} => \A j \in jobs : Current(j.entry)',
         saved.id \/ (phase = "create" /\ ~Blinded => Ids(Owned("resource")) = {}),
         saved.id \/ phase = "create",
         ~Blinded => Ids(Owned("resource")) \subseteq UuidsIn(rules' \cup {j.entry : j \in jobs})
  PROVE  IInv'
<1>1. /\ op' = phase /\ failed' = FALSE /\ DOMAIN stage' = jobs /\ DOMAIN work' = jobs
      /\ \A j \in jobs : /\ stage'[j] = "spawned" /\ DOMAIN work'[j] = {"entry", "tries", "cut", "over", "seen"}
                         /\ work'[j].entry = j.entry /\ work'[j].tries = 0 /\ work'[j].cut = FALSE
                         /\ work'[j].over = FALSE /\ work'[j].seen = {}
  BY LaunchFacts
<1>2. TypeOK'
  <2>1. 0 \in 0..Attempts - 1
    BY RulesetAssumption DEF RulesetAssumption
  <2>2. \A j \in jobs : EntryOK(j.entry) /\ WorkOK(work'[j]) /\ stage'[j] \in Pool!Stages
    BY <1>1, <2>1 DEF JobOK, EntryOK, WorkOK, Pool!Stages
  <2> QED
    BY <1>1, <2>2 DEF IInv, TypeOK
<1>3. Quiet' /\ OnePerNumber' /\ Alone' /\ Kept'
  BY <1>1 DEF IInv, Quiet, OnePerNumber, Alone, Kept, Idle
<1>4. Turns'
  BY <1>1 DEF Turns, Turn
<1>5. Truthful'
  BY <1>1 DEF Truthful, Pending, Idle
<1>6. Destroyed'
  BY <1>1 DEF Destroyed
<1>7. Blinded' = Blinded /\ Owned("resource")' = Owned("resource")
  BY DEF Blinded, Owned
<1>8. Unborn'
  BY <1>1, <1>7 DEF IInv, Unborn, Ids, Idle
<1>9. Held'
  <2>1. Live' = jobs
    BY <1>1 DEF Live
  <2>2. {work'[j].entry : j \in jobs} = {j.entry : j \in jobs}
    BY <1>1
  <2> QED
    BY <1>7, <2>1, <2>2 DEF Held, Ids
<1> QED
  BY <1>2, <1>3, <1>4, <1>5, <1>6, <1>8, <1>9 DEF IInv

LEMMA JobFacts ==
  ASSUME NEW e, EntryOK(e), NEW r \in Contents
  PROVE  JobOK(Job(e, r)) /\ Job(e, r).entry = e /\ Job(e, r).new = r
BY DEF JobOK, EntryOK, Job

\* The jobs of the rules that are to be created.
LEMMA CreateJobs ==
  ASSUME NEW rs, rs \subseteq Contents, NEW j \in {Job(Entry(r), r) : r \in rs}
  PROVE  JobOK(j) /\ j.new \in rs /\ j.entry = Entry(j.new) /\ j = Job(Entry(j.new), j.new)
<1>1. PICK r \in rs : j = Job(Entry(r), r)
  OBVIOUS
<1>2. JobOK(j) /\ j.entry = Entry(r) /\ j.new = r
  BY <1>1, EntryFacts, JobFacts
<1> QED
  BY <1>1, <1>2

\* The jobs of rules of the state.
LEMMA DeleteJobs ==
  ASSUME NEW es, \A e \in es : EntryOK(e), NEW j \in {Job(e, e.rule) : e \in es}
  PROVE  JobOK(j) /\ j.entry \in es /\ j.new = j.entry.rule
<1>1. PICK e \in es : j = Job(e, e.rule)
  OBVIOUS
<1>2. e.rule \in Contents
  BY DEF EntryOK, Entries
<1> QED
  BY <1>1, <1>2, JobFacts

LEMMA CreateStep == ASSUME IInv, Create PROVE IInv'
<1> USE IdleFacts
<1>1. Idle /\ ~saved.id /\ UNCHANGED <<cloud, config, changes>>
  BY DEF Create
<1>2. saved.rules = {} /\ UuidsIn({}) = {} /\ config.rules \subseteq Contents
  BY <1>1 DEF Typed, UuidsIn, TypeOK
<1>3. CASE FinishWithRead({}) /\ UNCHANGED <<op, rules, later, work, stage, failed>>
  <2>1. /\ Typed(saved') /\ fresh' = FALSE /\ told' \in {"ok", "error"} /\ Kept'
        /\ faults' \in [number : 0..MaxFaults, kinds : SUBSET FaultKinds]
    BY <1>1, <1>2, <1>3, FinishFacts
  <2>2. Alone' /\ OnePerNumber'
    BY <1>1 DEF Alone, OnePerNumber
  <2> QED
    BY <1>1, <1>3, <2>1, <2>2, IdleStep DEF TypeOK
<1>4. CASE /\ Launch("create", {Job(Entry(r), r) : r \in config.rules}) /\ rules' = {}
           /\ UNCHANGED <<saved, told, fresh, later, faults>>
  <2> DEFINE jobs == {Job(Entry(r), r) : r \in config.rules}
  <2>1. \A j \in jobs : JobOK(j) /\ j.entry = Entry(j.new)
    BY <1>2, CreateJobs
  <2> HIDE DEF jobs
  <2>2. op' = "create" /\ DOMAIN stage' = jobs
    BY <1>4, LaunchFacts DEF jobs
  <2>3. later'.change = {} /\ later'.create = {}
    BY <1>1, <1>4 DEF Nothing
  <2>4. Jobs'
    BY <2>1, <2>2, <2>3 DEF Jobs
  <2>5. \A j \in Waiting' : Current(j.entry)'
    BY <2>2 DEF Waiting
  <2>6. Launch("create", jobs)
    BY <1>4 DEF jobs
  <2> QED
    BY <1>1, <1>2, <1>4, <2>1, <2>3, <2>4, <2>5, <2>6, LaunchStep
<1> QED
  BY <1>3, <1>4 DEF Create, NoFault

LEMMA UpdateStep == ASSUME IInv, Update PROVE IInv'
<1> DEFINE kept == {e \in saved.rules : e.rule.number \in NumbersIn(config.rules)}
           gone == saved.rules \ kept
           jobs == {Job(e, e.rule) : e \in gone}
           change == {j \in {Job(e, r) : e \in kept, r \in config.rules} :
                        j.entry.rule.number = j.new.number /\ j.entry.rule # j.new}
           new == {x \in config.rules : x.number \notin NumbersIn(Plain(kept))}
           create == {Job(Entry(r), r) : r \in new}
<1>1. /\ Idle /\ saved.id /\ fresh /\ Launch("delete", jobs) /\ rules' = kept
      /\ later' = [change |-> change, create |-> create]
      /\ UNCHANGED <<cloud, config, saved, fresh, told, faults, changes>>
  BY DEF Update, CanUpdate
<1>2. /\ \A e \in saved.rules : EntryOK(e) /\ Current(e)
      /\ config.rules \subseteq Contents /\ (~Blinded => Ids(Owned("resource")) \subseteq UuidsIn(saved.rules))
  BY <1>1, IdleFacts DEF Typed, TypeOK
<1>3. \A j \in jobs : JobOK(j) /\ j.entry \in gone
  BY <1>2, DeleteJobs
<1>4. \A j \in change : JobOK(j) /\ j.entry \in saved.rules /\ j.new \in config.rules
                        /\ j.new.number = j.entry.rule.number
  <2> SUFFICES ASSUME NEW e \in kept, NEW r \in config.rules
               PROVE  JobOK(Job(e, r)) /\ Job(e, r).entry \in saved.rules /\ Job(e, r).new \in config.rules
    OBVIOUS
  <2> QED
    BY <1>2, JobFacts
<1>5. \A j \in create : JobOK(j) /\ j = Job(Entry(j.new), j.new)
  BY <1>2, CreateJobs
<1>6. later'.change = change /\ later'.create = create
  BY <1>1
<1>7. {j.entry : j \in jobs} = gone
  <2>1. \A e \in gone : Job(e, e.rule).entry = e
    BY DEF Job
  <2> QED
    BY <1>3, <2>1
<1>8. \A j \in jobs : j.entry.rule.number \notin NumbersIn(config.rules)
  BY <1>3
<1>9. kept \subseteq saved.rules /\ kept \cup gone = saved.rules
  OBVIOUS
<1> HIDE DEF kept, gone, jobs, change, new, create
<1>10. op' = "delete" /\ DOMAIN stage' = jobs
  BY <1>1, LaunchFacts
<1>11. Jobs'
  <2>1. \A j \in DOMAIN stage' : j.entry.rule.number \notin NumbersIn(config'.rules)
    BY <1>1, <1>8, <1>10
  <2> QED
    BY <1>1, <1>4, <1>5, <1>6, <1>10, <2>1 DEF Jobs
<1>12. \A e \in saved.rules : Current(e)'
  BY <1>1, <1>2 DEF Current
<1>13. \A j \in Waiting' : Current(j.entry)'
  BY <1>4, <1>6, <1>12 DEF Waiting
<1>14. \A j \in jobs : Current(j.entry)'
  BY <1>3, <1>9, <1>12
<1>15. ~Blinded => Ids(Owned("resource")) \subseteq UuidsIn(rules' \cup {j.entry : j \in jobs})
  BY <1>1, <1>2, <1>7, <1>9
<1>16. (\A j \in jobs : JobOK(j)) /\ (\A e \in rules' : EntryOK(e))
       /\ \A j \in later'.change \cup later'.create : JobOK(j)
  BY <1>1, <1>2, <1>3, <1>4, <1>5, <1>6, <1>9
<1> QED
  BY <1>1, <1>11, <1>13, <1>14, <1>15, <1>16, LaunchStep

LEMMA LetGoFacts ==
  ASSUME TypeOK, Alone, cloud' = {LetGo(c) : c \in cloud}
  PROVE  /\ cloud' \subseteq [uuid : Uuid, rule : Contents, owner : {"resource", "nobody", "other"}]
         /\ Alone' /\ \A c \in cloud' : c.owner # "resource"
<1>1. \A c \in cloud : /\ LetGo(c) \in [uuid : Uuid, rule : Contents, owner : {"resource", "nobody", "other"}]
                       /\ LetGo(c).uuid = c.uuid /\ LetGo(c).owner # "resource"
  BY DEF TypeOK, LetGo
<1>2. Alone'
  BY <1>1 DEF Alone
<1> QED
  BY <1>1, <1>2

LEMMA DeleteStep == ASSUME IInv, Delete PROVE IInv'
<1> USE IdleFacts
<1>1. Idle /\ saved.id /\ fresh /\ UNCHANGED <<config, faults, changes>>
  BY DEF Delete
<1>2. CASE Launch("destroy", {Job(e, e.rule) : e \in saved.rules}) /\ rules' = {}
           /\ UNCHANGED <<cloud, saved, told, fresh, later>>
  <2> DEFINE jobs == {Job(e, e.rule) : e \in saved.rules}
  <2>1. \A j \in jobs : JobOK(j)
    BY <1>1, DeleteJobs DEF Typed
  <2>2. {j.entry : j \in jobs} = saved.rules
    <3>1. \A e \in saved.rules : Job(e, e.rule).entry = e
      BY DEF Job
    <3> QED
      BY <3>1
  <2>3. Launch("destroy", jobs)
    BY <1>2
  <2> HIDE DEF jobs
  <2>4. op' = "destroy"
    BY <2>3, LaunchFacts
  <2>5. later'.change = {} /\ later'.create = {}
    BY <1>1, <1>2 DEF Nothing
  <2>6. Jobs' /\ \A j \in Waiting' : Current(j.entry)'
    BY <2>4, <2>5 DEF Jobs, Waiting
  <2>7. ~Blinded => Ids(Owned("resource")) \subseteq UuidsIn(rules' \cup {j.entry : j \in jobs})
    BY <1>1, <1>2, <2>2
  <2> QED
    BY <1>1, <1>2, <2>1, <2>3, <2>5, <2>6, <2>7, LaunchStep
<1>3. CASE Save(Gone, "none") /\ cloud' = {LetGo(c) : c \in cloud}
           /\ UNCHANGED <<op, rules, later, work, stage, failed>>
  <2>1. saved' = Gone /\ told' = "none" /\ fresh' = FALSE
    BY <1>3 DEF Save
  <2>2. Typed(saved')
    BY <2>1, GoneFacts DEF Typed
  <2>3. OnePerNumber' /\ Kept'
    BY <1>1, <1>3, LetGoFacts DEF OnePerNumber, Kept, Owned, Ids
  <2> QED
    BY <1>1, <1>3, <2>1, <2>2, <2>3, LetGoFacts, IdleStep DEF TypeOK
<1> QED
  BY <1>2, <1>3 DEF Delete

-----------------------------------------------------------------------------
(* wg.Wait returned.                                                       *)

LEMMA ReturnedFacts ==
  ASSUME IInv, ~Idle, Pool!Returned
  PROVE  /\ ~Blinded => Ids(Owned("resource")) \subseteq UuidsIn(rules)
         /\ TypeOK /\ Alone /\ OnePerNumber /\ (\A e \in rules : EntryOK(e))
         /\ \A j \in DOMAIN stage : work[j].over /\ EntryOK(work[j].entry)
<1>1. Live = {}
  BY DEF Live, Pool!Returned
<1>2. \A j \in DOMAIN stage : work[j].over /\ EntryOK(work[j].entry)
  BY DEF IInv, Turns, Turn, Pool!Returned, TypeOK, WorkOK
<1>3. rules \cup {work[j].entry : j \in {}} = rules
  OBVIOUS
<1> QED
  BY <1>1, <1>2, <1>3 DEF IInv, Held, TypeOK

\* A handler returns with the state s.
LEMMA ReturnStep ==
  ASSUME IInv, ~Idle, Pool!Returned, Stop, UNCHANGED <<cloud, config, changes>>, fresh' = FALSE,
         told' \in {"none", "ok", "error"}, Typed(saved'), Kept',
         faults' \in [number : 0..MaxFaults, kinds : SUBSET FaultKinds]
  PROVE  IInv'
<1>1. TypeOK /\ Alone' /\ OnePerNumber'
  BY DEF IInv, Alone, OnePerNumber
<1> QED
  BY <1>1, StopFacts, IdleStep DEF TypeOK

LEMMA ReturnErrorStep == ASSUME IInv, ReturnError PROVE IInv'
<1> DEFINE es == IF saved.id THEN rules ELSE {work[j].entry : j \in DOMAIN stage}
<1>1. /\ ~Idle /\ Pool!Returned /\ Save(Partial(es), "error") /\ Stop
      /\ UNCHANGED <<cloud, config, faults, changes>>
  BY DEF ReturnError, Waited, Idle
<1>2. \A e \in es : EntryOK(e)
  BY <1>1, ReturnedFacts
<1>3. ~Blinded => Ids(Owned("resource")) \subseteq UuidsIn(es)
  BY <1>1, ReturnedFacts DEF IInv, Unborn, TypeOK
<1> HIDE DEF es
<1>4. {~saved.id \/ saved.tainted, IF op = "destroy" THEN saved.managed ELSE config.managed} \subseteq BOOLEAN
  BY DEF IInv, TypeOK
<1>5. Typed(saved') /\ saved'.rules = es /\ told' = "error" /\ fresh' = FALSE
  BY <1>1, <1>2, <1>4 DEF Save, Partial, State, Typed
<1>6. Kept'
  BY <1>1, <1>3, <1>5 DEF Kept, Blinded, Owned, Ids
<1> QED
  BY <1>1, <1>5, <1>6, ReturnStep DEF IInv, TypeOK

LEMMA ReturnReadStep == ASSUME IInv, ReturnRead PROVE IInv'
<1>1. /\ ~Idle /\ op = "create" /\ Pool!Returned /\ FinishWithRead(rules) /\ Stop
      /\ UNCHANGED <<cloud, config, changes>>
  BY DEF ReturnRead, Waited, Idle
<1>2. /\ Typed(saved') /\ fresh' = FALSE /\ told' \in {"ok", "error"} /\ Kept'
      /\ faults' \in [number : 0..MaxFaults, kinds : SUBSET FaultKinds]
  BY <1>1, ReturnedFacts, StopFacts, FinishFacts
<1> QED
  BY <1>1, <1>2, ReturnStep

LEMMA ReturnDeletedStep == ASSUME IInv, ReturnDeleted PROVE IInv'
<1>1. /\ ~Idle /\ op = "destroy" /\ ~failed /\ Pool!Returned /\ Save(Gone, "none") /\ Stop
      /\ UNCHANGED <<cloud, config, faults, changes>>
  BY DEF ReturnDeleted, Waited, Idle
<1>2. Typed(saved') /\ fresh' = FALSE /\ told' = "none" /\ saved'.rules = {}
  BY <1>1, GoneFacts DEF Save, Typed
<1>3. rules = {} /\ UuidsIn({}) = {}
  BY <1>1 DEF IInv, Destroyed, UuidsIn
<1>4. Kept'
  BY <1>1, <1>2, <1>3, ReturnedFacts DEF Kept, Blinded, Owned, Ids
<1> QED
  BY <1>1, <1>2, <1>4, ReturnStep DEF IInv, TypeOK

\* Update goes on, with one of the sets it put aside.
LEMMA NextFanOut ==
  ASSUME IInv, ~Idle, Pool!Returned, NEW phase \in {"change", "create"}, NEW jobs, Launch(phase, jobs),
         jobs \subseteq later.change \cup later.create, op # "create",
         UNCHANGED <<cloud, config, saved, fresh, rules, later, told, faults, changes>>,
         phase = "change" => op = "delete" /\ jobs = later.change,
         phase = "create" => jobs = later.create
  PROVE  IInv'
<1> USE DEF IInv
<1>1. op' = phase /\ DOMAIN stage' = jobs
  BY LaunchFacts
<1>2. Jobs'
  <2>1. \A j \in later.create : j.entry = Entry(j.new)
    <3> SUFFICES ASSUME NEW j \in later.create PROVE j.entry = Entry(j.new)
      OBVIOUS
    <3>1. j = Job(Entry(j.new), j.new)
      BY DEF Jobs
    <3>2. Job(Entry(j.new), j.new).entry = Entry(j.new)
      BY DEF Job
    <3> QED
      BY <3>1, <3>2
  <2> QED
    BY <1>1, <2>1 DEF Jobs
<1>3. saved.id
  BY DEF Unborn
<1>4. \A j \in Waiting' : Current(j.entry)'
  BY <1>1 DEF Waiting
<1>5. phase = "change" => \A j \in jobs : Current(j.entry)'
  BY DEF Truthful, Waiting, Current
<1>6. \A j \in later.change \cup later.create : JobOK(j)
  BY DEF TypeOK
<1>7. ~Blinded => Ids(Owned("resource")) \subseteq UuidsIn(rules \cup {j.entry : j \in jobs})
  BY ReturnedFacts DEF UuidsIn
<1>8. \A e \in rules : EntryOK(e)
  BY DEF TypeOK
<1> HIDE DEF IInv
<1> QED
  BY <1>2, <1>3, <1>4, <1>5, <1>6, <1>7, <1>8, LaunchStep

LEMMA ChangeNextStep == ASSUME IInv, ChangeNext PROVE IInv'
BY NextFanOut DEF ChangeNext, Waited, Idle

LEMMA CreateNextStep == ASSUME IInv, CreateNext PROVE IInv'
BY NextFanOut DEF CreateNext, Waited, Idle

-----------------------------------------------------------------------------
(* The user, the other users of the account, and the provider's death.     *)

LEMMA EditStep == ASSUME IInv, Edit PROVE IInv'
<1> USE IdleFacts
<1>1. /\ Idle /\ changes \in Nat /\ changes < MaxChanges /\ changes' = changes + 1 /\ told' = "none" /\ fresh' = FALSE
      /\ UNCHANGED <<cloud, saved, op, rules, later, work, stage, failed, faults>>
  BY DEF Edit, TypeOK
<1>2. config' \in [present : BOOLEAN, managed : BOOLEAN, rules : SUBSET Contents] /\ OnePerNumber'
  <2>1. CASE config' = Absent
    BY <2>1 DEF Absent, OnePerNumber
  <2>2. ASSUME NEW c \in Configs, config' = [present |-> TRUE, managed |-> c.managed, rules |-> c.rules]
        PROVE  config' \in [present : BOOLEAN, managed : BOOLEAN, rules : SUBSET Contents] /\ OnePerNumber'
    <3>1. c \in [managed : BOOLEAN, rules : SUBSET Contents]
          /\ \A r, s \in c.rules : r.number = s.number => r = s
      BY RulesetAssumption DEF RulesetAssumption
    <3> QED
      BY <2>2, <3>1 DEF OnePerNumber
  <2> QED
    BY <2>1, <2>2 DEF Edit
<1>3. changes' \in 0..MaxChanges
  BY <1>1, RulesetAssumption DEF RulesetAssumption
<1>4. Alone' /\ Kept'
  BY <1>1 DEF Alone, Kept, Blinded, Owned, Ids
<1> QED
  BY <1>1, <1>2, <1>3, <1>4, IdleStep DEF TypeOK

\* Someone else deletes or creates a rule, at any time.
LEMMA OutsideStep ==
  ASSUME IInv, NEW kind, Fault(kind), told' = "none", Grown, Alone',
         cloud' \subseteq [uuid : Uuid, rule : Contents, owner : {"resource", "nobody", "other"}],
         Ids(Owned("resource")') \subseteq Ids(Owned("resource")),
         UNCHANGED <<config, saved, fresh, op, rules, later, work, stage, failed, changes>>
  PROVE  IInv'
<1> USE DEF IInv
<1>1. faults' \in [number : 0..MaxFaults, kinds : SUBSET FaultKinds] /\ (~Blinded' => ~Blinded)
  BY FaultFacts DEF Blinded
<1>2. TypeOK'
  BY <1>1 DEF TypeOK
<1>3. Quiet' /\ OnePerNumber' /\ Jobs' /\ Turns' /\ Destroyed'
  BY DEF Quiet, Idle, OnePerNumber, Jobs, Turns, Turn, Pool!Overlapped, Destroyed
<1>4. \A i \in DOMAIN stage \cup later.change :
        /\ i.entry.uuid \notin Ids(cloud) => i.entry.uuid \notin Ids(cloud')
        /\ Current(i.entry) => Current(i.entry)'
  BY UnusedFacts DEF Grown, Ids, TypeOK, Current
<1>5. \A e \in saved.rules : Current(e) => Current(e)'
  BY UnusedFacts DEF Grown, Current
<1>6. Truthful'
  BY <1>4, <1>5 DEF Truthful, Pending, Waiting, Idle
<1>7. Held' /\ Kept' /\ Unborn'
  BY <1>1 DEF Held, Kept, Unborn, Idle, Live
<1> QED
  BY <1>2, <1>3, <1>6, <1>7

LEMMA DeleteOutOfBandStep == ASSUME IInv, DeleteOutOfBand PROVE IInv'
<1>1. cloud' \subseteq cloud
  BY RemoveRuleFacts DEF DeleteOutOfBand
<1>2. Ids(Owned("resource")') \subseteq Ids(Owned("resource"))
  BY <1>1 DEF Ids, Owned
<1>3. Grown /\ Alone' /\ cloud' \subseteq [uuid : Uuid, rule : Contents, owner : {"resource", "nobody", "other"}]
  BY <1>1, FewerGrown DEF IInv, TypeOK
<1> QED
  BY <1>2, <1>3, OutsideStep DEF DeleteOutOfBand

LEMMA CreateForeignStep == ASSUME IInv, CreateForeign PROVE IInv'
<1>1. PICK r \in Others : NewRule(r, "other")
  BY DEF CreateForeign
<1>2. r \in Contents
  BY RulesetAssumption DEF RulesetAssumption
<1>3. cloud' = cloud \cup {[uuid |-> NewUuid, rule |-> r, owner |-> "other"]}
      /\ cloud' \subseteq [uuid : Uuid, rule : Contents, owner : {"resource", "nobody", "other"}]
  BY <1>1, <1>2, NewRuleFacts DEF IInv, TypeOK
<1>4. Ids(Owned("resource")') \subseteq Ids(Owned("resource"))
  BY <1>3 DEF Ids, Owned
<1>5. Grown /\ Alone'
  BY <1>1, <1>2, NewRuleGrown DEF IInv
<1> QED
  BY <1>3, <1>4, <1>5, OutsideStep DEF CreateForeign

LEMMA CrashStep == ASSUME IInv, Crash PROVE IInv'
<1>1. /\ ~Idle /\ Fault("crash") /\ Stop /\ told' = "error" /\ fresh' = FALSE
      /\ UNCHANGED <<cloud, config, saved, changes>>
  BY DEF Crash
<1>2. faults' \in [number : 0..MaxFaults, kinds : SUBSET FaultKinds] /\ Blinded'
  BY <1>1, FaultFacts DEF IInv, Blinded, Blinding
<1>3. Typed(saved') /\ Kept' /\ Alone' /\ OnePerNumber'
  BY <1>1, <1>2 DEF IInv, TypeOK, Unborn, Typed, Kept, Alone, OnePerNumber
<1> QED
  BY <1>1, <1>2, <1>3, StopFacts, IdleStep DEF IInv, TypeOK

LEMMA NextIInv == IInv /\ [Next]_vars => IInv'
<1> SUFFICES ASSUME IInv, [Next]_vars PROVE IInv'
  OBVIOUS
<1>1. CASE Terraform
  BY <1>1, RefreshStep, CreateStep, UpdateStep, UpdateNothingStep, DeleteStep DEF Terraform
<1>2. CASE \E j \in DOMAIN stage : Goroutine(j)
  BY <1>2, AcquireStep, RejectStep, CreateRuleStep, CreateFailsStep, DeleteRuleStep, DeleteFailsStep,
     ChangeInPlaceStep, ChangeFailsStep, LockStep, AddStep
  DEF Goroutine
<1>3. CASE Return
  BY <1>3, ReturnErrorStep, ChangeNextStep, CreateNextStep, ReturnReadStep, ReturnDeletedStep DEF Return
<1>4. CASE Environment
  BY <1>4, EditStep, DeleteOutOfBandStep, CreateForeignStep, CrashStep DEF Environment
<1>5. CASE UNCHANGED vars
  <2>1. TypeOK' /\ Quiet' /\ OnePerNumber' /\ Jobs' /\ Turns' /\ Alone' /\ Destroyed'
    BY <1>5 DEF IInv, vars, TypeOK, Quiet, Idle, OnePerNumber, Jobs, Turns, Turn, Pool!Overlapped, Alone, Destroyed
  <2>2. Truthful' /\ Unborn' /\ Held' /\ Kept'
    BY <1>5 DEF IInv, vars, Truthful, Pending, Waiting, Current, Idle, Unborn, Held, Kept, Live, Blinded, Owned, Ids
  <2> QED
    BY <2>1, <2>2 DEF IInv
<1> QED
  BY <1>1, <1>2, <1>3, <1>4, <1>5 DEF Next, Provider

-----------------------------------------------------------------------------
(* Success means applied: the goroutines.                                  *)

\* Faults are not taken back.
LEMMA ClearFacts == ASSUME TypeOK, NoFault \/ \E kind : Fault(kind) PROVE Clear' => Clear
BY FaultFacts DEF NoFault, Clear

\* What is promised holds as long as no goroutine touches a rule that stays, and one
\* whose calls are over has kept its part of it.
LEMMA StepsApplies ==
  ASSUME AInv, NEW j \in DOMAIN stage, NEW w, Steps(j, w), failed => failed', NoFault \/ \E kind : Fault(kind),
         ASSUME ~failed', op # "destroy", NEW c \in cloud, \A i \in Pending \cup Waiting : i.entry.uuid # c.uuid
         PROVE  c \in cloud',
         ASSUME ~failed', op \in {"create", "change"}, w.over, ~work[j].over PROVE Exists(j.new)'
  PROVE  Applies'
<1>1. ~Idle /\ TypeOK /\ op' = op /\ config' = config /\ later' = later /\ (Clear' => Clear)
  BY WorkFacts, ClearFacts DEF AInv, Steps, HandlerState
<1>2. Real' /\ OkMeansApplied'
  BY <1>1 DEF Real, OkMeansApplied, Idle
<1>3. Pending' \subseteq Pending /\ Waiting' = Waiting
  BY <1>1 DEF Steps, Pending, Waiting
<1>4. Promised'
  <2> SUFFICES ASSUME Clear, op # "destroy", ~failed', NEW r \in config.rules PROVE Exists(r)' \/ ToCome(r)'
    BY <1>1 DEF Promised
  <2>1. Exists(r) \/ ToCome(r)
    BY <1>1 DEF AInv, Applies, Promised
  <2>2. CASE Exists(r)
    BY <1>3, <2>2 DEF Exists
  <2>3. CASE ToCome(r)
    <3>1. CASE op # "delete" /\ \E i \in DOMAIN stage : i.new = r /\ ~work[i].over
      <4>1. PICK i \in DOMAIN stage : i.new = r /\ ~work[i].over
        BY <3>1
      <4>2. CASE i = j /\ w.over
        <5>1. op \in {"create", "change"}
          BY <1>1, <3>1 DEF TypeOK, Idle
        <5> QED
          BY <4>1, <4>2, <5>1
      <4>3. CASE i # j \/ ~w.over
        BY <1>1, <3>1, <4>1, <4>3 DEF ToCome, Steps
      <4> QED
        BY <4>2, <4>3
    <3>2. CASE ~(op # "delete" /\ \E i \in DOMAIN stage : i.new = r /\ ~work[i].over)
      BY <1>1, <2>3, <3>2 DEF ToCome
    <3> QED
      BY <3>1, <3>2
  <2> QED
    BY <2>1, <2>2, <2>3
<1> QED
  BY <1>2, <1>4 DEF Applies

\* A step that makes nothing go, and ends no calls unless it reports an error.
LEMMA PlainApplies ==
  ASSUME AInv, NEW j \in DOMAIN stage, NEW w, Steps(j, w), failed => failed', NoFault \/ \E kind : Fault(kind),
         failed' \/ (cloud \subseteq cloud' /\ w.over = work[j].over)
  PROVE  Applies'
BY StepsApplies

LEMMA AcquireApplies == ASSUME AInv, NEW j \in DOMAIN stage, Acquire(j) PROVE Applies'
<1>1. Steps(j, work[j])
  BY WorkFacts DEF AInv, Acquire, Pool!Acquire, Pool!Goto, Steps
<1> QED
  BY <1>1, PlainApplies DEF Acquire, NoFault

LEMMA AbortApplies ==
  ASSUME AInv, NEW j \in DOMAIN stage, Abort(j), UNCHANGED <<stage, HandlerState>>, NoFault \/ \E kind : Fault(kind)
  PROVE  Applies'
<1>1. Steps(j, Ended(work[j])) /\ failed' = TRUE
  BY WorkFacts, EndedFacts DEF AInv, Abort, Ended, Steps
<1> QED
  BY <1>1, PlainApplies

LEMMA CreateFailsApplies == ASSUME AInv, NEW j \in DOMAIN stage, CreateFails(j) PROVE Applies'
<1>1. UNCHANGED <<stage, HandlerState>> /\ (NoFault \/ \E kind : Fault(kind)) /\ cloud \subseteq cloud'
  BY DEF CreateFails, NewRule
<1>2. CASE Abort(j)
  BY <1>1, <1>2, AbortApplies
<1>3. CASE work' = [work EXCEPT ![j].tries = @ + 1] /\ UNCHANGED failed
  <2> DEFINE w == [work[j] EXCEPT !.tries = @ + 1]
  <2>1. Steps(j, w) /\ w.over = work[j].over
    BY <1>1, <1>3, WorkFacts DEF AInv, Steps, WorkOK
  <2> HIDE DEF w
  <2> QED
    BY <1>1, <1>3, <2>1, PlainApplies
<1> QED
  BY <1>2, <1>3 DEF CreateFails, Retry

LEMMA CreateRuleApplies == ASSUME AInv, NEW j \in DOMAIN stage, CreateRule(j) PROVE Applies'
<1> USE DEF CreateRule
<1> DEFINE w == [work[j] EXCEPT !.over = TRUE, !.entry.uuid = NewUuid]
<1>1. Steps(j, w)
  BY WorkFacts DEF AInv, Over, Steps, WorkOK
<1>2. /\ NewUuid \in Unused
      /\ cloud' = cloud \cup {[uuid |-> NewUuid, rule |-> j.new, owner |-> "resource"]}
  BY NewRuleFacts, WorkFacts DEF AInv, JobOK
<1> HIDE DEF w
<1>3. Exists(j.new)'
  <2>1. \A i \in Pending' \cup Waiting' : i \in DOMAIN work \cup later.change
    BY <1>1, WorkFacts DEF AInv, Pending, Waiting, Steps, HandlerState
  <2>2. \A i \in Pending' \cup Waiting' : i.entry.uuid # NewUuid
    BY <1>2, <2>1, UnusedFacts
  <2> DEFINE c == [uuid |-> NewUuid, rule |-> j.new, owner |-> "resource"]
  <2>3. c \in cloud' /\ c.uuid = NewUuid /\ c.rule = j.new
    BY <1>2
  <2> HIDE DEF c
  <2> QED
    BY <2>2, <2>3 DEF Exists, Agrees
<1> QED
  BY <1>1, <1>2, <1>3, StepsApplies

LEMMA DeleteRuleApplies == ASSUME AInv, NEW j \in DOMAIN stage, DeleteRule(j) PROVE Applies'
<1> USE DEF DeleteRule
<1>1. PICK w : Steps(j, w) /\ (op = "change" => w.over = work[j].over)
  <2>1. CASE op = "change"
    <3> DEFINE w == [work[j] EXCEPT !.cut = TRUE]
    <3>1. Steps(j, w) /\ w.over = work[j].over
      BY <2>1, WorkFacts DEF AInv, Steps, WorkOK
    <3> QED
      BY <3>1
  <2>2. CASE op # "change"
    <3> DEFINE w == [work[j] EXCEPT !.over = TRUE, !.entry.uuid = NoUuid]
    <3>1. Steps(j, w)
      BY <2>2, WorkFacts DEF AInv, Over, Steps, WorkOK
    <3> QED
      BY <2>2, <3>1
  <2> QED
    BY <2>1, <2>2
<1>2. ASSUME op # "destroy", NEW c \in cloud, \A i \in Pending \cup Waiting : i.entry.uuid # c.uuid
      PROVE  c \in cloud'
  <2>1. work[j].entry = j.entry /\ ~work[j].over
    BY WorkFacts DEF AInv, Turn, Running
  <2>2. j \in Pending
    BY <1>2, <2>1 DEF Pending, Deletes, Replaces
  <2> QED
    BY <1>2, <2>1, <2>2 DEF RemoveRule
<1>3. op # "create"
  BY DEF Deletes, Replaces
<1> QED
  BY <1>1, <1>2, <1>3, StepsApplies

LEMMA ChangeInPlaceApplies == ASSUME AInv, NEW j \in DOMAIN stage, ChangeInPlace(j) PROVE Applies'
<1> USE DEF ChangeInPlace
<1>1. /\ work[j].entry = j.entry /\ j.new \in Contents /\ TypeOK /\ op = "change"
      /\ ~work[j].over /\ j \in Pending
  BY WorkFacts DEF AInv, Turn, Running, JobOK, Changes, Pending
<1> DEFINE w == [work[j] EXCEPT !.over = TRUE, !.entry.uuid = work[j].entry.uuid]
<1>2. Steps(j, w) /\ w.over = TRUE
  BY WorkFacts DEF AInv, Over, Steps, WorkOK
<1> HIDE DEF w
<1>3. \A d \in cloud : \E c \in cloud' : c.uuid = d.uuid /\ IF c.uuid = j.entry.uuid THEN Agrees(c, j.new) ELSE c = d
  BY <1>1, ChangeRuleFacts DEF TypeOK
<1>4. ASSUME NEW c \in cloud, \A i \in Pending \cup Waiting : i.entry.uuid # c.uuid PROVE c \in cloud'
  BY <1>1, <1>3, <1>4
<1>5. Exists(j.new)'
  <2>1. PICK c \in cloud' : c.uuid = j.entry.uuid /\ Agrees(c, j.new)
    BY <1>1, <1>3 DEF Ids
  <2>2. Pending' \subseteq Pending \ {j} /\ Waiting' = {}
    BY <1>1, <1>2 DEF Steps, HandlerState, Pending, Waiting
  <2>3. \A i \in Pending : i.entry.uuid = j.entry.uuid => i = j
    BY <1>1, OneEach DEF AInv
  <2> QED
    BY <2>1, <2>2, <2>3 DEF Exists
<1> QED
  BY <1>2, <1>4, <1>5, StepsApplies

LEMMA LockApplies == ASSUME AInv, NEW j \in DOMAIN stage, Lock(j) PROVE Applies'
<1> USE DEF Lock
<1>1. PICK w : Steps(j, w) /\ w.over = work[j].over
  <2>1. CASE work[j].entry.uuid # NoUuid
    <3>1. work' = [work EXCEPT ![j] = [work[j] EXCEPT !.seen = rules]] /\ Pool!StartCollecting(j)
      BY <2>1
    <3> QED
      BY <3>1, WorkFacts DEF AInv, Steps, WorkOK, Pool!StartCollecting, Pool!Goto
  <2>2. CASE work[j].entry.uuid = NoUuid
    BY <2>2, WorkFacts DEF AInv, Steps, Pool!NothingToCollect, Pool!Goto
  <2> QED
    BY <2>1, <2>2
<1> QED
  BY <1>1, PlainApplies DEF NoFault

LEMMA AddApplies == ASSUME AInv, NEW j \in DOMAIN stage, Add(j) PROVE Applies'
<1>1. Steps(j, work[j])
  BY WorkFacts DEF AInv, Add, Pool!Collected, Pool!Goto, Steps
<1> QED
  BY <1>1, PlainApplies DEF Add, NoFault

LEMMA GoroutineApplies == ASSUME AInv, NEW j \in DOMAIN stage, Goroutine(j) PROVE Applies'
<1>1. CASE RejectRule(j) \/ DeleteFails(j) \/ ChangeFails(j)
  <2>1. Abort(j) /\ UNCHANGED <<stage, HandlerState>> /\ (NoFault \/ \E kind : Fault(kind))
    BY <1>1 DEF RejectRule, DeleteFails, ChangeFails, NoFault
  <2> QED
    BY <2>1, AbortApplies
<1> QED
  BY <1>1, AcquireApplies, CreateRuleApplies, CreateFailsApplies, DeleteRuleApplies, ChangeInPlaceApplies,
     LockApplies, AddApplies
  DEF Goroutine

-----------------------------------------------------------------------------
(* Success means applied: the handlers.                                    *)

\* Nothing is promised between operations, nor of what is not fresh.
LEMMA RestApplies ==
  ASSUME op' = "idle", fresh' = FALSE, told' # "ok" \/ (Clear' => \A r \in config'.rules : \E c \in cloud' : Agrees(c, r))
  PROVE  Applies'
BY DEF Applies, Real, Promised, OkMeansApplied, Idle, Clear

LEMMA RefreshApplies == ASSUME AInv, Refresh PROVE Applies'
<1>1. /\ Idle /\ saved' = ReadState(saved.rules, saved.tainted, saved.managed) /\ told' = "read"
      /\ UNCHANGED <<cloud, config, op>>
      /\ IF saved.managed /\ ReadRules(saved.rules, TRUE) = {} /\ saved.rules # {}
         THEN faults' = [faults EXCEPT !.kinds = @ \cup {"overlooked"}] ELSE NoFault
  BY DEF Refresh
<1>2. TypeOK /\ Alone /\ {saved.tainted, saved.managed} \subseteq BOOLEAN /\ \A e \in saved.rules : EntryOK(e)
  BY <1>1, IdleFacts DEF AInv, Typed
<1>3. saved'.rules \subseteq {FromAPI(c) : c \in cloud}
      \/ (saved.managed /\ saved'.rules = saved.rules /\ ReadRules(saved.rules, saved.managed) = {})
  BY <1>1, <1>2, ReadStateFacts
<1>4. saved.managed => ReadRules(saved.rules, saved.managed) = ReadRules(saved.rules, TRUE)
  BY DEF ReadRules
<1>5. Real'
  <2>1. CASE saved'.rules \subseteq {FromAPI(c) : c \in cloud}
    BY <1>1, <2>1 DEF Real
  <2>2. CASE saved.managed /\ ReadRules(saved.rules, TRUE) = {} /\ saved'.rules = saved.rules
    <3>1. CASE saved.rules = {}
      BY <2>2, <3>1 DEF Real
    <3>2. CASE saved.rules # {}
      <4>1. faults'.kinds = faults.kinds \cup {"overlooked"}
        BY <1>1, <1>2, <2>2, <3>2 DEF TypeOK
      <4> QED
        BY <4>1 DEF Real, Clear
    <3> QED
      BY <3>1, <3>2
  <2> QED
    BY <1>3, <1>4, <2>1, <2>2
<1> QED
  BY <1>1, <1>5 DEF Applies, Promised, OkMeansApplied, Idle

LEMMA CreateApplies == ASSUME AInv, Create PROVE Applies'
<1>1. CASE config.rules = {} /\ FinishWithRead({}) /\ UNCHANGED op
  BY <1>1, RestApplies DEF Create, FinishWithRead, Save, Idle
<1>2. CASE Launch("create", {Job(Entry(r), r) : r \in config.rules}) /\ UNCHANGED config
  <2> DEFINE jobs == {Job(Entry(r), r) : r \in config.rules}
  <2>1. /\ op' = "create" /\ DOMAIN stage' = jobs /\ \A j \in jobs : work'[j].over = FALSE
    BY <1>2, LaunchFacts
  <2>2. \A r \in config.rules : Job(Entry(r), r) \in jobs /\ Job(Entry(r), r).new = r
    BY DEF Job
  <2> HIDE DEF jobs
  <2>3. \A r \in config.rules : ToCome(r)'
    BY <2>1, <2>2 DEF ToCome
  <2> QED
    BY <1>2, <2>1, <2>3 DEF Applies, Real, Promised, OkMeansApplied, Idle
<1> QED
  BY <1>1, <1>2 DEF Create

LEMMA UpdateNothingApplies == ASSUME AInv, UpdateNothing PROVE Applies'
<1>1. /\ Idle /\ fresh /\ ~Differs /\ FinishWithRead(saved.rules) /\ UNCHANGED <<cloud, config, op>>
  BY DEF UpdateNothing, CanUpdate
<1>2. TypeOK /\ (NoFault \/ \E kind : Fault(kind))
  BY <1>1 DEF AInv, IInv, FinishWithRead
<1>3. Clear' => \A r \in config.rules : \E c \in cloud : Agrees(c, r)
  <2> SUFFICES ASSUME Clear', NEW r \in config.rules PROVE \E c \in cloud : Agrees(c, r)
    OBVIOUS
  <2>1. PICK e \in saved.rules : e.rule = r
    BY <1>1 DEF Differs, Plain
  <2>2. PICK c \in cloud : e = FromAPI(c)
    BY <1>1, <1>2, <2>1, ClearFacts DEF AInv, Applies, Real
  <2> QED
    BY <2>1, <2>2 DEF FromAPI, Agrees
<1> QED
  BY <1>1, <1>3, RestApplies DEF FinishWithRead, Save, Idle

LEMMA UpdateApplies == ASSUME AInv, Update PROVE Applies'
<1> DEFINE kept == {e \in saved.rules : e.rule.number \in NumbersIn(config.rules)}
           jobs == {Job(e, e.rule) : e \in saved.rules \ kept}
           change == {j \in {Job(e, r) : e \in kept, r \in config.rules} :
                        j.entry.rule.number = j.new.number /\ j.entry.rule # j.new}
           create == {Job(Entry(r), r) : r \in {x \in config.rules : x.number \notin NumbersIn(Plain(kept))}}
<1>1. /\ Idle /\ fresh /\ Launch("delete", jobs) /\ later' = [change |-> change, create |-> create]
      /\ UNCHANGED <<cloud, config, faults>>
  BY DEF Update, CanUpdate
<1>2. /\ op' = "delete" /\ DOMAIN stage' = jobs /\ later'.change = change /\ later'.create = create
  <2> HIDE DEF kept, jobs, change, create
  <2> QED
    BY <1>1, LaunchFacts
<1>3. Alone /\ OnePerNumber
  BY DEF AInv, IInv
<1>4. ASSUME Clear, NEW r \in config.rules PROVE Exists(r)' \/ ToCome(r)'
  <2>1. \A e \in saved.rules : \E c \in cloud : e = FromAPI(c)
    BY <1>1, <1>4 DEF AInv, Applies, Real
  <2>2. \A e, f \in saved.rules : e.uuid = f.uuid => e = f
    BY <1>3, <2>1 DEF FromAPI, Alone
  <2>3. CASE r.number \notin NumbersIn(Plain(kept))
    <3>1. Job(Entry(r), r) \in create /\ Job(Entry(r), r).new = r
      BY <2>3 DEF Job
    <3> QED
      BY <1>2, <3>1 DEF ToCome
  <2>4. ASSUME NEW e \in kept, e.rule.number = r.number, e.rule # r PROVE ToCome(r)'
    <3>1. Job(e, r) \in change /\ Job(e, r).new = r
      BY <2>4 DEF Job
    <3> QED
      BY <1>2, <3>1 DEF ToCome
  <2>5. ASSUME NEW e \in kept, e.rule = r PROVE Exists(r)'
    <3>1. PICK c \in cloud : e = FromAPI(c)
      BY <2>1
    <3>2. c.rule = r /\ c.uuid = e.uuid
      BY <2>5, <3>1 DEF FromAPI
    <3>3. \A j \in jobs : j.entry \in saved.rules \ kept
      BY DEF Job
    <3>4. \A j \in change : j.entry \in saved.rules /\ j.entry # e
      <4> SUFFICES ASSUME NEW f \in kept, NEW s \in config.rules, f.rule.number = s.number, f.rule # s
                   PROVE  f # e
        BY DEF Job
      <4> QED
        BY <1>3, <2>5 DEF OnePerNumber
    <3>5. \A j \in jobs \cup change : j.entry.uuid # c.uuid
      BY <2>2, <3>2, <3>3, <3>4
    <3>6. Pending' \subseteq jobs /\ Waiting' = change
      BY <1>2 DEF Pending, Waiting
    <3> HIDE DEF kept, jobs, change, create
    <3> QED
      BY <1>1, <3>2, <3>5, <3>6 DEF Exists, Agrees
  <2>6. r.number \in NumbersIn(Plain(kept)) => \E e \in kept : e.rule.number = r.number
    BY DEF NumbersIn, Plain
  <2> QED
    BY <2>3, <2>4, <2>5, <2>6
<1> HIDE DEF kept, jobs, change, create
<1> QED
  BY <1>1, <1>2, <1>4 DEF Applies, Real, Promised, OkMeansApplied, Idle, Clear

LEMMA DeleteApplies == ASSUME AInv, Delete PROVE Applies'
<1>1. CASE Launch("destroy", {Job(e, e.rule) : e \in saved.rules})
  <2>1. op' = "destroy"
    BY <1>1, LaunchFacts
  <2> QED
    BY <2>1 DEF Applies, Real, Promised, OkMeansApplied, Idle
<1>2. CASE Save(Gone, "none") /\ UNCHANGED op
  BY <1>2, RestApplies DEF Delete, Save, Idle
<1> QED
  BY <1>1, <1>2 DEF Delete

LEMMA ReturnApplies == ASSUME AInv, Return PROVE Applies'
<1>1. CASE ReturnError \/ ReturnDeleted
  BY <1>1, StopFacts, RestApplies DEF ReturnError, ReturnDeleted, Save
<1>2. CASE ReturnRead
  <2>1. op = "create" /\ Pool!Returned /\ ~failed /\ FinishWithRead(rules) /\ Stop /\ UNCHANGED <<cloud, config>>
    BY <1>2 DEF ReturnRead, Waited
  <2>2. TypeOK /\ (NoFault \/ \E kind : Fault(kind)) /\ \A j \in DOMAIN stage : work[j].over
    BY <2>1, ReturnedFacts DEF AInv, IInv, FinishWithRead, Idle
  <2>3. Clear' => \A r \in config.rules : \E c \in cloud : Agrees(c, r)
    <3> SUFFICES ASSUME Clear', NEW r \in config.rules PROVE \E c \in cloud : Agrees(c, r)
      OBVIOUS
    <3>1. Exists(r) \/ ToCome(r)
      BY <2>1, <2>2, ClearFacts DEF AInv, Applies, Promised, Idle
    <3>2. ~ToCome(r)
      BY <2>1, <2>2 DEF ToCome
    <3> QED
      BY <3>1, <3>2 DEF Exists
  <2> QED
    BY <2>1, <2>3, StopFacts, RestApplies DEF FinishWithRead, Save
<1>3. ASSUME NEW phase \in {"change", "create"}, NEW jobs, Launch(phase, jobs), Pool!Returned, ~failed,
             UNCHANGED <<cloud, config, later, faults>>, op = IF phase = "change" THEN "delete" ELSE "change",
             jobs = IF phase = "change" THEN later.change ELSE later.create
      PROVE  Applies'
  <2>1. op' = phase /\ DOMAIN stage' = jobs /\ \A j \in jobs : work'[j].over = FALSE
    BY <1>3, LaunchFacts
  <2>2. \A j \in DOMAIN stage : work[j].over
    BY <1>3, ReturnedFacts DEF AInv, Idle
  <2>3. Pending' \cup Waiting' \subseteq Pending \cup Waiting
    BY <1>3, <2>1 DEF Pending, Waiting
  <2>4. ASSUME Clear, NEW r \in config.rules PROVE Exists(r)' \/ ToCome(r)'
    <3>1. Exists(r) \/ ToCome(r)
      BY <1>3, <2>4 DEF AInv, Applies, Promised, Idle
    <3>2. CASE Exists(r)
      BY <1>3, <2>3, <3>2 DEF Exists
    <3>3. CASE ToCome(r)
      <4>1. CASE phase = "change"
        BY <1>3, <2>1, <3>3, <4>1 DEF ToCome
      <4>2. CASE phase = "create"
        BY <1>3, <2>1, <2>2, <3>3, <4>2 DEF ToCome
      <4> QED
        BY <4>1, <4>2
    <3> QED
      BY <3>1, <3>2, <3>3
  <2> QED
    BY <1>3, <2>1, <2>4 DEF Applies, Real, Promised, OkMeansApplied, Idle, Clear
<1>4. CASE ChangeNext
  BY <1>3, <1>4 DEF ChangeNext, Waited
<1>5. CASE CreateNext
  BY <1>3, <1>5 DEF CreateNext, Waited
<1> QED
  BY <1>1, <1>2, <1>4, <1>5 DEF Return

LEMMA OutsideApplies == ASSUME AInv, DeleteOutOfBand \/ CreateForeign PROVE Applies'
<1>1. /\ told' = "none" /\ UNCHANGED <<config, saved, fresh, op, later, work, stage, failed>>
      /\ (NoFault \/ \E kind : Fault(kind)) /\ TypeOK
  BY DEF DeleteOutOfBand, CreateForeign, AInv, IInv
<1>2. CASE DeleteOutOfBand
  <2>1. ~Clear'
    BY <1>1, <1>2, FaultFacts DEF DeleteOutOfBand, Clear
  <2> QED
    BY <1>1, <2>1 DEF Applies, Real, Promised, OkMeansApplied
<1>3. CASE CreateForeign
  <2>1. cloud \subseteq cloud' /\ (Clear' => Clear)
    BY <1>1, <1>3, ClearFacts DEF CreateForeign, NewRule
  <2>2. \A r : (Exists(r) => Exists(r)') /\ (ToCome(r) => ToCome(r)')
    BY <1>1, <2>1 DEF Exists, ToCome, Pending, Waiting
  <2>3. Real' /\ Promised'
    BY <1>1, <2>1, <2>2 DEF AInv, Applies, Real, Promised, Idle
  <2> QED
    BY <1>1, <2>3 DEF Applies, OkMeansApplied
<1> QED
  BY <1>2, <1>3

LEMMA NextAInv == AInv /\ [Next]_vars => AInv'
<1> SUFFICES ASSUME AInv, [Next]_vars PROVE Applies'
  BY NextIInv DEF AInv
<1>1. CASE Terraform
  BY <1>1, RefreshApplies, CreateApplies, UpdateApplies, UpdateNothingApplies, DeleteApplies DEF Terraform
<1>2. CASE Provider
  BY <1>2, ReturnApplies, GoroutineApplies DEF Provider
<1>3. CASE Edit \/ Crash
  BY <1>3, StopFacts, RestApplies DEF Edit, Crash, Idle
<1>4. CASE UNCHANGED vars
  BY <1>4 DEF vars, AInv, Applies, Real, Clear, Promised, Exists, ToCome, Pending, Waiting, OkMeansApplied, Idle
<1> QED
  BY <1>1, <1>2, <1>3, <1>4, OutsideApplies DEF Next, Environment

LEMMA InitAInv == Init => AInv
BY InitIInv DEF Init, AInv, Applies, Real, Promised, OkMeansApplied, Idle

-----------------------------------------------------------------------------
(* What an update deletes.                                                 *)

\* A goroutine of Update deletes no rule whose number and protocol are configured.
LEMMA DeletesFew ==
  ASSUME IInv, NEW j \in DOMAIN stage, Running(j), Deletes(j), op # "destroy",
         NEW c \in cloud, c.uuid = work[j].entry.uuid
  PROVE  ~Survives(c)
<1>1. work[j].entry = j.entry /\ ~work[j].over /\ Truthful /\ JobOK(j)
  BY WorkFacts DEF Turn, Running
<1>2. op \in {"delete", "change"}
  BY DEF Deletes, Replaces
<1>3. c.rule = j.entry.rule
  BY <1>1, <1>2 DEF Truthful, Pending, Current
<1>4. CASE op = "delete"
  BY <1>3, <1>4 DEF IInv, Jobs, Survives, NumbersIn
<1>5. CASE op = "change"
  <2>1. j.new \in config.rules /\ j.new.number = j.entry.rule.number /\ OnePerNumber
    BY <1>5 DEF IInv, Jobs
  <2>2. j.entry.rule.protocol # j.new.protocol
    BY <1>5 DEF Deletes, Replaces
  <2> QED
    BY <1>3, <2>1, <2>2 DEF Survives, OnePerNumber
<1> QED
  BY <1>2, <1>4, <1>5

LEMMA NextPreserves ==
  ASSUME IInv, Next, op # "destroy", ~DeleteOutOfBand, NEW c \in cloud, Survives(c)
  PROVE  c.uuid \in Ids(cloud')
<1>1. CASE cloud \subseteq cloud'
  BY <1>1 DEF Ids
<1>2. ASSUME NEW j \in DOMAIN stage, DeleteRule(j) \/ DeleteFails(j) PROVE c.uuid \in Ids(cloud')
  <2>1. CASE RemoveRule(work[j].entry.uuid)
    BY <1>2, <2>1, DeletesFew DEF DeleteRule, DeleteFails, RemoveRule, Ids
  <2>2. CASE UNCHANGED cloud
    BY <2>2 DEF Ids
  <2> QED
    BY <1>2, <2>1, <2>2 DEF DeleteRule, DeleteFails
<1>3. ASSUME NEW j \in DOMAIN stage, ChangeInPlace(j) \/ ChangeFails(j) PROVE c.uuid \in Ids(cloud')
  <2>1. CASE ChangeRule(work[j].entry.uuid, j.new)
    <3>1. j.new \in Contents /\ TypeOK
      BY WorkFacts DEF JobOK
    <3> QED
      BY <2>1, <3>1, ChangeRuleFacts DEF TypeOK, Ids
  <2>2. CASE UNCHANGED cloud
    BY <2>2 DEF Ids
  <2> QED
    BY <1>3, <2>1, <2>2 DEF ChangeInPlace, ChangeFails
<1>4. CASE Delete
  <2>1. \A d \in cloud : LetGo(d).uuid = d.uuid
    BY DEF LetGo, IInv, TypeOK
  <2>2. CASE cloud' = {LetGo(d) : d \in cloud}
    BY <2>1, <2>2 DEF Ids
  <2> QED
    BY <1>1, <1>4, <2>2 DEF Delete
<1>5. CASE Refresh \/ Create \/ Update \/ UpdateNothing
  <2>1. Refresh => cloud' = cloud
    BY DEF Refresh
  <2>2. Create => cloud' = cloud
    BY DEF Create
  <2>3. Update => cloud' = cloud
    BY DEF Update
  <2>4. UpdateNothing => cloud' = cloud
    BY DEF UpdateNothing
  <2> QED
    BY <1>1, <1>5, <2>1, <2>2, <2>3, <2>4
<1>6. CASE Return
  <2>1. cloud' = cloud
    BY <1>6 DEF Return, ReturnError, ChangeNext, CreateNext, ReturnRead, ReturnDeleted
  <2> QED
    BY <1>1, <2>1
<1>7. ASSUME NEW j \in DOMAIN stage,
             Acquire(j) \/ RejectRule(j) \/ CreateRule(j) \/ CreateFails(j) \/ Lock(j) \/ Add(j)
      PROVE  c.uuid \in Ids(cloud')
  BY <1>1, <1>7 DEF Acquire, RejectRule, CreateRule, CreateFails, Lock, Add, NewRule
<1>8. CASE Edit \/ CreateForeign \/ Crash
  BY <1>1, <1>8 DEF Edit, CreateForeign, Crash, NewRule
<1>9. CASE \E j \in DOMAIN stage : Goroutine(j)
  BY <1>2, <1>3, <1>7, <1>9 DEF Goroutine
<1> QED
  BY <1>4, <1>5, <1>6, <1>8, <1>9 DEF Next, Terraform, Provider, Environment

-----------------------------------------------------------------------------
(* What follows for every behaviour.                                       *)

\* Type correctness of the resource.
THEOREM TypeCorrect == Spec => []TypeOK
<1>1. IInv => TypeOK
  BY DEF IInv
<1> QED
  BY <1>1, InitIInv, NextIInv, PTL DEF Spec

\* No rule that createACLRule made is forgotten, whichever goroutines of the three
\* fan-outs failed, with the exceptions that Blinded names.
THEOREM RulesTracked == Spec => []Tracked
<1>1. IInv => Tracked
  <2> SUFFICES ASSUME IInv, ~Blinded, NEW u \in Ids(Owned("resource")) PROVE u \in Remembered
    BY DEF Tracked
  <2>1. CASE Idle
    BY <2>1 DEF IInv, Kept, Remembered, UuidsIn
  <2>2. CASE ~Idle
    <3>1. \A j \in Live : j \in DOMAIN work
      BY DEF IInv, TypeOK, Live
    <3> QED
      BY <2>2, <3>1 DEF IInv, Held, Remembered, UuidsIn
  <2> QED
    BY <2>1, <2>2
<1> QED
  BY <1>1, InitIInv, NextIInv, PTL DEF Spec

\* An operation that reports success has put every configured rule into the ACL, with
\* the exceptions that OkMeansApplied names.
THEOREM SuccessApplied == Spec => []OkMeansApplied
<1>1. AInv => OkMeansApplied
  BY DEF AInv, Applies
<1> QED
  BY <1>1, InitAInv, NextAInv, PTL DEF Spec

\* An update leaves every rule whose number and protocol stay under its uuid, whatever
\* its other arguments become.
THEOREM UuidsStay == Spec => UuidsPreserved
<1>1. IInv /\ [Next]_vars =>
        [op # "destroy" /\ ~DeleteOutOfBand => \A c \in cloud : Survives(c) => c.uuid \in Ids(cloud')]_vars
  BY NextPreserves
<1> QED
  BY <1>1, InitIInv, NextIInv, PTL DEF Spec, UuidsPreserved
=============================================================================
