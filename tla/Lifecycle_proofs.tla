-------------------------- MODULE Lifecycle_proofs --------------------------
(***************************************************************************)
(* What the provider knows of the object it made, and that success means   *)
(* applied, for every catalogue that CatalogueAssumption describes, and    *)
(* for the latter CarryingAssumption, and any number of faults and edits.  *)
(***************************************************************************)
EXTENDS Carrying, WellFoundedInduction, TLAPS

-----------------------------------------------------------------------------
(* The invariant.                                                          *)

Ids == Uuid \cup {NoObject}
Given == [R.attrs -> Values]
Objects == [own : BOOLEAN, on : BOOLEAN, attrs : Given]
Clouds == UNION {[D -> Objects] : D \in SUBSET Uuid}
States == [id : Ids, tainted : BOOLEAN, attrs : Given]
Datas == [id : Ids, made : Ids, attrs : Given]
Tellings == {"none", "ok", "error", "read"}

Program ==
  CASE op = "create" -> R.create
    [] op = "update" -> R.update
    [] op = "destroy" -> R.delete
    [] OTHER -> <<>>

TypedUser ==
  /\ kind \in DOMAIN Catalogue /\ config \in [present : BOOLEAN, attrs : Given]
  /\ faults \in [number : 0..(MaxFaults + 1), kinds : SUBSET FaultKinds] /\ changes \in 0..MaxChanges

TypedRun ==
  /\ op \in {"idle", "create", "update", "destroy"} /\ program = Program
  /\ at \in 1..(Len(program) + 1) /\ failures \in Nat

TypedData ==
  /\ cloud \in Clouds /\ saved \in States /\ d \in Datas
  /\ fresh \in BOOLEAN /\ told \in Tellings

Typed == TypedUser /\ TypedRun /\ TypedData

OwnIn(objects) == {u \in DOMAIN objects : objects[u].own}

Changes == op \in {"update", "destroy"}
Makes == Has(R.create, Making)

\* The running handler has passed the step that deletes the object, or one that may have
\* named it.
Deleted == \E j \in 1..(at - 1) : Deletes(program[j])
Named == \E j \in 1..(at - 1) : program[j].does \in Naming \cup Looking

\* Nothing has happened after which the provider cannot know its object.
Sighted == ById /\ kind \notin LateId /\ ~Blinded

Identity ==
  /\ op = "create" => saved.id = NoObject /\ (d.id # NoObject => Named)
  /\ Changes => saved.id # NoObject /\ d.made = NoObject
  /\ ~Makes => Own = {}
  /\ ById /\ Changes /\ saved.id \in Own => d.id = saved.id
  /\ ById /\ op = "destroy" /\ Deleted => saved.id \notin Own
  /\ Sighted => Own \subseteq {IF op = "create" THEN d.id ELSE saved.id}

IInv == Typed /\ Identity

\* What a step may not forget.
Remembers == ById /\ saved.id # NoObject /\ saved'.id # saved.id => saved.id \notin Own'

-----------------------------------------------------------------------------
(* The steps of a program.                                                 *)

LEMMA Smallest ==
  ASSUME NEW S, S \subseteq Nat, S # {}
  PROVE  Min(S) \in S /\ \A y \in S : Min(S) <= y
<1> DEFINE less == {ss \in Nat \X Nat : ss[1] < ss[2]}
<1>1. IsWellFoundedOn(less, Nat)
  <2>1. OpToRel(<, Nat) = less
    BY DEF OpToRel
  <2> QED
    BY <2>1, NatLessThanWellFounded
<1> HIDE DEF less
<1>2. PICK x \in S : \A y \in S : ~(<<y, x>> \in less)
  BY <1>1, WFMin
<1>3. ASSUME NEW y \in S PROVE x <= y
  <2>1. x \in Nat /\ y \in Nat /\ ~(<<y, x>> \in less)
    BY <1>2
  <2>2. y < x => <<y, x>> \in less
    BY <2>1 DEF less
  <2> QED
    BY <2>1, <2>2
<1> QED
  BY <1>3 DEF Min

LEMMA FirstFacts ==
  ASSUME NEW steps, NEW concerned, NEW planned, NEW i \in Nat \ {0}, Len(steps) \in Nat, i <= Len(steps) + 1
  PROVE  LET next == First(steps, concerned, planned, i) IN
           /\ next \in i..(Len(steps) + 1)
           /\ \A j \in i..(next - 1) : ~Matters(steps[j], concerned, planned)
           /\ next <= Len(steps) => Matters(steps[next], concerned, planned)
<1> DEFINE some == {j \in i..Len(steps) : Matters(steps[j], concerned, planned)}
           next == First(steps, concerned, planned, i)
           stops == some \cup {Len(steps) + 1}
<1>1. stops \subseteq Nat /\ stops # {} /\ stops \subseteq i..(Len(steps) + 1)
  OBVIOUS
<1>2. next = Min(stops)
  BY DEF First
<1> HIDE DEF stops, next
<1>3. next \in stops /\ \A y \in stops : next <= y
  BY <1>1, <1>2, Smallest
<1>4. \A j \in i..(next - 1) : ~Matters(steps[j], concerned, planned)
  BY <1>1, <1>3 DEF stops
<1>5. next <= Len(steps) => Matters(steps[next], concerned, planned)
  BY <1>1, <1>3 DEF stops
<1> QED
  BY <1>1, <1>3, <1>4, <1>5 DEF next

-----------------------------------------------------------------------------
(* What the catalogue says of the resource at hand.                        *)

LEMMA Here ==
  ASSUME kind \in DOMAIN Catalogue
  PROVE  /\ WellTyped(R) /\ NamesOnce(R.create)
         /\ kind \in LateId \/ ~Has(R.create, {"makeUnknown"})
         /\ ~Has(R.create, {"noUpdate", "drop", "off"}) /\ (R.framework => Len(R.create) = 1)
         /\ \A steps \in {R.update, R.delete} :
              /\ ~Has(steps, Naming \cup {"makeUnknown", "adoptUnknown"})
              /\ \A i \in DOMAIN steps : ~steps[i].rescued /\ (steps[i].does = "off" => RestoredIn(R, steps, i))
         /\ \A i \in DOMAIN R.create : R.create[i].rescued => R.create[i].does = "make"
         /\ Makes /\ ById =>
              /\ \E i \in DOMAIN R.delete : Deletes(R.delete[i])
              /\ \A i \in DOMAIN R.delete : ~R.delete[i].dropped
  BY CatalogueAssumption DEF CatalogueAssumption, R, Makes, ById

\* A program is a sequence of steps.
LEMMA ProgramTyped ==
  ASSUME kind \in DOMAIN Catalogue
  PROVE  /\ R.create \in Seq(StepsOver(R.attrs)) /\ R.update \in Seq(StepsOver(R.attrs))
         /\ R.delete \in Seq(StepsOver(R.attrs)) /\ R.read \in ReadingsOver(R.attrs)
         /\ R.framework \in BOOLEAN
         /\ TypedRun => program \in Seq(StepsOver(R.attrs))
<1>1. WellTyped(R)
  BY Here
<1>2. <<>> \in Seq(StepsOver(R.attrs))
  OBVIOUS
<1> QED
  BY <1>1, <1>2 DEF WellTyped, TypedRun, Program

\* The step a handler is at.
LEMMA NowTyped ==
  ASSUME TypedUser, TypedRun, ~Through
  PROVE  Now \in StepsOver(R.attrs) /\ at \in DOMAIN program
<1>1. program \in Seq(StepsOver(R.attrs))
  BY ProgramTyped DEF TypedUser
<1>2. at \in 1..Len(program)
  BY <1>1 DEF TypedRun, Through
<1> QED
  BY <1>1, <1>2 DEF Now

\* The attributes are those of the schema.
LEMMA AttrsOfSchema == TypedUser => Attrs = R.attrs /\ Nothing \in Given /\ Given = [Attrs -> Values]
  BY DEF TypedUser, Given, Attrs, Nothing, Unset, Values

\* Only what the handlers change has to be looked at again.
LEMMA SameUser ==
  ASSUME TypedUser, UNCHANGED <<kind, config, changes>>,
         faults' \in [number : 0..(MaxFaults + 1), kinds : SUBSET FaultKinds]
  PROVE  /\ TypedUser' /\ R' = R /\ Given' = Given /\ Objects' = Objects /\ Clouds' = Clouds
         /\ States' = States /\ Datas' = Datas /\ ById' = ById /\ Makes' = Makes
<1>1. R' = R
  BY DEF R
<1>2. Given' = Given
  BY <1>1 DEF Given
<1>3. Objects' = Objects /\ States' = States /\ Datas' = Datas
  BY <1>2 DEF Objects, States, Datas
<1>4. Clouds' = Clouds
  BY <1>3 DEF Clouds
<1>5. ById' = ById /\ Makes' = Makes
  BY <1>1 DEF ById, Makes
<1>6. TypedUser'
  BY <1>2 DEF TypedUser
<1> QED
  BY <1>1, <1>2, <1>3, <1>4, <1>5, <1>6

LEMMA FaultFacts ==
  ASSUME TypedUser, NEW k, Fault(k)
  PROVE  /\ faults' \in [number : 0..(MaxFaults + 1), kinds : SUBSET FaultKinds]
         /\ faults'.number > 0 /\ faults'.kinds = faults.kinds \cup {k}
  BY LifecycleAssumption DEF LifecycleAssumption, TypedUser, Fault

LEMMA OwnFacts == Own = OwnIn(cloud) /\ Own' = OwnIn(cloud')
  BY DEF Own, OwnIn

-----------------------------------------------------------------------------
(* A handler goes on, or returns.                                          *)

LEMMA StopFacts == ASSUME TypedUser, Stop PROVE TypedRun' /\ op' = "idle" /\ d' \in Datas /\ d'.id = NoObject
  BY AttrsOfSchema DEF Stop, TypedRun, Program, NoData, Datas, Ids

\* The steps that a handler goes past are the one it took and those that do not matter;
\* none of the latter deletes anything.
LEMMA ProceedFacts ==
  ASSUME TypedUser, TypedRun, ~Through, NEW data, Proceed(data), UNCHANGED kind
  PROVE  /\ TypedRun' /\ d' = data /\ at' > at /\ program' = program
         /\ UNCHANGED <<op, saved, told, fresh>>
         /\ Named \/ Now.does \in Naming \cup Looking => Named'
         /\ Deleted' => Deleted \/ Deletes(Now)
<1>1. program \in Seq(StepsOver(R.attrs)) /\ at \in DOMAIN program
  BY ProgramTyped, NowTyped DEF TypedUser
<1>2. Len(program) \in Nat /\ at \in 1..Len(program)
  BY <1>1
<1> DEFINE next == First(program, Concerned, Planned, at + 1)
<1>3. /\ next \in (at + 1)..(Len(program) + 1)
      /\ \A j \in (at + 1)..(next - 1) : ~Matters(program[j], Concerned, Planned)
  BY <1>2, FirstFacts
<1>4. /\ at' = next /\ failures' = 0 /\ d' = data /\ UNCHANGED <<op, program, saved, told, fresh>>
  BY DEF Proceed, Running
<1> HIDE DEF next
<1>5. Program' = Program
  BY <1>4 DEF Program, R
<1>6. TypedRun'
  BY <1>2, <1>3, <1>4, <1>5 DEF TypedRun
<1>7. Named \/ Now.does \in Naming \cup Looking => Named'
  BY <1>2, <1>3, <1>4 DEF Named, Now
<1>8. Deleted' => Deleted \/ Deletes(Now)
  <2> SUFFICES ASSUME NEW j \in 1..(next - 1), Deletes(program[j]) PROVE Deleted \/ Deletes(Now)
    BY <1>4 DEF Deleted
  <2>1. CASE j < at
    BY <2>1, <1>2 DEF Deleted
  <2>2. CASE j = at
    BY <2>2 DEF Now
  <2>3. CASE j > at
    <3>1. ~Matters(program[j], Concerned, Planned)
      BY <2>3, <1>2, <1>3
    <3> QED
      BY <3>1 DEF Matters, Deletes
  <2> QED
    BY <2>1, <2>2, <2>3, <1>2, <1>3
<1> QED
  BY <1>2, <1>3, <1>4, <1>6, <1>7, <1>8

\* What is saved when a handler returns an error.
LEMMA ReturnErrorFacts ==
  ASSUME Typed, NEW data \in Datas, ReturnError(data)
  PROVE  /\ TypedRun' /\ op' = "idle" /\ d' \in Datas /\ saved' \in States
         /\ fresh' \in BOOLEAN /\ told' \in Tellings
         /\ saved'.id = IF R.framework THEN saved.id ELSE data.id
<1> USE DEF Typed, TypedData
<1>1. StateOf(data, TRUE) \in States /\ StateOf(data, TRUE).id = data.id
  BY AttrsOfSchema DEF StateOf, Gone, States, Datas, Ids
<1>2. Stop /\ Save(IF R.framework THEN saved ELSE StateOf(data, TRUE), "error")
  BY DEF ReturnError
<1>3. TypedRun' /\ op' = "idle" /\ d' \in Datas
  BY <1>2, StopFacts
<1> QED
  BY <1>1, <1>2, <1>3 DEF Save, Tellings

\* A call that names the object is made when none is known yet.
LEMMA NamelessFacts ==
  ASSUME IInv, op = "create", ~Through, Now.does \in Naming, ~Passed(Now)
  PROVE  d.id = NoObject
<1> USE DEF IInv, Typed
<1>1. program = R.create /\ NamesOnce(R.create)
  BY Here DEF TypedUser, TypedRun, Program
<1>2. at \in DOMAIN program
  BY NowTyped
<1> SUFFICES ASSUME d.id # NoObject PROVE FALSE
  OBVIOUS
<1>3. Now.when # "unknown"
  BY DEF Passed
<1>4. Named
  BY DEF Identity
<1> QED
  BY <1>1, <1>2, <1>3, <1>4 DEF NamesOnce, Now, Named

\* The same while a handler is at a step of whatever program: the only error that looks for
\* another object is that of a Create that has none, and a Delete's errors are not dropped.
LEMMA ErrorFacts ==
  ASSUME IInv, ~Idle, ~Through, ~Passed(Now)
  PROVE  /\ Now.rescued => op = "create" /\ d.id = NoObject
         /\ op = "create" /\ R.framework => d.id = NoObject
         /\ Makes /\ ById /\ op = "destroy" => ~Now.dropped
<1> USE DEF IInv, Typed
<1>1. at \in DOMAIN program /\ op \in {"create", "update", "destroy"}
  BY NowTyped DEF TypedRun, Idle
<1>2. CASE op = "create"
  <2>1. program = R.create
    BY <1>2 DEF TypedRun, Program
  <2>2. Now.rescued => Now.does = "make"
    BY <2>1, <1>1, Here DEF TypedUser, Now
  <2>3. Now.rescued => d.id = NoObject
    BY <2>2, <1>2, NamelessFacts DEF Naming
  <2>4. ASSUME R.framework PROVE d.id = NoObject
    <3>1. Len(program) = 1 /\ program \in Seq(StepsOver(R.attrs))
      BY <2>1, <2>4, Here, ProgramTyped DEF TypedUser
    <3>2. at = 1
      BY <3>1, <1>1
    <3>3. ~Named
      BY <3>2 DEF Named
    <3> QED
      BY <3>3, <1>2 DEF Identity
  <2> QED
    BY <2>3, <2>4, <1>2
<1>3. CASE op \in {"update", "destroy"}
  <2>1. program \in {R.update, R.delete} /\ (op = "destroy" => program = R.delete)
    BY <1>3 DEF TypedRun, Program
  <2>2. ~Now.rescued
    BY <2>1, <1>1, Here DEF TypedUser, Now
  <2>3. Makes /\ ById /\ op = "destroy" => ~Now.dropped
    BY <2>1, <1>1, Here DEF TypedUser, Now
  <2> QED
    BY <2>2, <2>3, <1>3
<1> QED
  BY <1>1, <1>2, <1>3

\* Back in the state there is the object that the handler knew, or the one that the state
\* named before; a Create that fails without an object may have found any.
LEMMA ReturnedKeeps ==
  ASSUME IInv, ~Idle, UNCHANGED <<kind, config, changes>>,
         faults' \in [number : 0..(MaxFaults + 1), kinds : SUBSET FaultKinds], faults.kinds \subseteq faults'.kinds,
         cloud' \in Clouds, Changes => Own' \subseteq Own, ~Makes => Own' = {}, Sighted' => cloud' = cloud,
         TypedRun', op' = "idle", d' \in Datas, saved' \in States, fresh' \in BOOLEAN, told' \in Tellings,
         \/ saved'.id = saved.id \/ saved'.id = d.id
         \/ op = "create" /\ d.id = NoObject
         \/ op # "create" /\ (ById => saved.id \notin Own),
         op = "create" /\ saved'.id = saved.id => d.id = NoObject
  PROVE  IInv' /\ Remembers
<1> USE DEF IInv, Typed
<1>1. /\ TypedUser' /\ R' = R /\ Clouds' = Clouds /\ States' = States /\ Datas' = Datas
      /\ ById' = ById /\ Makes' = Makes
  BY SameUser
<1>2. Sighted' => Sighted /\ ById /\ Own' = Own
  BY <1>1, OwnFacts DEF Sighted, Blinded
<1>3. op \in {"create", "update", "destroy"}
  BY DEF TypedRun, Idle
<1>4. ~Changes' /\ op' # "create" /\ (~Makes' => Own' = {})
  BY <1>1 DEF Changes
<1>5. ASSUME Sighted' PROVE Own' \subseteq {saved'.id}
  <2>1. Sighted /\ ById /\ Own' = Own
    BY <1>2, <1>5
  <2>2. CASE op = "create"
    <3>1. Own \subseteq {d.id}
      BY <2>1, <2>2 DEF Identity
    <3>2. NoObject \notin Own
      BY DEF TypedData, Clouds, Own, NoObject, Uuid
    <3> QED
      BY <3>1, <3>2, <2>1, <2>2
  <2>3. CASE Changes
    BY <2>1, <2>3 DEF Identity, Changes
  <2> QED
    BY <2>2, <2>3, <1>3 DEF Changes
<1>6. Remembers
  <2>1. CASE op = "create"
    BY <2>1 DEF Remembers, Identity
  <2>2. CASE Changes
    BY <2>2 DEF Remembers, Identity, Changes
  <2> QED
    BY <2>1, <2>2, <1>3 DEF Changes
<1>7. Identity'
  BY <1>4, <1>5 DEF Identity, Changes
<1> QED
  BY <1>1, <1>6, <1>7 DEF TypedData

LEMMA GiveUpKeeps ==
  ASSUME IInv, ~Idle, ~Through, ~Passed(Now), GiveUp, UNCHANGED <<kind, config, changes>>,
         faults' \in [number : 0..(MaxFaults + 1), kinds : SUBSET FaultKinds], faults.kinds \subseteq faults'.kinds,
         cloud' \in Clouds, Changes => Own' \subseteq Own, ~Makes => Own' = {}, Sighted' => cloud' = cloud
  PROVE  IInv' /\ Remembers
<1> USE DEF IInv, Typed
<1>1. /\ TypedUser' /\ R' = R /\ Clouds' = Clouds /\ States' = States /\ Datas' = Datas
      /\ ById' = ById /\ Makes' = Makes
  BY SameUser
<1>2. Sighted' => Sighted /\ Own' = Own
  BY <1>1, OwnFacts DEF Sighted, Blinded
<1>3. op \in {"create", "update", "destroy"} /\ Len(program) \in Nat /\ at \in 1..Len(program)
  <2>1. program \in Seq(StepsOver(R.attrs)) /\ at \in DOMAIN program
    BY ProgramTyped, NowTyped DEF TypedUser
  <2> QED
    BY <2>1 DEF TypedRun, Idle
<1>4. CASE failures' = failures + 1 /\ UNCHANGED <<at, d>> /\ Running
  <2>1. TypedRun' /\ TypedData'
    BY <1>1, <1>4, <1>3 DEF TypedRun, TypedData, Running, Program
  <2>2. Deleted' = Deleted /\ Named' = Named /\ Changes' = Changes
    BY <1>4 DEF Deleted, Named, Changes, Running
  <2>3. Identity'
    BY <1>1, <1>2, <1>4, <2>2 DEF Identity, Running, Changes
  <2>4. Remembers
    BY <1>4 DEF Remembers, Running
  <2> QED
    BY <1>1, <2>1, <2>3, <2>4
<1>5. CASE Now.dropped /\ at' = Len(program) + 1 /\ failures' = 0 /\ UNCHANGED d /\ Running
  <2>1. TypedRun' /\ TypedData'
    BY <1>1, <1>5, <1>3 DEF TypedRun, TypedData, Running, Program
  <2>2. (Named => Named') /\ Changes' = Changes
    BY <1>5, <1>3 DEF Named, Changes, Running
  <2>3. Identity'
    <3>1. ById /\ op = "destroy" => Own' = {}
      BY <1>5, ErrorFacts DEF Changes
    <3> QED
      BY <1>1, <1>2, <1>5, <2>2, <3>1 DEF Identity, Running, Changes
  <2>4. Remembers
    BY <1>5 DEF Remembers, Running
  <2> QED
    BY <1>1, <2>1, <2>3, <2>4
<1>6. CASE ReturnError(d)
  <2>1. /\ TypedRun' /\ op' = "idle" /\ d' \in Datas /\ saved' \in States
        /\ fresh' \in BOOLEAN /\ told' \in Tellings
        /\ saved'.id = IF R.framework THEN saved.id ELSE d.id
    BY <1>6, ReturnErrorFacts DEF TypedData
  <2>2. op = "create" /\ R.framework => d.id = NoObject
    BY ErrorFacts
  <2>3. op = "create" => saved.id = NoObject
    BY DEF Identity
  <2> QED
    BY <2>1, <2>2, <2>3, ReturnedKeeps
<1>7. CASE Now.rescued /\ \E u \in DOMAIN cloud' : ReturnError([d EXCEPT !.id = u])
  <2>1. PICK u \in DOMAIN cloud' : ReturnError([d EXCEPT !.id = u])
    BY <1>7
  <2>2. [d EXCEPT !.id = u] \in Datas
    BY DEF TypedData, Datas, Clouds, Ids
  <2>3. /\ TypedRun' /\ op' = "idle" /\ d' \in Datas /\ saved' \in States
        /\ fresh' \in BOOLEAN /\ told' \in Tellings
    BY <2>1, <2>2, ReturnErrorFacts DEF TypedData
  <2>4. op = "create" /\ d.id = NoObject
    BY <1>7, ErrorFacts
  <2> QED
    BY <2>3, <2>4, ReturnedKeeps
<1> QED
  BY <1>4, <1>5, <1>6, <1>7 DEF GiveUp

-----------------------------------------------------------------------------
(* A call.                                                                 *)

\* What a step that turns the cloud into `result', with or without an answer, must not do:
\* make an object but in Create, or leave one that Delete deletes.
Preserves(result) ==
  /\ result \in Clouds
  /\ Changes => OwnIn(result) \subseteq Own
  /\ ~Makes => OwnIn(result) = {}
  /\ ById /\ op = "destroy" /\ Deletes(Now) => saved.id \notin OwnIn(result)

\* And what the handler has to know afterwards.
Knows(result, data) ==
  /\ data \in Datas
  /\ op = "create" /\ data.id # NoObject => Named \/ Now.does \in Naming \cup Looking
  /\ Changes => data.made = NoObject
  /\ ById /\ Changes /\ saved.id \in OwnIn(result) => data.id = saved.id
  /\ Sighted /\ op = "create" => OwnIn(result) \subseteq {data.id}

LEMMA ProceedKeeps ==
  ASSUME IInv, ~Idle, ~Through, NEW result, NEW data, cloud' = result, Proceed(data),
         Preserves(result), Knows(result, data), UNCHANGED <<kind, config, changes>>,
         faults' \in [number : 0..(MaxFaults + 1), kinds : SUBSET FaultKinds], faults.kinds \subseteq faults'.kinds
  PROVE  IInv' /\ Remembers
<1> USE DEF IInv, Typed
<1>1. /\ TypedUser' /\ R' = R /\ Clouds' = Clouds /\ States' = States /\ Datas' = Datas
      /\ ById' = ById /\ Makes' = Makes
  BY SameUser
<1>2. /\ TypedRun' /\ d' = data /\ UNCHANGED <<op, saved, told, fresh>>
      /\ Named \/ Now.does \in Naming \cup Looking => Named'
      /\ Deleted' => Deleted \/ Deletes(Now)
  BY ProceedFacts
<1>3. TypedData'
  BY <1>1, <1>2 DEF TypedData, Preserves, Knows
<1>4. Own' = OwnIn(result) /\ Changes' = Changes /\ (Sighted' => Sighted)
  BY <1>1, <1>2, OwnFacts DEF Changes, Sighted, Blinded
<1>5. Identity'
  <2>1. op' = "create" => saved'.id = NoObject /\ (d'.id # NoObject => Named')
    BY <1>2 DEF Identity, Knows
  <2>2. Changes' => saved'.id # NoObject /\ d'.made = NoObject
    BY <1>2, <1>4 DEF Identity, Knows
  <2>3. ~Makes' => Own' = {}
    BY <1>1, <1>4 DEF Preserves
  <2>4. ById' /\ Changes' /\ saved'.id \in Own' => d'.id = saved'.id
    BY <1>1, <1>2, <1>4 DEF Knows
  <2>5. ById' /\ op' = "destroy" /\ Deleted' => saved'.id \notin Own'
    BY <1>1, <1>2, <1>4 DEF Identity, Preserves, Changes
  <2>6. Sighted' => Own' \subseteq {IF op' = "create" THEN d'.id ELSE saved'.id}
    BY <1>2, <1>4, OwnFacts DEF Identity, Preserves, Knows, Changes, Idle, TypedRun
  <2> QED
    BY <2>1, <2>2, <2>3, <2>4, <2>5, <2>6 DEF Identity
<1> QED
  BY <1>1, <1>2, <1>3, <1>5 DEF Remembers

LEMMA CloudKeeps == ASSUME IInv PROVE cloud \in Clouds /\ (~Makes => Own = {})
  BY DEF IInv, Typed, TypedData, Identity

LEMMA CallKeeps ==
  ASSUME IInv, ~Idle, ~Through, ~Passed(Now), NEW refused, NEW result, NEW data, Call(refused, result, data),
         ~refused => Preserves(result) /\ Knows(result, data)
  PROVE  IInv' /\ Remembers
<1>0. UNCHANGED <<kind, config, changes>>
  BY DEF Call, Outside
<1>1. TypedUser /\ cloud \in Clouds /\ (~Makes => Own = {})
  BY CloudKeeps DEF IInv, Typed
<1>2. NoFault => /\ faults' \in [number : 0..(MaxFaults + 1), kinds : SUBSET FaultKinds]
                 /\ faults.kinds \subseteq faults'.kinds
  BY <1>1 DEF NoFault, TypedUser
<1>3. \A k \in {"apiError", "lostReply"} :
        Fault(k) => /\ faults' \in [number : 0..(MaxFaults + 1), kinds : SUBSET FaultKinds]
                    /\ faults.kinds \subseteq faults'.kinds /\ k \in faults'.kinds
  BY <1>1, FaultFacts
<1>4. CASE ~refused /\ cloud' = result /\ Proceed(data) /\ NoFault
  BY <1>0, <1>2, <1>4, ProceedKeeps
<1>5. CASE UNCHANGED cloud /\ GiveUp /\ (NoFault \/ Fault("apiError"))
  <2>1. Own' = Own
    BY <1>5, OwnFacts
  <2> QED
    BY <1>0, <1>1, <1>2, <1>3, <1>5, <2>1, GiveUpKeeps
<1>6. CASE ~refused /\ Fault("lostReply") /\ cloud' = result /\ GiveUp
  <2>1. Own' = OwnIn(result)
    BY <1>6, OwnFacts
  <2>2. ~Sighted'
    BY <1>3, <1>6 DEF Sighted, Blinded
  <2> QED
    BY <1>0, <1>3, <1>6, <2>1, <2>2, GiveUpKeeps DEF Preserves
<1> QED
  BY <1>4, <1>5, <1>6 DEF Call

\* A call that goes on although something failed.
LEMMA CallWithoutKeeps ==
  ASSUME IInv, ~Idle, ~Through, NEW result, NEW data, CallWithout(result, data), Preserves(result), Knows(result, data)
  PROVE  IInv' /\ Remembers
<1>1. UNCHANGED <<kind, config, changes>> /\ cloud' = result /\ Proceed(data) /\ Fault("apiError")
  BY DEF CallWithout, Outside
<1>2. /\ faults' \in [number : 0..(MaxFaults + 1), kinds : SUBSET FaultKinds]
      /\ faults.kinds \subseteq faults'.kinds
  BY <1>1, FaultFacts DEF IInv, Typed
<1> QED
  BY <1>1, <1>2, ProceedKeeps

LEMMA CallLoggedKeeps ==
  ASSUME IInv, ~Idle, ~Through, NEW result, NEW data, CallLogged(result, data),
         Preserves(result), Knows(result, data), Preserves(cloud), Knows(cloud, data)
  PROVE  IInv' /\ Remembers
<1>1. UNCHANGED <<kind, config, changes>> /\ cloud' \in {cloud, result} /\ Proceed(data)
  BY DEF CallLogged, Outside
<1>2. /\ faults' \in [number : 0..(MaxFaults + 1), kinds : SUBSET FaultKinds]
      /\ faults.kinds \subseteq faults'.kinds
  BY FaultFacts DEF CallLogged, NoFault, IInv, Typed, TypedUser
<1> QED
  BY <1>1, <1>2, ProceedKeeps

-----------------------------------------------------------------------------
(* What the steps make of the cloud.                                       *)

LEMMA WrittenFacts ==
  ASSUME TypedUser, NEW s, NEW object \in Objects, NEW attrs \in Given
  PROVE  /\ Written(s, object, attrs) \in Objects
         /\ Written(s, object, attrs).own = object.own /\ Written(s, object, attrs).on = object.on
<1>1. [a \in Attrs |-> IF a \in Sent(s) THEN attrs[a] ELSE object.attrs[a]] \in Given
  BY AttrsOfSchema DEF Objects, Given
<1> QED
  BY <1>1 DEF Written, Objects

LEMMA NewObjectFacts ==
  ASSUME TypedUser, NEW s, d \in Datas
  PROVE  /\ BlankObject \in Objects /\ BlankObject.own /\ BlankObject.on
         /\ NewObject(s) \in Objects /\ NewObject(s).own /\ NewObject(s).on
<1>1. BlankObject \in Objects /\ BlankObject.own /\ BlankObject.on
  BY AttrsOfSchema DEF BlankObject, Objects, Given, Values, Unset
<1> QED
  BY <1>1, WrittenFacts DEF NewObject, Datas

LEMMA CloudsFacts ==
  ASSUME NEW objects
  PROVE  objects \in Clouds <=> DOMAIN objects \subseteq Uuid /\ objects \in [DOMAIN objects -> Objects]
  BY DEF Clouds

LEMMA WithFacts ==
  ASSUME cloud \in Clouds, NEW u \in Uuid, NEW object \in Objects
  PROVE  /\ With(u, object) \in Clouds
         /\ OwnIn(With(u, object)) = IF object.own THEN Own \cup {u} ELSE Own \ {u}
         /\ DOMAIN With(u, object) = DOMAIN cloud \cup {u}
         /\ \A v \in DOMAIN cloud \cup {u} : With(u, object)[v] = IF v = u THEN object ELSE cloud[v]
<1>1. DOMAIN cloud \subseteq Uuid /\ cloud \in [DOMAIN cloud -> Objects]
  BY CloudsFacts
<1>2. With(u, object) \in [DOMAIN cloud \cup {u} -> Objects]
  BY <1>1 DEF With
<1> QED
  BY <1>1, <1>2, CloudsFacts DEF With, Own, OwnIn

LEMMA WithoutFacts ==
  ASSUME cloud \in Clouds, NEW u
  PROVE  /\ Without(u) \in Clouds /\ OwnIn(Without(u)) = Own \ {u}
         /\ DOMAIN Without(u) = DOMAIN cloud \ {u}
         /\ \A v \in DOMAIN cloud \ {u} : Without(u)[v] = cloud[v]
<1>1. DOMAIN cloud \subseteq Uuid /\ cloud \in [DOMAIN cloud -> Objects]
  BY CloudsFacts
<1>2. Without(u) \in [DOMAIN cloud \ {u} -> Objects]
  BY <1>1 DEF Without, Restrict
<1> QED
  BY <1>1, <1>2, CloudsFacts DEF Without, Restrict, Own, OwnIn

LEMMA NewUuidFacts ==
  ASSUME Unused # {}
  PROVE  NewUuid \in Uuid /\ NewUuid \notin DOMAIN cloud /\ NewUuid \notin {saved.id, d.id, d.made, NoObject}
<1>1. NewUuid \in Unused
  BY DEF NewUuid
<1> QED
  BY <1>1 DEF Unused, Uuid, NoObject

\* Only Create names an object, and only a Create of those that make one makes one.
LEMMA OnlyCreate ==
  ASSUME IInv, ~Idle, ~Through
  PROVE  /\ Now.does \in Naming \cup {"makeUnknown", "adoptUnknown"} => op = "create"
         /\ Now.does \in Making => Makes
         /\ Now.does = "makeUnknown" => kind \in LateId
         /\ Now.does \in {"noUpdate", "drop", "off"} => Changes
<1> USE DEF IInv, Typed
<1>1. at \in DOMAIN program /\ op \in {"create", "update", "destroy"}
  BY NowTyped DEF TypedRun, Idle
<1>2. CASE op = "create"
  <2>1. program = R.create
    BY <1>2 DEF TypedRun, Program
  <2> QED
    BY <1>1, <1>2, <2>1, Here DEF TypedUser, Has, Makes, Making, Now, Naming
<1>3. CASE op \in {"update", "destroy"}
  <2>1. program \in {R.update, R.delete}
    BY <1>3 DEF TypedRun, Program
  <2>2. ~Has(program, Naming \cup {"makeUnknown", "adoptUnknown"})
    BY <2>1, Here DEF TypedUser
  <2>3. Now.does \notin Naming \cup {"makeUnknown", "adoptUnknown"}
    BY <1>1, <2>2 DEF Has, Now
  <2> QED
    BY <1>3, <2>3 DEF Making, Naming, Changes
<1> QED
  BY <1>1, <1>2, <1>3

\* As long as a Create has no name for an object, there is none it should know.
LEMMA NamelessOwn ==
  ASSUME IInv, Sighted, op = "create", d.id = NoObject \/ ~Exists(d.id)
  PROVE  Own = {}
<1>1. Own \subseteq {d.id} /\ Own \subseteq DOMAIN cloud
  BY DEF IInv, Identity, Own
<1>2. NoObject \notin Own
  BY DEF IInv, Typed, TypedData, Clouds, Own, NoObject, Uuid
<1> QED
  BY <1>1, <1>2 DEF Exists

\* A step that says nothing of the object's identity.
LEMMA AttrsOnly ==
  ASSUME IInv, ~Idle, NEW result, NEW data \in Datas, data.id = d.id, data.made = d.made, OwnIn(result) \subseteq Own
  PROVE  Knows(result, data)
  BY DEF IInv, Knows, Identity, Changes

-----------------------------------------------------------------------------
(* The handlers' steps keep the invariant.                                 *)

LEMMA SameCloud == ASSUME IInv, ~Deletes(Now) PROVE Preserves(cloud)
  BY OwnFacts, CloudKeeps DEF Preserves

LEMMA LocalKeeps ==
  ASSUME IInv, ~Idle, ~Through, NEW data, Local(data), Knows(cloud, data), ~Deletes(Now)
  PROVE  IInv' /\ Remembers
<1>1. UNCHANGED <<kind, config, changes>> /\ UNCHANGED cloud /\ NoFault /\ Proceed(data)
  BY DEF Local, Outside
<1>2. /\ faults' \in [number : 0..(MaxFaults + 1), kinds : SUBSET FaultKinds]
      /\ faults.kinds \subseteq faults'.kinds
  BY <1>1 DEF NoFault, IInv, Typed, TypedUser
<1> QED
  BY <1>1, <1>2, SameCloud, ProceedKeeps

LEMMA MadeKnows ==
  ASSUME IInv, At("make"), Unused # {}, NEW s
  PROVE  Preserves(With(NewUuid, NewObject(s))) /\ Knows(With(NewUuid, NewObject(s)), [d EXCEPT !.id = NewUuid])
<1> DEFINE result == With(NewUuid, NewObject(s))
           data == [d EXCEPT !.id = NewUuid]
<1>1. ~Idle /\ ~Through /\ ~Passed(Now) /\ Now.does = "make"
  BY DEF At
<1>2. op = "create" /\ Makes /\ d.id = NoObject
  BY <1>1, OnlyCreate, NamelessFacts DEF Naming, Making
<1>3. NewUuid \in Uuid /\ NewObject(s) \in Objects /\ NewObject(s).own /\ d \in Datas /\ cloud \in Clouds
  BY NewUuidFacts, NewObjectFacts DEF IInv, Typed, TypedData
<1>4. result \in Clouds /\ OwnIn(result) = Own \cup {NewUuid}
  BY <1>3, WithFacts
<1>5. data \in Datas /\ data.id = NewUuid
  BY <1>3 DEF Datas, Ids
<1> HIDE DEF result, data
<1>6. Preserves(result)
  BY <1>2, <1>4 DEF Preserves, Changes
<1>7. Knows(result, data)
  BY <1>1, <1>2, <1>4, <1>5, NamelessOwn DEF Knows, Changes, Naming
<1> QED
  BY <1>6, <1>7 DEF result, data

LEMMA MakeKeeps == ASSUME IInv, MakeObject \/ MakeObjectWithout PROVE IInv' /\ Remembers
<1>1. At("make") /\ Unused # {} /\ ~Idle /\ ~Through /\ ~Passed(Now)
  BY DEF MakeObject, MakeObjectWithout, At
<1>2. CASE MakeObject
  BY <1>1, <1>2, MadeKnows, CallKeeps DEF MakeObject
<1>3. CASE MakeObjectWithout
  BY <1>1, <1>3, MadeKnows, CallWithoutKeeps DEF MakeObjectWithout
<1> QED
  BY <1>2, <1>3

LEMMA MakeUnknownKeeps == ASSUME IInv, MakeUnknownObject PROVE IInv' /\ Remembers
<1> DEFINE result == With(NewUuid, NewObject(Now))
           data == [d EXCEPT !.made = NewUuid]
<1>1. ~Idle /\ ~Through /\ ~Passed(Now) /\ Now.does = "makeUnknown"
  BY DEF MakeUnknownObject, At
<1>2. op = "create" /\ Makes /\ ~Sighted
  BY <1>1, OnlyCreate DEF Making, Sighted
<1>3. NewUuid \in Uuid /\ NewObject(Now) \in Objects /\ NewObject(Now).own /\ d \in Datas /\ cloud \in Clouds
  BY NewUuidFacts, NewObjectFacts DEF MakeUnknownObject, IInv, Typed, TypedData
<1>4. result \in Clouds /\ OwnIn(result) = Own \cup {NewUuid}
  BY <1>3, WithFacts
<1>5. data \in Datas /\ data.id = d.id
  BY <1>3 DEF Datas, Ids
<1> HIDE DEF result, data
<1>6. Preserves(result)
  BY <1>2, <1>4 DEF Preserves, Changes
<1>7. Knows(result, data)
  BY <1>2, <1>5 DEF Knows, Changes, IInv, Identity
<1> QED
  BY <1>1, <1>6, <1>7, CallKeeps DEF MakeUnknownObject, result, data

\* A step of Create that names an object which is there already.
LEMMA NamingKnows ==
  ASSUME IInv, ~Idle, ~Through, ~Passed(Now), Now.does \in Naming, NEW u \in Ids
  PROVE  Knows(cloud, [d EXCEPT !.id = u]) /\ Preserves(cloud)
<1> DEFINE data == [d EXCEPT !.id = u]
<1>1. op = "create" /\ d.id = NoObject
  BY OnlyCreate, NamelessFacts
<1>2. d \in Datas
  BY DEF IInv, Typed, TypedData
<1>3. data \in Datas
  BY <1>2 DEF Datas
<1> HIDE DEF data
<1>4. Knows(cloud, data)
  BY <1>1, <1>3, NamelessOwn, OwnFacts DEF Knows, Changes
<1>5. Preserves(cloud)
  BY SameCloud DEF Deletes, Naming
<1> QED
  BY <1>4, <1>5 DEF data

LEMMA KnownIds == ASSUME IInv PROVE DOMAIN cloud \subseteq Ids /\ d.made \in Ids /\ d \in Datas /\ cloud \in Clouds
  BY DEF IInv, Typed, TypedData, Datas, Clouds, Ids

LEMMA KnowKeeps == ASSUME IInv, KnowObject PROVE IInv' /\ Remembers
<1>1. ~Idle /\ ~Through /\ ~Passed(Now) /\ Now.does = "know"
  BY DEF KnowObject, At
<1>2. Knows(cloud, [d EXCEPT !.id = d.made])
  BY <1>1, KnownIds, NamingKnows DEF Naming
<1> QED
  BY <1>1, <1>2, LocalKeeps DEF KnowObject, Deletes

LEMMA Unchanging ==
  ASSUME IInv, ~Idle, ~Deletes(Now)
  PROVE  Knows(cloud, d) /\ Preserves(cloud)
  BY KnownIds, AttrsOnly, SameCloud, OwnFacts

LEMMA FindKeeps == ASSUME IInv, FindObject \/ FindNamedObject PROVE IInv' /\ Remembers
<1>1. ~Idle /\ ~Through /\ ~Passed(Now) /\ Now.does \in {"findByName", "findNamed"}
  BY DEF FindObject, FindNamedObject, At
<1>2. Knows(cloud, d) /\ Preserves(cloud)
  BY <1>1, Unchanging DEF Deletes
<1>3. CASE \E refused \in BOOLEAN : Call(refused, cloud, d)
  BY <1>1, <1>2, <1>3, CallKeeps
<1>4. CASE \E u \in SameName(d.attrs["name"]) : Call(FALSE, cloud, [d EXCEPT !.id = u])
  <2>1. PICK u \in SameName(d.attrs["name"]) : Call(FALSE, cloud, [d EXCEPT !.id = u])
    BY <1>4
  <2>2. u \in Ids
    BY <2>1, KnownIds DEF SameName
  <2>3. Knows(cloud, [d EXCEPT !.id = u]) /\ Preserves(cloud)
    BY <1>1, <2>2, NamingKnows DEF Naming
  <2> QED
    BY <1>1, <2>1, <2>3, CallKeeps
<1> QED
  BY <1>3, <1>4 DEF FindObject, FindNamedObject

LEMMA AdoptKeeps == ASSUME IInv, AdoptObject PROVE IInv' /\ Remembers
<1>1. /\ ~Idle /\ ~Through /\ ~Passed(Now) /\ Now.does \in {"adopt", "adoptUnknown"}
      /\ UNCHANGED <<kind, config, changes>> /\ NoFault
  BY DEF AdoptObject, At, Outside
<1>2. op = "create" /\ ~Changes
  BY <1>1, OnlyCreate DEF Naming, Changes
<1>3. /\ faults' \in [number : 0..(MaxFaults + 1), kinds : SUBSET FaultKinds]
      /\ faults.kinds \subseteq faults'.kinds
  BY <1>1 DEF NoFault, IInv, Typed, TypedUser
<1>4. ASSUME NEW u \in Uuid, NEW result \in Clouds, OwnIn(result) \subseteq Own, cloud' = result, Proceed(Adopted(u))
      PROVE  IInv' /\ Remembers
  <2>1. Adopted(u) \in Datas /\ (Now.does = "adoptUnknown" => Adopted(u).id = d.id)
    BY <1>1, KnownIds DEF Adopted, Datas, Ids
  <2>2. Preserves(result)
    BY <1>2, <1>4, CloudKeeps DEF Preserves
  <2>3. Now.does = "adopt" => d.id = NoObject
    BY <1>1, <1>2, NamelessFacts DEF Naming
  <2>4. Knows(result, Adopted(u))
    BY <1>1, <1>2, <1>4, <2>1, <2>3, NamelessOwn, OwnFacts DEF Knows, Naming, IInv, Identity
  <2> QED
    BY <1>1, <1>3, <1>4, <2>2, <2>4, ProceedKeeps
<1>5. CASE cloud' = With(NewUuid, [BlankObject EXCEPT !.own = FALSE]) /\ Proceed(Adopted(NewUuid))
  <2> DEFINE object == [BlankObject EXCEPT !.own = FALSE]
  <2>1. NewUuid \in Uuid /\ object \in Objects /\ ~object.own
    BY NewUuidFacts, NewObjectFacts, KnownIds DEF AdoptObject, IInv, Typed, Objects
  <2> HIDE DEF object
  <2>2. cloud \in Clouds
    BY KnownIds
  <2>3. With(NewUuid, object) \in Clouds /\ OwnIn(With(NewUuid, object)) = Own \ {NewUuid}
    BY <2>1, <2>2, WithFacts
  <2> QED
    BY <1>4, <1>5, <2>1, <2>3 DEF object
<1>6. CASE \E u \in DOMAIN cloud : Proceed(Adopted(u)) /\ UNCHANGED cloud
  <2>1. PICK u \in DOMAIN cloud : Proceed(Adopted(u)) /\ UNCHANGED cloud
    BY <1>6
  <2>2. u \in Uuid /\ cloud \in Clouds
    BY <2>1, KnownIds, CloudsFacts
  <2> QED
    BY <1>4, <2>1, <2>2, OwnFacts
<1> QED
  BY <1>5, <1>6 DEF AdoptObject

\* A call that leaves the object whose it is.
LEMMA ChangingKeeps ==
  ASSUME IInv, ~Idle, ~Through, ~Passed(Now), ~Deletes(Now), NEW object, Changing(object),
         Exists(Target) => object \in Objects /\ object.own = cloud[Target].own
  PROVE  IInv' /\ Remembers
<1>1. CASE Exists(Target)
  <2> DEFINE result == With(Target, object)
             data == Answered(object)
  <2>1. Target \in Uuid /\ cloud \in Clouds /\ d \in Datas
    BY <1>1, KnownIds, CloudsFacts DEF Exists
  <2>2. result \in Clouds /\ OwnIn(result) = Own
    BY <1>1, <2>1, WithFacts DEF Own, Exists
  <2>3. [a \in Attrs |-> IF a \in Now.answers /\ object.attrs[a] # Unset THEN object.attrs[a] ELSE d.attrs[a]] \in Given
    BY <1>1, <2>1, AttrsOfSchema DEF IInv, Typed, Objects, Datas, Given
  <2>4. data \in Datas /\ data.id = d.id /\ data.made = d.made
    BY <2>1, <2>3 DEF Answered, Datas
  <2> HIDE DEF result, data
  <2>5. Preserves(result)
    BY <2>2, CloudKeeps, Unchanging DEF Preserves
  <2>6. Knows(result, data)
    BY <2>2, <2>4, AttrsOnly
  <2> QED
    BY <1>1, <2>5, <2>6, CallKeeps DEF Changing, result, data
<1>2. CASE ~Exists(Target)
  BY <1>2, Unchanging, CallKeeps DEF Changing
<1> QED
  BY <1>1, <1>2

LEMMA WriteKeeps ==
  ASSUME IInv, WriteObject \/ RenameObject \/ ClearObject \/ DisableObject \/ TurnObjectOff \/ TurnObjectOn
  PROVE  IInv' /\ Remembers
<1>1. /\ ~Idle /\ ~Through /\ ~Passed(Now)
      /\ Now.does \in {"write", "rename", "clear", "disable", "off", "on"} /\ ~Deletes(Now)
  BY DEF WriteObject, RenameObject, ClearObject, DisableObject, TurnObjectOff, TurnObjectOn, At, Deletes
<1>2. TypedUser /\ d.attrs \in Given /\ Nothing \in Given /\ [a \in Attrs |-> 2] \in Given
  BY AttrsOfSchema, KnownIds DEF IInv, Typed, Datas, Given, Values
<1>3. Exists(Target) => cloud[Target] \in Objects
  BY KnownIds, CloudsFacts DEF Exists
<1>4. CASE WriteObject
  BY <1>1, <1>2, <1>3, <1>4, WrittenFacts, ChangingKeeps DEF WriteObject
<1>5. CASE ClearObject
  BY <1>1, <1>2, <1>3, <1>5, WrittenFacts, ChangingKeeps DEF ClearObject, Cleared
<1>6. CASE DisableObject
  BY <1>1, <1>2, <1>3, <1>6, WrittenFacts, ChangingKeeps DEF DisableObject
<1>7. CASE TurnObjectOff \/ TurnObjectOn
  <2>1. ASSUME NEW on \in BOOLEAN, Exists(Target)
        PROVE  [cloud[Target] EXCEPT !.on = on] \in Objects /\ [cloud[Target] EXCEPT !.on = on].own = cloud[Target].own
    BY <1>3, <2>1 DEF Objects
  <2> QED
    BY <1>1, <1>7, <2>1, ChangingKeeps DEF TurnObjectOff, TurnObjectOn
<1>8. CASE RenameObject
  <2>1. PICK a \in Now.on : Changing([cloud[Target] EXCEPT !.attrs["name"] = d.attrs[a]])
    BY <1>8 DEF RenameObject
  <2>2. Now \in StepsOver(R.attrs)
    BY <1>1, NowTyped DEF IInv, Typed
  <2>3. d.attrs[a] \in Values
    BY <1>2, <2>1, <2>2 DEF Given, StepsOver
  <2>4. ASSUME Exists(Target)
        PROVE  /\ [cloud[Target] EXCEPT !.attrs["name"] = d.attrs[a]] \in Objects
               /\ [cloud[Target] EXCEPT !.attrs["name"] = d.attrs[a]].own = cloud[Target].own
    BY <1>3, <2>3, <2>4 DEF Objects, Given
  <2> QED
    BY <1>1, <2>1, <2>4, ChangingKeeps
<1> QED
  BY <1>4, <1>5, <1>6, <1>7, <1>8

\* A step that clears, and goes on although it failed.
LEMMA ClearKeeps == ASSUME IInv, ClearObjectIfPossible PROVE IInv' /\ Remembers
<1> DEFINE result == IF Exists(Target) THEN With(Target, Cleared) ELSE cloud
<1>1. ~Idle /\ ~Through /\ ~Deletes(Now) /\ CallLogged(result, d)
  BY DEF ClearObjectIfPossible, At, Deletes
<1>2. Knows(cloud, d) /\ Preserves(cloud) /\ TypedUser /\ d \in Datas /\ cloud \in Clouds /\ Nothing \in Given
  BY <1>1, Unchanging, KnownIds, AttrsOfSchema DEF IInv, Typed
<1>3. CASE Exists(Target)
  <2>1. Target \in Uuid /\ cloud[Target] \in Objects
    BY <1>2, <1>3, CloudsFacts DEF Exists
  <2>2. Cleared \in Objects /\ Cleared.own = cloud[Target].own
    BY <1>2, <2>1, WrittenFacts DEF Cleared
  <2>3. With(Target, Cleared) \in Clouds /\ OwnIn(With(Target, Cleared)) = Own
    <3>1. /\ With(Target, Cleared) \in Clouds
          /\ OwnIn(With(Target, Cleared)) = IF Cleared.own THEN Own \cup {Target} ELSE Own \ {Target}
      BY <1>2, <2>1, <2>2, WithFacts
    <3>2. Target \in Own <=> Cleared.own
      BY <1>3, <2>2 DEF Own, Exists
    <3> QED
      BY <3>1, <3>2
  <2>4. result \in Clouds /\ OwnIn(result) = Own
    BY <1>3, <2>3
  <2> HIDE DEF result
  <2>5. Preserves(result) /\ Knows(result, d)
    BY <1>1, <1>2, <2>4, CloudKeeps, AttrsOnly DEF Preserves
  <2> QED
    BY <1>1, <1>2, <2>5, CallLoggedKeeps
<1>4. CASE ~Exists(Target)
  BY <1>1, <1>2, <1>4, CallLoggedKeeps
<1> QED
  BY <1>3, <1>4

LEMMA WriteNothingKeeps == ASSUME IInv, WriteNothing PROVE IInv' /\ Remembers
  BY Unchanging, CallWithoutKeeps DEF WriteNothing, At, Deletes

LEMMA CheckKeeps == ASSUME IInv, CheckObject PROVE IInv' /\ Remembers
  BY Unchanging, CallKeeps DEF CheckObject, At, Deletes

LEMMA PassOverKeeps == ASSUME IInv, PassOver PROVE IInv' /\ Remembers
<1>1. ~Deletes(Now)
  BY DEF PassOver, Passed, Deletes
<1> QED
  BY <1>1, Unchanging, LocalKeeps DEF PassOver

LEMMA DropKeeps == ASSUME IInv, DropObject PROVE IInv' /\ Remembers
<1>1. ~Idle /\ ~Through /\ ~Passed(Now) /\ Now.does = "drop"
  BY DEF DropObject, At
<1>2. Changes
  BY <1>1, OnlyCreate
<1>3. Without(d.id) \in Clouds /\ OwnIn(Without(d.id)) = Own \ {d.id}
  BY KnownIds, WithoutFacts
<1>4. Preserves(Without(d.id))
  BY <1>2, <1>3, CloudKeeps DEF Preserves, IInv, Identity
<1>5. Knows(Without(d.id), d)
  BY <1>1, <1>3, KnownIds, AttrsOnly
<1> QED
  BY <1>1, <1>4, <1>5, CallKeeps DEF DropObject

\* What Read overwrites, it overwrites with values.
LEMMA ReadAttrsFacts ==
  ASSUME TypedUser, cloud \in Clouds, NEW attrs \in Given, NEW u \in DOMAIN cloud
  PROVE  ReadAttrs(attrs, u) \in Given /\ Blank(attrs) \in Given
<1>1. cloud[u].attrs \in Given
  BY CloudsFacts DEF Objects
<1> QED
  BY <1>1, AttrsOfSchema DEF ReadAttrs, Blank, Given, Values, Unset

LEMMA BlankFacts == ASSUME TypedUser, NEW attrs \in Given PROVE Blank(attrs) \in Given
  BY AttrsOfSchema DEF Blank, Given, Values, Unset

\* A Read goes by the id, and by the name only when the id is nobody's.
LEMMA FoundFacts ==
  ASSUME NEW id, NEW attrs
  PROVE  /\ Found(id, attrs) \subseteq DOMAIN cloud
         /\ ById /\ Exists(id) => Found(id, attrs) = {id}
         /\ ById /\ Found(id, attrs) = {} => ~Exists(id)
         /\ R.read.by = "id" => Found(id, attrs) \subseteq {id}
  BY DEF Found, Exists, SameName, ById, ByIdentity

\* So what it finds is the object the handler knew, if that exists.
LEMMA LookedUpKnows ==
  ASSUME IInv, ~Idle, ~Through, Now.does \in Looking, NEW id, NEW data \in Datas,
         id = d.id \/ id = Target, data.made = d.made,
         ById /\ Exists(id) => data.id = id
  PROVE  Knows(cloud, data) /\ Preserves(cloud)
<1>1. Own \subseteq DOMAIN cloud /\ NoObject \notin Own /\ Own = OwnIn(cloud)
  BY KnownIds, CloudsFacts, OwnFacts DEF Own, NoObject, Uuid
<1>2. ASSUME ById, d.id \in Own PROVE data.id = d.id
  <2>1. d.id # NoObject /\ Exists(d.id)
    BY <1>1, <1>2 DEF Exists
  <2>2. id = d.id
    BY <2>1 DEF Target
  <2> QED
    BY <1>2, <2>1, <2>2
<1>3. ById /\ Changes /\ saved.id \in OwnIn(cloud) => data.id = saved.id
  BY <1>1, <1>2 DEF IInv, Identity
<1>4. Sighted /\ op = "create" => OwnIn(cloud) \subseteq {data.id}
  <2> SUFFICES ASSUME Sighted, op = "create", NEW u \in Own PROVE u = data.id
    BY <1>1
  <2>1. u = d.id
    BY DEF IInv, Identity
  <2> QED
    BY <1>2, <2>1 DEF Sighted
<1>5. Knows(cloud, data)
  BY <1>3, <1>4 DEF Knows, IInv, Identity
<1> QED
  BY <1>5, SameCloud DEF Deletes, Looking

LEMMA ReadKeeps == ASSUME IInv, ReadObject PROVE IInv' /\ Remembers
<1>1. ~Idle /\ ~Through /\ ~Passed(Now) /\ Now.does = "read" /\ Now.does \in Looking
  BY DEF ReadObject, At, Looking
<1>2. TypedUser /\ d \in Datas /\ cloud \in Clouds /\ d.attrs \in Given
  BY KnownIds DEF IInv, Typed, Datas
<1>3. CASE \E u \in Found(Target, d.attrs) : Call(FALSE, cloud, [d EXCEPT !.id = u, !.attrs = ReadAttrs(d.attrs, u)])
  <2>1. PICK u \in Found(Target, d.attrs) : Call(FALSE, cloud, [d EXCEPT !.id = u, !.attrs = ReadAttrs(d.attrs, u)])
    BY <1>3
  <2> DEFINE data == [d EXCEPT !.id = u, !.attrs = ReadAttrs(d.attrs, u)]
  <2>2. u \in DOMAIN cloud /\ (ById /\ Exists(Target) => u = Target)
    BY FoundFacts
  <2>3. u \in Ids /\ ReadAttrs(d.attrs, u) \in Given
    BY <1>2, <2>2, ReadAttrsFacts, KnownIds
  <2>4. data \in Datas /\ data.id = u /\ data.made = d.made
    BY <1>2, <2>3 DEF Datas
  <2> HIDE DEF data
  <2>5. Knows(cloud, data) /\ Preserves(cloud)
    BY <1>1, <2>2, <2>4, LookedUpKnows
  <2> QED
    BY <1>1, <2>1, <2>5, CallKeeps DEF data
<1>4. CASE /\ R.read.by # "nothing" /\ Found(Target, d.attrs) = {}
           /\ Call(R.read.gone = "fail", cloud,
                   IF R.read.gone = "blank" THEN [d EXCEPT !.attrs = Blank(@)] ELSE [d EXCEPT !.id = NoObject])
  <2> DEFINE data == IF R.read.gone = "blank" THEN [d EXCEPT !.attrs = Blank(@)] ELSE [d EXCEPT !.id = NoObject]
  <2>1. ~(ById /\ Exists(Target))
    BY <1>4, FoundFacts
  <2>2. data \in Datas /\ data.made = d.made
    BY <1>2, BlankFacts DEF Datas, Ids
  <2> HIDE DEF data
  <2>3. Knows(cloud, data) /\ Preserves(cloud)
    BY <1>1, <2>1, <2>2, LookedUpKnows
  <2> QED
    BY <1>1, <1>4, <2>3, CallKeeps DEF data
<1>5. CASE R.read.by = "nothing" /\ Local(d)
  BY <1>1, <1>5, Unchanging, LocalKeeps DEF Deletes
<1> QED
  BY <1>3, <1>4, <1>5 DEF ReadObject

LEMMA RefindKeeps == ASSUME IInv, RefindObject PROVE IInv' /\ Remembers
<1>1. ~Idle /\ ~Through /\ ~Passed(Now) /\ Now.does = "refind" /\ Now.does \in Looking
  BY DEF RefindObject, At, Looking
<1>2. CASE \E u \in Found(d.id, d.attrs) : Call(FALSE, cloud, [d EXCEPT !.id = u])
  <2>1. PICK u \in Found(d.id, d.attrs) : Call(FALSE, cloud, [d EXCEPT !.id = u])
    BY <1>2
  <2>2. u \in DOMAIN cloud /\ (ById /\ Exists(d.id) => u = d.id)
    BY FoundFacts
  <2>3. [d EXCEPT !.id = u] \in Datas
    BY <2>2, KnownIds DEF Datas
  <2>4. Knows(cloud, [d EXCEPT !.id = u]) /\ Preserves(cloud)
    BY <1>1, <2>2, <2>3, LookedUpKnows DEF Datas
  <2> QED
    BY <1>1, <2>1, <2>4, CallKeeps
<1>3. CASE Found(d.id, d.attrs) = {} /\ Call(FALSE, cloud, d)
  BY <1>1, <1>3, Unchanging, CallKeeps DEF Deletes
<1> QED
  BY <1>2, <1>3 DEF RefindObject

LEMMA NoFaultFacts ==
  ASSUME IInv, NoFault
  PROVE  /\ faults' \in [number : 0..(MaxFaults + 1), kinds : SUBSET FaultKinds]
         /\ faults.kinds \subseteq faults'.kinds
  BY DEF NoFault, IInv, Typed, TypedUser

LEMMA RefusalKeeps == ASSUME IInv, Refusal PROVE IInv' /\ Remembers
<1>1. /\ ~Idle /\ ~Through /\ ~Passed(Now) /\ UNCHANGED cloud /\ NoFault
      /\ UNCHANGED <<kind, config, changes>>
  BY DEF Refusal, At, Outside
<1>2. Own' = Own /\ cloud \in Clouds /\ d \in Datas /\ saved \in States /\ Typed /\ TypedUser
  BY <1>1, OwnFacts DEF IInv, Typed, TypedData
<1>3. CASE ReturnError(d)
  <2>1. /\ TypedRun' /\ op' = "idle" /\ d' \in Datas /\ saved' \in States
        /\ fresh' \in BOOLEAN /\ told' \in Tellings
        /\ saved'.id = IF R.framework THEN saved.id ELSE d.id
    BY <1>2, <1>3, ReturnErrorFacts
  <2>2. op = "create" /\ R.framework => d.id = NoObject
    BY <1>1, ErrorFacts
  <2>3. op = "create" => saved.id = NoObject
    BY DEF IInv, Identity
  <2> QED
    BY <1>1, <1>2, <2>1, <2>2, <2>3, NoFaultFacts, CloudKeeps, ReturnedKeeps
<1>4. CASE At("noUpdate") /\ Stop /\ Save(saved, "error")
  <2>1. TypedRun' /\ op' = "idle" /\ d' \in Datas /\ saved' = saved /\ fresh' \in BOOLEAN /\ told' \in Tellings
    BY <1>2, <1>4, StopFacts DEF Save, Tellings
  <2>2. op # "create"
    BY <1>1, <1>4, OnlyCreate DEF At, Changes
  <2> QED
    BY <1>1, <1>2, <2>1, <2>2, NoFaultFacts, CloudKeeps, ReturnedKeeps
<1> QED
  BY <1>3, <1>4 DEF Refusal

\* A Delete that returns has passed the step that deletes the object.
LEMMA DeleteDeletes == ASSUME IInv, Through, op = "destroy", ById PROVE saved.id \notin Own
<1> USE DEF IInv, Typed
<1>1. CASE Makes
  <2>0. program = R.delete /\ program \in Seq(StepsOver(R.attrs))
    BY ProgramTyped DEF TypedUser, TypedRun, Program
  <2>1. DOMAIN program = 1..(at - 1)
    BY <2>0 DEF TypedRun, Through
  <2>2. PICK i \in DOMAIN R.delete : Deletes(R.delete[i])
    BY <1>1, Here DEF TypedUser
  <2>3. Deleted
    BY <2>0, <2>1, <2>2 DEF Deleted
  <2> QED
    BY <2>3 DEF Identity
<1>2. CASE ~Makes
  BY <1>2 DEF Identity
<1> QED
  BY <1>1, <1>2

LEMMA StateOfFacts ==
  ASSUME IInv, NEW failed \in BOOLEAN
  PROVE  StateOf(d, failed) \in States /\ StateOf(d, failed).id = d.id /\ Gone \in States /\ Gone.id = NoObject
  BY AttrsOfSchema, KnownIds DEF StateOf, Gone, States, Datas, Ids, IInv, Typed, TypedData

LEMMA ReturnKeeps == ASSUME IInv, Return PROVE IInv' /\ Remembers
<1>1. ~Idle /\ Through /\ Stop /\ UNCHANGED cloud /\ NoFault /\ UNCHANGED <<kind, config, changes>>
  BY DEF Return, NoFault
<1>2. Own' = Own /\ cloud \in Clouds /\ TypedUser /\ (op = "create" => saved.id = NoObject)
  BY <1>1, OwnFacts DEF IInv, Typed, TypedData, Identity
<1>3. TypedRun' /\ op' = "idle" /\ d' \in Datas
  BY <1>1, <1>2, StopFacts
<1>4. CASE op = "destroy" /\ Save(Gone, "none")
  <2>1. saved' \in States /\ fresh' \in BOOLEAN /\ told' \in Tellings
    BY <1>4, StateOfFacts DEF Save, Tellings
  <2>2. ById => saved.id \notin Own
    BY <1>1, <1>4, DeleteDeletes
  <2> QED
    BY <1>1, <1>2, <1>3, <1>4, <2>1, <2>2, NoFaultFacts, CloudKeeps, ReturnedKeeps
<1>5. CASE op # "destroy" /\ Save(StateOf(d, FALSE), IF Unexpected THEN "error" ELSE "ok")
  <2>1. saved' \in States /\ saved'.id = d.id /\ fresh' \in BOOLEAN /\ told' \in Tellings
    BY <1>5, StateOfFacts DEF Save, Tellings
  <2> QED
    BY <1>1, <1>2, <1>3, <2>1, NoFaultFacts, CloudKeeps, ReturnedKeeps
<1> QED
  BY <1>4, <1>5 DEF Return

LEMMA ProviderKeeps == ASSUME IInv, Provider PROVE IInv' /\ Remembers
  BY MakeKeeps, MakeUnknownKeeps, KnowKeeps, FindKeeps, AdoptKeeps, WriteKeeps, WriteNothingKeeps, ClearKeeps,
     CheckKeeps, RefusalKeeps, DropKeeps, ReadKeeps, RefindKeeps, PassOverKeeps, ReturnKeeps DEF Provider

-----------------------------------------------------------------------------
(* Terraform, the user and the others keep it.                             *)

\* Nothing runs before or after, and the cloud stays as it is.
LEMMA IdleKeeps ==
  ASSUME IInv, Idle, UNCHANGED <<kind, cloud, op, program, at, failures, d>>, TypedUser', R' = R,
         States' = States, Datas' = Datas, Clouds' = Clouds,
         faults.kinds \subseteq faults'.kinds,
         saved' \in States, fresh' \in BOOLEAN, told' \in Tellings,
         ById /\ saved.id # NoObject /\ saved'.id # saved.id => saved.id \notin Own
  PROVE  IInv' /\ Remembers
<1> USE DEF IInv, Typed
<1>1. Own' = Own /\ (Sighted' => Sighted /\ ById) /\ Makes' = Makes /\ op' = "idle" /\ ~Changes'
  BY OwnFacts DEF Sighted, Blinded, ById, Makes, Idle, Changes
<1>2. TypedRun' /\ TypedData'
  BY DEF TypedRun, TypedData, Program
<1>3. ASSUME Sighted' PROVE Own' \subseteq {saved'.id}
  <2>1. Own \subseteq {saved.id} /\ NoObject \notin Own
    BY <1>1, <1>3 DEF Identity, Idle, TypedData, Clouds, Own, NoObject, Uuid
  <2> QED
    BY <1>1, <1>3, <2>1
<1>4. Identity'
  BY <1>1, <1>3 DEF Identity
<1> QED
  BY <1>1, <1>2, <1>4 DEF Remembers

LEMMA RefreshKeeps == ASSUME IInv, Refresh PROVE IInv' /\ Remembers
<1>1. Idle /\ UNCHANGED <<kind, cloud, config, op, program, at, failures, d, faults, changes>>
  BY DEF Refresh
<1>2. TypedUser /\ saved \in States /\ saved.attrs \in Given /\ cloud \in Clouds
  BY DEF IInv, Typed, TypedData, States
<1>3. /\ TypedUser' /\ R' = R /\ Clouds' = Clouds /\ States' = States /\ Datas' = Datas
      /\ faults.kinds \subseteq faults'.kinds
  BY <1>1, <1>2, SameUser DEF TypedUser
<1>4. CASE RefreshFound
  <2>1. PICK u \in Found(saved.id, saved.attrs) :
          saved' = [saved EXCEPT !.id = u, !.attrs = ReadAttrs(saved.attrs, u)]
    BY <1>4 DEF RefreshFound
  <2>2. u \in DOMAIN cloud /\ u \in Ids /\ ReadAttrs(saved.attrs, u) \in Given
    BY <1>2, <2>1, FoundFacts, KnownIds, ReadAttrsFacts
  <2>3. saved' \in States /\ saved'.id = u
    BY <1>2, <2>1, <2>2 DEF States
  <2>4. ById /\ saved.id \in Own => u = saved.id
    BY <2>1, FoundFacts DEF Own, Exists
  <2> QED
    BY <1>1, <1>3, <1>4, <2>3, <2>4, IdleKeeps DEF RefreshFound, Tellings
<1>5. CASE RefreshGone
  <2>1. ById => saved.id \notin Own
    BY <1>5, FoundFacts DEF RefreshGone, Own, Exists
  <2>2. saved' \in States /\ fresh' \in BOOLEAN /\ told' \in Tellings
    BY <1>2, <1>5, StateOfFacts, BlankFacts DEF RefreshGone, Save, Tellings, States
  <2> QED
    BY <1>1, <1>3, <2>1, <2>2, IdleKeeps
<1>6. CASE RefreshNothing
  BY <1>1, <1>2, <1>3, <1>6, IdleKeeps DEF RefreshNothing, Tellings
<1> QED
  BY <1>4, <1>5, <1>6 DEF Refresh

\* A handler starts with the object of the state, or with none.
LEMMA LaunchKeeps ==
  ASSUME IInv, Idle, NEW handler \in {"create", "update", "destroy"}, NEW steps, NEW concerned, NEW data \in Datas,
         Launch(handler, steps, concerned, data), data.id = saved.id, data.made = NoObject,
         handler = "create" => steps = R.create /\ saved.id = NoObject,
         handler = "update" => steps = R.update /\ saved.id # NoObject,
         handler = "destroy" => steps = R.delete /\ saved.id # NoObject
  PROVE  IInv' /\ Remembers
<1> USE DEF IInv, Typed
<1>1. /\ op' = handler /\ program' = steps /\ at' = First(steps, concerned, data.attrs, 1) /\ failures' = 0 /\ d' = data
      /\ UNCHANGED <<kind, cloud, config, saved, fresh, told, faults, changes>>
  BY DEF Launch
<1>2. /\ TypedUser' /\ R' = R /\ Clouds' = Clouds /\ States' = States /\ Datas' = Datas
      /\ ById' = ById /\ Makes' = Makes
  BY <1>1, SameUser DEF TypedUser
<1>3. steps \in Seq(StepsOver(R.attrs))
  BY ProgramTyped DEF TypedUser
<1> DEFINE next == First(steps, concerned, data.attrs, 1)
<1>4. /\ next \in 1..(Len(steps) + 1)
      /\ \A j \in 1..(next - 1) : ~Matters(steps[j], concerned, data.attrs)
  BY <1>3, FirstFacts
<1> HIDE DEF next
<1>5. TypedRun' /\ TypedData'
  BY <1>1, <1>2, <1>4 DEF TypedRun, TypedData, Program, next
<1>6. ~Deleted'
  BY <1>1, <1>4 DEF Deleted, Matters, Deletes, next
<1>7. Own' = Own /\ Sighted' = Sighted
  BY <1>1, <1>2, OwnFacts DEF Sighted, Blinded
<1>8. Sighted => Own \subseteq {saved.id}
  BY DEF Identity, Idle
<1>9. Identity'
  BY <1>1, <1>2, <1>6, <1>7, <1>8 DEF Identity, Changes
<1> QED
  BY <1>1, <1>2, <1>5, <1>9 DEF Remembers

LEMMA HandlerKeeps == ASSUME IInv, Create \/ Update \/ Delete PROVE IInv' /\ Remembers
<1>1. config.attrs \in Given /\ saved \in States /\ TypedUser
  BY DEF IInv, Typed, TypedUser, TypedData
<1>2. CASE Create
  <2> DEFINE data == [NoData EXCEPT !.attrs = config.attrs]
  <2>1. data \in Datas /\ data.id = NoObject /\ data.made = NoObject
    BY <1>1 DEF NoData, Datas, Ids
  <2> HIDE DEF data
  <2>2. Idle /\ saved.id = NoObject /\ Launch("create", R.create, SetIn(config.attrs), data)
    BY <1>2 DEF Create, data
  <2> QED
    BY <2>1, <2>2, LaunchKeeps
<1>3. CASE Update
  <2> DEFINE data == [id |-> saved.id, made |-> NoObject, attrs |-> config.attrs]
  <2>1. data \in Datas /\ data.id = saved.id /\ data.made = NoObject
    BY <1>1 DEF Datas, States, Ids
  <2> HIDE DEF data
  <2>2. Idle /\ saved.id # NoObject /\ Launch("update", R.update, Changed, data)
    BY <1>3 DEF Update, data
  <2> QED
    BY <2>1, <2>2, LaunchKeeps
<1>4. CASE Delete
  <2> DEFINE data == [id |-> saved.id, made |-> NoObject, attrs |-> saved.attrs]
  <2>1. data \in Datas /\ data.id = saved.id /\ data.made = NoObject
    BY <1>1 DEF Datas, States, Ids
  <2> HIDE DEF data
  <2>2. Idle /\ saved.id # NoObject /\ Launch("destroy", R.delete, SetIn(saved.attrs), data)
    BY <1>4 DEF Delete, data
  <2> QED
    BY <2>1, <2>2, LaunchKeeps
<1> QED
  BY <1>2, <1>3, <1>4

LEMMA CrashKeeps == ASSUME IInv, Crash PROVE IInv' /\ Remembers
<1> USE DEF IInv, Typed
<1>1. /\ ~Idle /\ Fault("crash") /\ Stop /\ fresh' = FALSE /\ told' = "error"
      /\ UNCHANGED <<kind, cloud, config, saved, changes>>
  BY DEF Crash
<1>2. /\ faults' \in [number : 0..(MaxFaults + 1), kinds : SUBSET FaultKinds]
      /\ faults'.kinds = faults.kinds \cup {"crash"}
  BY <1>1, FaultFacts
<1>3. /\ TypedUser' /\ R' = R /\ Clouds' = Clouds /\ States' = States /\ Datas' = Datas /\ Makes' = Makes
  BY <1>1, <1>2, SameUser
<1>4. TypedRun' /\ op' = "idle" /\ d' \in Datas /\ ~Changes'
  BY <1>1, StopFacts DEF Changes
<1>5. ~Sighted' /\ Own' = Own
  BY <1>1, <1>2, OwnFacts DEF Sighted, Blinded
<1>6. Identity'
  BY <1>3, <1>4, <1>5 DEF Identity
<1> QED
  BY <1>1, <1>3, <1>4, <1>6 DEF TypedData, Tellings, Remembers

LEMMA EditKeeps == ASSUME IInv, Edit PROVE IInv' /\ Remembers
<1>1. /\ Idle /\ changes < MaxChanges /\ changes' = changes + 1 /\ told' = "none" /\ fresh' = FALSE
      /\ UNCHANGED <<kind, cloud, saved, op, program, at, failures, d, faults>>
  BY DEF Edit
<1>2. TypedUser /\ saved \in States
  BY DEF IInv, Typed, TypedData
<1>3. R' = R /\ Given' = Given
  BY <1>1 DEF R, Given
<1>4. config' \in [present : BOOLEAN, attrs : Given]
  <2>1. CASE config' = [config EXCEPT !.present = ~@]
    BY <1>2, <2>1 DEF TypedUser
  <2>2. CASE \E a \in Attrs, v \in Values : config' = [config EXCEPT !.attrs[a] = v]
    <3>1. PICK a \in Attrs, v \in Values : config' = [config EXCEPT !.attrs[a] = v]
      BY <2>2
    <3>2. [config.attrs EXCEPT ![a] = v] \in Given
      BY <1>2, AttrsOfSchema DEF Given, TypedUser
    <3>3. config' = [config EXCEPT !.attrs = [config.attrs EXCEPT ![a] = v]]
      BY <3>1, <1>2 DEF TypedUser
    <3> QED
      BY <1>2, <3>2, <3>3 DEF TypedUser
  <2> QED
    BY <2>1, <2>2 DEF Edit
<1>5. TypedUser'
  BY <1>1, <1>2, <1>3, <1>4, LifecycleAssumption DEF TypedUser, LifecycleAssumption
<1>6. States' = States /\ Datas' = Datas /\ Clouds' = Clouds
  BY <1>3 DEF States, Datas, Clouds, Objects
<1> QED
  BY <1>1, <1>2, <1>3, <1>5, <1>6, IdleKeeps DEF Tellings

\* Others take objects away, change their attributes, or make some of their own.
LEMMA OthersKeep ==
  ASSUME IInv, UNCHANGED <<kind, config, saved, fresh, op, program, at, failures, d, changes>>, told' = "none",
         faults' \in [number : 0..(MaxFaults + 1), kinds : SUBSET FaultKinds], faults.kinds \subseteq faults'.kinds,
         cloud' \in Clouds, Own' \subseteq Own
  PROVE  IInv' /\ Remembers
<1> USE DEF IInv, Typed
<1>1. /\ TypedUser' /\ R' = R /\ Clouds' = Clouds /\ States' = States /\ Datas' = Datas
      /\ ById' = ById /\ Makes' = Makes
  BY SameUser
<1>2. TypedRun' /\ TypedData'
  BY <1>1 DEF TypedRun, TypedData, Program, Tellings
<1>3. (Sighted' => Sighted) /\ Deleted' = Deleted /\ Named' = Named /\ Changes' = Changes
  BY <1>1 DEF Sighted, Blinded, Deleted, Named, Changes
<1>4. Identity'
  BY <1>1, <1>3 DEF Identity
<1> QED
  BY <1>1, <1>2, <1>4 DEF Remembers

LEMMA ForeignKeeps == ASSUME IInv, OutOfBand \/ CreateForeign PROVE IInv' /\ Remembers
<1>1. /\ UNCHANGED <<kind, config, saved, fresh, op, program, at, failures, d, changes>> /\ told' = "none"
      /\ \E k \in FaultKinds : Fault(k)
  BY DEF OutOfBand, CreateForeign, FaultKinds
<1>2. TypedUser /\ cloud \in Clouds
  BY DEF IInv, Typed, TypedData
<1>3. /\ faults' \in [number : 0..(MaxFaults + 1), kinds : SUBSET FaultKinds]
      /\ faults.kinds \subseteq faults'.kinds
  BY <1>1, <1>2, FaultFacts
<1>4. CASE \E u \in DOMAIN cloud : cloud' = Without(u)
  BY <1>1, <1>2, <1>3, <1>4, WithoutFacts, OwnFacts, OthersKeep
<1>5. CASE \E u \in DOMAIN cloud : \E a \in Visible, v \in Set : cloud' = [cloud EXCEPT ![u].attrs[a] = v]
  <2>1. PICK u \in DOMAIN cloud : \E a \in Visible, v \in Set : cloud' = [cloud EXCEPT ![u].attrs[a] = v]
    BY <1>5
  <2>2. PICK a \in Visible, v \in Set : cloud' = [cloud EXCEPT ![u].attrs[a] = v]
    BY <2>1
  <2> DEFINE object == [cloud[u] EXCEPT !.attrs = [cloud[u].attrs EXCEPT ![a] = v]]
  <2>3. DOMAIN cloud \subseteq Uuid /\ cloud \in [DOMAIN cloud -> Objects] /\ v \in Values
    BY <1>2, CloudsFacts DEF Set, Values
  <2>4. [cloud[u].attrs EXCEPT ![a] = v] \in Given
    BY <2>3 DEF Objects, Given
  <2>5. object \in Objects /\ object.own = cloud[u].own
    BY <2>3, <2>4 DEF Objects
  <2>6. cloud' = [cloud EXCEPT ![u] = object]
    BY <2>2, <2>3 DEF Objects
  <2> HIDE DEF object
  <2>7. DOMAIN cloud' = DOMAIN cloud /\ cloud' \in [DOMAIN cloud -> Objects]
    BY <2>3, <2>5, <2>6
  <2>8. OwnIn(cloud') = OwnIn(cloud)
    BY <2>3, <2>5, <2>6, <2>7 DEF OwnIn
  <2>9. cloud' \in Clouds
    BY <2>3, <2>7 DEF Clouds
  <2> QED
    BY <1>1, <1>3, <2>8, <2>9, OwnFacts, OthersKeep
<1>6. CASE CreateForeign
  <2>1. PICK v \in Set : cloud' = With(NewUuid, [own |-> FALSE, on |-> TRUE, attrs |-> [a \in Attrs |-> v]])
    BY <1>6 DEF CreateForeign
  <2> DEFINE object == [own |-> FALSE, on |-> TRUE, attrs |-> [a \in Attrs |-> v]]
  <2>2. object \in Objects /\ ~object.own /\ NewUuid \in Uuid
    BY <1>2, <1>6, <2>1, AttrsOfSchema, NewUuidFacts DEF CreateForeign, Objects, Given, Set, Values
  <2> HIDE DEF object
  <2>3. With(NewUuid, object) \in Clouds /\ OwnIn(With(NewUuid, object)) = Own \ {NewUuid}
    BY <1>2, <2>2, WithFacts
  <2>4. cloud' = With(NewUuid, object)
    BY <2>1 DEF object
  <2> QED
    BY <1>1, <1>3, <2>3, <2>4, OwnFacts, OthersKeep
<1> QED
  BY <1>4, <1>5, <1>6 DEF OutOfBand

-----------------------------------------------------------------------------
(* The invariant holds.                                                    *)

LEMMA InitIInv == Init => IInv
<1> SUFFICES ASSUME Init PROVE IInv
  OBVIOUS
<1> USE DEF Init
<1>1. /\ kind \in DOMAIN Catalogue /\ config = [present |-> TRUE, attrs |-> [a \in R.attrs |-> 1]]
      /\ cloud = [u \in {} |-> u] /\ faults = [number |-> 0, kinds |-> {}] /\ changes = 0
  OBVIOUS
<1>2. [a \in R.attrs |-> 1] \in Given
  BY DEF Given, Values
<1>3. TypedUser
  BY <1>1, <1>2, LifecycleAssumption DEF TypedUser, LifecycleAssumption
<1>4. TypedRun
  BY DEF TypedRun, Program
<1>5. cloud \in Clouds
  <2>1. DOMAIN cloud = {} /\ cloud \in [DOMAIN cloud -> Objects]
    BY <1>1
  <2> QED
    BY <2>1, CloudsFacts
<1>6. Gone \in States /\ NoData \in Datas /\ Gone.id = NoObject
  BY <1>3, AttrsOfSchema DEF Gone, NoData, States, Datas, Ids
<1>7. TypedData
  BY <1>5, <1>6 DEF TypedData, Tellings
<1>8. Own = {} /\ ~Changes
  BY <1>1 DEF Own, Changes
<1>9. Identity
  BY <1>8 DEF Identity
<1> QED
  BY <1>3, <1>4, <1>7, <1>9 DEF IInv, Typed

LEMMA NextIInv == IInv /\ [Next]_vars => IInv' /\ Remembers
<1> SUFFICES ASSUME IInv, [Next]_vars PROVE IInv' /\ Remembers
  OBVIOUS
<1>1. CASE UNCHANGED vars
  <2>1. R' = R /\ ById' = ById /\ Makes' = Makes /\ Given' = Given
    BY <1>1 DEF vars, R, ById, Makes, Given
  <2>2. Objects' = Objects /\ Clouds' = Clouds /\ States' = States /\ Datas' = Datas
    BY <2>1 DEF Objects, Clouds, States, Datas
  <2>3. Own' = Own /\ Sighted' = Sighted /\ Deleted' = Deleted /\ Named' = Named /\ Changes' = Changes
    BY <1>1, <2>1 DEF vars, Own, Sighted, Blinded, Deleted, Named, Changes
  <2>4. Typed'
    BY <1>1, <2>1, <2>2 DEF vars, IInv, Typed, TypedUser, TypedRun, TypedData, Program
  <2>5. Identity'
    BY <1>1, <2>1, <2>3 DEF vars, IInv, Identity
  <2> QED
    BY <1>1, <2>4, <2>5 DEF vars, IInv, Remembers
<1>2. CASE Terraform
  BY <1>2, RefreshKeeps, HandlerKeeps DEF Terraform
<1>3. CASE Provider
  BY <1>3, ProviderKeeps
<1>4. CASE Environment
  BY <1>4, EditKeeps, ForeignKeeps, CrashKeeps DEF Environment
<1> QED
  BY <1>1, <1>2, <1>3, <1>4 DEF Next

-----------------------------------------------------------------------------
(* What is turned off.                                                     *)

\* The handler works on the object u, and there is a step before it, one that matters and that
\* turns it on again or deletes it, after none that could fail while u exists.
Unfailing(s) == s.does \in Harmless \/ (s.does = "read" /\ R.read.by = "id")
Mends(s) ==
  /\ s.does = "on" \/ (s.does = "drop" /\ R.protects = {})
  /\ s.when = "always" /\ Matters(s, Concerned, Planned)
Pending(u) ==
  /\ ~Idle /\ Changes /\ d.id = u
  /\ \E j \in at..Len(program) : Mends(program[j]) /\ \A l \in at..(j - 1) : Unfailing(program[l])

PowerInv ==
  /\ IInv
  /\ ~Idle /\ ~Through => Matters(Now, Concerned, Planned)
  /\ faults.number = 0 => \A u \in Own : cloud[u].on \/ Pending(u)

\* A step of the program changes nothing about which steps matter.
LEMMA SameConcerns ==
  ASSUME UNCHANGED <<kind, config, op, program, saved>>, Attrs' = Attrs
  PROVE  /\ Concerned' = Concerned /\ Planned' = Planned
         /\ \A s : Matters(s, Concerned, Planned)' <=> Matters(s, Concerned, Planned)
  BY DEF Concerned, Planned, SetIn, Changed, Matters, Attrs

\* A handler that goes on is at a step that matters, and past none that does not.
LEMMA ProceedMatters ==
  ASSUME IInv, ~Idle, ~Through, NEW data, Proceed(data), UNCHANGED <<kind, config>>
  PROVE  /\ ~Through' => Matters(Now, Concerned, Planned)'
         /\ at' \in (at + 1)..(Len(program) + 1)
         /\ \A j \in (at + 1)..(at' - 1) : ~Matters(program[j], Concerned, Planned)
         /\ UNCHANGED <<op, program, saved, told, fresh>> /\ d' = data
<1>1. program \in Seq(StepsOver(R.attrs)) /\ at \in DOMAIN program
  BY ProgramTyped, NowTyped DEF IInv, Typed, TypedUser
<1>2. Len(program) \in Nat /\ at \in 1..Len(program)
  BY <1>1
<1> DEFINE next == First(program, Concerned, Planned, at + 1)
<1>3. /\ next \in (at + 1)..(Len(program) + 1)
      /\ \A j \in (at + 1)..(next - 1) : ~Matters(program[j], Concerned, Planned)
      /\ next <= Len(program) => Matters(program[next], Concerned, Planned)
  BY <1>2, FirstFacts
<1>4. /\ at' = next /\ d' = data /\ UNCHANGED <<op, program, saved, told, fresh>>
  BY DEF Proceed, Running
<1> HIDE DEF next
<1>5. Concerned' = Concerned /\ Planned' = Planned /\ Now' = program[next]
  BY <1>4, SameConcerns DEF Attrs, Now
<1>6. Matters(program[next], Concerned, Planned) => Matters(Now, Concerned, Planned)'
  BY <1>4, <1>5 DEF Matters
<1>7. ~Through' => next <= Len(program)
  BY <1>2, <1>3, <1>4 DEF Through
<1> QED
  BY <1>3, <1>4, <1>6, <1>7

\* So it comes nearer to the step that mends what it did.
LEMMA MendsAhead ==
  ASSUME IInv, ~Idle, ~Through, Changes, NEW data, Proceed(data), UNCHANGED <<kind, config>>,
         NEW j \in (at + 1)..Len(program), Mends(program[j]), \A l \in (at + 1)..(j - 1) : Unfailing(program[l])
  PROVE  Pending(data.id)'
<1>1. /\ at' \in (at + 1)..(Len(program) + 1)
      /\ \A i \in (at + 1)..(at' - 1) : ~Matters(program[i], Concerned, Planned)
      /\ UNCHANGED <<op, program, saved, told, fresh>> /\ d' = data
  BY ProceedMatters
<1>2. at \in Nat /\ Len(program) \in Nat
  BY NowTyped, ProgramTyped DEF IInv, Typed, TypedUser
<1> DEFINE next == at'
<1>3. next \in (at + 1)..(Len(program) + 1) /\ \A i \in (at + 1)..(next - 1) : ~Matters(program[i], Concerned, Planned)
  BY <1>1
<1> HIDE DEF next
<1>4. Matters(program[j], Concerned, Planned)
  BY DEF Mends
<1>5. j \in next..Len(program) /\ next..(j - 1) \subseteq (at + 1)..(j - 1)
  BY <1>2, <1>3, <1>4
<1>6. Concerned' = Concerned /\ Planned' = Planned /\ R' = R
  BY <1>1, SameConcerns DEF Attrs, R
<1>7. Mends(program[j])' /\ \A l \in next..(j - 1) : Unfailing(program[l])'
  BY <1>1, <1>5, <1>6 DEF Mends, Unfailing, Matters
<1> QED
  BY <1>1, <1>5, <1>7 DEF Pending, Idle, Changes, next

\* What a call does when nothing goes wrong.
LEMMA FaultlessCall ==
  ASSUME IInv, NEW refused, NEW result, NEW data, Call(refused, result, data), faults'.number = 0
  PROVE  \/ ~refused /\ cloud' = result /\ Proceed(data)
         \/ refused /\ UNCHANGED cloud /\ GiveUp
<1>1. TypedUser
  BY DEF IInv, Typed
<1>2. \A k \in {"apiError", "lostReply"} : ~Fault(k)
  BY <1>1, FaultFacts
<1> QED
  BY <1>2 DEF Call

\* A call turns the cloud into what it is to become, or leaves it.
LEMMA CallCloud ==
  ASSUME NEW refused, NEW result, NEW data, Call(refused, result, data)
  PROVE  (cloud' = result \/ cloud' = cloud) /\ UNCHANGED <<kind, config>>
  BY DEF Call, Outside

LEMMA WithOwn ==
  ASSUME cloud \in Clouds, NEW v \in Uuid, NEW object \in Objects, NEW u \in OwnIn(With(v, object))
  PROVE  /\ u \in DOMAIN cloud \cup {v} /\ With(v, object)[u].own
         /\ With(v, object)[u] = IF u = v THEN object ELSE cloud[u]
<1>1. u \in DOMAIN With(v, object) /\ With(v, object)[u].own
  BY DEF OwnIn
<1>2. DOMAIN With(v, object) = DOMAIN cloud \cup {v}
  BY WithFacts
<1>3. \A w \in DOMAIN cloud \cup {v} : With(v, object)[w] = IF w = v THEN object ELSE cloud[w]
  BY WithFacts
<1> QED
  BY <1>1, <1>2, <1>3

\* Only one step turns an object of the provider's off.
LEMMA StaysOn ==
  ASSUME IInv, Provider, ~TurnObjectOff, NEW u \in OwnIn(cloud'), ~cloud'[u].on
  PROVE  u \in Own /\ ~cloud[u].on
<1>1. cloud \in Clouds /\ d \in Datas /\ TypedUser /\ DOMAIN cloud \subseteq Uuid
  BY KnownIds, CloudsFacts DEF IInv, Typed
<1>2. CASE cloud' = cloud
  BY <1>2, OwnFacts
<1>3. ASSUME NEW object \in Objects, NEW v \in Uuid, cloud' = With(v, object), object.own => object.on
      PROVE  u \in Own /\ ~cloud[u].on
  <2>1. u \in DOMAIN cloud \cup {v} /\ cloud'[u] = (IF u = v THEN object ELSE cloud[u]) /\ cloud'[u].own
    BY <1>1, <1>3, WithOwn
  <2> QED
    BY <1>3, <2>1 DEF Own
<1>4. CASE MakeObject \/ MakeObjectWithout \/ MakeUnknownObject
  <2>1. NewUuid \in Uuid
    BY <1>4, NewUuidFacts DEF MakeObject, MakeObjectWithout, MakeUnknownObject
  <2>2. \A s : NewObject(s) \in Objects /\ NewObject(s).on
    BY <1>1, NewObjectFacts
  <2>3. ASSUME NEW s, cloud' = With(NewUuid, NewObject(s)) PROVE u \in Own /\ ~cloud[u].on
    BY <1>3, <2>1, <2>2, <2>3
  <2>4. CASE MakeObject \/ MakeUnknownObject
    <3>1. cloud' = With(NewUuid, NewObject(Now)) \/ cloud' = cloud
      BY <2>4, CallCloud DEF MakeObject, MakeUnknownObject
    <3> QED
      BY <1>2, <2>3, <3>1
  <2>5. CASE MakeObjectWithout
    BY <2>3, <2>5 DEF MakeObjectWithout, CallWithout
  <2> QED
    BY <1>4, <2>4, <2>5
<1>5. CASE AdoptObject
  <2> DEFINE object == [BlankObject EXCEPT !.own = FALSE]
  <2>1. NewUuid \in Uuid /\ object \in Objects /\ ~object.own
    BY <1>1, <1>5, NewUuidFacts, NewObjectFacts DEF AdoptObject, Objects
  <2>2. cloud' = With(NewUuid, object) \/ cloud' = cloud
    BY <1>5 DEF AdoptObject
  <2> HIDE DEF object
  <2> QED
    BY <1>2, <1>3, <2>1, <2>2
<1>6. ASSUME NEW object, Changing(object), Exists(Target) => object \in Objects /\ object.own = cloud[Target].own,
             Exists(Target) => object.on = cloud[Target].on \/ object.on
      PROVE  u \in Own /\ ~cloud[u].on
  <2>1. CASE Exists(Target)
    <3>1. cloud' = With(Target, object) \/ cloud' = cloud
      BY <1>6, <2>1, CallCloud DEF Changing
    <3>2. ASSUME cloud' = With(Target, object) PROVE u \in Own /\ ~cloud[u].on
      <4>1. Target \in Uuid
        BY <1>1, <2>1 DEF Exists
      <4>2. u \in DOMAIN cloud /\ cloud'[u] = (IF u = Target THEN object ELSE cloud[u]) /\ cloud'[u].own
        BY <1>1, <1>6, <2>1, <3>2, <4>1, WithOwn DEF Exists
      <4> QED
        BY <1>6, <2>1, <4>2 DEF Own
    <3> QED
      BY <1>2, <3>1, <3>2
  <2>2. CASE ~Exists(Target)
    BY <1>2, <1>6, <2>2, CallCloud DEF Changing
  <2> QED
    BY <2>1, <2>2
<1>7. d.attrs \in Given /\ Nothing \in Given /\ [a \in Attrs |-> 2] \in Given /\ (Exists(Target) => cloud[Target] \in Objects)
  BY <1>1, AttrsOfSchema, CloudsFacts DEF Datas, Given, Values, Exists
<1>8. CASE WriteObject
  BY <1>1, <1>6, <1>7, <1>8, WrittenFacts DEF WriteObject
<1>9. CASE ClearObject
  BY <1>1, <1>6, <1>7, <1>9, WrittenFacts DEF ClearObject, Cleared
<1>10. CASE DisableObject
  BY <1>1, <1>6, <1>7, <1>10, WrittenFacts DEF DisableObject
<1>11. CASE TurnObjectOn
  <2>1. Exists(Target) => /\ [cloud[Target] EXCEPT !.on = TRUE] \in Objects
                          /\ [cloud[Target] EXCEPT !.on = TRUE].own = cloud[Target].own
                          /\ [cloud[Target] EXCEPT !.on = TRUE].on
    BY <1>7 DEF Objects
  <2> QED
    BY <1>6, <1>11, <2>1 DEF TurnObjectOn
<1>12. CASE DropObject
  <2>1. cloud' = Without(d.id) \/ cloud' = cloud
    BY <1>12, CallCloud DEF DropObject
  <2>2. ASSUME cloud' = Without(d.id) PROVE u \in Own /\ ~cloud[u].on
    BY <1>1, <2>2, WithoutFacts DEF OwnIn, Own
  <2> QED
    BY <1>2, <2>1, <2>2
<1>13. CASE FindObject \/ FindNamedObject \/ CheckObject \/ RefindObject
  <2>1. cloud' = cloud
    BY <1>13, CallCloud DEF FindObject, FindNamedObject, CheckObject, RefindObject
  <2> QED
    BY <1>2, <2>1
<1>14. CASE ReadObject
  <2>1. cloud' = cloud
    BY <1>14, CallCloud DEF ReadObject, Local
  <2> QED
    BY <1>2, <2>1
<1>15. CASE KnowObject \/ PassOver \/ Refusal \/ Return \/ WriteNothing
  BY <1>2, <1>15 DEF KnowObject, PassOver, Refusal, Return, WriteNothing, CallWithout, Local
<1>16. CASE RenameObject
  <2>1. PICK a : Changing([cloud[Target] EXCEPT !.attrs["name"] = d.attrs[a]]) /\ d.attrs[a] \in Values
    <3>1. Now \in StepsOver(R.attrs)
      BY <1>1, <1>16, NowTyped DEF RenameObject, At, IInv, Typed
    <3> QED
      BY <1>7, <1>16, <3>1 DEF RenameObject, StepsOver, Given
  <2> DEFINE object == [cloud[Target] EXCEPT !.attrs["name"] = d.attrs[a]]
  <2>2. Exists(Target) => object \in Objects /\ object.own = cloud[Target].own /\ object.on = cloud[Target].on
    BY <1>7, <2>1 DEF Objects, Given
  <2> HIDE DEF object
  <2>3. Changing(object)
    BY <2>1 DEF object
  <2> QED
    BY <1>6, <2>2, <2>3
<1>17. CASE ClearObjectIfPossible
  <2>1. cloud' = cloud \/ (Exists(Target) /\ cloud' = With(Target, Cleared))
    BY <1>17 DEF ClearObjectIfPossible, CallLogged
  <2>2. ASSUME Exists(Target), cloud' = With(Target, Cleared) PROVE u \in Own /\ ~cloud[u].on
    <3>1. Target \in Uuid /\ Cleared \in Objects /\ Cleared.own = cloud[Target].own /\ Cleared.on = cloud[Target].on
      BY <1>1, <1>7, <2>2, WrittenFacts DEF Exists, Cleared
    <3>2. u \in DOMAIN cloud /\ cloud'[u] = (IF u = Target THEN Cleared ELSE cloud[u]) /\ cloud'[u].own
      BY <1>1, <2>2, <3>1, WithOwn DEF Exists
    <3> QED
      BY <3>1, <3>2 DEF Own
  <2> QED
    BY <1>2, <2>1, <2>2
<1> QED
  BY <1>4, <1>5, <1>8, <1>9, <1>10, <1>11, <1>12, <1>13, <1>14, <1>15, <1>16, <1>17 DEF Provider

\* A step that cannot fail on its own, while the object exists and no fault occurs: the
\* handler goes on with it.
LEMMA UnfailingProceeds ==
  ASSUME IInv, Provider, faults'.number = 0, ~Idle, ~Through, Unfailing(Now), Exists(d.id)
  PROVE  UNCHANGED <<kind, config>> /\ \E data : data.id = d.id /\ Proceed(data)
<1> DEFINE Goes == UNCHANGED <<kind, config>> /\ \E data : data.id = d.id /\ Proceed(data)
<1>1. Target = d.id /\ Exists(Target)
  BY KnownIds, CloudsFacts DEF Target, Exists, NoObject, Uuid
<1>2. ASSUME NEW result, NEW data, Call(FALSE, result, data), data.id = d.id PROVE Goes
  BY <1>2, FaultlessCall, CallCloud
<1>3. d \in Datas
  BY KnownIds
<1>4. ASSUME NEW object, Changing(object) PROVE Goes
  <2>1. Call(FALSE, With(Target, object), Answered(object))
    BY <1>1, <1>4 DEF Changing
  <2>2. Answered(object).id = d.id
    BY <1>3 DEF Answered, Datas
  <2> QED
    BY <1>2, <2>1, <2>2
<1>5. CASE WriteObject \/ ClearObject \/ DisableObject \/ TurnObjectOff
  BY <1>4, <1>5 DEF WriteObject, ClearObject, DisableObject, TurnObjectOff
<1>6. CASE CheckObject \/ WriteNothing \/ ClearObjectIfPossible
  BY <1>2, <1>6 DEF CheckObject, WriteNothing, CallWithout, ClearObjectIfPossible, CallLogged, Outside
<1>7. CASE PassOver
  BY <1>7 DEF PassOver, Local, Outside
<1>8. CASE ReadObject
  <2>1. R.read.by = "id" /\ Found(Target, d.attrs) = {d.id}
    BY <1>1, <1>8, FoundFacts DEF ReadObject, At, Unfailing, Harmless, ById, ByIdentity
  <2>2. Call(FALSE, cloud, [d EXCEPT !.id = d.id, !.attrs = ReadAttrs(d.attrs, d.id)])
    BY <2>1, <1>8 DEF ReadObject
  <2>3. [d EXCEPT !.id = d.id, !.attrs = ReadAttrs(d.attrs, d.id)].id = d.id
    BY <1>3 DEF Datas
  <2> QED
    BY <1>2, <2>2, <2>3
<1> QED
  BY <1>5, <1>6, <1>7, <1>8 DEF Provider, MakeObject, MakeObjectWithout, MakeUnknownObject, KnowObject, FindObject,
     AdoptObject, RenameObject, TurnObjectOn, Refusal, DropObject, FindNamedObject, RefindObject, Return, At, Unfailing, Harmless

\* The step that mends: it does.
LEMMA Mending ==
  ASSUME IInv, Provider, faults'.number = 0, ~Idle, ~Through, Mends(Now), Exists(d.id), d.id \in OwnIn(cloud')
  PROVE  cloud'[d.id].on
<1>1. Target = d.id /\ Exists(Target) /\ cloud \in Clouds /\ d.id \in Uuid
  BY KnownIds, CloudsFacts DEF Target, Exists, NoObject, Uuid
<1>2. CASE TurnObjectOn
  <2> DEFINE object == [cloud[Target] EXCEPT !.on = TRUE]
  <2>1. object \in Objects /\ object.on
    <3>1. cloud[Target] \in Objects
      BY <1>1, CloudsFacts DEF Exists
    <3> QED
      BY <3>1 DEF Objects
  <2>2. Call(FALSE, With(d.id, object), Answered(object))
    BY <1>1, <1>2 DEF TurnObjectOn, Changing
  <2> HIDE DEF object
  <2>3. cloud' = With(d.id, object)
    BY <2>2, FaultlessCall
  <2>4. cloud'[d.id] = object
    BY <1>1, <2>1, <2>3, WithOwn
  <2> QED
    BY <2>1, <2>4
<1>3. CASE DropObject
  <2>1. ~(Protected(d.id) \/ (~Exists(d.id) /\ ~Now.lenient))
    BY <1>1, <1>3 DEF DropObject, At, Mends, Protected
  <2>2. cloud' = Without(d.id)
    BY <1>3, <2>1, FaultlessCall DEF DropObject
  <2>3. OwnIn(cloud') = Own \ {d.id}
    BY <1>1, <2>2, WithoutFacts
  <2> QED
    BY <2>3
<1> QED
  BY <1>2, <1>3 DEF Provider, MakeObject, MakeObjectWithout, MakeUnknownObject, KnowObject, FindObject, AdoptObject,
     WriteObject, WriteNothing, RenameObject, ClearObject, ClearObjectIfPossible, DisableObject, TurnObjectOff, CheckObject, Refusal, ReadObject, FindNamedObject, RefindObject,
     PassOver, Passed, Return, At, Mends

\* What a step turns off has a step ahead that mends it.
LEMMA TurnOffPends ==
  ASSUME PowerInv, TurnObjectOff, faults'.number = 0, NEW u \in OwnIn(cloud'), ~cloud'[u].on, u \notin Own \/ cloud[u].on
  PROVE  Pending(u)'
<1> USE DEF PowerInv
<1>1. ~Idle /\ ~Through /\ Now.does = "off" /\ Matters(Now, Concerned, Planned)
  BY DEF TurnObjectOff, At
<1>2. Changes /\ d.made = NoObject /\ op \in {"update", "destroy"}
  BY <1>1, OnlyCreate DEF IInv, Identity, Changes
<1>3. cloud \in Clouds /\ d \in Datas /\ Own = OwnIn(cloud)
  BY KnownIds, OwnFacts
<1>4. Exists(Target)
  <2> SUFFICES ASSUME ~Exists(Target) PROVE FALSE
    OBVIOUS
  <2>1. cloud' = cloud
    BY CallCloud DEF TurnObjectOff, Changing
  <2> QED
    BY <1>3, <2>1
<1>5. Target = d.id /\ d.id \in Uuid
  BY <1>2, <1>3, <1>4, CloudsFacts DEF Target, Exists, NoObject, Uuid
<1> DEFINE object == [cloud[Target] EXCEPT !.on = FALSE]
           data == Answered(object)
<1>6. object \in Objects /\ object.own = cloud[Target].own
  BY <1>3, <1>4, CloudsFacts DEF Objects, Exists
<1>7. Call(FALSE, With(Target, object), data)
  BY <1>4 DEF TurnObjectOff, Changing
<1>8. data.id = d.id
  BY <1>3 DEF Answered, Datas
<1> HIDE DEF object, data
<1>9. cloud' = With(Target, object) /\ Proceed(data) /\ UNCHANGED <<kind, config>>
  BY <1>7, FaultlessCall, CallCloud
<1>10. u = d.id
  <2>1. u \in DOMAIN cloud \cup {Target} /\ cloud'[u].own /\ cloud'[u] = IF u = Target THEN object ELSE cloud[u]
    BY <1>3, <1>5, <1>6, <1>9, WithOwn
  <2> QED
    BY <1>5, <2>1 DEF Own
<1>11. program \in {R.update, R.delete} /\ at \in DOMAIN program /\ program \in Seq(StepsOver(R.attrs))
  BY <1>1, <1>2, NowTyped, ProgramTyped DEF IInv, Typed, TypedUser, TypedRun, Program
<1>12. RestoredIn(R, program, at)
  BY <1>1, <1>11, Here DEF IInv, Typed, TypedUser, Now
<1>13. PICK j \in (at + 1)..Len(program) :
         /\ Restores(R, program[j], program[at])
         /\ \A l \in (at + 1)..(j - 1) : program[l].does \in Harmless \/ (program[l].does = "read" /\ R.read.by = "id")
  BY <1>12 DEF RestoredIn
<1>14. Matters(program[j], Concerned, Planned)
  BY <1>1, <1>13 DEF Restores, Matters, Now
<1>15. Mends(program[j])
  BY <1>13, <1>14 DEF Mends, Restores
<1>16. \A l \in (at + 1)..(j - 1) : Unfailing(program[l])
  BY <1>13 DEF Unfailing
<1> QED
  BY <1>1, <1>2, <1>8, <1>9, <1>10, <1>15, <1>16, MendsAhead

\* And it stays ahead until it is reached.
LEMMA StaysPending ==
  ASSUME IInv, Provider, faults'.number = 0, NEW u \in OwnIn(cloud'), ~cloud'[u].on, u \in Own, Pending(u)
  PROVE  Pending(u)'
<1>1. PICK j \in at..Len(program) : Mends(program[j]) /\ \A l \in at..(j - 1) : Unfailing(program[l])
  BY DEF Pending
<1>2. ~Idle /\ Changes /\ d.id = u /\ Exists(u)
  BY DEF Pending, Own, Exists
<1>3. at \in Nat /\ Len(program) \in Nat /\ ~Through
  <2>1. program \in Seq(StepsOver(R.attrs)) /\ at \in Nat
    BY ProgramTyped DEF IInv, Typed, TypedUser, TypedRun
  <2> QED
    BY <1>1, <2>1 DEF Through
<1>4. j # at
  BY <1>1, <1>2, <1>3, Mending DEF Now
<1>5. Unfailing(Now)
  BY <1>1, <1>3, <1>4 DEF Now
<1>6. UNCHANGED <<kind, config>> /\ \E data : data.id = d.id /\ Proceed(data)
  BY <1>2, <1>3, <1>5, UnfailingProceeds
<1>7. PICK data : data.id = d.id /\ Proceed(data)
  BY <1>6
<1>8. j \in (at + 1)..Len(program) /\ \A l \in (at + 1)..(j - 1) : Unfailing(program[l])
  BY <1>1, <1>3, <1>4
<1> QED
  BY <1>1, <1>2, <1>3, <1>6, <1>7, <1>8, MendsAhead

\* A handler that goes on, or tries again, is at a step that matters.
LEMMA GiveUpMatters ==
  ASSUME IInv, ~Idle, ~Through, Matters(Now, Concerned, Planned), GiveUp, UNCHANGED <<kind, config>>
  PROVE  ~Idle' /\ ~Through' => Matters(Now, Concerned, Planned)'
<1>1. CASE UNCHANGED <<at, d>> /\ Running
  <2>1. Now' = Now /\ Concerned' = Concerned /\ Planned' = Planned
    BY <1>1, SameConcerns DEF Running, Attrs, Now
  <2> QED
    BY <1>1, <2>1 DEF Running, Matters
<1>2. CASE at' = Len(program) + 1 /\ Running
  <2>1. Len(program) \in Nat
    BY ProgramTyped DEF IInv, Typed, TypedUser
  <2> QED
    BY <1>2, <2>1 DEF Running, Through
<1>3. ASSUME NEW data, ReturnError(data) PROVE Idle'
  BY <1>3 DEF ReturnError, Stop, Idle
<1> QED
  BY <1>1, <1>2, <1>3 DEF GiveUp

LEMMA ProviderMatters ==
  ASSUME PowerInv, Provider
  PROVE  ~Idle' /\ ~Through' => Matters(Now, Concerned, Planned)'
<1> DEFINE Goal == ~Idle' /\ ~Through' => Matters(Now, Concerned, Planned)'
<1> USE DEF PowerInv
<1>1. CASE Return
  BY <1>1 DEF Return, Stop, Idle
<1>2. CASE Refusal
  BY <1>2 DEF Refusal, ReturnError, Stop, Idle
<1>3. SUFFICES ASSUME ~Return, ~Refusal PROVE Goal
  BY <1>1, <1>2
<1>4. ~Idle /\ ~Through /\ Matters(Now, Concerned, Planned)
  BY <1>3 DEF Provider, MakeObject, MakeObjectWithout, MakeUnknownObject, KnowObject, FindObject, AdoptObject,
     WriteObject, WriteNothing, RenameObject, ClearObject, ClearObjectIfPossible, DisableObject, TurnObjectOff,
     TurnObjectOn, CheckObject, DropObject, ReadObject, FindNamedObject, RefindObject, PassOver, At
<1>5. ASSUME NEW data, Proceed(data), UNCHANGED <<kind, config>> PROVE Goal
  BY <1>4, <1>5, ProceedMatters
<1>6. ASSUME NEW refused, NEW result, NEW data, Call(refused, result, data) PROVE Goal
  <2>1. UNCHANGED <<kind, config>>
    BY <1>6, CallCloud
  <2>2. CASE GiveUp
    BY <1>4, <2>1, <2>2, GiveUpMatters
  <2>3. CASE Proceed(data)
    BY <1>5, <2>1, <2>3
  <2> QED
    BY <1>6, <2>2, <2>3 DEF Call
<1>7. ASSUME NEW data, Local(data) PROVE Goal
  BY <1>5, <1>7 DEF Local, Outside
<1>8. ASSUME NEW object, Changing(object) PROVE Goal
  BY <1>6, <1>8 DEF Changing
<1> HIDE DEF Goal
<1>9. CASE MakeObject \/ MakeUnknownObject \/ FindObject \/ FindNamedObject
  BY <1>6, <1>9 DEF MakeObject, MakeUnknownObject, FindObject, FindNamedObject
<1>10. CASE CheckObject \/ DropObject \/ RefindObject
  BY <1>6, <1>10 DEF CheckObject, DropObject, RefindObject
<1>11. CASE ReadObject
  BY <1>6, <1>7, <1>11 DEF ReadObject
<1>12. CASE KnowObject \/ PassOver
  BY <1>7, <1>12 DEF KnowObject, PassOver
<1>13. CASE WriteObject \/ RenameObject \/ ClearObject \/ DisableObject \/ TurnObjectOff \/ TurnObjectOn
  BY <1>8, <1>13 DEF WriteObject, RenameObject, ClearObject, DisableObject, TurnObjectOff, TurnObjectOn
<1>14. CASE AdoptObject \/ MakeObjectWithout \/ WriteNothing \/ ClearObjectIfPossible
  <2>1. UNCHANGED <<kind, config>> /\ \E data : Proceed(data)
    BY <1>14 DEF AdoptObject, MakeObjectWithout, WriteNothing, CallWithout, ClearObjectIfPossible, CallLogged, Outside
  <2> QED
    BY <1>5, <2>1
<1> QED
  BY <1>3, <1>9, <1>10, <1>11, <1>12, <1>13, <1>14 DEF Provider

\* Every handler starts at a step that matters.
LEMMA HandlerMatters ==
  ASSUME IInv, Create \/ Update \/ Delete
  PROVE  ~Idle' /\ ~Through' => Matters(Now, Concerned, Planned)'
<1>1. ASSUME NEW handler, NEW steps \in Seq(StepsOver(R.attrs)), NEW concerned, NEW data,
             Launch(handler, steps, concerned, data), Concerned' = concerned, Planned' = data.attrs
      PROVE  ~Through' => Matters(Now, Concerned, Planned)'
  <2> DEFINE next == First(steps, concerned, data.attrs, 1)
  <2>1. /\ next \in 1..(Len(steps) + 1)
        /\ next <= Len(steps) => Matters(steps[next], concerned, data.attrs)
    BY FirstFacts
  <2>2. at' = next /\ program' = steps /\ UNCHANGED saved
    BY <1>1 DEF Launch
  <2> HIDE DEF next
  <2>3. ~Through' => next <= Len(steps)
    BY <2>1, <2>2 DEF Through
  <2>4. Matters(steps[next], concerned, data.attrs) => Matters(Now, Concerned, Planned)'
    BY <1>1, <2>2 DEF Matters, Now
  <2> QED
    BY <2>1, <2>3, <2>4
<1>2. R.create \in Seq(StepsOver(R.attrs)) /\ R.update \in Seq(StepsOver(R.attrs)) /\ R.delete \in Seq(StepsOver(R.attrs))
  BY ProgramTyped DEF IInv, Typed, TypedUser
<1>3. CASE Create
  <2> DEFINE data == [NoData EXCEPT !.attrs = config.attrs]
  <2>1. Launch("create", R.create, SetIn(config.attrs), data) /\ data.attrs = config.attrs
    BY <1>3 DEF Create, NoData
  <2> HIDE DEF data
  <2>2. Concerned' = SetIn(config.attrs) /\ Planned' = config.attrs
    BY <2>1 DEF Launch, Concerned, Planned, SetIn, Attrs
  <2> QED
    BY <1>1, <1>2, <2>1, <2>2
<1>4. CASE Update
  <2> DEFINE data == [id |-> saved.id, made |-> NoObject, attrs |-> config.attrs]
  <2>1. Launch("update", R.update, Changed, data) /\ data.attrs = config.attrs
    BY <1>4 DEF Update
  <2> HIDE DEF data
  <2>2. Concerned' = Changed /\ Planned' = config.attrs
    BY <2>1 DEF Launch, Concerned, Planned, Changed, Attrs
  <2> QED
    BY <1>1, <1>2, <2>1, <2>2
<1>5. CASE Delete
  <2> DEFINE data == [id |-> saved.id, made |-> NoObject, attrs |-> saved.attrs]
  <2>1. Launch("destroy", R.delete, SetIn(saved.attrs), data) /\ data.attrs = saved.attrs
    BY <1>5 DEF Delete
  <2> HIDE DEF data
  <2>2. Concerned' = SetIn(saved.attrs) /\ Planned' = saved.attrs
    BY <2>1 DEF Launch, Concerned, Planned, SetIn, Attrs
  <2> QED
    BY <1>1, <1>2, <2>1, <2>2
<1> QED
  BY <1>3, <1>4, <1>5

\* A step without faults follows one without.
LEMMA ProviderFaults == ASSUME TypedUser, Provider, faults'.number = 0 PROVE faults.number = 0
<1>1. \A k : ~Fault(k)
  BY FaultFacts
<1>2. ASSUME NEW refused, NEW result, NEW data, Call(refused, result, data) PROVE NoFault
  BY <1>1, <1>2 DEF Call
<1>3. NoFault
  <2>1. ASSUME NEW object, Changing(object) PROVE NoFault
    BY <1>2, <2>1 DEF Changing
  <2>2. CASE MakeObject \/ MakeUnknownObject \/ FindObject \/ FindNamedObject
    BY <1>2, <2>2 DEF MakeObject, MakeUnknownObject, FindObject, FindNamedObject
  <2>3. CASE CheckObject \/ DropObject \/ RefindObject
    BY <1>2, <2>3 DEF CheckObject, DropObject, RefindObject
  <2>4. CASE ReadObject
    BY <1>2, <2>4 DEF ReadObject, Local
  <2>5. CASE KnowObject \/ PassOver \/ AdoptObject \/ Refusal
    BY <2>5 DEF KnowObject, PassOver, AdoptObject, Refusal, Local
  <2>6. CASE WriteObject \/ RenameObject \/ ClearObject \/ DisableObject \/ TurnObjectOff \/ TurnObjectOn
    BY <2>1, <2>6 DEF WriteObject, RenameObject, ClearObject, DisableObject, TurnObjectOff, TurnObjectOn
  <2>7. CASE Return
    BY <2>7 DEF Return, NoFault
  <2>8. CASE MakeObjectWithout \/ WriteNothing \/ ClearObjectIfPossible
    BY <1>1, <2>8 DEF MakeObjectWithout, WriteNothing, CallWithout, ClearObjectIfPossible, CallLogged
  <2> QED
    BY <2>2, <2>3, <2>4, <2>5, <2>6, <2>7, <2>8 DEF Provider
<1> QED
  BY <1>3 DEF NoFault

LEMMA InitPower == Init => PowerInv
<1> SUFFICES ASSUME Init PROVE PowerInv
  OBVIOUS
<1>1. Idle /\ Own = {}
  BY DEF Init, Idle, Own
<1> QED
  BY <1>1, InitIInv DEF PowerInv

\* The power of an idle provider's objects: nothing but a fault changes it.
LEMMA NextPower == PowerInv /\ [Next]_vars => PowerInv'
<1> SUFFICES ASSUME PowerInv, [Next]_vars PROVE PowerInv'
  OBVIOUS
<1>1. IInv' /\ IInv /\ TypedUser
  BY NextIInv DEF PowerInv, IInv, Typed
<1> DEFINE AtMatter == ~Idle /\ ~Through => Matters(Now, Concerned, Planned)
           Power == faults.number = 0 => \A u \in Own : cloud[u].on \/ Pending(u)
<1>2. ASSUME \E k \in FaultKinds : Fault(k) PROVE Power'
  BY <1>1, <1>2, FaultFacts
<1>3. CASE Refresh \/ Edit
  <2>1. Idle /\ Idle' /\ cloud' = cloud /\ faults' = faults
    BY <1>3 DEF Refresh, Edit, Idle
  <2> QED
    BY <1>1, <2>1, OwnFacts DEF PowerInv, Pending
<1>4. CASE Create \/ Update \/ Delete
  <2>1. Idle /\ cloud' = cloud /\ faults' = faults
    BY <1>4 DEF Create, Update, Delete, Launch
  <2>2. Power'
    BY <2>1, OwnFacts DEF PowerInv, Pending
  <2> QED
    BY <1>1, <1>4, <2>2, HandlerMatters DEF PowerInv
<1>5. CASE Crash
  <2>1. Idle' /\ Power'
    BY <1>2, <1>5 DEF Crash, Stop, Idle, FaultKinds
  <2> QED
    BY <1>1, <2>1 DEF PowerInv
<1>6. CASE OutOfBand \/ CreateForeign
  <2>1. Power' /\ UNCHANGED <<kind, config, saved, op, program, at>>
    BY <1>2, <1>6 DEF OutOfBand, CreateForeign, FaultKinds
  <2>2. Concerned' = Concerned /\ Planned' = Planned /\ Now' = Now
    BY <2>1, SameConcerns DEF Attrs, Now
  <2>3. AtMatter'
    BY <2>1, <2>2 DEF PowerInv, Idle, Through, Matters
  <2> QED
    BY <1>1, <2>1, <2>3 DEF PowerInv
<1>7. CASE Provider
  <2>1. ASSUME faults'.number = 0, NEW u \in OwnIn(cloud'), ~cloud'[u].on PROVE Pending(u)'
    <3>1. faults.number = 0
      BY <1>1, <1>7, <2>1, ProviderFaults
    <3>2. CASE u \in Own /\ ~cloud[u].on
      BY <1>1, <1>7, <2>1, <3>1, <3>2, StaysPending DEF PowerInv
    <3>3. CASE ~(u \in Own /\ ~cloud[u].on)
      BY <1>1, <1>7, <2>1, <3>3, StaysOn, TurnOffPends DEF PowerInv
    <3> QED
      BY <3>2, <3>3
  <2>2. Power'
    BY <2>1, OwnFacts
  <2> QED
    BY <1>1, <1>7, <2>2, ProviderMatters DEF PowerInv
<1>8. CASE UNCHANGED vars
  <2>1. Own' = Own /\ Concerned' = Concerned /\ Planned' = Planned /\ R' = R
    BY <1>8, OwnFacts, SameConcerns DEF vars, Attrs, R
  <2>2. AtMatter'
    BY <1>8, <2>1 DEF vars, PowerInv, Idle, Through, Now, Matters
  <2>3. \A u : Pending(u) => Pending(u)'
    BY <1>8, <2>1 DEF vars, Pending, Idle, Changes, Mends, Unfailing, Matters
  <2>4. Power'
    BY <1>8, <2>1, <2>3 DEF vars, PowerInv
  <2> QED
    BY <1>1, <2>2, <2>4 DEF PowerInv
<1> QED
  BY <1>3, <1>4, <1>5, <1>6, <1>7, <1>8 DEF Next, Terraform, Environment

-----------------------------------------------------------------------------
(* What is applied.                                                        *)

\* How an attribute is to change, and what the steps do with it.
Fixed(s, a) == Fixes(R, s, a, saved.attrs[a], config.attrs[a])
Undone(s, a) == Undoes(R, s, a, saved.attrs[a], config.attrs[a])
Kept(a, i) == \A j \in i..Len(program) : ~Undone(program[j], a)

\* The attribute is going to be what is configured, or is, and stays so.
Coming(a) == \E i \in at..Len(program) : Fixed(program[i], a) /\ Kept(a, i + 1)
There(a) == Target # NoObject /\ cloud[Target].attrs[a] = config.attrs[a] /\ Kept(a, at)
Carried(a) == d.attrs[a] = config.attrs[a] /\ (Coming(a) \/ There(a))

Ahead(does) == \E j \in at..Len(program) : program[j].does \in does

Writing == op \in {"create", "update"}
Watched == faults.number = 0 \/ (ById /\ kind \notin Unreliable /\ "race" \notin faults.kinds)

\* While it can be trusted, a Create or Update works on an object that exists, and carries every
\* attribute that can.
Handling ==
  Writing /\ Watched =>
    /\ Target # NoObject => Exists(Target)
    /\ op = "update" => d.id # NoObject
    /\ op = "create" => (Target = NoObject <=> Ahead(Getting))
    /\ \A a \in Trusted : Carried(a)

\* An attribute of the configuration has a value unless it may be left out; a state without an
\* object has no attributes.
Plain ==
  /\ \A a \in R.attrs : config.attrs[a] = Unset => a \in R.optional
  /\ saved.id = NoObject => saved.attrs = Nothing

\* What is still to be sent is what is configured.
Unread == Writing /\ Ahead(Sending \cup Getting) => d.attrs = config.attrs

\* A state that was just refreshed says what is.
Seen ==
  Idle /\ fresh /\ ById /\ "race" \notin faults.kinds /\ saved.id # NoObject =>
    IF Exists(saved.id) THEN \A a \in R.read.always : saved.attrs[a] = cloud[saved.id].attrs[a]
    ELSE R.read.gone = "blank"

\* Without faults there is one object, and the state agrees with it, but for what is not sent
\* when the user takes it away.
Exempt(a) == a \in Keeps(R.update) /\ a \notin R.renew
Agrees(attrs, u) ==
  \A a \in Sendable(R) : attrs[a] = cloud[u].attrs[a] \/ (attrs[a] = Unset /\ Exempt(a))

Single == \A u, v \in DOMAIN cloud : u = v
RestsAlone ==
  Idle => IF saved.id = NoObject THEN DOMAIN cloud = {} \/ Permanent
          ELSE Exists(saved.id) /\ Agrees(saved.attrs, saved.id)

Identifies(s) == s.does \in Identifying /\ s.on = {} /\ s.when # "known"
CreatesAlone ==
  op = "create" =>
    /\ Target = NoObject => DOMAIN cloud = {} \/ Permanent
    /\ d.id = NoObject /\ d.made # NoObject => Permanent \/ \E j \in at..Len(program) : Identifies(program[j])
WritesAlone ==
  /\ Writing /\ Target # NoObject =>
       \A a \in Sendable(R) \ Handled : d.attrs[a] \in {Unset, cloud[Target].attrs[a]}
  /\ op = "update" /\ Has(R.update, {"noUpdate"}) => Exists(saved.id) /\ Agrees(saved.attrs, saved.id)
DeletesAlone ==
  op = "destroy" =>
    IF DOMAIN cloud = {} THEN Through
    ELSE /\ Exists(saved.id) /\ d.id = saved.id
         /\ Permanent \/ \E j \in at..Len(program) : Deletes(program[j])
         /\ Has(R.delete, Sending) \/ (Agrees(d.attrs, saved.id) /\ Agrees(saved.attrs, saved.id))
Alone == faults.number = 0 => Single /\ RestsAlone /\ CreatesAlone /\ WritesAlone /\ DeletesAlone

\* Success is reported by a handler that has returned, and nothing is done before a refresh.
Told == told = "ok" => Idle /\ ~fresh /\ saved.id # NoObject /\ OkMeansApplied

Applying == Plain /\ Handling /\ Unread /\ Seen /\ Told
AInv == ~Misnames /\ PowerInv /\ Applying /\ Alone

-----------------------------------------------------------------------------
(* What the assumption and the definitions give.                           *)

LEMMA CarryHere ==
  ASSUME kind \in DOMAIN Catalogue
  PROVE  /\ Applies(R) /\ InOrder(R.create) /\ InOrder(R.update)
         /\ CreatesOne(R) /\ UpdatesOnly(R) /\ DeletesLast(R) /\ Names(R)
         /\ R.read.gone = "blank" => R.attrs \subseteq R.renew
         /\ ById /\ kind \notin Unreliable => Reliable(R)
  BY CarryingAssumption DEF CarryingAssumption, R, ById

LEMMA SendableFacts ==
  ASSUME TypedUser, NEW a \in Sendable(R)
  PROVE  a \in R.attrs /\ a \in Attrs /\ config.attrs[a] \in Values
<1>1. WellTyped(R) /\ Attrs = R.attrs
  BY Here, AttrsOfSchema DEF TypedUser
<1>2. R.update \in Seq(StepsOver(R.attrs)) /\ R.renew \subseteq R.attrs
  BY <1>1 DEF WellTyped
<1>3. ASSUME NEW i \in DOMAIN R.update PROVE R.update[i].sets \subseteq R.attrs
  <2>1. R.update[i] \in StepsOver(R.attrs)
    BY <1>2
  <2> QED
    BY <2>1 DEF StepsOver
<1>4. a \in R.attrs
  BY <1>2, <1>3 DEF Sendable, Sends, StepsOf
<1> QED
  BY <1>1, <1>4 DEF TypedUser, Given

\* What can be trusted is handled; after a fault, it is what Read always sees.
LEMMA TrustedFacts ==
  ASSUME TypedUser, Plain
  PROVE  /\ Handled \subseteq Sendable(R)
         /\ \A a \in Handled : Handles(R, a, config.attrs[a])
         /\ \A a \in Sendable(R) \ Handled : config.attrs[a] = Unset /\ Exempt(a)
         /\ Trusted \subseteq Handled
         /\ faults.number = 0 /\ ~Misnames => Trusted = Handled
         /\ faults.number # 0 => Trusted \subseteq R.read.always \ Guessed(R)
         /\ ~Watched => Trusted = {}
<1>1. Handled \subseteq Sendable(R)
  BY DEF Handled, Sendable
<1>2. ASSUME NEW a \in Handled PROVE Handles(R, a, config.attrs[a])
  <2>1. config.attrs[a] = Unset => a \in R.optional
    BY <1>1, <1>2, SendableFacts DEF Plain
  <2> QED
    BY <2>1, <1>2 DEF Handled, Handles
<1>3. ASSUME NEW a \in Sendable(R) \ Handled PROVE config.attrs[a] = Unset /\ Exempt(a)
  BY <1>3 DEF Handled, Sendable, Exempt
<1> QED
  BY <1>1, <1>2, <1>3 DEF Trusted, Watched

\* Faults only ever take trust away.
LEMMA TrustShrinks ==
  ASSUME TypedUser, TypedUser', UNCHANGED <<kind, config>>, faults.kinds \subseteq faults'.kinds,
         faults'.number = 0 => faults.number = 0
  PROVE  /\ Watched' => Watched
         /\ Trusted' \subseteq Trusted /\ Handled' = Handled /\ Sendable(R)' = Sendable(R) /\ R' = R
<1>1. R' = R /\ ById' = ById
  BY DEF R, ById
<1>2. Handled' = Handled
  BY <1>1 DEF Handled
<1>3. (Misnames' <=> Misnames) /\ Guessed(R)' = Guessed(R)
  BY <1>1 DEF Misnames
<1>4. faults.number = 0 /\ ~Misnames => Trusted = Handled
  BY DEF Trusted
<1> QED
  BY <1>1, <1>2, <1>3, <1>4 DEF Watched, Trusted, Sendable

\* In Create and Update an attribute is concerned when it is to change.
LEMMA ConcernedFacts ==
  ASSUME PowerInv, Plain, Writing
  PROVE  /\ Planned = config.attrs /\ Attrs = R.attrs
         /\ \A a \in Attrs : a \in Concerned <=> saved.attrs[a] # config.attrs[a]
<1>1. TypedUser /\ (op = "create" => saved.id = NoObject) /\ op \in {"create", "update"}
  BY DEF PowerInv, IInv, Typed, Identity, Writing
<1>2. op = "create" => saved.attrs = Nothing
  BY <1>1 DEF Plain
<1> QED
  BY <1>1, <1>2, AttrsOfSchema DEF Planned, Concerned, SetIn, Changed, Nothing

-----------------------------------------------------------------------------
(* The programs of Create and Update.                                      *)

LEMMA StepFacts ==
  ASSUME PowerInv, Writing
  PROVE  /\ program \in Seq(StepsOver(R.attrs)) /\ Len(program) \in Nat /\ at \in 1..(Len(program) + 1)
         /\ DOMAIN program = 1..Len(program)
         /\ program = IF op = "create" THEN R.create ELSE R.update
         /\ InOrder(program)
         /\ TypedUser /\ TypedRun /\ kind \in DOMAIN Catalogue
<1>1. TypedUser /\ TypedRun /\ kind \in DOMAIN Catalogue
  BY DEF PowerInv, IInv, Typed, TypedUser
<1>2. program \in Seq(StepsOver(R.attrs))
  BY <1>1, ProgramTyped
<1>3. program = IF op = "create" THEN R.create ELSE R.update
  BY <1>1 DEF TypedRun, Program, Writing
<1>4. InOrder(program)
  BY <1>1, <1>3, CarryHere
<1> QED
  BY <1>1, <1>2, <1>3, <1>4 DEF TypedRun

\* The step that chooses the object is the only one of its kind.
LEMMA GettingFacts ==
  ASSUME PowerInv, Writing, NEW i \in DOMAIN program, program[i].does \in Getting
  PROVE  /\ op = "create" /\ program[i].on = {} /\ program[i].when # "known" /\ ~program[i].dropped
         /\ \A j \in DOMAIN program :
              /\ program[j].does \in Getting => j = i
              /\ program[j].does = "refuse" => j < i
              /\ program[j].dropped => j > i
         /\ program[i].does = "makeUnknown" => \E j \in (i + 1)..Len(program) : Identifies(program[j])
<1>1. CreatesOne(R) /\ UpdatesOnly(R) /\ program = IF op = "create" THEN R.create ELSE R.update
  BY StepFacts, CarryHere
<1>2. op = "create"
  BY <1>1 DEF UpdatesOnly, Has, Writing
<1>3. PICK g \in DOMAIN R.create : ChoosesAt(R, g)
  BY <1>1 DEF CreatesOne
<1>4. g = i
  BY <1>1, <1>2, <1>3 DEF ChoosesAt
<1> QED
  BY <1>1, <1>2, <1>3, <1>4 DEF ChoosesAt, Identifies

LEMMA WritingFacts ==
  ASSUME PowerInv, Writing, NEW i \in DOMAIN program
  PROVE  /\ ~program[i].lenient
         /\ program[i].when = "unknown" => op = "create" /\ program[i].does \in Getting
         /\ op = "update" => program[i].when = "always" /\ program[i].does \notin Getting \cup {"refuse", "drop", "refind"} \cup Naming
         /\ op = "create" => program[i].does \notin {"noUpdate", "drop", "off", "refind"}
         /\ ById /\ kind \notin Unreliable =>
              program[i].when = "always" /\ ~program[i].dropped /\ program[i].does \notin {"findByName", "findNamed"}
<1>1. /\ CreatesOne(R) /\ UpdatesOnly(R) /\ program = IF op = "create" THEN R.create ELSE R.update
      /\ ById /\ kind \notin Unreliable => Reliable(R)
  BY StepFacts, CarryHere
<1>2. ~Has(R.create, {"noUpdate", "drop", "off"}) /\ ~Has(R.update, Naming \cup {"makeUnknown", "adoptUnknown"})
  BY StepFacts, Here
<1>3. CASE op = "create"
  BY <1>1, <1>2, <1>3 DEF CreatesOne, Has, Reliable
<1>4. CASE op = "update"
  BY <1>1, <1>2, <1>4 DEF UpdatesOnly, Has, Reliable, Naming
<1> QED
  BY <1>3, <1>4 DEF Writing

\* What is made is not adopted.
LEMMA AdoptingFacts ==
  ASSUME PowerInv, Writing, NEW i \in DOMAIN program
  PROVE  /\ program[i].does \in Making => op = "create" /\ ~Permanent
         /\ program[i].does \in Adopting => Permanent
         /\ Permanent /\ op = "create" => program[i].does \notin {"findNamed", "findByName"}
<1>1. CreatesOne(R) /\ program = IF op = "create" THEN R.create ELSE R.update
  BY StepFacts, CarryHere
<1>2. Permanent <=> Has(R.create, Adopting)
  BY DEF Permanent, Some, Has, Adopting
<1>3. program[i].does \in Getting => op = "create"
  BY GettingFacts
<1>4. ASSUME program[i].does \in Making PROVE op = "create" /\ ~Permanent
  <2>1. op = "create" /\ program = R.create
    BY <1>1, <1>3, <1>4 DEF Getting
  <2>2. \A j \in DOMAIN program : program[j].does \in Getting => j = i
    BY <1>4, GettingFacts DEF Getting
  <2>3. ~Has(R.create, Adopting)
    BY <1>4, <2>1, <2>2 DEF Has, Getting, Adopting, Making
  <2> QED
    BY <1>2, <2>1, <2>3
<1>5. program[i].does \in Adopting => Permanent
  BY <1>1, <1>2, <1>3 DEF Has, Getting
<1>6. Permanent /\ op = "create" => program[i].does \notin {"findNamed", "findByName"}
  BY <1>1, <1>2 DEF CreatesOne, Has
<1> QED
  BY <1>4, <1>5, <1>6

\* The step a handler is at.
LEMMA NowFacts ==
  ASSUME PowerInv, Writing, ~Through
  PROVE  /\ at \in DOMAIN program /\ Now = program[at] /\ Now \in StepsOver(R.attrs)
         /\ Matters(Now, Concerned, Planned)
<1>1. at \in 1..Len(program)
  BY StepFacts DEF Through
<1>2. at \in DOMAIN program /\ Now = program[at]
  BY <1>1, StepFacts DEF Now
<1>3. Now \in StepsOver(R.attrs)
  BY <1>2, StepFacts
<1> QED
  BY <1>2, <1>3 DEF PowerInv, Idle, Writing

\* A step that fixes an attribute is taken.
LEMMA FixesMatter ==
  ASSUME PowerInv, Plain, Writing, NEW a \in Attrs, NEW i \in DOMAIN program, Fixed(program[i], a)
  PROVE  Matters(program[i], Concerned, Planned)
<1>1. CASE program[i].does \in Making
  BY <1>1, GettingFacts DEF Getting, Matters
<1>2. CASE Takes(program[i], a, saved.attrs[a], config.attrs[a])
  BY <1>2, ConcernedFacts DEF Takes, Matters
<1> QED
  BY <1>1, <1>2 DEF Fixed, Fixes

\* A handler that goes on carries what it carried.
LEMMA ProceedCarries ==
  ASSUME PowerInv, Plain, Writing, ~Through, NEW data, Proceed(data), UNCHANGED <<kind, config>>,
         NEW a \in Attrs, Carried(a), data.attrs[a] = config.attrs[a],
         There(a) \/ Fixed(Now, a) => Target' # NoObject /\ cloud'[Target'].attrs[a] = config.attrs[a]
  PROVE  Carried(a)'
<1>1. /\ at' \in (at + 1)..(Len(program) + 1)
      /\ \A j \in (at + 1)..(at' - 1) : ~Matters(program[j], Concerned, Planned)
      /\ UNCHANGED <<op, program, saved>> /\ d' = data
  BY ProceedMatters DEF PowerInv, Writing, Idle
<1>2. at \in DOMAIN program /\ Now = program[at] /\ Len(program) \in Nat /\ at \in Nat
  BY NowFacts, StepFacts
<1>3. R' = R /\ config' = config
  BY DEF R
<1>4. \A s : Fixed(s, a)' = Fixed(s, a) /\ Undone(s, a)' = Undone(s, a)
  BY <1>1, <1>3 DEF Fixed, Undone
<1>5. \A i : Kept(a, i)' = Kept(a, i)
  BY <1>1, <1>4 DEF Kept
<1> DEFINE next == at'
<1>6. next \in (at + 1)..(Len(program) + 1) /\ \A j \in (at + 1)..(next - 1) : ~Matters(program[j], Concerned, Planned)
  BY <1>1
<1> HIDE DEF next
<1>7. ASSUME NEW i \in (at + 1)..Len(program), Fixed(program[i], a), Kept(a, i + 1) PROVE Coming(a)'
  <2>1. i \in DOMAIN program
    BY <1>2, StepFacts
  <2>2. Matters(program[i], Concerned, Planned)
    BY <1>7, <2>1, FixesMatter
  <2>3. i \in next..Len(program)
    BY <1>2, <1>6, <2>2
  <2> QED
    BY <1>1, <1>4, <1>5, <1>7, <2>3 DEF Coming, next
<1>8. ASSUME There(a) \/ Fixed(Now, a), Kept(a, at + 1) PROVE There(a)'
  <2>1. Kept(a, next)
    BY <1>2, <1>6, <1>8 DEF Kept
  <2> QED
    BY <1>3, <1>5, <1>8, <2>1 DEF There, next
<1>9. CASE There(a)
  <2>1. Kept(a, at + 1)
    BY <1>2, <1>9 DEF There, Kept
  <2> QED
    BY <1>1, <1>3, <1>8, <1>9, <2>1 DEF Carried
<1>10. CASE Coming(a)
  <2>1. PICK i \in at..Len(program) : Fixed(program[i], a) /\ Kept(a, i + 1)
    BY <1>10 DEF Coming
  <2>2. CASE i = at
    BY <1>1, <1>2, <1>3, <1>8, <2>1, <2>2 DEF Carried
  <2>3. CASE i # at
    BY <1>1, <1>2, <1>3, <1>7, <2>1, <2>3 DEF Carried
  <2> QED
    BY <2>2, <2>3
<1> QED
  BY <1>9, <1>10 DEF Carried

-----------------------------------------------------------------------------
(* A step of a Create or Update.                                           *)

TargetOf(data) == IF data.id = NoObject THEN data.made ELSE data.id

\* What a step has to respect that turns the cloud into `result' and lets the handler go on
\* with `data': while it can be trusted, and without faults.
SoundFor(trusted, result, data) ==
  /\ DOMAIN cloud \subseteq DOMAIN result
  /\ TargetOf(data) # NoObject => TargetOf(data) \in DOMAIN result
  /\ op = "update" => data.id # NoObject
  /\ op = "create" => (TargetOf(data) = NoObject <=> \E j \in (at + 1)..Len(program) : program[j].does \in Getting)
  /\ \A a \in trusted :
       /\ There(a) => result[Target].attrs[a] = config.attrs[a]
       /\ Carried(a) => data.attrs[a] = config.attrs[a]
       /\ There(a) \/ Fixed(Now, a) =>
            TargetOf(data) # NoObject /\ result[TargetOf(data)].attrs[a] = config.attrs[a]
Sound(result, data) == SoundFor(Trusted, result, data)

OnItsOwn(result, data) ==
  /\ \A u, v \in DOMAIN result : u = v
  /\ op = "create" =>
       /\ TargetOf(data) = NoObject => DOMAIN result = {} \/ Permanent
       /\ data.id = NoObject /\ data.made # NoObject =>
            Permanent \/ \E j \in (at + 1)..Len(program) : Identifies(program[j])
  /\ TargetOf(data) # NoObject =>
       \A a \in Sendable(R) \ Handled : data.attrs[a] \in {Unset, result[TargetOf(data)].attrs[a]}

\* What is read is not sent.
SendsNoneOf(data) == data.attrs = d.attrs \/ \A j \in (at + 1)..Len(program) : program[j].does \notin Sending \cup Getting

\* A fault is one more.
Later ==
  /\ TypedUser' /\ UNCHANGED <<kind, config>> /\ faults.kinds \subseteq faults'.kinds
  /\ faults'.number = 0 => faults.number = 0

LEMMA RunningFacts ==
  ASSUME AInv
  PROVE  /\ PowerInv /\ Applying /\ Plain /\ Handling /\ Unread /\ Seen /\ Told /\ Alone /\ IInv /\ Typed /\ TypedUser
         /\ ~Misnames
  BY DEF AInv, Applying, PowerInv, IInv, Typed

LEMMA SameAttrs == ASSUME UNCHANGED <<kind, config>> PROVE R' = R /\ Attrs' = Attrs /\ Nothing' = Nothing /\ Permanent' = Permanent /\ ById' = ById
  BY DEF R, Attrs, Nothing, Permanent, Some, ById

\* A step has to be sound only for what can be trusted after it.
LEMMA ProceedTrusts ==
  ASSUME AInv, Writing, ~Through, NEW data, Proceed(data), Later, SendsNoneOf(data),
         Watched' => SoundFor(Trusted', cloud', data)
  PROVE  Applying'
<1>1. PowerInv /\ Plain /\ Handling /\ Unread /\ Told /\ TypedUser /\ ~Idle
  BY RunningFacts DEF Writing, Idle
<1>2. /\ at' \in (at + 1)..(Len(program) + 1)
      /\ \A j \in (at + 1)..(at' - 1) : ~Matters(program[j], Concerned, Planned)
      /\ UNCHANGED <<op, program, saved, told, fresh>> /\ d' = data
  BY <1>1, ProceedMatters DEF PowerInv, Later
<1>3. R' = R /\ Nothing' = Nothing /\ Target' = TargetOf(data)
  BY <1>2, SameAttrs DEF Later, Target, TargetOf
<1>4. Plain' /\ Seen' /\ Told'
  BY <1>1, <1>2, <1>3 DEF Later, Plain, Seen, Told, Idle
<1>5. ASSUME Watched' PROVE Handling'
  <2>1. Watched /\ Trusted' \subseteq Trusted
    BY <1>1, <1>5, TrustShrinks DEF Later
  <2>2. SoundFor(Trusted', cloud', data)
    BY <1>5
  <2>3. ASSUME NEW a \in Trusted' PROVE Carried(a)'
    <3>1. Carried(a) /\ a \in Attrs
      BY <1>1, <2>1, <2>3, TrustedFacts, SendableFacts DEF Handling
    <3> QED
      BY <1>1, <1>3, <2>1, <2>2, <2>3, <3>1, ProceedCarries DEF SoundFor, Later
  <2>4. op = "create" => (Ahead(Getting)' <=> \E j \in (at + 1)..Len(program) : program[j].does \in Getting)
    <3> SUFFICES ASSUME op = "create" PROVE Ahead(Getting)' <=> \E j \in (at + 1)..Len(program) : program[j].does \in Getting
      OBVIOUS
    <3> DEFINE next == at'
    <3>1. next \in (at + 1)..(Len(program) + 1) /\ at \in Nat /\ Len(program) \in Nat
      BY <1>1, <1>2, StepFacts
    <3>2. Ahead(Getting)' <=> \E j \in next..Len(program) : program[j].does \in Getting
      BY <1>2 DEF Ahead
    <3>3. \A j \in (at + 1)..(next - 1) : program[j].does \notin Getting
      <4> SUFFICES ASSUME NEW j \in (at + 1)..(next - 1), program[j].does \in Getting PROVE FALSE
        OBVIOUS
      <4>1. j \in DOMAIN program
        BY <1>1, <3>1, StepFacts
      <4>2. program[j].on = {}
        BY <1>1, <4>1, GettingFacts
      <4> QED
        BY <1>2, <4>2 DEF Matters
    <3> HIDE DEF next
    <3> QED
      BY <3>1, <3>2, <3>3
  <2> QED
    BY <1>2, <1>3, <2>2, <2>3, <2>4 DEF Handling, SoundFor, Exists
<1>6. Unread'
  <2> SUFFICES ASSUME NEW i \in at'..Len(program), program[i].does \in Sending \cup Getting PROVE d'.attrs = config.attrs
    BY <1>2 DEF Unread, Ahead, Later
  <2>1. at' \in (at + 1)..(Len(program) + 1) /\ at \in Nat /\ Len(program) \in Nat
    BY <1>1, <1>2, StepFacts
  <2> DEFINE next == at'
  <2>2. i \in next..Len(program) /\ next \in (at + 1)..(Len(program) + 1)
    BY <2>1
  <2> HIDE DEF next
  <2>3. i \in (at + 1)..Len(program) /\ i \in at..Len(program)
    BY <2>1, <2>2
  <2> QED
    BY <1>1, <1>2, <2>3 DEF Unread, Ahead, SendsNoneOf
<1> QED
  BY <1>4, <1>5, <1>6 DEF Applying, Handling

LEMMA ProceedHandles ==
  ASSUME AInv, Writing, ~Through, NEW data, Proceed(data), Later, SendsNoneOf(data), Watched => Sound(cloud', data)
  PROVE  Applying'
<1>1. (Watched' => Watched) /\ Trusted' \subseteq Trusted
  BY RunningFacts, TrustShrinks DEF Later
<1>2. Watched' => SoundFor(Trusted', cloud', data)
  BY <1>1 DEF Sound, SoundFor
<1> QED
  BY <1>2, ProceedTrusts

\* A handler that returns an error promises nothing.
LEMMA ErrorApplies ==
  ASSUME AInv, NEW data, ReturnError(data), UNCHANGED <<kind, config>>
  PROVE  /\ Applying' /\ op' = "idle"
         /\ saved' = saved \/ (saved'.id = data.id /\ (data.id = NoObject => saved' = Gone)
                               /\ (data.id # NoObject => saved'.attrs = data.attrs))
<1>1. Stop /\ Save(IF R.framework THEN saved ELSE StateOf(data, TRUE), "error") /\ Plain
  BY RunningFacts DEF ReturnError
<1>2. op' = "idle" /\ told' = "error" /\ fresh' = FALSE
  BY <1>1 DEF Stop, Save
<1>3. saved' = saved \/ (saved'.id = data.id /\ (data.id = NoObject => saved' = Gone)
                               /\ (data.id # NoObject => saved'.attrs = data.attrs))
  BY <1>1 DEF Save, StateOf, Gone
<1>4. R' = R /\ Nothing' = Nothing
  BY SameAttrs
<1>5. saved'.id = NoObject => saved'.attrs = Nothing
  BY <1>1, <1>3 DEF Plain, Gone
<1>6. Plain'
  BY <1>1, <1>4, <1>5 DEF Plain
<1> QED
  BY <1>2, <1>3, <1>6 DEF Applying, Handling, Unread, Seen, Told, Writing

LEMMA GiveUpHandles ==
  ASSUME AInv, Writing, ~Through, GiveUp, Later, Watched' => ~Now.dropped,
         Watched => /\ DOMAIN cloud \subseteq DOMAIN cloud'
                    /\ \A a \in Trusted : There(a) => cloud'[Target].attrs[a] = config.attrs[a]
  PROVE  Applying'
<1>1. PowerInv /\ Plain /\ Handling /\ Unread /\ Told /\ TypedUser /\ ~Idle
  BY RunningFacts DEF Writing, Idle
<1>2. R' = R /\ Nothing' = Nothing
  BY SameAttrs DEF Later
<1>3. CASE \E data : ReturnError(data)
  BY <1>3, ErrorApplies DEF Later
<1>4. CASE ~(\E data : ReturnError(data))
  <2>1. Running /\ d' = d
    BY <1>4 DEF GiveUp
  <2>2. UNCHANGED <<op, program, saved, told, fresh>>
    BY <2>1 DEF Running
  <2>3. Plain' /\ Seen' /\ Told'
    BY <1>1, <1>2, <2>2 DEF Later, Plain, Seen, Told, Idle
  <2>4. ASSUME Watched' PROVE Handling'
    <3>1. Watched /\ Trusted' \subseteq Trusted
      BY <1>1, <2>4, TrustShrinks DEF Later
    <3>2. at' = at
      BY <1>4, <2>4 DEF GiveUp
    <3>3. Target' = Target /\ Ahead(Getting)' = Ahead(Getting)
      BY <2>1, <2>2, <3>2 DEF Target, Ahead
    <3>4. ASSUME NEW a \in Trusted' PROVE Carried(a)'
      <4>1. Carried(a)
        BY <1>1, <3>1, <3>4 DEF Handling
      <4>2. (Coming(a) => Coming(a)') /\ (\A i : Kept(a, i)' = Kept(a, i))
        BY <1>2, <2>2, <3>2 DEF Coming, Kept, Fixed, Undone, Later
      <4>3. There(a) => There(a)'
        BY <3>1, <3>2, <3>3, <3>4, <4>2 DEF There, Later
      <4> QED
        BY <2>1, <4>1, <4>2, <4>3 DEF Carried, Later
    <3> QED
      BY <1>1, <2>1, <2>2, <3>1, <3>3, <3>4 DEF Handling, Exists, Writing
  <2>5. Unread'
    <3>1. at' = at \/ at' = Len(program) + 1
      BY <1>4 DEF GiveUp
    <3>2. Len(program) \in Nat
      BY <1>1, StepFacts
    <3>3. at' = Len(program) + 1 => ~Ahead(Sending \cup Getting)'
      BY <2>2, <3>2 DEF Ahead
    <3> QED
      BY <1>1, <2>1, <2>2, <3>1, <3>3 DEF Unread, Ahead, Later, Writing
  <2> QED
    BY <2>3, <2>4, <2>5 DEF Applying, Handling
<1> QED
  BY <1>3, <1>4

\* On its own, a handler that goes on still has the one object, and the step that is to name it.
LEMMA ProceedAlone ==
  ASSUME AInv, Writing, ~Through, NEW data, Proceed(data), Later, op = "update" => Now.does # "noUpdate",
         faults.number = 0 => OnItsOwn(cloud', data)
  PROVE  Alone'
<1>1. PowerInv /\ Plain /\ ~Idle
  BY RunningFacts DEF Writing, Idle
<1>2. /\ at' \in (at + 1)..(Len(program) + 1)
      /\ \A j \in (at + 1)..(at' - 1) : ~Matters(program[j], Concerned, Planned)
      /\ UNCHANGED <<op, program, saved, told, fresh>> /\ d' = data
  BY <1>1, ProceedMatters DEF PowerInv, Later
<1>3. R' = R /\ Permanent' = Permanent /\ Target' = TargetOf(data)
  BY <1>2, SameAttrs DEF Later, Target, TargetOf
<1> SUFFICES ASSUME faults'.number = 0 PROVE Single' /\ RestsAlone' /\ CreatesAlone' /\ WritesAlone' /\ DeletesAlone'
  BY DEF Alone
<1>4. OnItsOwn(cloud', data) /\ Handled' = Handled /\ Sendable(R)' = Sendable(R)
  BY <1>1, <1>3 DEF Later, Handled, Sendable, PowerInv
<1>5. Single' /\ RestsAlone' /\ DeletesAlone'
  BY <1>2, <1>4 DEF Single, RestsAlone, DeletesAlone, OnItsOwn, Idle, Writing
<1>6. ASSUME NEW j \in (at + 1)..Len(program), Identifies(program[j])
      PROVE  \E l \in at'..Len(program) : Identifies(program[l])
  <2>1. Matters(program[j], Concerned, Planned)
    BY <1>6 DEF Identifies, Matters
  <2> DEFINE next == at'
  <2>2. next \in (at + 1)..(Len(program) + 1) /\ \A l \in (at + 1)..(next - 1) : ~Matters(program[l], Concerned, Planned)
    BY <1>2
  <2> HIDE DEF next
  <2>3. at \in Nat /\ Len(program) \in Nat
    BY <1>1, StepFacts
  <2>4. j \in next..Len(program)
    BY <2>1, <2>2, <2>3
  <2> QED
    BY <2>4, <1>6 DEF next
<1>7. CreatesAlone'
  BY <1>2, <1>3, <1>4, <1>6 DEF CreatesAlone, OnItsOwn
<1>8. ASSUME op = "update", Has(R.update, {"noUpdate"}) PROVE FALSE
  <2>1. Len(program) = 1 /\ program = R.update /\ program \in Seq(StepsOver(R.attrs))
    BY <1>1, <1>8, CarryHere, StepFacts DEF UpdatesOnly
  <2>2. at = 1 /\ Now = program[1] /\ DOMAIN program = {1}
    BY <1>1, <2>1, NowFacts
  <2> QED
    BY <1>8, <2>1, <2>2 DEF Has
<1>9. WritesAlone'
  BY <1>2, <1>3, <1>4, <1>8 DEF WritesAlone, OnItsOwn
<1> QED
  BY <1>5, <1>7, <1>9

\* Without faults it gives up only before there is an object, and leaves none behind.
LEMMA GiveUpAlone ==
  ASSUME AInv, Writing, ~Through, ~Passed(Now), GiveUp, Later,
         faults'.number = 0 => op = "create" /\ Target = NoObject /\ UNCHANGED cloud
  PROVE  Alone'
<1>1. PowerInv /\ Plain /\ Handling /\ Alone /\ ~Idle /\ IInv
  BY RunningFacts DEF Writing, Idle
<1> SUFFICES ASSUME faults'.number = 0 PROVE Single' /\ RestsAlone' /\ CreatesAlone' /\ WritesAlone' /\ DeletesAlone'
  BY DEF Alone
<1>2. /\ op = "create" /\ Target = NoObject /\ UNCHANGED cloud /\ d.id = NoObject
      /\ R' = R /\ Permanent' = Permanent /\ faults.number = 0
      /\ Single /\ (DOMAIN cloud = {} \/ Permanent) /\ Ahead(Getting)
  BY <1>1, SameAttrs DEF Later, Alone, Target, CreatesAlone, Handling, Watched, PowerInv, IInv, Typed, TypedData, Datas, Ids
<1>3. Single'
  BY <1>2 DEF Single
<1>4. CASE Now.tries > failures + 1 /\ UNCHANGED <<at, d>> /\ Running
  BY <1>2, <1>3, <1>4 DEF Running, Target, RestsAlone, CreatesAlone, WritesAlone, DeletesAlone, Writing, Idle
<1>5. ~Now.dropped
  <2>1. PICK j \in at..Len(program) : program[j].does \in Getting
    BY <1>2 DEF Ahead
  <2>2. j \in DOMAIN program /\ at \in DOMAIN program /\ Now = program[at] /\ at \in Nat
    BY <1>1, StepFacts, NowFacts
  <2>3. program[at].dropped => at > j
    BY <1>1, <2>1, <2>2, GettingFacts
  <2> QED
    BY <2>1, <2>2, <2>3
<1>6. ASSUME Now.rescued PROVE DOMAIN cloud = {}
  <2>1. at \in DOMAIN program /\ Now = program[at] /\ program = R.create
    BY <1>1, <1>2, StepFacts, NowFacts
  <2>2. Now.does = "make"
    BY <1>1, <1>6, <2>1, Here, StepFacts
  <2>3. ~Permanent
    BY <1>1, <2>1, <2>2, AdoptingFacts DEF Making
  <2> QED
    BY <1>2, <2>3
<1>7. CASE ReturnError(d)
  <2>1. op' = "idle" /\ (saved' = saved \/ saved' = Gone)
    BY <1>2, <1>7, ErrorApplies DEF Later
  <2>2. saved'.id = NoObject
    BY <1>1, <1>2, <2>1 DEF IInv, Identity, Gone
  <2> QED
    BY <1>2, <1>3, <2>1, <2>2 DEF RestsAlone, CreatesAlone, WritesAlone, DeletesAlone, Writing
<1> QED
  BY <1>2, <1>4, <1>5, <1>6, <1>7 DEF GiveUp

\* The same of a call.  What is dropped for an error is not trusted.
LEMMA CallApplies ==
  ASSUME AInv, Writing, ~Through, ~Passed(Now), NEW refused, NEW result, NEW data, Call(refused, result, data),
         Later, op = "update" => Now.does # "noUpdate", SendsNoneOf(data),
         Watched /\ ~refused => Sound(result, data),
         faults.number = 0 /\ ~refused => OnItsOwn(result, data),
         faults.number = 0 /\ refused => op = "create" /\ Target = NoObject
  PROVE  Applying' /\ Alone'
<1>1. PowerInv /\ Plain /\ Handling /\ Alone /\ TypedUser
  BY RunningFacts
<1>2. at \in DOMAIN program /\ Now = program[at]
  BY <1>1, NowFacts
<1>3. CASE ~refused /\ cloud' = result /\ Proceed(data) /\ NoFault
  BY <1>3, ProceedHandles, ProceedAlone
<1>4. ASSUME faults.number = 0, refused PROVE ~Now.dropped
  <2>1. PICK j \in at..Len(program) : program[j].does \in Getting
    BY <1>1, <1>4 DEF Ahead, Handling, Watched
  <2>2. j \in DOMAIN program /\ at \in Nat
    BY <1>1, <1>2, StepFacts
  <2>3. program[at].dropped => at > j
    BY <1>1, <1>2, <2>1, <2>2, GettingFacts
  <2> QED
    BY <1>2, <2>1, <2>2, <2>3
<1>5. CASE refused /\ UNCHANGED cloud /\ GiveUp /\ NoFault
  <2>1. UNCHANGED <<faults, kind>>
    BY <1>5 DEF NoFault, Later
  <2>2. Watched' => ~Now.dropped
    BY <1>1, <1>2, <1>4, <1>5, <2>1, WritingFacts DEF Watched, ById, R
  <2>3. \A a \in Trusted : There(a) => cloud'[Target].attrs[a] = config.attrs[a]
    BY <1>5 DEF There
  <2> QED
    BY <1>5, <2>1, <2>2, <2>3, GiveUpHandles, GiveUpAlone
<1>6. ASSUME NEW k \in FaultKinds, Fault(k), GiveUp, cloud' = cloud \/ (~refused /\ cloud' = result) PROVE Applying' /\ Alone'
  <2>1. faults'.number # 0
    BY <1>1, <1>6, FaultFacts
  <2>2. Watched' => Watched /\ ~Now.dropped
    BY <1>1, <1>2, <2>1, WritingFacts, TrustShrinks DEF Watched, ById, R, Later
  <2>3. Watched => /\ DOMAIN cloud \subseteq DOMAIN cloud'
                   /\ \A a \in Trusted : There(a) => cloud'[Target].attrs[a] = config.attrs[a]
    BY <1>6 DEF Sound, SoundFor, There
  <2>4. Applying'
    BY <1>6, <2>2, <2>3, GiveUpHandles
  <2> QED
    BY <2>1, <2>4 DEF Alone
<1>7. "apiError" \in FaultKinds /\ "lostReply" \in FaultKinds
  BY DEF FaultKinds
<1> QED
  BY <1>3, <1>5, <1>6, <1>7 DEF Call

\* What only sends gives a value.
LEMMA OnlySendingFixes == ASSUME NEW s, s.does \notin Sending, NEW a PROVE ~Fixed(s, a)
  BY DEF Fixed, Fixes, Sending

\* A step that changes no object and goes on with the same one.
LEMMA Stays ==
  ASSUME AInv, Writing, ~Through, Now.does \notin Getting, NEW data, TargetOf(data) = Target,
         data.id = NoObject => d.id = NoObject,
         \A a \in Trusted : ~Fixed(Now, a) /\ (Carried(a) => data.attrs[a] = config.attrs[a])
  PROVE  /\ Watched => Sound(cloud, data)
         /\ /\ faults.number = 0
            /\ data.id = NoObject /\ data.made # NoObject => d.made # NoObject /\ ~Identifies(Now)
            /\ Target # NoObject =>
                 \A a \in Sendable(R) \ Handled : data.attrs[a] \in {Unset, d.attrs[a], cloud[Target].attrs[a]}
            => OnItsOwn(cloud, data)
<1>1. PowerInv /\ Plain /\ Handling /\ Alone
  BY RunningFacts
<1>2. at \in Nat /\ Len(program) \in Nat /\ Now = program[at] /\ at \in 1..Len(program)
  BY <1>1, StepFacts, NowFacts
<1>3. Ahead(Getting) <=> \E j \in (at + 1)..Len(program) : program[j].does \in Getting
  BY <1>2 DEF Ahead
<1>4. Watched => Sound(cloud, data)
  BY <1>1, <1>3 DEF Handling, Sound, SoundFor, There, Exists
<1>5. ~Identifies(Now) => \A j \in at..Len(program) : Identifies(program[j]) => j \in (at + 1)..Len(program)
  BY <1>2
<1>6. ASSUME faults.number = 0,
             data.id = NoObject /\ data.made # NoObject => d.made # NoObject /\ ~Identifies(Now),
             Target # NoObject =>
               \A a \in Sendable(R) \ Handled : data.attrs[a] \in {Unset, d.attrs[a], cloud[Target].attrs[a]}
      PROVE  OnItsOwn(cloud, data)
  <2>1. Single /\ CreatesAlone /\ WritesAlone
    BY <1>1, <1>6 DEF Alone
  <2>2. op = "create" /\ data.id = NoObject /\ data.made # NoObject =>
          Permanent \/ \E j \in (at + 1)..Len(program) : Identifies(program[j])
    BY <1>5, <1>6, <2>1 DEF CreatesAlone
  <2>3. Target # NoObject => \A a \in Sendable(R) \ Handled : data.attrs[a] \in {Unset, cloud[Target].attrs[a]}
    BY <1>6, <2>1 DEF WritesAlone
  <2> QED
    BY <2>1, <2>2, <2>3 DEF OnItsOwn, Single, CreatesAlone
<1> QED
  BY <1>4, <1>6

\* What is passed over does not choose or fix anything.
LEMMA PassOverApplies == ASSUME AInv, Writing, PassOver, Later PROVE Applying' /\ Alone'
<1>1. PowerInv /\ Plain /\ Handling /\ Alone /\ IInv /\ TypedData
  BY RunningFacts DEF Typed
<1>2. ~Through /\ Passed(Now) /\ Proceed(d) /\ cloud' = cloud
  BY DEF PassOver, Local
<1>3. at \in DOMAIN program /\ Now = program[at] /\ at \in at..Len(program)
  BY <1>1, <1>2, StepFacts, NowFacts
<1>4. op = "create" /\ Now.when = (IF d.id = NoObject THEN "known" ELSE "unknown")
  BY <1>1, <1>2, <1>3, WritingFacts DEF Passed, Writing
<1>5. ASSUME Watched, Now.does \in Getting PROVE FALSE
  <2>1. d.id # NoObject
    BY <1>1, <1>3, <1>4, <1>5, GettingFacts
  <2>2. Ahead(Getting)
    BY <1>3, <1>5 DEF Ahead
  <2> QED
    BY <1>1, <1>4, <1>5, <2>1, <2>2 DEF Handling, Target
<1>6. ASSUME Watched, NEW a PROVE ~Fixed(Now, a)
  BY <1>1, <1>3, <1>4, <1>5, <1>6, WritingFacts DEF Fixed, Fixes
<1>7. TargetOf(d) = Target /\ SendsNoneOf(d)
  BY DEF TargetOf, Target, SendsNoneOf
<1>8. Trusted # {} => Watched
  BY <1>1, TrustedFacts DEF PowerInv, IInv, Typed
<1>9. Watched => Sound(cloud, d)
  BY <1>2, <1>5, <1>6, <1>7, <1>8, Stays DEF Carried
<1>10. ASSUME faults.number = 0 PROVE OnItsOwn(cloud, d)
  <2>1. Watched
    BY <1>10 DEF Watched
  <2>2. d.id = NoObject => ~Identifies(Now)
    BY <1>4 DEF Identifies
  <2> QED
    BY <1>2, <1>5, <1>6, <1>7, <1>10, <2>1, <2>2, Stays DEF Carried
<1> QED
  BY <1>2, <1>4, <1>7, <1>9, <1>10, ProceedHandles, ProceedAlone

\* A call that leaves the cloud as it is.
LEMMA QuietCall ==
  ASSUME AInv, Writing, ~Through, ~Passed(Now), Now.does \notin Getting \cup Sending \cup {"noUpdate"},
         NEW refused, NEW data, Call(refused, cloud, data), Later, SendsNoneOf(data),
         Watched /\ ~refused =>
           /\ TargetOf(data) = Target /\ (data.id = NoObject => d.id = NoObject)
           /\ \A a \in Trusted : Carried(a) => data.attrs[a] = config.attrs[a],
         faults.number = 0 /\ ~refused =>
           /\ data.id = NoObject /\ data.made # NoObject => d.made # NoObject /\ ~Identifies(Now)
           /\ Target # NoObject =>
                \A a \in Sendable(R) \ Handled : data.attrs[a] \in {Unset, d.attrs[a], cloud[Target].attrs[a]},
         faults.number = 0 /\ refused => op = "create" /\ Target = NoObject
  PROVE  Applying' /\ Alone'
<1>1. \A a : ~Fixed(Now, a)
  BY OnlySendingFixes
<1>2. Watched /\ ~refused => Sound(cloud, data)
  BY <1>1, Stays
<1>3. faults.number = 0 /\ ~refused => OnItsOwn(cloud, data)
  <2> SUFFICES ASSUME faults.number = 0, ~refused PROVE OnItsOwn(cloud, data)
    OBVIOUS
  <2>1. Watched
    BY DEF Watched
  <2> QED
    BY <1>1, <2>1, Stays
<1> QED
  BY <1>2, <1>3, CallApplies

LEMMA LocalCalls == ASSUME NEW data, Local(data) PROVE Call(FALSE, cloud, data) /\ cloud' = cloud
  BY DEF Local, Call

LEMMA CheckApplies == ASSUME AInv, Writing, CheckObject, Later PROVE Applying' /\ Alone'
<1>1. ~Through /\ ~Passed(Now) /\ Now.does = "check" /\ Call(FALSE, cloud, d)
  BY DEF CheckObject, At
<1>2. SendsNoneOf(d) /\ TargetOf(d) = Target
  BY DEF SendsNoneOf, TargetOf, Target
<1> QED
  BY <1>1, <1>2, QuietCall DEF Carried, Getting, Making, Adopting, Sending, Clearing, Identifies, Identifying

LEMMA DataFacts ==
  ASSUME AInv
  PROVE  d \in Datas /\ cloud \in Clouds /\ saved \in States /\ d.attrs \in [R.attrs -> Values] /\ Attrs = R.attrs
         /\ \A u \in DOMAIN cloud : u # NoObject /\ cloud[u].attrs \in [R.attrs -> Values]
<1>1. Typed /\ IInv
  BY RunningFacts
<1>2. d \in Datas /\ cloud \in Clouds /\ saved \in States
  BY <1>1 DEF Typed, TypedData
<1>3. \A u \in DOMAIN cloud : u \in Uuid /\ cloud[u] \in Objects
  BY <1>2, CloudsFacts
<1> QED
  BY <1>1, <1>2, <1>3, AttrsOfSchema DEF Typed, Datas, Given, Objects, Uuid, NoObject

\* A Create names the object while it has no name.
LEMMA NamelessHere ==
  ASSUME AInv, Writing, ~Through, ~Passed(Now), Now.does \in Naming
  PROVE  op = "create" /\ d.id = NoObject
<1>1. PowerInv /\ IInv
  BY RunningFacts
<1>2. at \in DOMAIN program /\ Now = program[at]
  BY <1>1, NowFacts
<1>3. op = "create"
  BY <1>1, <1>2, WritingFacts DEF Writing
<1> QED
  BY <1>1, <1>3, NamelessFacts

LEMMA KnowApplies == ASSUME AInv, Writing, KnowObject, Later PROVE Applying' /\ Alone'
<1>1. ~Through /\ ~Passed(Now) /\ Now.does = "know" /\ Local([d EXCEPT !.id = d.made])
  BY DEF KnowObject, At
<1>2. op = "create" /\ d.id = NoObject
  BY <1>1, NamelessHere DEF Naming
<1> DEFINE data == [d EXCEPT !.id = d.made]
<1>3. data.id = d.made /\ data.made = d.made /\ data.attrs = d.attrs
  BY DataFacts DEF Datas
<1> HIDE DEF data
<1>4. SendsNoneOf(data) /\ TargetOf(data) = Target
  BY <1>2, <1>3 DEF SendsNoneOf, TargetOf, Target
<1>5. Call(FALSE, cloud, data)
  BY <1>1, LocalCalls DEF data
<1> QED
  BY <1>1, <1>2, <1>3, <1>4, <1>5, QuietCall DEF Carried, Getting, Making, Adopting, Sending, Clearing

\* At a search nothing is still to come: the object is there, and has what it was given.
LEMMA SearchFacts ==
  ASSUME AInv, Writing, ~Through, Now.does \in Looking
  PROVE  /\ \A j \in (at + 1)..Len(program) : program[j].does \notin Sending \cup Getting
         /\ \A a : Carried(a) => There(a) /\ d.attrs[a] = config.attrs[a]
         /\ Watched => Target # NoObject /\ Exists(Target)
         /\ \A data : SendsNoneOf(data)
<1>1. PowerInv /\ Handling
  BY RunningFacts
<1>2. at \in DOMAIN program /\ Now = program[at] /\ InOrder(program) /\ at \in Nat /\ Len(program) \in Nat
  BY <1>1, NowFacts, StepFacts
<1>3. \A j \in (at + 1)..Len(program) : program[j].does \notin Sending \cup Getting
  BY <1>2 DEF InOrder
<1>4. Now.does \notin Sending \cup Getting
  BY DEF Looking, Sending, Getting, Making, Clearing, Adopting
<1>5. \A j \in at..Len(program) : program[j].does \notin Sending \cup Getting
  BY <1>2, <1>3, <1>4
<1>6. \A a : ~Coming(a)
  BY <1>5, OnlySendingFixes DEF Coming
<1>7. ~Ahead(Getting)
  BY <1>5 DEF Ahead
<1>8. Watched => Target # NoObject
  BY <1>1, <1>7 DEF Handling, Writing, Target
<1> QED
  BY <1>1, <1>3, <1>6, <1>8 DEF Handling, Carried, SendsNoneOf

\* When it is looked for by its name, it has got that.
LEMMA NamedFacts ==
  ASSUME AInv, Writing, ~Through, Now.does = "findByName", op = "create", Carried("name"), faults.number = 0
  PROVE  There("name") /\ Target # NoObject /\ Exists(Target)
<1>1. PowerInv /\ Handling /\ TypedUser /\ Watched
  BY RunningFacts DEF Watched
<1>2. at \in DOMAIN program /\ Now = program[at] /\ program = R.create /\ at \in Nat /\ Len(program) \in Nat
  BY <1>1, NowFacts, StepFacts
<1>3. \A j \in (at + 1)..Len(program) : program[j].does \notin Getting /\ "name" \notin program[j].sets
  <2>1. Names(R)
    BY <1>1, CarryHere DEF TypedUser
  <2> QED
    BY <1>2, <2>1 DEF Names
<1>4. \A j \in at..Len(program) : program[j].does \notin Getting /\ ~Fixed(program[j], "name")
  <2>1. ~Fixed(Now, "name") /\ Now.does \notin Getting
    BY OnlySendingFixes DEF Sending, Getting, Making, Clearing, Adopting
  <2>2. \A j \in (at + 1)..Len(program) : ~Fixed(program[j], "name")
    BY <1>3 DEF Fixed, Fixes, Takes, Getting
  <2> QED
    BY <1>2, <1>3, <2>1, <2>2
<1>5. ~Coming("name") /\ ~Ahead(Getting)
  BY <1>4 DEF Coming, Ahead
<1> QED
  BY <1>1, <1>5 DEF Carried, Handling, Writing

\* What goes by the name finds the object, which has got its name.
LEMMA NamedTarget ==
  ASSUME AInv, Writing, ~Through, Now.does \in Looking \/ (Now.does = "findByName" /\ op = "create"), faults.number = 0,
         R.read.by = "name" \/ Has(R.create, {"findByName"})
  PROVE  SameName(d.attrs["name"]) = {Target} /\ Target # NoObject
<1>1. PowerInv /\ Plain /\ Handling /\ Alone /\ TypedUser /\ Watched /\ ~Misnames
  BY RunningFacts DEF Watched
<1>2. Names(R)
  BY <1>1, CarryHere DEF TypedUser
<1>3. "name" \in Sendable(R) /\ "name" \notin Keeps(R.update)
  BY <1>2 DEF Names
<1>4. "name" \in Trusted
  BY <1>1, <1>3, TrustedFacts DEF Exempt
<1>5. There("name") /\ d.attrs["name"] = config.attrs["name"] /\ Target # NoObject /\ Exists(Target)
  BY <1>1, <1>4, SearchFacts, NamedFacts DEF Handling, Carried
<1> QED
  BY <1>1, <1>5 DEF There, SameName, Exists, Alone, Single

LEMMA FindApplies == ASSUME AInv, Writing, FindObject \/ FindNamedObject, Later PROVE Applying' /\ Alone'
<1>1. ~Through /\ ~Passed(Now) /\ Now.does \in {"findByName", "findNamed"}
  BY DEF FindObject, FindNamedObject, At
<1>2. op = "create" /\ d.id = NoObject
  BY <1>1, NamelessHere DEF Naming
<1>3. PowerInv /\ Alone /\ Handling
  BY RunningFacts
<1>4. at \in DOMAIN program /\ Now = program[at] /\ program = R.create
  BY <1>1, <1>2, <1>3, NowFacts, StepFacts
<1>5. Watched => faults.number = 0
  BY <1>1, <1>3, <1>4, WritingFacts DEF Watched
<1>6. Now.does \notin Getting \cup Sending \cup {"noUpdate"}
  BY <1>1 DEF Getting, Making, Adopting, Sending, Clearing
<1>7. ASSUME NEW u \in SameName(d.attrs["name"]), Call(FALSE, cloud, [d EXCEPT !.id = u]) PROVE Applying' /\ Alone'
  <2> DEFINE data == [d EXCEPT !.id = u]
  <2>1. data.id = u /\ data.made = d.made /\ data.attrs = d.attrs /\ u # NoObject /\ u \in DOMAIN cloud
    BY DataFacts DEF Datas, SameName
  <2> HIDE DEF data
  <2>2. TargetOf(data) = u /\ SendsNoneOf(data)
    BY <2>1 DEF TargetOf, SendsNoneOf
  <2>3. ASSUME faults.number = 0 PROVE u = Target
    <3>1. Permanent => FALSE
      BY <1>1, <1>2, <1>3, <1>4, AdoptingFacts
    <3>2. Target # NoObject
      BY <1>2, <1>3, <2>1, <2>3, <3>1 DEF Alone, CreatesAlone
    <3>3. Exists(Target)
      BY <1>3, <2>3, <3>2 DEF Handling, Watched
    <3> QED
      BY <1>3, <2>1, <2>3, <3>3 DEF Alone, Single, Exists
  <2>4. Call(FALSE, cloud, data)
    BY <1>7 DEF data
  <2> QED
    BY <1>1, <1>5, <1>6, <2>1, <2>2, <2>3, <2>4, QuietCall DEF Carried
<1>8. ASSUME Now.does = "findByName", SameName(d.attrs["name"]) = {}, Call(TRUE, cloud, d) PROVE Applying' /\ Alone'
  <2>1. ASSUME faults.number = 0 PROVE FALSE
    BY <1>1, <1>2, <1>4, <1>8, <2>1, NamedTarget DEF Has
  <2>2. SendsNoneOf(d)
    BY DEF SendsNoneOf
  <2> QED
    BY <1>1, <1>6, <1>8, <2>1, <2>2, QuietCall
<1>9. ASSUME Now.does = "findNamed", Call(FALSE, cloud, d) PROVE Applying' /\ Alone'
  <2>1. SendsNoneOf(d) /\ TargetOf(d) = Target
    BY DEF SendsNoneOf, TargetOf, Target
  <2> QED
    BY <1>1, <1>6, <1>9, <2>1, QuietCall DEF Carried, Identifies, Identifying
<1> QED
  BY <1>7, <1>8, <1>9 DEF FindObject, FindNamedObject, At

LEMMA ReadApplies == ASSUME AInv, Writing, ReadObject, Later PROVE Applying' /\ Alone'
<1>1. ~Through /\ ~Passed(Now) /\ Now.does = "read" /\ Now.does \in Looking
  BY DEF ReadObject, At, Looking
<1>2. /\ \A a : Carried(a) => There(a) /\ d.attrs[a] = config.attrs[a]
      /\ Watched => Target # NoObject /\ Exists(Target)
      /\ \A data : SendsNoneOf(data)
  BY <1>1, SearchFacts
<1>3. Now.does \notin Getting \cup Sending \cup {"noUpdate"} /\ ~Identifies(Now)
  BY <1>1 DEF Getting, Making, Adopting, Sending, Clearing, Identifies, Identifying
<1>4. ~ById => R.read.by \in {"name", "nothing"}
  <2>1. R.read \in ReadingsOver(R.attrs)
    BY RunningFacts, ProgramTyped DEF TypedUser
  <2> QED
    BY <2>1 DEF ReadingsOver, ById, ByIdentity
<1>5. Watched /\ R.read.by # "nothing" => Found(Target, d.attrs) = {Target}
  <2>1. CASE ById
    BY <1>2, <2>1, FoundFacts
  <2>2. CASE R.read.by = "name"
    BY <1>1, <2>2, NamedTarget DEF Watched, ById, ByIdentity, Found
  <2> QED
    BY <1>4, <2>1, <2>2
<1>6. R.read.by = "nothing" => Found(Target, d.attrs) = {}
  BY DEF Found
<1>7. Trusted \cup Sendable(R) \subseteq Attrs
  BY RunningFacts, TrustedFacts, SendableFacts
<1>8. ASSUME NEW u \in Found(Target, d.attrs),
             Call(FALSE, cloud, [d EXCEPT !.id = u, !.attrs = ReadAttrs(d.attrs, u)])
      PROVE  Applying' /\ Alone'
  <2> DEFINE data == [d EXCEPT !.id = u, !.attrs = ReadAttrs(d.attrs, u)]
  <2>1. data.id = u /\ data.made = d.made /\ data.attrs = ReadAttrs(d.attrs, u) /\ u \in DOMAIN cloud /\ u # NoObject
    BY DataFacts, FoundFacts DEF Datas
  <2> HIDE DEF data
  <2>2. TargetOf(data) = u
    BY <2>1 DEF TargetOf
  <2>3. Watched => u = Target
    BY <1>5, <1>6, <1>8
  <2>4. \A a \in Attrs : data.attrs[a] \in {d.attrs[a], cloud[u].attrs[a]}
    BY <2>1 DEF ReadAttrs
  <2>5. Watched => \A a \in Trusted : Carried(a) => data.attrs[a] = config.attrs[a]
    BY <1>2, <1>7, <2>3, <2>4 DEF There
  <2>6. faults.number = 0 => Watched
    BY DEF Watched
  <2>7. Call(FALSE, cloud, data)
    BY <1>8 DEF data
  <2> QED
    BY <1>1, <1>2, <1>3, <1>7, <2>1, <2>2, <2>3, <2>4, <2>5, <2>6, <2>7, QuietCall
<1>9. ASSUME R.read.by # "nothing", Found(Target, d.attrs) = {}, NEW refused, NEW data, Call(refused, cloud, data)
      PROVE  Applying' /\ Alone'
  <2>1. ~Watched
    BY <1>5, <1>9
  <2>2. faults.number # 0
    BY <2>1 DEF Watched
  <2> QED
    BY <1>1, <1>2, <1>3, <1>9, <2>1, <2>2, QuietCall
<1>10. ASSUME Local(d) PROVE Applying' /\ Alone'
  BY <1>1, <1>2, <1>3, <1>10, LocalCalls, QuietCall DEF TargetOf, Target, Carried
<1> QED
  BY <1>8, <1>9, <1>10 DEF ReadObject

\* What a step sends of an attribute that is still as configured.
LEMMA SentFacts ==
  ASSUME PowerInv, Plain, Writing, ~Through, NEW a \in Attrs, d.attrs[a] = config.attrs[a]
  PROVE  /\ Takes(Now, a, saved.attrs[a], config.attrs[a]) => a \in Sent(Now)
         /\ Now.does \in Clearing /\ a \in Sent(Now) /\ ~Undone(Now, a) => Result(Now, config.attrs[a]) = config.attrs[a]
<1>1. a \in Concerned <=> saved.attrs[a] # config.attrs[a]
  BY ConcernedFacts
<1>2. Planned = config.attrs /\ Matters(Now, Concerned, Planned)
  BY ConcernedFacts, NowFacts
<1>3. Takes(Now, a, saved.attrs[a], config.attrs[a]) => a \in Sent(Now)
  BY <1>1 DEF Takes, Sent
<1>4. Now.on = {a} => saved.attrs[a] # config.attrs[a] /\ saved.attrs[a] \in Now.from /\ config.attrs[a] \in Now.to
  BY <1>1, <1>2 DEF Matters
<1>5. a \in Sent(Now) => a \in Now.sets /\ (Now.all \/ saved.attrs[a] # config.attrs[a])
  BY <1>1 DEF Sent
<1> QED
  BY <1>3, <1>4, <1>5 DEF Undone, Undoes

\* A step that turns the object into another.
LEMMA ChangingApplies ==
  ASSUME AInv, Writing, ~Through, ~Passed(Now), Now.does \in {"write", "clear", "disable", "off", "on"},
         NEW object, Changing(object), Later,
         Watched /\ Exists(Target) =>
           \A a \in Attrs : (There(a) \/ Fixed(Now, a)) /\ Carried(a) => object.attrs[a] = config.attrs[a],
         faults.number = 0 /\ Exists(Target) =>
           \A a \in Sendable(R) \ Handled : d.attrs[a] \in {Unset, cloud[Target].attrs[a]} =>
             d.attrs[a] \in {Unset, object.attrs[a]}
  PROVE  Applying' /\ Alone'
<1>1. PowerInv /\ Plain /\ Handling /\ Alone /\ TypedUser
  BY RunningFacts
<1>2. at \in DOMAIN program /\ Now = program[at] /\ InOrder(program) /\ at \in Nat /\ Len(program) \in Nat /\ at \in 1..Len(program)
  BY <1>1, NowFacts, StepFacts
<1>3. Now.does \notin Getting \cup {"noUpdate"} /\ ~Identifies(Now)
  BY DEF Getting, Making, Adopting, Identifies, Identifying
<1>4. CASE ~Exists(Target)
  <2>1. Call(~Now.lenient, cloud, d) /\ ~Now.lenient
    BY <1>1, <1>2, <1>4, WritingFacts DEF Changing
  <2>2. faults.number = 0 => Target = NoObject /\ op = "create"
    BY <1>1, <1>4 DEF Handling, Watched, Writing, Target
  <2>3. SendsNoneOf(d)
    BY DEF SendsNoneOf
  <2> QED
    BY <1>3, <2>1, <2>2, <2>3, CallApplies
<1>5. CASE Exists(Target)
  <2> DEFINE data == Answered(object)
             result == With(Target, object)
  <2>1. Call(FALSE, result, data)
    BY <1>5 DEF Changing
  <2>2. DOMAIN result = DOMAIN cloud /\ result[Target] = object
    BY <1>5 DEF With, Exists
  <2>3. data.id = d.id /\ data.made = d.made /\ TargetOf(data) = Target /\ Target # NoObject
    BY <1>5, DataFacts DEF Answered, Datas, TargetOf, Target, Exists
  <2>4. \A a \in Attrs :
          data.attrs[a] = IF a \in Now.answers /\ object.attrs[a] # Unset THEN object.attrs[a] ELSE d.attrs[a]
    BY DataFacts DEF Answered, Datas
  <2>5. Now.answers # {} => at = Len(program)
    BY <1>2 DEF InOrder
  <2>6. Now.answers = {} => data.attrs = d.attrs
    <3> SUFFICES ASSUME Now.answers = {} PROVE data.attrs = d.attrs
      OBVIOUS
    <3>1. data.attrs = [a \in Attrs |-> d.attrs[a]]
      BY DataFacts DEF Answered, Datas
    <3> QED
      BY <3>1, DataFacts
  <2> HIDE DEF data, result
  <2>7. SendsNoneOf(data)
    BY <1>2, <2>5, <2>6 DEF SendsNoneOf
  <2>8. Trusted \cup Sendable(R) \subseteq Attrs
    BY <1>1, TrustedFacts, SendableFacts
  <2>9. ASSUME Watched PROVE Sound(result, data)
    <3>1. op = "create" => (Target = NoObject <=> \E j \in (at + 1)..Len(program) : program[j].does \in Getting)
      BY <1>1, <1>2, <1>3, <2>9 DEF Handling, Ahead
    <3>2. ASSUME NEW a \in Trusted, Carried(a) PROVE data.attrs[a] = config.attrs[a]
      <4>1. d.attrs[a] = config.attrs[a]
        BY <3>2 DEF Carried
      <4>2. ASSUME a \in Now.answers PROVE object.attrs[a] = config.attrs[a]
        <5>1. at = Len(program)
          BY <2>5, <4>2
        <5>2. There(a) \/ Fixed(Now, a)
          BY <1>2, <3>2, <5>1 DEF Carried, Coming
        <5> QED
          BY <1>5, <2>8, <2>9, <3>2, <5>2
      <4> QED
        BY <2>4, <2>8, <4>1, <4>2
    <3>3. ASSUME NEW a \in Trusted, There(a) \/ Fixed(Now, a) PROVE object.attrs[a] = config.attrs[a]
      BY <1>1, <1>5, <2>8, <2>9, <3>3 DEF Handling
    <3> QED
      BY <1>1, <1>5, <2>2, <2>3, <2>9, <3>1, <3>2, <3>3 DEF Sound, SoundFor, Exists, Handling
  <2>10. ASSUME faults.number = 0 PROVE OnItsOwn(result, data)
    <3>1. Single /\ CreatesAlone /\ WritesAlone
      BY <1>1, <2>10 DEF Alone
    <3>2. op = "create" /\ data.id = NoObject /\ data.made # NoObject =>
            Permanent \/ \E j \in (at + 1)..Len(program) : Identifies(program[j])
      <4>1. \A j \in at..Len(program) : Identifies(program[j]) => j \in (at + 1)..Len(program)
        BY <1>2, <1>3
      <4> QED
        BY <2>3, <3>1, <4>1 DEF CreatesAlone
    <3>3. \A a \in Sendable(R) \ Handled : data.attrs[a] \in {Unset, object.attrs[a]}
      BY <1>5, <2>3, <2>4, <2>8, <2>10, <3>1 DEF WritesAlone
    <3> QED
      BY <2>2, <2>3, <3>1, <3>2, <3>3 DEF OnItsOwn, Single
  <2> QED
    BY <1>3, <2>1, <2>7, <2>9, <2>10, CallApplies
<1> QED
  BY <1>4, <1>5

LEMMA WriteApplies ==
  ASSUME AInv, Writing, WriteObject \/ ClearObject \/ DisableObject \/ TurnObjectOff \/ TurnObjectOn, Later
  PROVE  Applying' /\ Alone'
<1>1. ~Through /\ ~Passed(Now) /\ Now.does \in {"write", "clear", "disable", "off", "on"}
  BY DEF WriteObject, ClearObject, DisableObject, TurnObjectOff, TurnObjectOn, At
<1>2. PowerInv /\ Plain /\ Unread
  BY RunningFacts
<1>3. at \in at..Len(program) /\ Now = program[at]
  BY <1>1, <1>2, NowFacts, StepFacts
<1>4. Exists(Target) => cloud[Target].attrs \in [Attrs -> Values]
  BY DataFacts DEF Exists
<1>5. ASSUME NEW attrs, NEW object, Changing(object), Now.does \in Clearing \cup {"write"},
             Exists(Target) => object.attrs = [a \in Attrs |-> IF a \in Sent(Now) THEN attrs[a] ELSE cloud[Target].attrs[a]],
             \A a \in Attrs : attrs[a] = Result(Now, d.attrs[a])
      PROVE  Applying' /\ Alone'
  <2>1. d.attrs = config.attrs
    BY <1>2, <1>3, <1>5 DEF Unread, Ahead, Sending
  <2>2. ASSUME Exists(Target), NEW a \in Attrs, There(a) \/ Fixed(Now, a) PROVE object.attrs[a] = config.attrs[a]
    <3>1. Fixed(Now, a) => a \in Sent(Now) /\ Result(Now, config.attrs[a]) = config.attrs[a]
      BY <1>1, <1>2, <1>5, <2>1, SentFacts DEF Fixed, Fixes, Making, Clearing
    <3>2. There(a) => ~Undone(Now, a) /\ cloud[Target].attrs[a] = config.attrs[a]
      BY <1>3 DEF There, Kept
    <3>3. Now.does \notin Clearing => Result(Now, config.attrs[a]) = config.attrs[a]
      BY DEF Result, Clearing
    <3>4. There(a) /\ a \in Sent(Now) => Result(Now, config.attrs[a]) = config.attrs[a]
      BY <1>1, <1>2, <2>1, <3>2, <3>3, SentFacts
    <3> QED
      BY <1>5, <2>1, <2>2, <3>1, <3>2, <3>4
  <2>3. \A a \in Sendable(R) \ Handled : d.attrs[a] = Unset
    BY <1>2, <2>1, RunningFacts, TrustedFacts
  <2> QED
    BY <1>1, <1>5, <2>2, <2>3, ChangingApplies
<1>6. ASSUME NEW attrs, Exists(Target)
      PROVE  Written(Now, cloud[Target], attrs).attrs = [a \in Attrs |-> IF a \in Sent(Now) THEN attrs[a] ELSE cloud[Target].attrs[a]]
  BY <1>6, DataFacts, CloudsFacts DEF Written, Exists, Objects
<1>7. CASE WriteObject
  <2>1. \A a \in Attrs : d.attrs[a] = Result(Now, d.attrs[a])
    BY <1>7 DEF WriteObject, At, Result
  <2> QED
    BY <1>5, <1>6, <1>7, <2>1 DEF WriteObject, At
<1>8. CASE ClearObject
  <2>1. \A a \in Attrs : Nothing[a] = Result(Now, d.attrs[a])
    BY <1>8 DEF ClearObject, At, Result, Nothing
  <2> QED
    BY <1>5, <1>6, <1>8, <2>1 DEF ClearObject, Cleared, At, Clearing
<1>9. CASE DisableObject
  <2>1. \A a \in Attrs : [b \in Attrs |-> 2][a] = Result(Now, d.attrs[a])
    BY <1>9 DEF DisableObject, At, Result
  <2> QED
    BY <1>5, <1>6, <1>9, <2>1 DEF DisableObject, At, Clearing
<1>10. ASSUME NEW value, Changing([cloud[Target] EXCEPT !.on = value]), Now.does \in {"on", "off"} PROVE Applying' /\ Alone'
  <2> DEFINE object == [cloud[Target] EXCEPT !.on = value]
  <2>1. Exists(Target) => object.attrs = cloud[Target].attrs
    BY DataFacts, CloudsFacts DEF Exists, Objects
  <2>2. Changing(object)
    BY <1>10
  <2> HIDE DEF object
  <2>3. \A a : ~Fixed(Now, a)
    BY <1>10, OnlySendingFixes DEF Sending, Making, Clearing
  <2> QED
    BY <1>1, <2>1, <2>2, <2>3, ChangingApplies DEF There
<1> QED
  BY <1>7, <1>8, <1>9, <1>10 DEF TurnObjectOff, TurnObjectOn, At

\* A step whose error is only logged gives an attribute no value, and takes none that is to stay.
LEMMA ClearApplies == ASSUME AInv, Writing, ClearObjectIfPossible, Later PROVE Applying' /\ Alone'
<1>1. /\ ~Through /\ Now.does = "clear" /\ Now.ignored /\ Proceed(d)
      /\ cloud' = cloud \/ (Exists(Target) /\ cloud' = With(Target, Cleared))
  BY DEF ClearObjectIfPossible, CallLogged, At
<1>2. PowerInv /\ Plain /\ Unread /\ Handling /\ Alone
  BY RunningFacts
<1>3. at \in at..Len(program) /\ Now = program[at]
  BY <1>1, <1>2, NowFacts, StepFacts
<1>4. d.attrs = config.attrs
  BY <1>1, <1>2, <1>3 DEF Unread, Ahead, Sending, Clearing
<1>5. /\ Now.does \notin Getting \cup {"noUpdate"} /\ ~Identifies(Now) /\ \A a : ~Fixed(Now, a)
      /\ TargetOf(d) = Target /\ SendsNoneOf(d)
  BY <1>1 DEF Getting, Making, Adopting, Identifies, Identifying, Fixed, Fixes, TargetOf, Target, SendsNoneOf
<1>6. Watched => Sound(cloud, d)
  BY <1>1, <1>5, Stays DEF Carried
<1>7. faults.number = 0 => OnItsOwn(cloud, d)
  BY <1>1, <1>5, Stays DEF Carried
<1>8. CASE cloud' = cloud
  BY <1>1, <1>5, <1>6, <1>7, <1>8, ProceedHandles, ProceedAlone
<1>9. CASE Exists(Target) /\ cloud' = With(Target, Cleared)
  <2> DEFINE result == With(Target, Cleared)
  <2>1. DOMAIN result = DOMAIN cloud /\ result[Target] = Cleared
    BY <1>9 DEF With, Exists
  <2>2. ASSUME NEW a \in Attrs, There(a) PROVE Cleared.attrs[a] = config.attrs[a]
    <3>1. Cleared.attrs = [b \in Attrs |-> IF b \in Sent(Now) THEN Nothing[b] ELSE cloud[Target].attrs[b]]
      BY <1>9, DataFacts, CloudsFacts DEF Cleared, Written, Exists, Objects
    <3>2. ~Undone(Now, a) /\ cloud[Target].attrs[a] = config.attrs[a]
      BY <1>3, <2>2 DEF There, Kept
    <3>3. a \in Sent(Now) => Result(Now, config.attrs[a]) = config.attrs[a]
      BY <1>1, <1>2, <1>4, <3>2, SentFacts DEF Clearing
    <3> QED
      BY <1>1, <3>1, <3>2, <3>3 DEF Result, Nothing
  <2>3. Trusted \subseteq Attrs /\ \A a \in Sendable(R) \ Handled : d.attrs[a] = Unset
    BY <1>2, <1>4, RunningFacts, TrustedFacts, SendableFacts
  <2> HIDE DEF result
  <2>4. Watched => Sound(result, d)
    BY <1>5, <1>6, <2>1, <2>2, <2>3 DEF Sound, SoundFor
  <2>5. faults.number = 0 => OnItsOwn(result, d)
    BY <1>5, <1>7, <2>1, <2>3 DEF OnItsOwn
  <2> QED
    BY <1>1, <1>5, <1>9, <2>4, <2>5, ProceedHandles, ProceedAlone DEF result
<1> QED
  BY <1>1, <1>8, <1>9

\* After a fault, what was to be looked up is not trusted.
LEMMA Unguessed ==
  ASSUME AInv, Writing, ~Through, Later, faults'.number # 0
  PROVE  \A a \in Trusted' : a \in Attrs /\ a \notin Now.guesses
<1>1. PowerInv /\ Plain /\ TypedUser /\ R' = R
  BY RunningFacts, SameAttrs DEF Later
<1>2. Trusted' \subseteq Trusted
  BY <1>1, TrustShrinks DEF Later
<1>3. Trusted' \cap Guessed(R) = {}
  BY <1>1 DEF Trusted
<1>4. Now.guesses \subseteq Guessed(R)
  BY <1>1, NowFacts, StepFacts DEF Guessed, StepsOf
<1> QED
  BY <1>1, <1>2, <1>3, <1>4, TrustedFacts, SendableFacts

LEMMA WriteNothingApplies == ASSUME AInv, Writing, WriteNothing, Later PROVE Applying' /\ Alone'
<1>1. /\ ~Through /\ Now.does = "write" /\ Now.sets = Now.guesses /\ Proceed(d) /\ cloud' = cloud
      /\ faults'.number # 0
  BY RunningFacts, FaultFacts DEF WriteNothing, CallWithout, At
<1>2. \A a \in Trusted' : a \in Attrs /\ a \notin Now.guesses
  BY <1>1, Unguessed
<1>3. \A a \in Trusted' : ~Fixed(Now, a)
  BY <1>1, <1>2 DEF Fixed, Fixes, Takes, Making
<1>4. /\ Now.does \notin Getting \cup {"noUpdate"} /\ TargetOf(d) = Target /\ SendsNoneOf(d)
  BY <1>1 DEF Getting, Making, Adopting, TargetOf, Target, SendsNoneOf
<1>5. PowerInv /\ Handling /\ Plain /\ TypedUser
  BY RunningFacts
<1>6. at \in Nat /\ Len(program) \in Nat /\ Now = program[at] /\ at \in 1..Len(program)
  BY <1>1, <1>5, StepFacts, NowFacts
<1>7. Ahead(Getting) <=> \E j \in (at + 1)..Len(program) : program[j].does \in Getting
  BY <1>4, <1>6 DEF Ahead
<1>8. Watched' => Watched
  BY <1>5, TrustShrinks DEF Later
<1>9. Watched' => SoundFor(Trusted', cloud, d)
  BY <1>3, <1>4, <1>5, <1>7, <1>8 DEF Handling, SoundFor, There, Exists, Carried
<1> QED
  BY <1>1, <1>4, <1>9, ProceedTrusts DEF Alone

\* Before the step that chooses the object there is none, and nothing was read.
LEMMA Ungotten ==
  ASSUME AInv, Writing, ~Through, Now.does \in Getting
  PROVE  /\ op = "create" /\ d.attrs = config.attrs
         /\ \A j \in (at + 1)..Len(program) : program[j].does \notin Getting
         /\ Now.does = "makeUnknown" => \E j \in (at + 1)..Len(program) : Identifies(program[j])
         /\ Watched => Target = NoObject /\ d.id = NoObject /\ d.made = NoObject
         /\ faults.number = 0 /\ Now.does \in Making => DOMAIN cloud = {}
<1>1. PowerInv /\ Handling /\ Alone /\ Unread
  BY RunningFacts
<1>2. at \in DOMAIN program /\ at \in at..Len(program) /\ Now = program[at] /\ at \in Nat /\ Len(program) \in Nat /\ DOMAIN program = 1..Len(program)
  BY <1>1, NowFacts, StepFacts
<1>3. op = "create"
  BY <1>1, <1>2, GettingFacts
<1>4. Ahead(Getting) /\ Ahead(Sending \cup Getting)
  BY <1>2 DEF Ahead
<1>5. \A j \in (at + 1)..Len(program) : program[j].does \notin Getting
  <2> SUFFICES ASSUME NEW j \in (at + 1)..Len(program), program[j].does \in Getting PROVE FALSE
    OBVIOUS
  <2>1. j \in DOMAIN program /\ j # at
    BY <1>2
  <2> QED
    BY <1>1, <1>2, <2>1, GettingFacts
<1>6. Now.does = "makeUnknown" => \E j \in (at + 1)..Len(program) : Identifies(program[j])
  BY <1>1, <1>2, GettingFacts
<1>7. Watched => Target = NoObject
  BY <1>1, <1>3, <1>4 DEF Handling, Writing
<1>8. ASSUME faults.number = 0, Now.does \in Making PROVE DOMAIN cloud = {}
  <2>1. ~Permanent
    BY <1>1, <1>2, <1>8, AdoptingFacts
  <2> QED
    BY <1>1, <1>3, <1>7, <1>8, <2>1 DEF Alone, CreatesAlone, Watched
<1>9. Target = NoObject => d.id = NoObject /\ d.made = NoObject
  BY DEF Target
<1> QED
  BY <1>1, <1>3, <1>4, <1>5, <1>6, <1>7, <1>8, <1>9 DEF Unread

\* The handler goes on with the object u of `result', the one it made or took.
LEMMA GottenSound ==
  ASSUME AInv, Writing, ~Through, Now.does \in Getting, NEW result, NEW data, NEW u \in DOMAIN result, u # NoObject,
         DOMAIN cloud \subseteq DOMAIN result, data.attrs = d.attrs,
         data.id = u \/ (data.made = u /\ data.id = d.id /\ Now.does # "make"),
         \A a \in Attrs : Fixed(Now, a) => result[u].attrs[a] = config.attrs[a],
         faults.number = 0 => DOMAIN result = {u}
  PROVE  /\ SendsNoneOf(data) /\ (Watched => Sound(result, data))
         /\ (faults.number = 0 /\ (data.id = NoObject => Permanent \/ Now.does = "makeUnknown") => OnItsOwn(result, data))
<1>1. PowerInv /\ Plain /\ TypedUser
  BY RunningFacts
<1>2. Watched => TargetOf(data) = u
  BY Ungotten DEF TargetOf
<1>3. Trusted \subseteq Attrs
  BY <1>1, TrustedFacts, SendableFacts
<1>4. Watched => Sound(result, data)
  BY <1>2, <1>3, Ungotten DEF Sound, SoundFor, There, Carried
<1>5. \A a \in Sendable(R) \ Handled : d.attrs[a] = Unset
  BY <1>1, Ungotten, TrustedFacts
<1>6. ASSUME faults.number = 0, data.id = NoObject => Permanent \/ Now.does = "makeUnknown" PROVE OnItsOwn(result, data)
  <2>1. TargetOf(data) = u
    BY <1>2, <1>6 DEF Watched
  <2> QED
    BY <1>5, <1>6, <2>1, Ungotten DEF OnItsOwn
<1> QED
  BY <1>4, <1>6 DEF SendsNoneOf

LEMMA NewFacts ==
  ASSUME AInv, Unused # {}, NEW object
  PROVE  /\ DOMAIN With(NewUuid, object) = DOMAIN cloud \cup {NewUuid} /\ With(NewUuid, object)[NewUuid] = object
         /\ NewUuid # NoObject
  BY NewUuidFacts DEF With

LEMMA MakeApplies == ASSUME AInv, Writing, MakeObject \/ MakeUnknownObject, Later PROVE Applying' /\ Alone'
<1> DEFINE result == With(NewUuid, NewObject(Now))
<1>1. ~Through /\ ~Passed(Now) /\ Now.does \in Making /\ Unused # {}
  BY DEF MakeObject, MakeUnknownObject, At, Making
<1>2. Now.does \in Getting /\ op = "create" /\ d.attrs = config.attrs
  BY <1>1, Ungotten DEF Getting
<1>3. PowerInv /\ Plain /\ TypedUser
  BY RunningFacts
<1>4. DOMAIN result = DOMAIN cloud \cup {NewUuid} /\ result[NewUuid] = NewObject(Now) /\ NewUuid # NoObject
  BY <1>1, NewFacts
<1>5. ASSUME NEW a \in Attrs
      PROVE  NewObject(Now).attrs[a] = IF a \in Sent(Now) THEN d.attrs[a] ELSE Born(R, a)
  BY <1>5 DEF NewObject, Written, BlankObject, Born
<1>6. ASSUME NEW a \in Attrs, Fixed(Now, a) PROVE result[NewUuid].attrs[a] = config.attrs[a]
  BY <1>1, <1>2, <1>3, <1>4, <1>5, <1>6, SentFacts DEF Fixed, Fixes
<1>7. faults.number = 0 => DOMAIN result = {NewUuid}
  BY <1>1, <1>2, <1>4, Ungotten
<1> HIDE DEF result
<1>8. ASSUME NEW data, data.attrs = d.attrs,
             data.id = NewUuid \/ (data.made = NewUuid /\ data.id = d.id /\ Now.does = "makeUnknown")
      PROVE  SendsNoneOf(data) /\ (Watched => Sound(result, data)) /\ (faults.number = 0 => OnItsOwn(result, data))
  <2>1. NewUuid \in DOMAIN result /\ NewUuid # NoObject /\ DOMAIN cloud \subseteq DOMAIN result
    BY <1>4
  <2>2. data.id = NewUuid \/ (data.made = NewUuid /\ data.id = d.id /\ Now.does # "make")
    BY <1>8
  <2>3. data.id = NoObject => Permanent \/ Now.does = "makeUnknown"
    BY <1>8, <1>4
  <2>4. \A a \in Attrs : Fixed(Now, a) => result[NewUuid].attrs[a] = config.attrs[a]
    BY <1>6
  <2> QED
    BY <1>1, <1>2, <1>7, <1>8, <2>1, <2>2, <2>3, <2>4, GottenSound
<1>9. CASE MakeObject
  <2> DEFINE data == [d EXCEPT !.id = NewUuid]
  <2>1. data.id = NewUuid /\ data.attrs = d.attrs
    BY DataFacts DEF Datas
  <2>2. Call(Taking(Now, d.attrs), result, data)
    BY <1>9 DEF MakeObject, result
  <2> HIDE DEF data
  <2>3. SendsNoneOf(data) /\ (Watched => Sound(result, data)) /\ (faults.number = 0 => OnItsOwn(result, data))
    BY <1>8, <2>1
  <2> QED
    BY <1>1, <1>2, <2>2, <2>3, CallApplies, Ungotten DEF Watched
<1>10. CASE MakeUnknownObject
  <2> DEFINE data == [d EXCEPT !.made = NewUuid]
  <2>1. data.id = d.id /\ data.made = NewUuid /\ data.attrs = d.attrs /\ Now.does = "makeUnknown"
    BY <1>10, DataFacts DEF Datas, MakeUnknownObject, At
  <2>2. Call(FALSE, result, data)
    BY <1>10 DEF MakeUnknownObject, result
  <2> HIDE DEF data
  <2>3. SendsNoneOf(data) /\ (Watched => Sound(result, data)) /\ (faults.number = 0 => OnItsOwn(result, data))
    BY <1>8, <2>1
  <2> QED
    BY <1>1, <1>2, <2>2, <2>3, CallApplies
<1> QED
  BY <1>9, <1>10

LEMMA MakeWithoutApplies == ASSUME AInv, Writing, MakeObjectWithout, Later PROVE Applying' /\ Alone'
<1> DEFINE s == [Now EXCEPT !.sets = @ \ Now.guesses]
           result == With(NewUuid, NewObject(s))
           data == [d EXCEPT !.id = NewUuid]
<1>1. ~Through /\ Now.does = "make" /\ Unused # {} /\ Proceed(data) /\ cloud' = result /\ faults'.number # 0
  BY RunningFacts, FaultFacts DEF MakeObjectWithout, CallWithout, At
<1>2. PowerInv /\ Plain /\ TypedUser /\ Now \in StepsOver(R.attrs)
  BY <1>1, RunningFacts, NowFacts
<1>3. /\ op = "create" /\ d.attrs = config.attrs /\ (Watched => Target = NoObject)
      /\ \A j \in (at + 1)..Len(program) : program[j].does \notin Getting
  BY <1>1, Ungotten DEF Getting, Making
<1>4. DOMAIN result = DOMAIN cloud \cup {NewUuid} /\ result[NewUuid] = NewObject(s) /\ NewUuid # NoObject
  BY <1>1, NewFacts
<1>5. data.id = NewUuid /\ data.attrs = d.attrs /\ TargetOf(data) = NewUuid
  BY <1>4, DataFacts DEF Datas, TargetOf
<1>6. s.sets = Now.sets \ Now.guesses /\ s.all = Now.all /\ s.keeps = Now.keeps
  BY <1>2 DEF StepsOver
<1> HIDE DEF s, data
<1>7. ASSUME NEW a \in Attrs, a \notin Now.guesses, Fixed(Now, a) PROVE NewObject(s).attrs[a] = config.attrs[a]
  <2>1. NewObject(s).attrs[a] = IF a \in Sent(s) THEN d.attrs[a] ELSE Born(R, a)
    BY DEF NewObject, Written, BlankObject, Born
  <2>2. a \in Sent(s) <=> a \in Sent(Now)
    BY <1>6, <1>7 DEF Sent
  <2> QED
    BY <1>1, <1>2, <1>3, <1>7, <2>1, <2>2, SentFacts DEF Fixed, Fixes
<1>8. \A a \in Trusted' : a \in Attrs /\ a \notin Now.guesses
  BY <1>1, Unguessed
<1>9. Watched' => Watched
  BY <1>2, TrustShrinks DEF Later
<1> HIDE DEF result
<1>10. Watched' => SoundFor(Trusted', result, data)
  BY <1>3, <1>4, <1>5, <1>7, <1>8, <1>9 DEF SoundFor, There, Carried
<1> QED
  BY <1>1, <1>5, <1>10, ProceedTrusts DEF Alone, SendsNoneOf

LEMMA AdoptApplies == ASSUME AInv, Writing, AdoptObject, Later PROVE Applying' /\ Alone'
<1>1. ~Through /\ Now.does \in Adopting
  BY DEF AdoptObject, At, Adopting
<1>2. Now.does \in Getting /\ op = "create"
  BY <1>1, Ungotten DEF Getting
<1>3. PowerInv /\ Alone /\ Permanent
  <2>1. PowerInv /\ Alone
    BY RunningFacts
  <2> QED
    BY <1>1, <2>1, NowFacts, AdoptingFacts
<1>4. \A a : ~Fixed(Now, a)
  BY <1>1, OnlySendingFixes DEF Adopting, Sending, Making, Clearing
<1>5. ASSUME NEW u \in DOMAIN cloud', u # NoObject, DOMAIN cloud \subseteq DOMAIN cloud', Proceed(Adopted(u)),
             faults.number = 0 => DOMAIN cloud' = {u}
      PROVE  Applying' /\ Alone'
  <2> DEFINE data == Adopted(u)
  <2>1. data.attrs = d.attrs /\ (data.id = u \/ (data.made = u /\ data.id = d.id /\ Now.does # "make"))
    BY <1>1, DataFacts DEF Adopted, Datas, Adopting
  <2>2. Proceed(data)
    BY <1>5
  <2> HIDE DEF data
  <2>3. SendsNoneOf(data) /\ (Watched => Sound(cloud', data)) /\ (faults.number = 0 => OnItsOwn(cloud', data))
    BY <1>1, <1>2, <1>3, <1>4, <1>5, <2>1, GottenSound
  <2> QED
    BY <1>1, <1>2, <2>2, <2>3, ProceedHandles, ProceedAlone
<1>6. CASE cloud = [u \in {} |-> u]
  <2>1. cloud' = With(NewUuid, [BlankObject EXCEPT !.own = FALSE]) /\ Proceed(Adopted(NewUuid)) /\ Unused # {}
    BY <1>6 DEF AdoptObject
  <2>2. DOMAIN cloud' = {NewUuid} /\ NewUuid # NoObject /\ DOMAIN cloud = {}
    BY <1>6, <2>1, NewFacts
  <2> QED
    BY <1>5, <2>1, <2>2
<1>7. CASE cloud # [u \in {} |-> u]
  <2>1. PICK u \in DOMAIN cloud : Proceed(Adopted(u)) /\ cloud' = cloud
    BY <1>7 DEF AdoptObject
  <2>2. faults.number = 0 => DOMAIN cloud' = {u}
    BY <1>3, <2>1 DEF Alone, Single
  <2> QED
    BY <1>5, <2>1, <2>2, DataFacts
<1> QED
  BY <1>6, <1>7

\* A state that rests is enough: an idle provider has no handler to speak of.
LEMMA RestAlone ==
  ASSUME op' = "idle", faults'.number = 0 => Single' /\ RestsAlone'
  PROVE  Alone'
  BY DEF Alone, CreatesAlone, WritesAlone, DeletesAlone, Writing

LEMMA RefusalApplies == ASSUME AInv, Writing, Refusal, Later PROVE Applying' /\ Alone'
<1>1. PowerInv /\ Plain /\ Handling /\ Alone /\ IInv /\ Identity /\ ~Through /\ cloud' = cloud /\ UNCHANGED <<kind, config, faults>>
  BY RunningFacts DEF Refusal, At, NoFault, Outside, IInv
<1>2. at \in DOMAIN program /\ Now = program[at] /\ at \in Nat /\ Len(program) \in Nat /\ DOMAIN program = 1..Len(program)
      /\ program = IF op = "create" THEN R.create ELSE R.update
  BY <1>1, NowFacts, StepFacts
<1>3. R' = R /\ Permanent' = Permanent /\ Nothing' = Nothing /\ Single' = Single
  BY <1>1, SameAttrs DEF Single
<1>4. CASE At("refuse") /\ ReturnError(d)
  <2>1. /\ Applying' /\ op' = "idle"
        /\ saved' = saved \/ (saved'.id = d.id /\ (d.id = NoObject => saved' = Gone))
    BY <1>1, <1>4, ErrorApplies
  <2>2. op = "create"
    BY <1>1, <1>2, <1>4, WritingFacts DEF At, Writing
  <2>3. ASSUME faults.number = 0 PROVE Single' /\ RestsAlone'
    <3>1. PICK g \in DOMAIN R.create : ChoosesAt(R, g)
      BY <1>1, CarryHere DEF CreatesOne, IInv, Typed, TypedUser
    <3>2. program[g].does \in Getting /\ at < g /\ g \in DOMAIN program
      BY <1>2, <1>4, <2>2, <3>1 DEF ChoosesAt, At
    <3>3. g \in at..Len(program)
      BY <1>2, <3>2
    <3>4. Target = NoObject
      BY <1>1, <2>2, <2>3, <3>2, <3>3 DEF Handling, Writing, Watched, Ahead
    <3>5. (DOMAIN cloud = {} \/ Permanent) /\ Single /\ d.id = NoObject /\ saved.id = NoObject
      BY <1>1, <2>2, <2>3, <3>4 DEF Alone, CreatesAlone, Target, Identity
    <3>6. saved'.id = NoObject
      BY <2>1, <3>5 DEF Gone
    <3> QED
      BY <1>1, <1>3, <3>5, <3>6 DEF RestsAlone
  <2> QED
    BY <1>1, <2>1, <2>3, RestAlone
<1>5. CASE At("noUpdate") /\ Stop /\ Save(saved, "error")
  <2>1. op = "update" /\ Has(R.update, {"noUpdate"})
    BY <1>1, <1>2, <1>5, WritingFacts DEF At, Writing, Has
  <2>2. op' = "idle" /\ saved' = saved /\ told' = "error" /\ fresh' = FALSE
    BY <1>5 DEF Stop, Save
  <2>3. Applying'
    BY <1>1, <1>3, <2>2 DEF Applying, Plain, Handling, Unread, Seen, Told, Writing
  <2>4. ASSUME faults.number = 0 PROVE Single' /\ RestsAlone'
    <3>1. Single /\ Exists(saved.id) /\ Agrees(saved.attrs, saved.id)
      BY <1>1, <2>1, <2>4 DEF Alone, WritesAlone
    <3>2. saved.id # NoObject
      BY <3>1, DataFacts DEF Exists
    <3>3. Sendable(R)' = Sendable(R)
      BY <1>3
    <3> QED
      BY <1>1, <1>3, <2>2, <3>1, <3>2, <3>3 DEF RestsAlone, Agrees, Exempt, Exists
  <2> QED
    BY <1>1, <2>2, <2>3, <2>4, RestAlone
<1> QED
  BY <1>4, <1>5 DEF Refusal

\* Back from a Create or Update, the object is as configured, and the state says so.
LEMMA ReturnApplies == ASSUME AInv, Writing, Return, Later PROVE Applying' /\ Alone'
<1>1. PowerInv /\ Plain /\ Handling /\ Alone /\ IInv /\ Through /\ TypedUser /\ ~Misnames
      /\ cloud' = cloud /\ UNCHANGED <<kind, config, faults>>
  BY RunningFacts DEF Return
<1>2. Save(StateOf(d, FALSE), IF Unexpected THEN "error" ELSE "ok") /\ op' = "idle"
  BY DEF Return, Stop, Writing
<1>3. /\ saved' = StateOf(d, FALSE) /\ told' = (IF Unexpected THEN "error" ELSE "ok") /\ fresh' = FALSE
      /\ saved'.id = d.id /\ (d.id = NoObject => saved' = Gone) /\ (d.id # NoObject => saved'.attrs = d.attrs)
  BY <1>2 DEF Save, StateOf, Gone
<1>4. R' = R /\ Permanent' = Permanent /\ Nothing' = Nothing /\ Single' = Single /\ ById' = ById
  BY <1>1, SameAttrs DEF Single
<1>5. Trusted' = Trusted /\ Handled' = Handled /\ Sendable(R)' = Sendable(R)
  BY <1>1, <1>4 DEF Trusted, Handled, Misnames
<1>6. ~Ahead(Getting) /\ \A j : j \notin at..Len(program)
  BY <1>1, StepFacts DEF Ahead, Through
<1>7. Watched => Target # NoObject /\ Exists(Target)
  BY <1>1, <1>6 DEF Handling, Writing, Target
<1>8. ASSUME NEW a \in Trusted PROVE Watched /\ There(a) /\ d.attrs[a] = config.attrs[a]
  <2>1. Watched /\ Carried(a)
    BY <1>1, <1>8, TrustedFacts DEF Handling
  <2>2. ~Coming(a)
    BY <1>6 DEF Coming
  <2> QED
    BY <2>1, <2>2 DEF Carried
<1>9. Told'
  <2> SUFFICES ASSUME told' = "ok", NEW a \in Trusted PROVE d.id \in DOMAIN cloud /\ cloud[d.id].attrs[a] = config.attrs[a]
    BY <1>1, <1>2, <1>3, <1>5 DEF Told, OkMeansApplied, Idle, Exists, Unexpected
  <2>1. d.id # NoObject
    BY <1>3 DEF Unexpected
  <2> QED
    BY <1>7, <1>8, <2>1 DEF There, Target, Exists
<1>10. Plain'
  <2>1. saved'.id = NoObject => saved' = Gone
    BY <1>3
  <2>2. Gone.attrs = Nothing
    BY DEF Gone
  <2> QED
    BY <1>1, <1>4, <2>1, <2>2 DEF Plain
<1>11. Applying'
  BY <1>2, <1>3, <1>9, <1>10 DEF Applying, Handling, Unread, Seen, Writing
<1>12. ASSUME faults.number = 0 PROVE Single' /\ RestsAlone'
  <2>1. Single /\ CreatesAlone /\ WritesAlone /\ Watched
    BY <1>1, <1>12 DEF Alone, Watched
  <2>2. CASE d.id = NoObject
    <3>1. op = "create" /\ d.made # NoObject
      BY <1>1, <1>7, <2>1, <2>2 DEF Handling, Writing, Target
    <3>2. Permanent
      BY <1>6, <2>1, <2>2, <3>1 DEF CreatesAlone
    <3> QED
      BY <1>3, <1>4, <2>1, <2>2, <3>2 DEF RestsAlone
  <2>3. CASE d.id # NoObject
    <3>1. Exists(d.id) /\ Target = d.id
      BY <1>7, <2>1, <2>3 DEF Target
    <3>2. ASSUME NEW a \in Sendable(R) PROVE d.attrs[a] = cloud[d.id].attrs[a] \/ (d.attrs[a] = Unset /\ Exempt(a))
      <4>1. CASE a \in Handled
        BY <1>1, <1>8, <1>12, <3>1, <4>1, TrustedFacts DEF There
      <4>2. CASE a \notin Handled
        BY <1>1, <2>1, <2>3, <3>1, <3>2, <4>2, TrustedFacts DEF WritesAlone
      <4> QED
        BY <4>1, <4>2
    <3>3. Agrees(d.attrs, d.id)
      BY <3>2 DEF Agrees
    <3>4. saved'.id = d.id /\ saved'.attrs = d.attrs
      BY <1>3, <2>3
    <3>5. Agrees(saved.attrs, saved.id)'
      BY <1>1, <1>4, <1>5, <3>3, <3>4 DEF Agrees, Exempt
    <3> QED
      BY <1>1, <1>4, <2>1, <2>3, <3>1, <3>4, <3>5 DEF RestsAlone, Exists
  <2> QED
    BY <2>2, <2>3
<1> QED
  BY <1>1, <1>2, <1>11, <1>12, RestAlone

LEMMA WritingApplies == ASSUME AInv, Writing, Provider, Later PROVE Applying' /\ Alone'
<1>1. ASSUME DropObject \/ RefindObject PROVE FALSE
  <2>1. ~Through /\ Now.does \in {"drop", "refind"}
    BY <1>1 DEF DropObject, RefindObject, At
  <2>2. PowerInv /\ at \in DOMAIN program /\ Now = program[at]
    BY <2>1, RunningFacts, NowFacts
  <2> QED
    BY <2>1, <2>2, WritingFacts DEF Writing
<1>2. ASSUME RenameObject PROVE FALSE
  <2>1. ~Through /\ Now.does = "rename" /\ ~Misnames
    BY <1>2, RunningFacts DEF RenameObject, At
  <2>2. at \in DOMAIN program /\ Now = program[at] /\ program \in {R.create, R.update}
    BY <2>1, RunningFacts, NowFacts, StepFacts
  <2> QED
    BY <2>1, <2>2 DEF Misnames, Has
<1> QED
  BY <1>1, <1>2, MakeApplies, MakeWithoutApplies, KnowApplies, FindApplies, AdoptApplies, WriteApplies,
     WriteNothingApplies, ClearApplies, CheckApplies, RefusalApplies, ReadApplies, PassOverApplies, ReturnApplies
     DEF Provider

-----------------------------------------------------------------------------
(* A step of a Delete.                                                     *)

LEMMA DeletingFacts ==
  ASSUME AInv, op = "destroy"
  PROVE  /\ PowerInv /\ Plain /\ Told /\ Alone /\ TypedUser /\ IInv /\ kind \in DOMAIN Catalogue
         /\ program = R.delete /\ DOMAIN program = 1..Len(program) /\ Len(program) \in Nat /\ at \in 1..(Len(program) + 1)
         /\ ~Through => at \in DOMAIN program /\ Now = program[at]
         /\ saved.id # NoObject /\ ~Idle /\ DeletesLast(R) /\ told # "ok"
         /\ \A i \in DOMAIN program : ~program[i].rescued /\ program[i].does \notin Naming \cup {"makeUnknown", "adoptUnknown"}
<1>1. PowerInv /\ Plain /\ Told /\ Alone /\ TypedUser /\ TypedRun /\ IInv /\ Identity /\ kind \in DOMAIN Catalogue
  BY RunningFacts DEF Typed, IInv, TypedUser
<1>2. program = R.delete /\ at \in 1..(Len(program) + 1)
  BY <1>1 DEF TypedRun, Program
<1>3. program \in Seq(StepsOver(R.attrs))
  BY <1>1, ProgramTyped
<1>4. DOMAIN program = 1..Len(program) /\ Len(program) \in Nat
  BY <1>3
<1>5. ~Through => at \in DOMAIN program /\ Now = program[at]
  BY <1>2, <1>4 DEF Through, Now
<1>6. saved.id # NoObject
  BY <1>1 DEF Identity, Changes
<1>7. DeletesLast(R)
  BY <1>1, CarryHere
<1>8. ~Idle /\ told # "ok"
  BY <1>1 DEF Idle, Told
<1>9. \A i \in DOMAIN program : ~program[i].rescued /\ program[i].does \notin Naming \cup {"makeUnknown", "adoptUnknown"}
  BY <1>1, <1>2, Here DEF Has
<1> QED
  BY <1>1, <1>2, <1>4, <1>5, <1>6, <1>7, <1>8, <1>9

LEMMA DeleteHandles ==
  ASSUME AInv, op = "destroy", Later,
         \/ Running
         \/ \E data : ReturnError(data)
         \/ \E state : (state = Gone \/ state = saved) /\ op' = "idle" /\ (Save(state, "none") \/ Save(state, "error"))
  PROVE  Applying'
<1>1. R' = R /\ Nothing' = Nothing /\ UNCHANGED <<kind, config>>
  BY SameAttrs DEF Later
<1>2. CASE Running
  <2>1. UNCHANGED <<op, saved, told>>
    BY <1>2 DEF Running
  <2> QED
    BY <1>1, <2>1, DeletingFacts DEF Applying, Plain, Handling, Unread, Seen, Told, Writing, Idle
<1>3. CASE \E data : ReturnError(data)
  BY <1>1, <1>3, ErrorApplies
<1>4. ASSUME NEW state, state = Gone \/ state = saved, op' = "idle", Save(state, "none") \/ Save(state, "error") PROVE Applying'
  <2>1. saved' = state /\ told' \in {"none", "error"} /\ fresh' = FALSE
    BY <1>4 DEF Save
  <2>2. saved'.id = NoObject => saved'.attrs = Nothing
    BY <1>4, <2>1, DeletingFacts DEF Gone
  <2>3. Plain'
    BY <1>1, <2>2, DeletingFacts DEF Plain
  <2> QED
    BY <1>4, <2>1, <2>3 DEF Applying, Handling, Unread, Seen, Told, Writing
<1> QED
  BY <1>2, <1>3, <1>4

LEMMA CallEnds ==
  ASSUME NEW refused, NEW result, NEW data, Call(refused, result, data)
  PROVE  Running \/ \E any : ReturnError(any)
  BY DEF Call, GiveUp, Proceed

\* Without faults, the object is there until it is deleted.
LEMMA DeletingAlone ==
  ASSUME AInv, op = "destroy", ~Through, faults.number = 0
  PROVE  /\ DOMAIN cloud = {saved.id} /\ d.id = saved.id /\ Target = saved.id /\ Exists(Target)
         /\ Permanent \/ \E j \in at..Len(program) : Deletes(program[j])
         /\ Has(R.delete, Sending) \/ (Agrees(d.attrs, saved.id) /\ Agrees(saved.attrs, saved.id))
<1>1. Single /\ DeletesAlone
  BY DeletingFacts DEF Alone
<1>2. DOMAIN cloud # {}
  BY <1>1 DEF DeletesAlone
<1> QED
  BY <1>1, <1>2, DeletingFacts DEF DeletesAlone, Single, Target, Exists

LEMMA ProceedDeletes ==
  ASSUME AInv, op = "destroy", ~Through, faults.number = 0, NEW data, Proceed(data), Later, ~Deletes(Now),
         DOMAIN cloud' = DOMAIN cloud, data.id = saved.id,
         \/ Has(R.delete, Sending)
         \/ \A a \in Sendable(R) : /\ cloud'[saved.id].attrs[a] = cloud[saved.id].attrs[a]
                                   /\ data.attrs[a] \in {d.attrs[a], cloud[saved.id].attrs[a]}
  PROVE  Alone'
<1>1. PowerInv /\ ~Idle
  BY DeletingFacts
<1>2. /\ at' \in (at + 1)..(Len(program) + 1)
      /\ \A j \in (at + 1)..(at' - 1) : ~Matters(program[j], Concerned, Planned)
      /\ UNCHANGED <<op, program, saved, told, fresh>> /\ d' = data
  BY <1>1, ProceedMatters DEF PowerInv, Later
<1>3. R' = R /\ Permanent' = Permanent /\ UNCHANGED <<kind, config>>
  BY SameAttrs DEF Later
<1> DEFINE next == at'
<1>4. next \in (at + 1)..(Len(program) + 1) /\ \A j \in (at + 1)..(next - 1) : ~Matters(program[j], Concerned, Planned)
  BY <1>2
<1> HIDE DEF next
<1>5. ASSUME NEW j \in at..Len(program), Deletes(program[j]) PROVE j \in next..Len(program)
  <2>1. at \in Nat /\ Len(program) \in Nat /\ Now = program[at] /\ j # at
    BY <1>5, DeletingFacts
  <2>2. Matters(program[j], Concerned, Planned)
    BY <1>5 DEF Deletes, Matters
  <2> QED
    BY <1>4, <2>1, <2>2
<1>6. Permanent \/ \E j \in next..Len(program) : Deletes(program[j])
  BY <1>5, DeletingAlone
<1>7. Has(R.delete, Sending) \/ (Agrees(data.attrs, saved.id) /\ Agrees(saved.attrs, saved.id))'
  <2> SUFFICES ASSUME ~Has(R.delete, Sending) PROVE (Agrees(data.attrs, saved.id) /\ Agrees(saved.attrs, saved.id))'
    OBVIOUS
  <2>1. Agrees(d.attrs, saved.id) /\ Agrees(saved.attrs, saved.id)
    BY DeletingAlone
  <2> QED
    BY <1>2, <1>3, <2>1 DEF Agrees, Exempt
<1>8. DeletesAlone'
  BY <1>2, <1>3, <1>6, <1>7, DeletingAlone DEF DeletesAlone, Exists, next
<1> QED
  BY <1>2, <1>3, <1>8, DeletingAlone DEF Alone, Single, RestsAlone, CreatesAlone, WritesAlone, Writing, Idle

\* A Delete that is refused leaves the object as it was.
LEMMA FailDeletes ==
  ASSUME AInv, op = "destroy", ~Through, faults.number = 0, Later, cloud' = cloud, ~Has(R.delete, Sending),
         ReturnError(d) \/ (Stop /\ Save(saved, "error"))
  PROVE  Alone'
<1>1. R' = R /\ Permanent' = Permanent /\ UNCHANGED <<kind, config>> /\ Sendable(R)' = Sendable(R)
  BY SameAttrs DEF Later
<1>2. op' = "idle" /\ (saved' = saved \/ (saved'.id = saved.id /\ saved'.attrs = d.attrs))
  BY <1>1, ErrorApplies, DeletingAlone, DeletingFacts DEF Stop, Save
<1>3. Agrees(saved'.attrs, saved.id) /\ saved'.id = saved.id
  BY <1>2, DeletingAlone
<1>4. Agrees(saved.attrs, saved.id)'
  BY <1>1, <1>3 DEF Agrees, Exempt
<1>5. DOMAIN cloud' = {saved.id} /\ saved'.id # NoObject
  BY <1>3, DeletingAlone, DeletingFacts
<1>6. Single' /\ RestsAlone'
  BY <1>3, <1>4, <1>5 DEF Single, RestsAlone, Exists
<1> QED
  BY <1>2, <1>6, RestAlone

LEMMA GiveUpDeletes ==
  ASSUME AInv, op = "destroy", ~Through, faults.number = 0, Later, cloud' = cloud, ~Has(R.delete, Sending), GiveUp
  PROVE  Alone'
<1>1. ~Now.dropped /\ ~Now.rescued
  BY DeletingFacts DEF DeletesLast
<1>2. CASE ReturnError(d)
  BY <1>2, FailDeletes
<1>3. CASE UNCHANGED <<at, d>> /\ Running
  <2>1. R' = R /\ Permanent' = Permanent /\ UNCHANGED <<kind, config, op, program, saved>>
    BY <1>3, SameAttrs DEF Later, Running
  <2>2. DeletesAlone'
    BY <1>3, <2>1, DeletingAlone DEF DeletesAlone, Exists, Agrees, Exempt
  <2> QED
    BY <2>1, <2>2, DeletingAlone DEF Alone, Single, RestsAlone, CreatesAlone, WritesAlone, Writing, Idle
<1> QED
  BY <1>1, <1>2, <1>3 DEF GiveUp

\* What looks at the object finds it, by its name, too, which has not changed.
LEMMA DeletingFinds ==
  ASSUME AInv, op = "destroy", ~Through, faults.number = 0, Now.does \in Searching
  PROVE  /\ Found(Target, d.attrs) \subseteq {saved.id} /\ Found(d.id, d.attrs) \subseteq {saved.id}
         /\ R.read.by # "nothing" => Found(Target, d.attrs) = {saved.id}
<1>1. ~Has(R.delete, Sending)
  BY DeletingFacts DEF DeletesLast, Has
<1>2. R.read \in ReadingsOver(R.attrs)
  BY DeletingFacts, ProgramTyped
<1>3. ASSUME R.read.by = "name" PROVE saved.id \in SameName(d.attrs["name"])
  <2>1. Names(R)
    BY DeletingFacts, CarryHere
  <2>2. "name" \in Sendable(R) /\ "name" \notin Keeps(R.update)
    BY <1>3, <2>1 DEF Names
  <2> QED
    BY <1>1, <2>2, DeletingAlone DEF Agrees, Exempt, SameName
<1>4. R.read.by \in {"id", "name", "id or name", "nothing"}
  BY <1>2 DEF ReadingsOver
<1>5. Found(Target, d.attrs) \subseteq {saved.id} /\ Found(d.id, d.attrs) \subseteq {saved.id}
  BY DeletingAlone, FoundFacts
<1>6. R.read.by = "name" => Found(Target, d.attrs) = {saved.id}
  BY <1>3, <1>5 DEF Found
<1>7. ById => Found(Target, d.attrs) = {saved.id}
  BY DeletingAlone, FoundFacts
<1> QED
  BY <1>4, <1>5, <1>6, <1>7 DEF ById, ByIdentity

LEMMA DeleteApplies == ASSUME AInv, op = "destroy", Provider, Later PROVE Applying'
<1>1. ASSUME NEW data, Proceed(data) PROVE Running
  BY <1>1 DEF Proceed
<1>2. CASE Return
  <2>1. Save(Gone, "none") /\ op' = "idle"
    BY <1>2 DEF Return, Stop
  <2> QED
    BY <2>1, DeleteHandles
<1>3. CASE Refusal
  <2>1. (\E data : ReturnError(data)) \/ (op' = "idle" /\ Save(saved, "error"))
    BY <1>3 DEF Refusal, Stop
  <2> QED
    BY <2>1, DeleteHandles
<1>4. CASE KnowObject \/ AdoptObject \/ PassOver
  BY <1>1, <1>4, DeleteHandles DEF KnowObject, AdoptObject, PassOver, Local
<1>5. CASE MakeObject \/ MakeUnknownObject \/ FindObject \/ FindNamedObject \/ CheckObject \/ DropObject
  BY <1>5, CallEnds, DeleteHandles DEF MakeObject, MakeUnknownObject, FindObject, FindNamedObject, CheckObject, DropObject
<1>6. CASE ReadObject \/ RefindObject
  BY <1>1, <1>6, CallEnds, DeleteHandles DEF ReadObject, RefindObject, Local
<1>7. CASE WriteObject \/ RenameObject \/ ClearObject \/ DisableObject \/ TurnObjectOff \/ TurnObjectOn
  <2>1. PICK object : Changing(object)
    BY <1>7 DEF WriteObject, RenameObject, ClearObject, DisableObject, TurnObjectOff, TurnObjectOn
  <2> QED
    BY <2>1, CallEnds, DeleteHandles DEF Changing
<1>8. CASE MakeObjectWithout \/ WriteNothing \/ ClearObjectIfPossible
  BY <1>1, <1>8, DeleteHandles DEF MakeObjectWithout, WriteNothing, CallWithout, ClearObjectIfPossible, CallLogged
<1> QED
  BY <1>2, <1>3, <1>4, <1>5, <1>6, <1>7, <1>8 DEF Provider

\* A call that succeeds and leaves the object there.
LEMMA CallDeletes ==
  ASSUME AInv, op = "destroy", ~Through, faults'.number = 0, Later, ~Deletes(Now), NEW refused, NEW result, NEW data,
         Call(refused, result, data), ~refused, DOMAIN result = DOMAIN cloud, data.id = saved.id,
         \/ Has(R.delete, Sending)
         \/ \A a \in Sendable(R) : /\ result[saved.id].attrs[a] = cloud[saved.id].attrs[a]
                                   /\ data.attrs[a] \in {d.attrs[a], cloud[saved.id].attrs[a]}
  PROVE  Alone'
<1>1. cloud' = result /\ Proceed(data) /\ faults.number = 0
  BY FaultlessCall, DeletingFacts DEF Later
<1> QED
  BY <1>1, ProceedDeletes

\* What goes on with the object as it is.
LEMMA LocalDeletes ==
  ASSUME AInv, op = "destroy", ~Through, faults'.number = 0, Later, ~Deletes(Now), NEW data,
         Call(FALSE, cloud, data) \/ Local(data), data.id = saved.id,
         \A a \in Sendable(R) : data.attrs[a] \in {d.attrs[a], cloud[saved.id].attrs[a]}
  PROVE  Alone'
<1>1. Call(FALSE, cloud, data)
  BY LocalCalls
<1> QED
  BY <1>1, CallDeletes

LEMMA DropDeletes == ASSUME AInv, DropObject, op = "destroy", Later, faults'.number = 0 PROVE Alone'
<1>1. ~Through /\ faults.number = 0 /\ Now.does = "drop"
  BY DEF DropObject, At, Later
<1>2. at = Len(program)
  BY <1>1, DeletingFacts DEF DeletesLast
<1> DEFINE refused == Protected(d.id) \/ (~Exists(d.id) /\ ~Now.lenient)
<1>3. Call(refused, Without(d.id), d)
  BY DEF DropObject
<1>4. refused => ~Has(R.delete, Sending)
  BY <1>1, DeletingAlone, DeletingFacts DEF Protected, DeletesLast
<1> HIDE DEF refused
<1>5. CASE refused /\ UNCHANGED cloud /\ GiveUp
  BY <1>1, <1>4, <1>5, GiveUpDeletes
<1>6. CASE cloud' = Without(d.id) /\ Proceed(d)
  <2>1. DOMAIN cloud' = {}
    BY <1>1, <1>6, WithoutFacts, DataFacts, DeletingAlone
  <2>2. at' \in (at + 1)..(Len(program) + 1) /\ UNCHANGED <<op, program>>
    BY <1>1, <1>6, ProceedMatters, DeletingFacts DEF PowerInv, Later
  <2>3. Through'
    BY <1>2, <2>2, DeletingFacts DEF Through
  <2> QED
    BY <2>1, <2>2, <2>3 DEF Alone, Single, RestsAlone, CreatesAlone, WritesAlone, DeletesAlone, Writing, Idle
<1> QED
  BY <1>3, <1>5, <1>6, FaultlessCall, DeletingFacts

LEMMA ReadDeletes == ASSUME AInv, ReadObject \/ RefindObject, op = "destroy", Later, faults'.number = 0 PROVE Alone'
<1>1. ~Through /\ faults.number = 0 /\ Now.does \in {"read", "refind"} /\ Now.does \in Searching
  BY DEF ReadObject, RefindObject, At, Later, Searching
<1>2. ~Deletes(Now) /\ d.id = saved.id
  BY <1>1, DeletingAlone DEF Deletes
<1>3. ASSUME Call(FALSE, cloud, d) \/ Local(d) PROVE Alone'
  BY <1>1, <1>2, <1>3, LocalDeletes
<1>4. ASSUME NEW u \in Found(Target, d.attrs),
             Call(FALSE, cloud, [d EXCEPT !.id = u, !.attrs = ReadAttrs(d.attrs, u)])
      PROVE  Alone'
  <2> DEFINE data == [d EXCEPT !.id = u, !.attrs = ReadAttrs(d.attrs, u)]
  <2>1. data.id = u /\ data.attrs = ReadAttrs(d.attrs, u) /\ u = saved.id
    BY <1>1, <1>4, DataFacts, DeletingFinds DEF Datas
  <2>2. Call(FALSE, cloud, data)
    BY <1>4
  <2> HIDE DEF data
  <2>3. \A a \in Sendable(R) : data.attrs[a] \in {d.attrs[a], cloud[saved.id].attrs[a]}
    BY <2>1, SendableFacts, DeletingFacts DEF ReadAttrs
  <2> QED
    BY <1>1, <1>2, <2>1, <2>2, <2>3, LocalDeletes
<1>5. CASE ReadObject
  <2>1. ~(R.read.by # "nothing" /\ Found(Target, d.attrs) = {})
    BY <1>1, DeletingFinds
  <2> QED
    BY <1>3, <1>4, <1>5, <2>1 DEF ReadObject
<1>6. ASSUME NEW u \in Found(d.id, d.attrs), Call(FALSE, cloud, [d EXCEPT !.id = u]) PROVE Alone'
  <2> DEFINE data == [d EXCEPT !.id = u]
  <2>1. data.id = saved.id /\ data.attrs = d.attrs
    BY <1>1, <1>6, DataFacts, DeletingFinds DEF Datas
  <2>2. Call(FALSE, cloud, data)
    BY <1>6
  <2> HIDE DEF data
  <2> QED
    BY <1>1, <1>2, <2>1, <2>2, LocalDeletes
<1> QED
  BY <1>3, <1>5, <1>6 DEF RefindObject

LEMMA ChangeDeletes ==
  ASSUME AInv, WriteObject \/ ClearObject \/ DisableObject \/ TurnObjectOff \/ TurnObjectOn, op = "destroy", Later,
         faults'.number = 0
  PROVE  Alone'
<1>1. ~Through /\ faults.number = 0 /\ Now.does \in {"write", "clear", "disable", "off", "on"}
  BY DEF WriteObject, ClearObject, DisableObject, TurnObjectOff, TurnObjectOn, At, Later
<1>2. ~Deletes(Now) /\ d.id = saved.id /\ Exists(Target) /\ Target = saved.id
  BY <1>1, DeletingAlone DEF Deletes
<1>3. ASSUME NEW object, Changing(object),
             Has(R.delete, Sending) \/ (Now.does \in {"off", "on"} /\ object.attrs = cloud[Target].attrs)
      PROVE  Alone'
  <2> DEFINE data == Answered(object)
             result == With(Target, object)
  <2>1. Call(FALSE, result, data)
    BY <1>2, <1>3 DEF Changing
  <2>2. DOMAIN result = DOMAIN cloud /\ result[saved.id] = object
    BY <1>2 DEF With, Exists
  <2>3. data.id = saved.id
    BY <1>2, DataFacts DEF Answered, Datas
  <2>4. \A a \in Sendable(R) : data.attrs[a] \in {d.attrs[a], object.attrs[a]}
    BY SendableFacts, DeletingFacts, DataFacts DEF Answered, Datas
  <2> HIDE DEF data, result
  <2> QED
    BY <1>1, <1>2, <1>3, <2>1, <2>2, <2>3, <2>4, CallDeletes
<1>4. CASE WriteObject \/ ClearObject \/ DisableObject
  <2>1. Now.does \in Sending
    BY <1>4 DEF WriteObject, ClearObject, DisableObject, At, Sending, Clearing
  <2>2. Has(R.delete, Sending)
    BY <1>1, <2>1, DeletingFacts DEF Has
  <2> QED
    BY <1>3, <1>4, <2>2 DEF WriteObject, ClearObject, DisableObject
<1>5. ASSUME NEW value, Changing([cloud[Target] EXCEPT !.on = value]), Now.does \in {"on", "off"} PROVE Alone'
  <2> DEFINE object == [cloud[Target] EXCEPT !.on = value]
  <2>1. object.attrs = cloud[Target].attrs
    BY <1>2, DataFacts, CloudsFacts DEF Exists, Objects
  <2>2. Changing(object)
    BY <1>5
  <2> HIDE DEF object
  <2> QED
    BY <1>3, <1>5, <2>1, <2>2
<1> QED
  BY <1>4, <1>5 DEF TurnObjectOff, TurnObjectOn, At

LEMMA ClearDeletes == ASSUME AInv, ClearObjectIfPossible, op = "destroy", Later, faults'.number = 0 PROVE Alone'
<1>1. /\ ~Through /\ faults.number = 0 /\ Now.does = "clear" /\ Proceed(d)
      /\ cloud' = cloud \/ (Exists(Target) /\ cloud' = With(Target, Cleared))
  BY DEF ClearObjectIfPossible, CallLogged, At, Later
<1>2. ~Deletes(Now) /\ d.id = saved.id
  BY <1>1, DeletingAlone DEF Deletes
<1>3. Has(R.delete, Sending)
  BY <1>1, DeletingFacts DEF Has, Sending, Clearing
<1>4. DOMAIN cloud' = DOMAIN cloud
  BY <1>1 DEF With, Exists
<1> QED
  BY <1>1, <1>2, <1>3, <1>4, ProceedDeletes

LEMMA DeleteAlone == ASSUME AInv, op = "destroy", Provider, Later PROVE Alone'
<1> SUFFICES ASSUME faults'.number = 0 PROVE Alone'
  BY DEF Alone
<1>1. faults.number = 0 /\ UNCHANGED <<kind, config>>
  BY DEF Later
<1>2. CASE Return
  <2>1. saved' = Gone /\ op' = "idle" /\ cloud' = cloud /\ Through
    BY <1>2 DEF Return, Stop, Save
  <2>2. \A j : j \notin at..Len(program)
    BY <2>1, DeletingFacts DEF Through
  <2>3. Single /\ (DOMAIN cloud = {} \/ Permanent)
    BY <1>1, <2>2, DeletingFacts DEF Alone, DeletesAlone
  <2>4. Single' /\ RestsAlone'
    BY <1>1, <2>1, <2>3, SameAttrs DEF Single, RestsAlone, Gone
  <2> QED
    BY <2>1, <2>4, RestAlone
<1>3. CASE Refusal
  <2>1. ~Through /\ Now.does \in {"refuse", "noUpdate"} /\ cloud' = cloud /\ (ReturnError(d) \/ (Stop /\ Save(saved, "error")))
    BY <1>3 DEF Refusal, At
  <2>2. ~Has(R.delete, Sending)
    BY <2>1, DeletingFacts DEF DeletesLast, Has
  <2> QED
    BY <1>1, <2>1, <2>2, FailDeletes
<1>4. CASE MakeObject \/ MakeObjectWithout \/ MakeUnknownObject \/ KnowObject \/ FindObject \/ FindNamedObject \/ AdoptObject
  <2>1. ~Through /\ Now.does \in Naming \cup {"makeUnknown", "adoptUnknown"}
    BY <1>4 DEF MakeObject, MakeObjectWithout, MakeUnknownObject, KnowObject, FindObject, FindNamedObject, AdoptObject, At, Naming
  <2> QED
    BY <2>1, DeletingFacts
<1>5. CASE PassOver \/ CheckObject
  <2>1. ~Through /\ ~Deletes(Now) /\ (Call(FALSE, cloud, d) \/ Local(d))
    BY <1>5 DEF PassOver, CheckObject, At, Deletes, Passed
  <2>2. d.id = saved.id
    BY <1>1, <2>1, DeletingAlone
  <2> QED
    BY <2>1, <2>2, LocalDeletes
<1>6. ~WriteNothing
  BY DeletingFacts, FaultFacts DEF WriteNothing, CallWithout
<1>7. ASSUME RenameObject PROVE FALSE
  <2>1. ~Through /\ Now.does = "rename" /\ ~Misnames
    BY <1>7, RunningFacts DEF RenameObject, At
  <2> QED
    BY <2>1, DeletingFacts DEF Misnames, Has
<1> QED
  BY <1>2, <1>3, <1>4, <1>5, <1>6, <1>7, DropDeletes, ReadDeletes, ChangeDeletes, ClearDeletes DEF Provider

-----------------------------------------------------------------------------
(* Terraform.                                                              *)

LEMMA RefreshApplies == ASSUME AInv, Refresh PROVE Applying' /\ Alone'
<1>1. PowerInv /\ Plain /\ Alone /\ TypedUser /\ WellTyped(R) /\ R.read \in ReadingsOver(R.attrs)
  BY RunningFacts, Here, ProgramTyped DEF TypedUser
<1>2. op = "idle" /\ saved.id # NoObject /\ UNCHANGED <<kind, cloud, config, op, faults>>
      /\ (RefreshFound \/ RefreshGone \/ RefreshNothing)
  BY DEF Refresh, Idle
<1>3. R' = R /\ Nothing' = Nothing /\ Permanent' = Permanent /\ ById' = ById /\ Sendable(R)' = Sendable(R)
  BY <1>2, SameAttrs
<1>4. saved \in States
  BY DataFacts
<1>5. ASSUME NEW u \in Found(saved.id, saved.attrs), saved' = [saved EXCEPT !.id = u, !.attrs = ReadAttrs(saved.attrs, u)]
      PROVE  u \in DOMAIN cloud /\ u # NoObject /\ saved'.id = u /\ saved'.attrs = ReadAttrs(saved.attrs, u)
  BY <1>4, <1>5, FoundFacts, DataFacts DEF States
<1>6. Plain'
  <2>1. saved'.id = NoObject => saved'.attrs = Nothing
    <3>1. CASE RefreshFound
      BY <1>5, <3>1 DEF RefreshFound
    <3>2. CASE RefreshGone
      BY <1>2, <1>4, <3>2 DEF RefreshGone, Gone, Save, States
    <3>3. CASE RefreshNothing
      BY <1>2, <3>3 DEF RefreshNothing
    <3> QED
      BY <1>2, <3>1, <3>2, <3>3
  <2> QED
    BY <1>1, <1>2, <1>3, <2>1 DEF Plain
<1>7. told' \in {"read", "error"}
  BY <1>2 DEF RefreshFound, RefreshGone, RefreshNothing, Save
<1>8. Seen'
  <2>1. CASE RefreshFound
    <3>1. PICK u \in Found(saved.id, saved.attrs) : saved' = [saved EXCEPT !.id = u, !.attrs = ReadAttrs(saved.attrs, u)]
      BY <2>1 DEF RefreshFound
    <3>2. u \in DOMAIN cloud /\ saved'.id = u /\ saved'.attrs = ReadAttrs(saved.attrs, u)
      BY <1>5, <3>1
    <3>3. R.read.always \subseteq Attrs
      BY <1>1, AttrsOfSchema DEF ReadingsOver
    <3>4. \A a \in R.read.always : saved'.attrs[a] = cloud[u].attrs[a]
      BY <3>2, <3>3 DEF ReadAttrs, Refreshed
    <3> QED
      BY <1>2, <1>3, <3>2, <3>4 DEF Seen, Exists
  <2>2. CASE RefreshGone
    <3>1. ById => ~Exists(saved.id)
      BY <2>2, FoundFacts DEF RefreshGone
    <3>2. CASE saved' = Gone \/ fresh' = FALSE
      BY <3>2 DEF Seen, Gone
    <3>3. CASE R.read.gone = "blank" /\ saved' = [saved EXCEPT !.attrs = Blank(@)]
      <4>1. saved'.id = saved.id
        BY <1>4, <3>3 DEF States
      <4> QED
        BY <1>2, <1>3, <3>1, <3>3, <4>1 DEF Seen, Exists
    <3> QED
      BY <2>2, <3>2, <3>3 DEF RefreshGone, Save
  <2>3. CASE RefreshNothing
    BY <1>3, <2>3 DEF RefreshNothing, Seen, ById, ByIdentity
  <2> QED
    BY <1>2, <2>1, <2>2, <2>3
<1>9. Applying'
  BY <1>2, <1>6, <1>7, <1>8 DEF Applying, Handling, Unread, Told, Writing
<1>10. ASSUME faults.number = 0 PROVE Single' /\ RestsAlone'
  <2>1. Single /\ Exists(saved.id) /\ Agrees(saved.attrs, saved.id)
    BY <1>1, <1>2, <1>10 DEF Alone, RestsAlone, Idle
  <2>2. \A a \in Sendable(R) : a \in Attrs
    BY <1>1, SendableFacts
  <2>3. CASE RefreshFound
    <3>1. PICK u \in Found(saved.id, saved.attrs) : saved' = [saved EXCEPT !.id = u, !.attrs = ReadAttrs(saved.attrs, u)]
      BY <2>3 DEF RefreshFound
    <3>2. u = saved.id /\ saved'.id = u /\ saved'.attrs = ReadAttrs(saved.attrs, u)
      BY <1>5, <2>1, <3>1 DEF Single, Exists
    <3>3. \A a \in Sendable(R) : saved'.attrs[a] \in {saved.attrs[a], cloud[u].attrs[a]}
      BY <2>2, <3>2 DEF ReadAttrs
    <3>4. Agrees(saved.attrs, saved.id)'
      BY <1>2, <1>3, <2>1, <3>2, <3>3 DEF Agrees, Exempt
    <3> QED
      BY <1>2, <2>1, <3>2, <3>4 DEF Single, RestsAlone, Exists
  <2>4. CASE RefreshGone
    <3>1. CASE ById
      BY <2>1, <2>4, <3>1, FoundFacts DEF RefreshGone
    <3>2. CASE R.read.by = "name"
      <4>1. Names(R)
        BY <1>1, CarryHere DEF TypedUser
      <4>2. "name" \in Sendable(R) /\ "name" \notin Keeps(R.update)
        BY <3>2, <4>1 DEF Names
      <4>3. saved.id \in SameName(saved.attrs["name"])
        BY <2>1, <4>2 DEF Agrees, Exempt, SameName, Exists
      <4> QED
        BY <2>4, <3>2, <4>3 DEF RefreshGone, Found
    <3> QED
      BY <1>1, <2>4, <3>1, <3>2 DEF RefreshGone, ById, ByIdentity, ReadingsOver
  <2>5. CASE RefreshNothing
    <3>1. saved' = saved
      BY <2>5 DEF RefreshNothing
    <3>2. Agrees(saved.attrs, saved.id)'
      BY <1>2, <1>3, <2>1, <3>1 DEF Agrees, Exempt
    <3> QED
      BY <1>2, <2>1, <3>1, <3>2 DEF Single, RestsAlone, Exists
  <2> QED
    BY <1>2, <2>3, <2>4, <2>5
<1> QED
  BY <1>2, <1>9, <1>10, RestAlone

\* A handler that is launched for an attribute is at, or before, the step that fixes it.
LEMMA LaunchCarries ==
  ASSUME TypedUser, NEW handler, NEW steps \in Seq(StepsOver(R.attrs)), NEW concerned, NEW data,
         Launch(handler, steps, concerned, data), data.attrs = config.attrs,
         \A i \in DOMAIN steps : steps[i].does \in Making => steps[i].on = {},
         NEW a \in Attrs, saved.attrs[a] # config.attrs[a] => a \in concerned
  PROVE  /\ Carries(R, steps, a, saved.attrs[a], config.attrs[a]) => Carried(a)'
         /\ Spares(R, steps, a, saved.attrs[a], config.attrs[a], 1) => Kept(a, at)'
<1>1. R' = R /\ program' = steps /\ d' = data /\ at' = First(steps, concerned, data.attrs, 1)
      /\ UNCHANGED <<saved, config, cloud>>
  BY SameAttrs DEF Launch
<1>2. PICK next \in 1..(Len(steps) + 1) :
        /\ next = First(steps, concerned, data.attrs, 1)
        /\ \A j \in 1..(next - 1) : ~Matters(steps[j], concerned, data.attrs)
  BY FirstFacts
<1>3. \A i, b : Kept(b, i)' <=> Spares(R, steps, b, saved.attrs[b], config.attrs[b], i)
  BY <1>1 DEF Kept, Undone, Spares
<1>4. Len(steps) \in Nat /\ DOMAIN steps = 1..Len(steps)
  OBVIOUS
<1>5. ASSUME Spares(R, steps, a, saved.attrs[a], config.attrs[a], 1) PROVE Kept(a, at)'
  <2>1. Spares(R, steps, a, saved.attrs[a], config.attrs[a], next)
    BY <1>2, <1>4, <1>5 DEF Spares
  <2>2. Kept(a, next)'
    BY <1>3, <2>1
  <2> QED
    BY <1>1, <1>2, <2>2 DEF Kept
<1>6. ASSUME Carries(R, steps, a, saved.attrs[a], config.attrs[a]) PROVE Carried(a)'
  <2>1. PICK i \in DOMAIN steps : /\ Fixes(R, steps[i], a, saved.attrs[a], config.attrs[a])
                                  /\ Spares(R, steps, a, saved.attrs[a], config.attrs[a], i + 1)
    BY <1>6 DEF Carries
  <2>2. Matters(steps[i], concerned, data.attrs)
    BY <2>1 DEF Fixes, Takes, Matters
  <2>3. i \in next..Len(steps)
    BY <1>2, <1>4, <2>1, <2>2
  <2>4. Coming(a)'
    BY <1>1, <1>2, <1>3, <2>1, <2>3 DEF Coming, Fixed
  <2> QED
    BY <1>1, <2>4 DEF Carried
<1> QED
  BY <1>5, <1>6

\* What is launched has told nothing: the last success was before a refresh.
LEMMA LaunchFacts ==
  ASSUME AInv, Idle, NEW handler \in {"create", "update", "destroy"}, NEW steps, NEW concerned, NEW data,
         Launch(handler, steps, concerned, data), saved.id = NoObject \/ fresh
  PROVE  /\ Plain' /\ Seen' /\ Told' /\ op' = handler /\ program' = steps /\ d' = data
         /\ UNCHANGED <<kind, cloud, config, saved, faults>> /\ R' = R /\ Permanent' = Permanent
         /\ Trusted' = Trusted /\ Handled' = Handled /\ Sendable(R)' = Sendable(R) /\ Watched' = Watched
<1>1. Plain /\ Told
  BY RunningFacts
<1>2. op' = handler /\ program' = steps /\ d' = data /\ UNCHANGED <<kind, cloud, config, saved, faults, told>>
  BY DEF Launch
<1>3. R' = R /\ Permanent' = Permanent /\ Nothing' = Nothing /\ ById' = ById
  BY <1>2, SameAttrs
<1>4. told # "ok"
  BY <1>1 DEF Told
<1>5. Handled' = Handled
  BY <1>2, <1>3 DEF Handled
<1> QED
  BY <1>1, <1>2, <1>3, <1>4, <1>5 DEF Plain, Seen, Told, Idle, Trusted, Misnames, Watched

LEMMA CreateApplies == ASSUME AInv, Create PROVE Applying' /\ Alone'
<1>1. PowerInv /\ Plain /\ Alone /\ TypedUser /\ Idle /\ saved.id = NoObject /\ kind \in DOMAIN Catalogue
  BY RunningFacts DEF Create, TypedUser
<1>2. Applies(R) /\ CreatesOne(R) /\ R.create \in Seq(StepsOver(R.attrs))
  BY <1>1, CarryHere, ProgramTyped
<1>3. PICK g \in DOMAIN R.create : ChoosesAt(R, g)
  BY <1>2 DEF CreatesOne
<1> DEFINE data == [NoData EXCEPT !.attrs = config.attrs]
<1>4. Launch("create", R.create, SetIn(config.attrs), data)
  BY DEF Create
<1>5. data.attrs = config.attrs /\ data.id = NoObject /\ data.made = NoObject
  BY DEF NoData
<1> HIDE DEF data
<1>6. /\ Plain' /\ Seen' /\ Told' /\ op' = "create" /\ program' = R.create /\ d' = data
      /\ UNCHANGED <<kind, cloud, config, saved, faults>> /\ R' = R /\ Permanent' = Permanent
      /\ Trusted' = Trusted /\ Watched' = Watched
  BY <1>1, <1>4, LaunchFacts
<1>7. Target' = NoObject
  BY <1>5, <1>6 DEF Target
<1>8. Ahead(Getting)'
  <2>1. PICK next \in 1..(Len(R.create) + 1) :
          /\ next = First(R.create, SetIn(config.attrs), data.attrs, 1)
          /\ \A j \in 1..(next - 1) : ~Matters(R.create[j], SetIn(config.attrs), data.attrs)
    BY <1>2, FirstFacts
  <2>2. Matters(R.create[g], SetIn(config.attrs), data.attrs) /\ R.create[g].does \in Getting
    BY <1>3 DEF ChoosesAt, Matters
  <2>3. g \in next..Len(R.create)
    BY <1>2, <2>1, <2>2
  <2>4. at' = next
    BY <1>4, <2>1 DEF Launch
  <2> QED
    BY <1>6, <2>2, <2>3, <2>4 DEF Ahead
<1>9. ASSUME NEW a \in Trusted PROVE Carried(a)'
  <2>1. a \in Sendable(R) /\ a \in Attrs /\ config.attrs[a] \in Values /\ Handles(R, a, config.attrs[a])
    BY <1>1, <1>9, TrustedFacts, SendableFacts
  <2>2. saved.attrs[a] = Unset
    BY <1>1, <2>1 DEF Plain, Nothing
  <2>3. Carries(R, R.create, a, saved.attrs[a], config.attrs[a])
    BY <1>2, <2>1, <2>2 DEF Applies, Values, Unset
  <2>4. \A i \in DOMAIN R.create : R.create[i].does \in Making => R.create[i].on = {}
    BY <1>3 DEF ChoosesAt, Getting
  <2>5. saved.attrs[a] # config.attrs[a] => a \in SetIn(config.attrs)
    BY <2>1, <2>2 DEF SetIn
  <2> QED
    BY <1>1, <1>2, <1>4, <1>5, <2>1, <2>3, <2>4, <2>5, LaunchCarries
<1>10. Applying'
  BY <1>5, <1>6, <1>7, <1>8, <1>9 DEF Applying, Handling, Unread
<1>11. Alone'
  BY <1>1, <1>5, <1>6, <1>7 DEF Alone, Single, RestsAlone, CreatesAlone, WritesAlone, DeletesAlone, Idle
<1> QED
  BY <1>10, <1>11

LEMMA UpdateApplies == ASSUME AInv, Update PROVE Applying' /\ Alone'
<1>1. PowerInv /\ Plain /\ Seen /\ Alone /\ TypedUser /\ Idle /\ saved.id # NoObject /\ fresh /\ kind \in DOMAIN Catalogue
      /\ R.renew \cap Changed = {} /\ Changed # {}
  BY RunningFacts DEF Update, TypedUser, Replaced
<1>2. Applies(R) /\ UpdatesOnly(R) /\ R.update \in Seq(StepsOver(R.attrs)) /\ Attrs = R.attrs
      /\ (R.read.gone = "blank" => R.attrs \subseteq R.renew)
  BY <1>1, CarryHere, ProgramTyped, AttrsOfSchema
<1> DEFINE data == [id |-> saved.id, made |-> NoObject, attrs |-> config.attrs]
<1>3. Launch("update", R.update, Changed, data)
  BY DEF Update
<1>4. data.attrs = config.attrs /\ data.id = saved.id
  OBVIOUS
<1> HIDE DEF data
<1>5. /\ Plain' /\ Seen' /\ Told' /\ op' = "update" /\ program' = R.update /\ d' = data
      /\ UNCHANGED <<kind, cloud, config, saved, faults>> /\ R' = R /\ Permanent' = Permanent
      /\ Trusted' = Trusted /\ Handled' = Handled /\ Sendable(R)' = Sendable(R) /\ Watched' = Watched
  BY <1>1, <1>3, LaunchFacts
<1>6. Target' = saved.id /\ saved.id # NoObject
  BY <1>1, <1>4, <1>5 DEF Target
<1>7. faults.number = 0 => Single /\ Exists(saved.id) /\ Agrees(saved.attrs, saved.id)
  BY <1>1 DEF Alone, RestsAlone
<1>8. ASSUME Watched, faults.number # 0
      PROVE  Exists(saved.id) /\ \A a \in R.read.always : saved.attrs[a] = cloud[saved.id].attrs[a]
  <2>1. R.read.gone # "blank"
    BY <1>1, <1>2 DEF Changed
  <2> QED
    BY <1>1, <1>8, <2>1 DEF Seen, Watched
<1>9. ASSUME NEW a \in Trusted PROVE Carried(a)'
  <2>1. a \in Sendable(R) /\ a \in Attrs /\ config.attrs[a] \in Values /\ Handles(R, a, config.attrs[a])
        /\ saved.attrs[a] \in Values /\ Watched
    <3>1. a \in Sendable(R) /\ a \in Attrs /\ config.attrs[a] \in Values /\ Handles(R, a, config.attrs[a]) /\ Watched
      BY <1>1, <1>9, TrustedFacts, SendableFacts
    <3>2. saved.attrs \in [Attrs -> Values]
      BY <1>2, DataFacts DEF States, Given
    <3> QED
      BY <3>1, <3>2
  <2>2. \A i \in DOMAIN R.update : R.update[i].does \in Making => R.update[i].on = {}
    BY <1>2 DEF UpdatesOnly, Has, Getting
  <2>3. saved.attrs[a] # config.attrs[a] => a \in Changed
    BY <2>1 DEF Changed
  <2>4. CASE saved.attrs[a] # config.attrs[a]
    <3>1. a \notin R.renew
      BY <1>1, <2>3, <2>4
    <3>2. Carries(R, R.update, a, saved.attrs[a], config.attrs[a])
      BY <1>2, <2>1, <2>4, <3>1 DEF Applies
    <3> QED
      BY <1>1, <1>2, <1>3, <1>4, <2>1, <2>2, <2>3, <3>2, LaunchCarries
  <2>5. CASE saved.attrs[a] = config.attrs[a]
    <3>1. Spares(R, R.update, a, saved.attrs[a], config.attrs[a], 1)
      BY <1>2, <2>1, <2>5 DEF Applies
    <3>2. Kept(a, at)'
      BY <1>1, <1>2, <1>3, <1>4, <2>1, <2>2, <2>3, <3>1, LaunchCarries
    <3>3. cloud[saved.id].attrs[a] = config.attrs[a]
      <4>1. CASE faults.number = 0
        BY <1>7, <2>1, <2>5, <4>1 DEF Agrees, Exempt, Handles
      <4>2. CASE faults.number # 0
        <5>1. a \in R.read.always
          BY <1>1, <1>9, <4>2, TrustedFacts
        <5> QED
          BY <1>8, <2>1, <2>5, <4>2, <5>1
      <4> QED
        BY <4>1, <4>2
    <3>4. There(a)'
      BY <1>5, <1>6, <3>2, <3>3 DEF There
    <3> QED
      BY <1>4, <1>5, <3>4 DEF Carried
  <2> QED
    BY <2>4, <2>5
<1>10. Applying'
  BY <1>4, <1>5, <1>6, <1>7, <1>8, <1>9 DEF Applying, Handling, Unread, Exists
<1>11. ASSUME faults.number = 0 PROVE WritesAlone' /\ Single'
  <2>1. Agrees(saved.attrs, saved.id)'
    BY <1>5, <1>7, <1>11 DEF Agrees, Exempt
  <2>2. \A a \in Sendable(R) \ Handled : config.attrs[a] = Unset
    BY <1>1, TrustedFacts
  <2> QED
    BY <1>4, <1>5, <1>7, <1>11, <2>1, <2>2 DEF WritesAlone, Single, Exists
<1>12. Alone'
  BY <1>5, <1>11 DEF Alone, RestsAlone, CreatesAlone, DeletesAlone, Idle
<1> QED
  BY <1>10, <1>12

LEMMA DeleteLaunches == ASSUME AInv, Delete PROVE Applying' /\ Alone'
<1>1. PowerInv /\ Alone /\ TypedUser /\ Idle /\ saved.id # NoObject /\ fresh /\ kind \in DOMAIN Catalogue
  BY RunningFacts DEF Delete, TypedUser
<1>2. DeletesLast(R) /\ R.delete \in Seq(StepsOver(R.attrs))
  BY <1>1, CarryHere, ProgramTyped
<1> DEFINE data == [id |-> saved.id, made |-> NoObject, attrs |-> saved.attrs]
<1>3. Launch("destroy", R.delete, SetIn(saved.attrs), data)
  BY DEF Delete
<1>4. data.attrs = saved.attrs /\ data.id = saved.id
  OBVIOUS
<1> HIDE DEF data
<1>5. /\ Plain' /\ Seen' /\ Told' /\ op' = "destroy" /\ program' = R.delete /\ d' = data
      /\ UNCHANGED <<kind, cloud, config, saved, faults>> /\ R' = R /\ Permanent' = Permanent
      /\ Sendable(R)' = Sendable(R)
  BY <1>1, <1>3, LaunchFacts
<1>6. Applying'
  BY <1>5 DEF Applying, Handling, Unread, Writing
<1>7. Permanent \/ \E j \in at'..Len(R.delete) : Deletes(R.delete[j])
  <2>1. CASE Has(R.create, Adopting)
    BY <2>1 DEF Has, Adopting, Permanent, Some
  <2>2. ASSUME NEW i \in DOMAIN R.delete, Deletes(R.delete[i]) PROVE i \in at'..Len(R.delete)
    <3>1. PICK next \in 1..(Len(R.delete) + 1) :
            /\ next = First(R.delete, SetIn(saved.attrs), data.attrs, 1)
            /\ \A j \in 1..(next - 1) : ~Matters(R.delete[j], SetIn(saved.attrs), data.attrs)
      BY <1>2, FirstFacts
    <3>2. Matters(R.delete[i], SetIn(saved.attrs), data.attrs)
      BY <2>2 DEF Deletes, Matters
    <3>3. at' = next
      BY <1>3, <3>1 DEF Launch
    <3>4. i \in next..Len(R.delete)
      BY <1>2, <3>1, <3>2
    <3> QED
      BY <3>3, <3>4
  <2> QED
    BY <1>2, <2>1, <2>2 DEF DeletesLast
<1>8. ASSUME faults.number = 0 PROVE DeletesAlone' /\ Single'
  <2>1. Single /\ Exists(saved.id) /\ Agrees(saved.attrs, saved.id)
    BY <1>1, <1>8 DEF Alone, RestsAlone
  <2>2. Agrees(saved.attrs, saved.id)' /\ Agrees(d.attrs, saved.id)'
    BY <1>4, <1>5, <2>1 DEF Agrees, Exempt
  <2> QED
    BY <1>4, <1>5, <1>7, <2>1, <2>2 DEF DeletesAlone, Single, Exists
<1>9. Alone'
  BY <1>5, <1>8 DEF Alone, RestsAlone, CreatesAlone, WritesAlone, Writing, Idle
<1> QED
  BY <1>6, <1>9

-----------------------------------------------------------------------------
(* The environment.                                                        *)

LEMMA EditApplies == ASSUME AInv, Edit PROVE Applying' /\ Alone'
<1>1. PowerInv /\ Plain /\ Alone /\ TypedUser /\ config \in [present : BOOLEAN, attrs : Given]
  BY RunningFacts DEF TypedUser
<1>2. op = "idle" /\ UNCHANGED <<kind, cloud, saved, op, faults>> /\ told' = "none" /\ fresh' = FALSE
  BY DEF Edit, Idle
<1>3. R' = R /\ Nothing' = Nothing /\ Permanent' = Permanent /\ Sendable(R)' = Sendable(R) /\ DOMAIN config.attrs = R.attrs
  <2>1. DOMAIN config.attrs = R.attrs /\ DOMAIN config'.attrs = R.attrs
    BY <1>1 DEF Edit, Given, Attrs
  <2> QED
    BY <1>2, <2>1 DEF R, Nothing, Attrs, Permanent, Some
<1>4. ASSUME NEW a \in R.attrs, config'.attrs[a] = Unset PROVE a \in R.optional
  <2>1. CASE config' = [config EXCEPT !.present = ~@]
    BY <1>1, <1>4, <2>1 DEF Plain
  <2>2. ASSUME NEW b \in Attrs, NEW v \in Values, v = Unset => b \in R.optional, config' = [config EXCEPT !.attrs[b] = v]
        PROVE  a \in R.optional
    <3>1. config'.attrs = [config.attrs EXCEPT ![b] = v]
      BY <1>1, <2>2
    <3>2. config'.attrs[a] = IF a = b THEN v ELSE config.attrs[a]
      BY <1>1, <1>3, <1>4, <3>1 DEF Given
    <3> QED
      BY <1>1, <1>4, <2>2, <3>2 DEF Plain
  <2> QED
    BY <2>1, <2>2 DEF Edit
<1>5. Applying'
  BY <1>1, <1>2, <1>3, <1>4 DEF Applying, Plain, Handling, Unread, Seen, Told, Writing
<1>6. ASSUME faults.number = 0 PROVE Single' /\ RestsAlone'
  BY <1>1, <1>2, <1>3, <1>6 DEF Alone, Single, RestsAlone, Agrees, Exempt, Exists, Idle
<1> QED
  BY <1>2, <1>5, <1>6, RestAlone

LEMMA CrashApplies == ASSUME AInv, Crash PROVE Applying' /\ Alone'
<1>1. Plain /\ TypedUser
  BY RunningFacts
<1>2. UNCHANGED <<kind, config, saved>> /\ op' = "idle" /\ fresh' = FALSE /\ told' = "error" /\ Fault("crash")
  BY DEF Crash, Stop
<1>3. R' = R /\ Nothing' = Nothing
  BY <1>2, SameAttrs
<1>4. faults'.number # 0
  BY <1>1, <1>2, FaultFacts
<1> QED
  BY <1>1, <1>2, <1>3, <1>4 DEF Applying, Plain, Handling, Unread, Seen, Told, Writing, Alone

\* Whoever changes the object while the provider relies on it has raced with it.
LEMMA OthersApply == ASSUME AInv, TypedUser', OutOfBand \/ CreateForeign PROVE Applying' /\ Alone'
<1>1. PowerInv /\ Plain /\ Handling /\ Unread /\ Seen /\ TypedUser
  BY RunningFacts
<1>2. UNCHANGED <<kind, config, saved, fresh, op, program, at, d>> /\ told' = "none"
  BY DEF OutOfBand, CreateForeign
<1>3. R' = R /\ Nothing' = Nothing /\ ById' = ById
  BY <1>2, SameAttrs
<1>4. PICK k : Fault(k)
  BY DEF OutOfBand, CreateForeign
<1>5. faults'.number # 0 /\ faults'.kinds = faults.kinds \cup {k}
  BY <1>1, <1>4, FaultFacts
<1>6. Plain' /\ Told' /\ Unread' /\ Alone'
  BY <1>1, <1>2, <1>3, <1>5 DEF Plain, Told, Unread, Writing, Ahead, Alone
<1>7. CASE OutOfBand
  <2>1. (Idle /\ ~fresh) \/ "race" \in faults'.kinds
    <3>1. CASE Idle /\ ~fresh
      BY <3>1
    <3>2. CASE ~(Idle /\ ~fresh)
      <4>1. Fault("race")
        BY <1>7, <3>2 DEF OutOfBand
      <4> QED
        BY <1>1, <4>1, FaultFacts
    <3> QED
      BY <3>1, <3>2
  <2>2. Handling' /\ Seen'
    BY <1>2, <1>5, <2>1 DEF Handling, Seen, Writing, Watched, Idle
  <2> QED
    BY <1>6, <2>2 DEF Applying
<1>8. CASE CreateForeign
  <2>1. PICK object : cloud' = With(NewUuid, object) /\ Unused # {}
    BY <1>8 DEF CreateForeign
  <2>2. /\ DOMAIN cloud' = DOMAIN cloud \cup {NewUuid} /\ NewUuid \notin DOMAIN cloud \cup {saved.id}
        /\ \A u \in DOMAIN cloud : cloud'[u] = cloud[u]
    BY <2>1, NewUuidFacts DEF With
  <2>3. Seen'
    BY <1>1, <1>2, <1>3, <1>5, <2>2 DEF Seen, Exists, Idle
  <2>4. ASSUME Writing, Watched' PROVE Handling'
    <3>1. Watched /\ Trusted' \subseteq Trusted
      BY <1>1, <1>2, <1>5, <2>4, TrustShrinks
    <3>2. Target' = Target /\ Ahead(Getting)' = Ahead(Getting)
      BY <1>2 DEF Target, Ahead
    <3>3. ASSUME NEW a \in Trusted' PROVE Carried(a)'
      <4>1. Carried(a)
        BY <1>1, <2>4, <3>1, <3>3 DEF Handling
      <4>2. (Coming(a) => Coming(a)') /\ (\A i : Kept(a, i)' = Kept(a, i))
        BY <1>2, <1>3 DEF Coming, Kept, Fixed, Undone
      <4>3. There(a) => There(a)'
        BY <1>1, <1>2, <2>2, <2>4, <3>1, <3>2, <4>2 DEF There, Handling, Exists
      <4> QED
        BY <1>2, <4>1, <4>2, <4>3 DEF Carried
    <3> QED
      BY <1>1, <1>2, <2>2, <2>4, <3>1, <3>2, <3>3 DEF Handling, Exists, Writing
  <2>5. Handling'
    BY <1>2, <2>4 DEF Handling, Writing
  <2> QED
    BY <1>6, <2>3, <2>5 DEF Applying
<1> QED
  BY <1>7, <1>8

-----------------------------------------------------------------------------
(* Every step.                                                             *)

LEMMA InitAInv == Init => Misnames \/ AInv
<1> SUFFICES ASSUME Init, ~Misnames PROVE AInv
  OBVIOUS
<1>1. PowerInv /\ TypedUser
  BY InitPower DEF PowerInv, IInv, Typed
<1>2. Plain
  BY DEF Init, Plain, Gone, Unset
<1>3. Applying
  BY <1>2 DEF Init, Applying, Handling, Unread, Seen, Told, Writing
<1>4. Alone
  BY DEF Init, Alone, Single, RestsAlone, CreatesAlone, WritesAlone, DeletesAlone, Writing, Gone
<1> QED
  BY <1>1, <1>3, <1>4 DEF AInv

LEMMA ProviderLater == ASSUME TypedUser, TypedUser', Provider PROVE Later
<1>1. \A k : Fault(k) => faults.kinds \subseteq faults'.kinds
  BY FaultFacts
<1> DEFINE Grows == UNCHANGED <<kind, config>> /\ faults.kinds \subseteq faults'.kinds
<1>2. ASSUME NEW refused, NEW result, NEW data, Call(refused, result, data) PROVE Grows
  BY <1>1, <1>2 DEF Call, NoFault, Outside
<1>3. ASSUME NEW object, Changing(object) PROVE Grows
  BY <1>2, <1>3 DEF Changing
<1>4. Grows
  <2>1. CASE MakeObject \/ MakeUnknownObject \/ FindObject \/ FindNamedObject \/ CheckObject \/ DropObject \/ RefindObject
    BY <1>2, <2>1 DEF MakeObject, MakeUnknownObject, FindObject, FindNamedObject, CheckObject, DropObject, RefindObject
  <2>2. CASE ReadObject
    BY <1>2, <2>2 DEF ReadObject, Local, NoFault, Outside
  <2>3. CASE KnowObject \/ PassOver \/ AdoptObject \/ Refusal
    BY <2>3 DEF KnowObject, PassOver, AdoptObject, Refusal, Local, NoFault, Outside
  <2>4. CASE WriteObject \/ ClearObject \/ DisableObject \/ TurnObjectOff \/ TurnObjectOn
    BY <1>3, <2>4 DEF WriteObject, ClearObject, DisableObject, TurnObjectOff, TurnObjectOn
  <2>5. CASE RenameObject
    BY <1>3, <2>5 DEF RenameObject
  <2>6. CASE MakeObjectWithout \/ WriteNothing \/ ClearObjectIfPossible
    BY <1>1, <2>6 DEF MakeObjectWithout, WriteNothing, ClearObjectIfPossible, CallWithout, CallLogged, NoFault, Outside
  <2>7. CASE Return
    BY <2>7 DEF Return
  <2> QED
    BY <2>1, <2>2, <2>3, <2>4, <2>5, <2>6, <2>7 DEF Provider
<1> QED
  BY <1>4, ProviderFaults DEF Later

LEMMA SameApplies == ASSUME AInv, UNCHANGED vars PROVE Applying' /\ Alone'
<1>1. Applying /\ Alone
  BY RunningFacts
<1>2. /\ R' = R /\ Attrs' = Attrs /\ Nothing' = Nothing /\ Permanent' = Permanent /\ ById' = ById
      /\ UNCHANGED <<kind, cloud, config, saved, fresh, op, program, at, d, told, faults>>
  BY SameAttrs DEF vars
<1>3. Handled' = Handled /\ Sendable(R)' = Sendable(R)
  BY <1>2 DEF Handled
<1>4. Trusted' = Trusted /\ Watched' = Watched /\ Target' = Target
  BY <1>2, <1>3 DEF Trusted, Misnames, Watched, Target
<1>5. \A a : Carried(a)' = Carried(a)
  <2>1. \A s, a : Fixed(s, a)' = Fixed(s, a) /\ Undone(s, a)' = Undone(s, a)
    BY <1>2 DEF Fixed, Undone
  <2>2. \A a, i : Kept(a, i)' = Kept(a, i)
    BY <1>2, <2>1 DEF Kept
  <2>3. \A a : Coming(a)' = Coming(a) /\ There(a)' = There(a)
    BY <1>2, <1>4, <2>1, <2>2 DEF Coming, There, Kept
  <2> QED
    BY <1>2, <2>3 DEF Carried
<1>6. Plain' /\ Handling' /\ Unread' /\ Seen' /\ Told'
  BY <1>1, <1>2, <1>4, <1>5 DEF Applying, Plain, Handling, Unread, Seen, Told, OkMeansApplied, Idle, Writing, Ahead, Exists
<1>7. \A attrs, u : Agrees(attrs, u)' = Agrees(attrs, u)
  BY <1>2, <1>3 DEF Agrees, Exempt
<1>8. Alone'
  BY <1>1, <1>2, <1>3, <1>4, <1>7 DEF Alone, Single, RestsAlone, CreatesAlone, WritesAlone, DeletesAlone, Idle, Writing,
     Exists, Through
<1> QED
  BY <1>6, <1>8 DEF Applying

\* A resource remains what it is.
LEMMA SameMisnames == ASSUME TypedUser, TypedUser', [Next]_vars PROVE Misnames' <=> Misnames
<1>1. kind' = kind
  <2>1. CASE Provider
    BY <2>1, ProviderLater DEF Later
  <2>2. CASE Terraform
    BY <2>2 DEF Terraform, Refresh, Create, Update, Delete, Launch
  <2>3. CASE Environment
    BY <2>3 DEF Environment, Edit, Crash, OutOfBand, CreateForeign
  <2> QED
    BY <2>1, <2>2, <2>3 DEF Next, vars
<1> QED
  BY <1>1 DEF Misnames, R

LEMMA NextAInv == AInv /\ [Next]_vars => AInv'
<1> SUFFICES ASSUME AInv, [Next]_vars PROVE AInv'
  OBVIOUS
<1>1. PowerInv /\ TypedUser /\ ~Misnames /\ op \in {"idle", "create", "update", "destroy"}
  BY RunningFacts DEF Typed, TypedRun
<1>2. PowerInv' /\ TypedUser' /\ ~Misnames'
  BY <1>1, NextPower, SameMisnames DEF PowerInv, IInv, Typed
<1>3. CASE Provider
  <2>1. Later
    BY <1>1, <1>2, <1>3, ProviderLater
  <2>2. op # "idle"
    BY <1>3 DEF Provider, MakeObject, MakeObjectWithout, MakeUnknownObject, KnowObject, FindObject, FindNamedObject,
       AdoptObject, WriteObject, WriteNothing, RenameObject, ClearObject, ClearObjectIfPossible, DisableObject,
       TurnObjectOff, TurnObjectOn, CheckObject, Refusal, DropObject, ReadObject,
       RefindObject, PassOver, Return, At, Idle
  <2> QED
    BY <1>1, <1>2, <1>3, <2>1, <2>2, WritingApplies, DeleteApplies, DeleteAlone DEF AInv, Writing
<1>4. CASE Terraform
  BY <1>2, <1>4, RefreshApplies, CreateApplies, UpdateApplies, DeleteLaunches DEF AInv, Terraform
<1>5. CASE Environment
  BY <1>2, <1>5, EditApplies, CrashApplies, OthersApply DEF AInv, Environment
<1>6. CASE UNCHANGED vars
  BY <1>2, <1>6, SameApplies DEF AInv
<1> QED
  BY <1>3, <1>4, <1>5, <1>6 DEF Next

-----------------------------------------------------------------------------
(* The results.                                                            *)

\* Type correctness: whatever the handlers of a catalogue do, they only write attributes of
\* the schema.
THEOREM TypeCorrect == Spec => []TypeOK
<1>1. ASSUME IInv PROVE TypeOK
  BY <1>1, CloudsFacts DEF IInv, Typed, TypedUser, TypedRun, TypedData, TypeOK, DataOK, States, Datas, Ids,
     Objects, Given, Tellings
<1> QED
  BY <1>1, InitIInv, NextIInv, PTL DEF Spec

\* As long as every answer arrives and the provider does not die, the only object it made is
\* the one that the state, or the running handler, knows.
THEOREM ObjectTracked == Spec => []Tracked
<1>1. ASSUME IInv PROVE Tracked
  BY <1>1 DEF IInv, Identity, Tracked, Sighted
<1> QED
  BY <1>1, InitIInv, NextIInv, PTL DEF Spec

\* Whatever goes wrong, the state lets an object of the provider's go only when it does
\* not exist any more.
THEOREM ForgottenIsGone == Spec => ForgetsOnlyGone
<1> DEFINE Held == ById /\ saved.id # NoObject /\ saved'.id # saved.id => saved.id \notin Own'
<1>1. IInv /\ [Next]_vars => [Held]_vars
  BY NextIInv DEF Remembers
<1>2. Spec => [][Held]_vars
  BY <1>1, InitIInv, NextIInv, PTL DEF Spec
<1> QED
  BY <1>2 DEF ForgetsOnlyGone

\* What an Update turns off for a change is on again when it returns, whatever the program: the
\* step that turns it on is never passed over, and no call before it fails on its own.
THEOREM OnAgain == Spec => []OffOnlyAfterFault
<1>1. ASSUME PowerInv PROVE OffOnlyAfterFault
  BY <1>1 DEF PowerInv, OffOnlyAfterFault, Pending
<1> QED
  BY <1>1, InitPower, NextPower, PTL DEF Spec

\* When Create or Update reports success, the object is as configured: in everything that is
\* handled when nothing has failed, and in what Read always refreshes and no call leaves out
\* for want of a lookup whatever has failed before; of the resources whose handlers rename
\* their object nothing is said.
THEOREM OkObjectApplied == Spec => []OkMeansApplied
<1>1. ASSUME AInv PROVE OkMeansApplied
  BY <1>1, RunningFacts DEF Told, OkMeansApplied
<1>2. ASSUME Misnames PROVE OkMeansApplied
  BY <1>2 DEF OkMeansApplied, Trusted
<1>3. ASSUME IInv, Misnames \/ AInv, [Next]_vars PROVE (Misnames \/ AInv)'
  <2>1. TypedUser /\ TypedUser'
    BY <1>3, NextIInv DEF IInv, Typed
  <2> QED
    BY <1>3, <2>1, SameMisnames, NextAInv
<1> QED
  BY <1>1, <1>2, <1>3, InitAInv, InitIInv, NextIInv, PTL DEF Spec
=============================================================================
