------------------------------ MODULE Carrying ------------------------------
(***************************************************************************)
(* What the programs of a catalogue are like where OkMeansApplied holds: a *)
(* data-flow check of every handler, of one attribute at a time.  It looks *)
(* at the programs only; that it is enough, whatever fails, is a theorem.  *)
(* What a "rename" does is left out: nothing is promised of a resource     *)
(* that has one (Misnames).                                                *)
(***************************************************************************)
EXTENDS Lifecycle

\* The steps that choose the object, those that send attributes, and those that look an
\* object up.
Adopting == {"adopt", "adoptUnknown"}
Getting == Making \cup Adopting
Clearing == {"clear", "disable"}
Sending == Making \cup Clearing \cup {"write"}
Searching == {"read", "refind", "findByName"}
Identifying == {"know", "findByName"}

\* What an attribute that is to become `new' is after the step s has sent it, and what it
\* is in an object that was made without it.
Result(s, new) == CASE s.does = "clear" -> Unset [] s.does = "disable" -> 2 [] OTHER -> new
Born(r, a) == IF a \in r.starts THEN 1 ELSE Unset

\* If the attribute a changes from old to new, or stays as it is, the step is taken and
\* sends it.
Takes(s, a, old, new) ==
  /\ a \in s.sets /\ (s.all \/ old # new) /\ (a \in s.keeps => new # Unset)
  /\ s.on = {} \/ (old # new /\ a \in s.on /\ old \in s.from /\ new \in s.to)

\* After s it is new, whatever it was.
Fixes(r, s, a, old, new) ==
  /\ s.when # "known" /\ ~s.ignored
  /\ \/ s.does \in Sending /\ Takes(s, a, old, new) /\ Result(s, new) = new
     \/ s.does \in Making /\ Born(r, a) = new

\* After s it may be something else, although it was new.
Undoes(r, s, a, old, new) ==
  \/ s.does \in Getting /\ ~Fixes(r, s, a, old, new)
  \/ /\ s.does \in Clearing /\ a \in s.sets /\ Result(s, new) # new
     /\ (s.all \/ old # new) /\ (s.on = {a} => old # new /\ old \in s.from /\ new \in s.to)

\* The steps from i on leave it as it is.
Spares(r, steps, a, old, new, i) == \A j \in i..Len(steps) : ~Undoes(r, steps[j], a, old, new)

Carries(r, steps, a, old, new) ==
  \E i \in DOMAIN steps : Fixes(r, steps[i], a, old, new) /\ Spares(r, steps, a, old, new, i + 1)

\* The attributes that Handled speaks about, and a value that it does.
Sendable(r) == (r.renew \cup Sends(r.update)) \cap Created(r)
Handles(r, a, new) == new = Unset => a \in r.optional /\ (a \in Keeps(r.update) => a \in r.renew)

Applies(r) ==
  \A a \in Sendable(r), old \in Values, new \in Values : Handles(r, a, new) =>
    /\ Carries(r, r.create, a, Unset, new)
    /\ a \notin r.renew /\ old # new => Carries(r, r.update, a, old, new)
    /\ Spares(r, r.update, a, new, new, 1)

\* Nothing is sent after a Read of the object, or after the handler has taken over what a
\* reply says.
InOrder(steps) ==
  \A i \in DOMAIN steps :
    /\ steps[i].does \in Looking => \A j \in (i + 1)..Len(steps) : steps[j].does \notin Sending \cup Getting
    /\ steps[i].answers # {} => i = Len(steps) /\ steps[i].answers \subseteq steps[i].sets /\ steps[i].all

\* Create has one step that chooses the object, which it always takes, and refuses before.
ChoosesAt(r, g) ==
  /\ r.create[g].does \in Getting /\ r.create[g].on = {} /\ r.create[g].when # "known" /\ ~r.create[g].dropped
  /\ \A i \in DOMAIN r.create :
       /\ r.create[i].does \in Getting => i = g
       /\ r.create[i].does = "refuse" => i < g
       /\ r.create[i].dropped => i > g
  /\ r.create[g].does = "makeUnknown" =>
       \E j \in (g + 1)..Len(r.create) :
         r.create[j].does \in Identifying /\ r.create[j].on = {} /\ r.create[j].when # "known"

CreatesOne(r) ==
  /\ \E g \in DOMAIN r.create : ChoosesAt(r, g)
  /\ \A i \in DOMAIN r.create : ~r.create[i].lenient /\ (r.create[i].when = "unknown" => r.create[i].does \in Getting)
  /\ ~Has(r.create, {"refind"}) /\ (Has(r.create, Adopting) => ~Has(r.create, {"findNamed", "findByName"}))

UpdatesOnly(r) ==
  /\ ~Has(r.update, Getting \cup {"refuse", "drop", "refind"})
  /\ \A i \in DOMAIN r.update : r.update[i].when = "always" /\ ~r.update[i].lenient
  /\ Has(r.update, {"noUpdate"}) => Len(r.update) = 1

\* Delete ends with the deletion, and does not fail once it has changed the object.
DeletesLast(r) ==
  /\ \A i \in DOMAIN r.delete : ~r.delete[i].dropped /\ (r.delete[i].does = "drop" => i = Len(r.delete))
  /\ Has(r.create, Adopting) \/ \E i \in DOMAIN r.delete : Deletes(r.delete[i])
  /\ Has(r.delete, Sending) => ~Has(r.delete, Searching \cup {"refuse", "noUpdate"}) /\ r.protects = {}

\* What is found by its name is given it before; where an error is dropped, or an object
\* is looked for before one is made, the resource is listed as Unreliable.
Names(r) ==
  /\ r.read.by = "name" \/ Has(r.create, {"findByName"}) =>
       "name" \in Sendable(r) /\ "name" \notin r.optional \cup Keeps(r.update)
  /\ \A i \in DOMAIN r.create : r.create[i].does = "findByName" =>
       \A j \in (i + 1)..Len(r.create) : r.create[j].does \notin Getting /\ "name" \notin r.create[j].sets
Reliable(r) ==
  /\ ~Has(r.create, {"findNamed", "findByName"})
  /\ \A i \in DOMAIN r.create : r.create[i].when = "always" /\ ~r.create[i].dropped
  /\ \A i \in DOMAIN r.update : ~r.update[i].dropped

ASSUME CarryingAssumption ==
  \A k \in DOMAIN Catalogue :
    LET r == Catalogue[k] IN
      /\ Applies(r) /\ InOrder(r.create) /\ InOrder(r.update)
      /\ CreatesOne(r) /\ UpdatesOnly(r) /\ DeletesLast(r) /\ Names(r)
      /\ r.read.gone = "blank" => r.attrs \subseteq r.renew
      /\ ByIdentity(r) /\ k \notin Unreliable => Reliable(r)
=============================================================================
