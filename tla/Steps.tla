-------------------------------- MODULE Steps --------------------------------
(***************************************************************************)
(* Most resources of the provider keep one CloudStack object, and their    *)
(* handlers are straight sequences of API calls with an early return at    *)
(* every error.  Such a handler is written down as a program: a sequence   *)
(* of steps, which the module Lifecycle runs.  A catalogue module lists    *)
(* the programs of the resources of one part of the provider.              *)
(*                                                                         *)
(* A lookup in front of a call, whose failure ends the handler just as the *)
(* failure of the call does, is not a step of its own.                     *)
(***************************************************************************)
EXTENDS Naturals, Sequences

\* The values of an attribute: not configured, or one of two; those of a Boolean
\* are False and True.
Unset == 0
Values == 0..2
Set == {1, 2}
False == 1
True == 2

\* One call.  `on' are the attributes whose change (in Create and Delete, whose
\* presence) makes the handler take it, the empty set meaning always; `from' and
\* `to' restrict the old and the new value.  `sets' are the attributes it sends,
\* of which `keeps' only if they are configured, and `all' says whether it
\* sends those that did not change, too.  A call is made up to `tries' times;
\* `dropped' says that its error ends the handler as if it were none, `rescued' that, at an
\* error, it looks for the object by its name, and `lenient' that the object need
\* not exist any more.  `when' tells a step that is taken only if the handler already
\* knows an object, or only if it does not; `answers' are the attributes of which the
\* handler stores what the call's reply says, if it says anything.  The attributes in
\* `guesses' are looked up first, and left out if the lookup fails; `ignored' says that the
\* error of the call is only logged.
Step(does, on, sets) ==
  [does |-> does, on |-> on, from |-> Values, to |-> Values, sets |-> sets, keeps |-> {}, all |-> FALSE,
   tries |-> 1, dropped |-> FALSE, rescued |-> FALSE, lenient |-> FALSE, unique |-> {},
   when |-> "always", answers |-> {}, guesses |-> {}, ignored |-> FALSE]

\* Create the object.  The id is set at once, or by a later Know.
Make(sets) == [Step("make", {}, sets) EXCEPT !.all = TRUE]
MakeUnknown(sets) == [Make(sets) EXCEPT !.does = "makeUnknown"]
Know == Step("know", {}, {})
Rescued(step) == [step EXCEPT !.rescued = TRUE]

\* CloudStack refuses a second object with the same values.
MakeUnique(sets, unique) == [Make(sets) EXCEPT !.unique = unique]

\* The id is found by listing the objects of that name.
FindByName == Step("findByName", {}, {})

\* An object of that name is used if there is one, and another made if not.
FindNamed == Step("findNamed", {}, {})
IfKnown(step) == [step EXCEPT !.when = "known"]
IfUnknown(step) == [step EXCEPT !.when = "unknown"]

\* The object was always there, and its id is known without a call; or it is set by
\* a later Know.
Adopt == Step("adopt", {}, {})
AdoptUnknown == [Adopt EXCEPT !.does = "adoptUnknown"]

\* Change attributes of the object: those that changed, or all; if something
\* changed, or always.
Write(sets) == Step("write", sets, sets)
WriteAll(sets) == [Write(sets) EXCEPT !.all = TRUE]
Always(step) == [step EXCEPT !.on = {}]

\* The new value of attr is sent as the name of the object.
Rename(attr) == Step("rename", {attr}, {"name"})

\* GetOk: an attribute that is not configured is not sent.
Keeping(step, attrs) == [step EXCEPT !.keeps = attrs]
Answering(step, attrs) == [step EXCEPT !.answers = attrs]
Retried(step, n) == [step EXCEPT !.tries = n]
ErrorDropped(step) == [step EXCEPT !.dropped = TRUE]
Ignored(step) == [step EXCEPT !.ignored = TRUE]
Guessing(step, attrs) == [step EXCEPT !.guesses = attrs]
From(step, values) == [step EXCEPT !.from = values]
To(step, values) == [step EXCEPT !.to = values]

\* First remove what was there, then add what is wanted.
Clear(attr) == From(Step("clear", {attr}, {attr}), Set)
Add(attr) == To(Write({attr}), Set)
Replace(attr) == <<Clear(attr), Add(attr)>>

\* Give the attribute back the value it has without having been set.
Reset(attr) == [Step("clear", {}, {attr}) EXCEPT !.all = TRUE]

\* The object cannot be changed, or cannot be deleted, while it is on.
TurnOff(on) == Step("off", on, {})
TurnOn(on) == Step("on", on, {})

\* Give the attribute the value 2.
Disable(attr) == [Step("disable", {}, {attr}) EXCEPT !.all = TRUE]

\* A call that changes nothing but may fail, the handler's own refusal, and a
\* resource without an Update.
Check(on) == Step("check", on, {})
Refuse(attr, values) == To(Step("refuse", {attr}, {}), values)
NoUpdate == Step("noUpdate", {}, {})

\* Delete the object.  One that does not exist any more counts as deleted, or not.
Lenient(step) == [step EXCEPT !.lenient = TRUE]
DropExisting == Step("drop", {}, {})
Drop == Lenient(DropExisting)

\* The handler looks the object up as Read does, before it goes on with it.
Refind == Step("refind", {}, {})

\* The handler calls Read.
Reread == Step("read", {}, {})

-----------------------------------------------------------------------------
\* A Read: how it looks the object up, what it does when there is none, and
\* the attributes it refreshes: always, if they are set in the state, and if they
\* are set in the cloud.
Reading(by, gone, always, ifSet, ifAny) ==
  [by |-> by, gone |-> gone, always |-> always, ifSet |-> ifSet, ifAny |-> ifAny]

ReadById(attrs) == Reading("id", "forget", attrs, {}, {})
ReadByIdStrictly(attrs) == Reading("id", "fail", attrs, {}, {})
ReadByName(attrs) == Reading("name", "forget", attrs, {}, {})
ReadByIdOrName(attrs, ifSet) == Reading("id or name", "forget", attrs, ifSet, {})
ReadNothing == Reading("nothing", "forget", {}, {}, {})

\* A resource: its attributes, those that may be left out, those whose change
\* replaces the object, and its handlers.
Resource(attrs, optional, renew, read, create, update, delete) ==
  [attrs |-> attrs, optional |-> optional, renew |-> renew, protects |-> {}, starts |-> {}, framework |-> FALSE,
   read |-> read, create |-> create, update |-> update, delete |-> delete]

\* An attribute that, when True, keeps CloudStack from deleting the object.
ProtectedBy(attr, resource) == [resource EXCEPT !.protects = {attr}]

\* An attribute to which CloudStack gives a value, 1, that Create does not send.
Starting(attr, resource) == [resource EXCEPT !.starts = {attr}]

\* A resource of the provider that is built with the Plugin Framework, where an error
\* leaves the state as it was, and Terraform insists on what it planned.
Framework(resource) == [resource EXCEPT !.framework = TRUE]
-----------------------------------------------------------------------------
\* The steps, and the Reads, of a resource with these attributes.
Does ==
  {"make", "makeUnknown", "know", "findByName", "findNamed", "adopt", "adoptUnknown", "write", "rename", "clear",
   "disable", "off", "on", "check", "refuse", "noUpdate", "drop", "refind", "read"}
StepsOver(attrs) ==
  [does : Does, on : SUBSET attrs, from : SUBSET Values, to : SUBSET Values, sets : SUBSET attrs,
   keeps : SUBSET attrs, all : BOOLEAN, tries : Nat \ {0}, dropped : BOOLEAN, rescued : BOOLEAN,
   lenient : BOOLEAN, unique : SUBSET attrs, when : {"always", "known", "unknown"}, answers : SUBSET attrs,
   guesses : SUBSET attrs, ignored : BOOLEAN]

ReadingsOver(attrs) ==
  [by : {"id", "name", "id or name", "nothing"}, gone : {"forget", "blank", "fail"},
   always : SUBSET attrs, ifSet : SUBSET attrs, ifAny : SUBSET attrs]

WellTyped(r) ==
  /\ r.create \in Seq(StepsOver(r.attrs)) /\ r.update \in Seq(StepsOver(r.attrs))
  /\ r.delete \in Seq(StepsOver(r.attrs)) /\ r.read \in ReadingsOver(r.attrs)
  /\ r.optional \cup r.starts \cup r.renew \cup r.protects \subseteq r.attrs /\ r.framework \in BOOLEAN
=============================================================================
