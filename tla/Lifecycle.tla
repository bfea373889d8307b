------------------------------ MODULE Lifecycle ------------------------------
(***************************************************************************)
(* One Terraform resource that keeps one CloudStack object: what the       *)
(* Plugin SDK does with its handlers, and what the handlers, given as      *)
(* programs (Steps), do to the object.  The SDK saves the planned values   *)
(* when a handler returns an error, so from then on the state may claim    *)
(* what was never done; what a Read does not look at is believed for ever. *)
(***************************************************************************)
EXTENDS Steps, FiniteSetsExt, Functions

CONSTANTS Catalogue,    \* [names -> the resources, as Steps!Resource]
          Faults,       \* which faults the environment may inject
          MaxFaults,    \* bound: how many of them
          Twice,        \* the resources that may meet one more
          MaxChanges,   \* bound: how often the user edits the configuration
          MaxUuid       \* bound: how many objects may exist or be remembered

FaultKinds == {"apiError", "lostReply", "crash", "outOfBand", "race", "foreign"}

Uuid == 1..MaxUuid
NoObject == 0

ASSUME LifecycleAssumption ==
  /\ Faults \subseteq FaultKinds /\ Twice \subseteq DOMAIN Catalogue
  /\ MaxFaults \in Nat /\ MaxChanges \in Nat /\ MaxUuid \in Nat

-----------------------------------------------------------------------------
(* What the handlers of the catalogue have in common.                      *)

ByIdentity(r) == r.read.by \in {"id", "id or name"}

\* The resources whose Create has made the object before it knows its id.
LateId == {"loadbalancer", "cni_configuration", "snapshot_policy_unnamed"}

Making == {"make", "makeUnknown"}
Naming == {"make", "know", "findByName", "findNamed", "adopt"}
Looking == {"read", "refind"}

Has(steps, does) == \E i \in DOMAIN steps : steps[i].does \in does

\* An object has one name: the step that gives it comes before all that might have
\* known one, or is only for an object without.
NamesOnce(steps) ==
  \A i \in DOMAIN steps :
    steps[i].does \in Naming /\ steps[i].when # "unknown" =>
      \A j \in 1..(i - 1) : steps[j].does \notin Naming \cup Looking

\* A step that every run of a Delete takes, and that deletes the object.
Deletes(s) == s.does = "drop" /\ s.on = {} /\ s.when = "always"

\* What is turned off is turned on again, or deleted, by a step that comes with the first
\* one, after none that could fail on its own.
Harmless == {"write", "clear", "disable", "check", "off"}
Restores(r, s, t) ==
  /\ s.does = "on" \/ (s.does = "drop" /\ r.protects = {})
  /\ s.when = "always"
  /\ s.on = {} \/ (t.on # {} /\ t.on \subseteq s.on /\ t.from \subseteq s.from /\ t.to \subseteq s.to)
RestoredIn(r, steps, i) ==
  \E j \in (i + 1)..Len(steps) :
    /\ Restores(r, steps[j], steps[i])
    /\ \A l \in (i + 1)..(j - 1) : steps[l].does \in Harmless \/ (steps[l].does = "read" /\ r.read.by = "id")

\* Of every resource: an object is made by Create alone, and deleted by Delete, which then
\* always does; only the call that makes it is followed by a search when it fails; and the
\* framework's Create is one call.
ASSUME CatalogueAssumption ==
  \A k \in DOMAIN Catalogue :
    LET r == Catalogue[k] IN
      /\ WellTyped(r)
      /\ NamesOnce(r.create)
      /\ k \in LateId \/ ~Has(r.create, {"makeUnknown"})
      /\ ~Has(r.create, {"noUpdate", "drop", "off"}) /\ (r.framework => Len(r.create) = 1)
      /\ \A steps \in {r.update, r.delete} :
           /\ ~Has(steps, Naming \cup {"makeUnknown", "adoptUnknown"})
           /\ \A i \in DOMAIN steps : ~steps[i].rescued /\ (steps[i].does = "off" => RestoredIn(r, steps, i))
      /\ \A i \in DOMAIN r.create : r.create[i].rescued => r.create[i].does = "make"
      /\ Has(r.create, Making) /\ ByIdentity(r) =>
           /\ \E i \in DOMAIN r.delete : Deletes(r.delete[i])
           /\ \A i \in DOMAIN r.delete : ~r.delete[i].dropped

-----------------------------------------------------------------------------
VARIABLES kind,      \* which resource of the catalogue this is
          cloud,     \* [uuid -> the object: own, attrs, on]
          config,    \* what the user wants: [present, attrs]
          saved,     \* the Terraform state: [id, tainted, attrs]
          fresh,     \* a refresh preceded the next plan
          op,        \* the running handler
          program,   \* the steps it is made of
          at,        \* the one that comes next
          failures,  \* how often that one has failed
          d,         \* its schema.ResourceData: [id, made, attrs]
          told,      \* how the last operation ended
          faults,    \* the faults injected so far: [number, kinds]
          changes    \* edits made so far

vars == <<kind, cloud, config, saved, fresh, op, program, at, failures, d, told, faults, changes>>

R == Catalogue[kind]

\* Its attributes, which the configuration always names.
Attrs == DOMAIN config.attrs

-----------------------------------------------------------------------------
(* The API.                                                                *)

Fault(k) ==
  /\ k \in Faults /\ faults.number < MaxFaults + (IF kind \in Twice THEN 1 ELSE 0)
  /\ faults' = [number |-> faults.number + 1, kinds |-> faults.kinds \cup {k}]

NoFault == UNCHANGED faults

Nothing == [a \in Attrs |-> Unset]

\* A uuid nobody knows; one that exists nowhere any more is as good as new.
Unused == Uuid \ (DOMAIN cloud \cup {saved.id, d.id, d.made})
NewUuid == CHOOSE u \in Unused : TRUE

Exists(u) == u \in DOMAIN cloud
Protected(u) == Exists(u) /\ \E a \in R.protects : cloud[u].attrs[a] = True

Own == {u \in DOMAIN cloud : cloud[u].own}

SameName(name) == {u \in DOMAIN cloud : cloud[u].attrs["name"] = name}

Changed == {a \in Attrs : saved.attrs[a] # config.attrs[a]}
SetIn(attrs) == {a \in Attrs : attrs[a] # Unset}

\* The attributes that matter to the running handler, and what they are to become.
\* Neither the state nor the configuration changes while it runs.
Concerned ==
  CASE op = "create" -> SetIn(config.attrs)
    [] op = "update" -> Changed
    [] OTHER -> SetIn(saved.attrs)

Planned == IF op = "destroy" THEN saved.attrs ELSE config.attrs

\* The handler's condition for the step s: an attribute that is concerned changes as s
\* wants it.
Matters(s, concerned, planned) ==
  s.on = {} \/ \E a \in s.on \cap concerned : saved.attrs[a] \in s.from /\ planned[a] \in s.to

\* The first step from i on that matters, or the end of the program.
First(steps, concerned, planned, i) ==
  Min({j \in i..Len(steps) : Matters(steps[j], concerned, planned)} \cup {Len(steps) + 1})

Now == program[at]
Through == at > Len(program)

\* The attributes s sends, given what the handler's ResourceData says.
Sent(s) ==
  {a \in s.sets : (s.all \/ a \in Concerned) /\ (a \in s.keeps => d.attrs[a] # Unset)}

\* The object with the attributes of `attrs' that s sends.
Written(s, object, attrs) == [object EXCEPT !.attrs = [a \in Attrs |-> IF a \in Sent(s) THEN attrs[a] ELSE @[a]]]

BlankObject == [own |-> TRUE, on |-> TRUE, attrs |-> [a \in Attrs |-> IF a \in R.starts THEN 1 ELSE Unset]]
NewObject(s) == Written(s, BlankObject, d.attrs)

Without(u) == Restrict(cloud, DOMAIN cloud \ {u})

-----------------------------------------------------------------------------
(* Read                                                                    *)

\* The attributes a Read overwrites with those of the object u.
Refreshed(attrs, u) ==
  R.read.always \cup {a \in R.read.ifSet : attrs[a] # Unset}
                \cup {a \in R.read.ifAny : cloud[u].attrs[a] # Unset}

ReadAttrs(attrs, u) ==
  [a \in Attrs |-> IF a \in Refreshed(attrs, u) THEN cloud[u].attrs[a] ELSE attrs[a]]

\* The objects a Read may find for the state (id, attrs).
Found(id, attrs) ==
  CASE R.read.by = "id" -> {id} \cap DOMAIN cloud
    [] R.read.by = "name" -> SameName(attrs["name"])
    [] R.read.by = "id or name" -> IF Exists(id) THEN {id} ELSE SameName(attrs["name"])
    [] OTHER -> {}

-----------------------------------------------------------------------------
(* Terraform: refresh, plan, and the start of a handler.                   *)

Idle == op = "idle"
Gone == [id |-> NoObject, tainted |-> FALSE, attrs |-> Nothing]
NoData == [id |-> NoObject, made |-> NoObject, attrs |-> Nothing]

Save(state, result) == saved' = state /\ told' = result /\ fresh' = FALSE

RefreshFound ==
  \E u \in Found(saved.id, saved.attrs) :
    /\ saved' = [saved EXCEPT !.id = u, !.attrs = ReadAttrs(saved.attrs, u)]
    /\ fresh' = TRUE /\ told' = "read"

\* The object is gone: Read forgets it, or keeps its id without attributes, or
\* fails.
Blank(attrs) == [a \in Attrs |-> IF a \in R.read.always THEN Unset ELSE attrs[a]]

RefreshGone ==
  /\ R.read.by # "nothing" /\ Found(saved.id, saved.attrs) = {}
  /\ \/ R.read.gone = "forget" /\ saved' = Gone /\ fresh' = TRUE /\ told' = "read"
     \/ R.read.gone = "blank" /\ saved' = [saved EXCEPT !.attrs = Blank(@)] /\ fresh' = TRUE /\ told' = "read"
     \/ R.read.gone = "fail" /\ Save(saved, "error")

RefreshNothing == R.read.by = "nothing" /\ fresh' = TRUE /\ told' = "read" /\ UNCHANGED saved

Refresh ==
  /\ Idle /\ saved.id # NoObject
  /\ RefreshFound \/ RefreshGone \/ RefreshNothing
  /\ UNCHANGED <<kind, cloud, config, op, program, at, failures, d, faults, changes>>

Launch(handler, steps, concerned, data) ==
  /\ op' = handler /\ program' = steps /\ at' = First(steps, concerned, data.attrs, 1) /\ failures' = 0
  /\ d' = data
  /\ UNCHANGED <<kind, cloud, config, saved, fresh, told, faults, changes>>

Create ==
  /\ Idle /\ config.present /\ saved.id = NoObject
  /\ Launch("create", R.create, SetIn(config.attrs), [NoData EXCEPT !.attrs = config.attrs])

Replaced == saved.tainted \/ R.renew \cap Changed # {}

Update ==
  /\ Idle /\ config.present /\ saved.id # NoObject /\ fresh
  /\ ~Replaced /\ Changed # {}
  /\ Launch("update", R.update, Changed, [id |-> saved.id, made |-> NoObject, attrs |-> config.attrs])

Delete ==
  /\ Idle /\ saved.id # NoObject /\ fresh /\ (~config.present \/ Replaced)
  /\ Launch("destroy", R.delete, SetIn(saved.attrs), [id |-> saved.id, made |-> NoObject, attrs |-> saved.attrs])

-----------------------------------------------------------------------------
(* The handler returns.                                                    *)

Stop == op' = "idle" /\ program' = <<>> /\ at' = 1 /\ failures' = 0 /\ d' = NoData

\* The SDK saves what the handler's ResourceData says, even after an error; a
\* Create that fails with an id leaves the resource tainted.
StateOf(data, failed) ==
  IF data.id = NoObject THEN Gone
  ELSE [id |-> data.id, tainted |-> failed /\ (op = "create" \/ saved.tainted), attrs |-> data.attrs]

ReturnError(data) == Stop /\ Save(IF R.framework THEN saved ELSE StateOf(data, TRUE), "error")

\* Terraform does not accept a resource that vanished from under its Create or
\* Update, nor one of the framework that is not what was planned.
Unexpected == d.id = NoObject \/ (R.framework /\ d.attrs # config.attrs)

Return ==
  /\ ~Idle /\ Through /\ Stop
  /\ \/ op = "destroy" /\ Save(Gone, "none")
     \/ op # "destroy" /\ Save(StateOf(d, FALSE), IF Unexpected THEN "error" ELSE "ok")
  /\ UNCHANGED <<kind, cloud, config, faults, changes>>

-----------------------------------------------------------------------------
(* The steps.                                                              *)

\* A step that is only for a handler that knows an object, or does not, is passed over by
\* others.
Passed(s) == s.when = (IF d.id = NoObject THEN "known" ELSE "unknown")
At(does) == ~Idle /\ ~Through /\ Now.does = does /\ ~Passed(Now)
Outside == <<kind, config, changes>>

Running == UNCHANGED <<op, program, saved, told, fresh>>

Proceed(data) == at' = First(program, Concerned, Planned, at + 1) /\ failures' = 0 /\ d' = data /\ Running

\* A variant: once it is not tried again, an error is dropped.
GiveUpSilently ==
  \/ Now.tries > failures + 1 /\ failures' = failures + 1 /\ UNCHANGED <<at, d>> /\ Running
  \/ Now.tries = failures + 1 /\ at' = Len(program) + 1 /\ failures' = 0 /\ UNCHANGED d /\ Running

\* An error: try again, return as if there were none, or return it, after having
\* looked for an object of the name, perhaps.
GiveUp ==
  \/ Now.tries > failures + 1 /\ failures' = failures + 1 /\ UNCHANGED <<at, d>> /\ Running
  \/ Now.tries = failures + 1 /\ Now.dropped /\ at' = Len(program) + 1 /\ failures' = 0 /\ UNCHANGED d /\ Running
  \/ Now.tries = failures + 1 /\ ~Now.dropped /\ ReturnError(d)
  \/ Now.rescued /\ \E u \in DOMAIN cloud' :
       cloud'[u].attrs["name"] = d.attrs["name"] /\ ReturnError([d EXCEPT !.id = u])

\* A call that would turn the cloud into `result' and let the handler go on with
\* `data'.  It may be refused, it may fail, and it may fail after having had its
\* effect.
Call(refused, result, data) ==
  /\ \/ ~refused /\ cloud' = result /\ Proceed(data) /\ NoFault
     \/ /\ \/ refused /\ UNCHANGED cloud /\ NoFault
           \/ Fault("apiError") /\ UNCHANGED cloud
           \/ ~refused /\ result # cloud /\ Fault("lostReply") /\ cloud' = result
        /\ GiveUp
  /\ UNCHANGED Outside

\* A call made without what could not be looked up, and one whose error is only logged:
\* the handler goes on.
CallWithout(result, data) ==
  Now.guesses # {} /\ Fault("apiError") /\ cloud' = result /\ Proceed(data) /\ UNCHANGED Outside

CallLogged(result, data) ==
  /\ Proceed(data) /\ UNCHANGED Outside
  /\ \/ cloud' = result /\ NoFault
     \/ UNCHANGED cloud /\ Fault("apiError")
     \/ result # cloud /\ Fault("lostReply") /\ cloud' = result

\* What only the handler's own data knows.
Local(data) == Proceed(data) /\ UNCHANGED cloud /\ NoFault /\ UNCHANGED Outside

PassOver == ~Idle /\ ~Through /\ Passed(Now) /\ Local(d)

With(u, object) == [v \in DOMAIN cloud \cup {u} |-> IF v = u THEN object ELSE cloud[v]]

\* CloudStack takes only one object with these values.
Rivals(s, attrs) == {u \in DOMAIN cloud : \A a \in s.unique : cloud[u].attrs[a] = attrs[a]}
Taking(s, attrs) == s.unique # {} /\ Rivals(s, attrs) # {}

MakeObject ==
  /\ At("make") /\ Unused # {}
  /\ Call(Taking(Now, d.attrs), With(NewUuid, NewObject(Now)), [d EXCEPT !.id = NewUuid])

MakeObjectWithout ==
  /\ At("make") /\ Unused # {}
  /\ CallWithout(With(NewUuid, NewObject([Now EXCEPT !.sets = @ \ Now.guesses])), [d EXCEPT !.id = NewUuid])

MakeUnknownObject ==
  /\ At("makeUnknown") /\ Unused # {}
  /\ Call(FALSE, With(NewUuid, NewObject(Now)), [d EXCEPT !.made = NewUuid])

KnowObject == At("know") /\ Local([d EXCEPT !.id = d.made])

FindObject ==
  /\ At("findByName")
  /\ \/ \E u \in SameName(d.attrs["name"]) : Call(FALSE, cloud, [d EXCEPT !.id = u])
     \/ SameName(d.attrs["name"]) = {} /\ Call(TRUE, cloud, d)

FindNamedObject ==
  /\ At("findNamed")
  /\ \/ \E u \in SameName(d.attrs["name"]) : Call(FALSE, cloud, [d EXCEPT !.id = u])
     \/ SameName(d.attrs["name"]) = {} /\ Call(FALSE, cloud, d)

\* It is nobody's own: whoever configures it last has it.
Adopted(u) == IF Now.does = "adopt" THEN [d EXCEPT !.id = u] ELSE [d EXCEPT !.made = u]
AdoptObject ==
  /\ At("adopt") \/ At("adoptUnknown")
  /\ Unused # {}
  /\ IF cloud = [u \in {} |-> u]
     THEN cloud' = With(NewUuid, [BlankObject EXCEPT !.own = FALSE]) /\ Proceed(Adopted(NewUuid))
     ELSE \E u \in DOMAIN cloud : Proceed(Adopted(u)) /\ UNCHANGED cloud
  /\ NoFault /\ UNCHANGED Outside

\* The object the handler works on, even before its id is set.
Target == IF d.id = NoObject THEN d.made ELSE d.id

\* What the handler knows when it has the reply.
Answered(object) ==
  [d EXCEPT !.attrs = [a \in Attrs |->
     IF a \in Now.answers /\ object.attrs[a] # Unset THEN object.attrs[a] ELSE @[a]]]

\* The object becomes what the step makes of it; one that is gone stays so.
Changing(object) ==
  IF Exists(Target) THEN Call(FALSE, With(Target, object), Answered(object)) ELSE Call(~Now.lenient, cloud, d)

WriteObject == At("write") /\ Changing(Written(Now, cloud[Target], d.attrs))
WriteNothing == At("write") /\ Now.sets = Now.guesses /\ Exists(Target) /\ CallWithout(cloud, d)
RenameObject ==
  At("rename") /\ \E a \in Now.on : Changing([cloud[Target] EXCEPT !.attrs["name"] = d.attrs[a]])
Cleared == Written(Now, cloud[Target], Nothing)
ClearObject == At("clear") /\ ~Now.ignored /\ Changing(Cleared)
ClearObjectIfPossible ==
  At("clear") /\ Now.ignored /\ CallLogged(IF Exists(Target) THEN With(Target, Cleared) ELSE cloud, d)
DisableObject == At("disable") /\ Changing(Written(Now, cloud[Target], [a \in Attrs |-> 2]))
TurnObjectOff == At("off") /\ Changing([cloud[Target] EXCEPT !.on = FALSE])
\* A variant: it is turned on only for what is set.
TurnObjectOnIfSet ==
  /\ At("on")
  /\ IF \A a \in Now.on \cap Concerned : d.attrs[a] = Unset THEN Local(d) ELSE Changing([cloud[Target] EXCEPT !.on = TRUE])

TurnObjectOn == At("on") /\ Changing([cloud[Target] EXCEPT !.on = TRUE])

CheckObject == At("check") /\ Call(FALSE, cloud, d)

\* The handler refuses, or the SDK does: of an update without a handler nothing is
\* saved.
Refusal ==
  /\ \/ At("refuse") /\ ReturnError(d)
     \/ At("noUpdate") /\ Stop /\ Save(saved, "error")
  /\ UNCHANGED cloud /\ NoFault /\ UNCHANGED Outside

\* A variant: a refusal counts as deleted.
DropObjectRegardless ==
  /\ At("drop")
  /\ IF Protected(d.id) THEN Local(d) ELSE Call(~Exists(d.id) /\ ~Now.lenient, Without(d.id), d)

DropObject ==
  /\ At("drop")
  /\ Call(Protected(d.id) \/ (~Exists(d.id) /\ ~Now.lenient), Without(d.id), d)

\* A variant: an error counts as not found.
ReadObjectOrForget ==
  /\ At("read")
  /\ \/ \E u \in Found(Target, d.attrs) :
          Call(FALSE, cloud, [d EXCEPT !.id = u, !.attrs = ReadAttrs(d.attrs, u)])
     \/ Fault("apiError") /\ ReturnError([d EXCEPT !.id = NoObject]) /\ UNCHANGED <<cloud, kind, config, changes>>

ReadObject ==
  /\ At("read")
  /\ \/ \E u \in Found(Target, d.attrs) : Call(FALSE, cloud, [d EXCEPT !.id = u, !.attrs = ReadAttrs(d.attrs, u)])
     \/ /\ R.read.by # "nothing" /\ Found(Target, d.attrs) = {}
        /\ Call(R.read.gone = "fail", cloud,
                IF R.read.gone = "blank" THEN [d EXCEPT !.attrs = Blank(@)] ELSE [d EXCEPT !.id = NoObject])
     \/ R.read.by = "nothing" /\ Local(d)

RefindObject ==
  /\ At("refind")
  /\ \/ \E u \in Found(d.id, d.attrs) : Call(FALSE, cloud, [d EXCEPT !.id = u])
     \/ Found(d.id, d.attrs) = {} /\ Call(FALSE, cloud, d)

\* The provider dies: nothing of the operation reaches the saved state.
Crash ==
  /\ ~Idle /\ Fault("crash") /\ Stop
  /\ fresh' = FALSE /\ told' = "error"
  /\ UNCHANGED <<kind, cloud, config, saved, changes>>

-----------------------------------------------------------------------------
(* The user, and whoever else uses the cloud account.                      *)

\* The user removes the resource, writes it again, or changes one attribute.
Edit ==
  /\ Idle /\ changes < MaxChanges /\ changes' = changes + 1
  /\ \/ config' = [config EXCEPT !.present = ~@]
     \/ /\ config.present
        /\ \E a \in Attrs, v \in Values :
             /\ v # config.attrs[a] /\ (v = Unset => a \in R.optional)
             /\ config' = [config EXCEPT !.attrs[a] = v]
  /\ told' = "none" /\ fresh' = FALSE
  /\ UNCHANGED <<kind, cloud, saved, op, program, at, failures, d, faults>>

Some(does) == \E i \in DOMAIN R.create : R.create[i].does = does
Permanent == Some("adopt") \/ Some("adoptUnknown")

Unique == UNION {R.create[i].unique : i \in DOMAIN R.create}

\* A change that no Read sees makes no difference to the provider.
Visible == R.read.always \cup R.read.ifSet \cup R.read.ifAny

OutOfBand ==
  /\ Fault(IF Idle /\ ~fresh THEN "outOfBand" ELSE "race") /\ told' = "none"
  /\ \E u \in DOMAIN cloud :
       \/ ~Permanent /\ cloud' = Without(u)
       \/ \E a \in Visible \ Unique, v \in Set :
            v # cloud[u].attrs[a] /\ cloud' = [cloud EXCEPT ![u].attrs[a] = v]
  /\ UNCHANGED <<kind, config, saved, fresh, op, program, at, failures, d, changes>>

\* Somebody else's object matters to those that look for names.
LooksUpNames ==
  "name" \in Attrs /\
  (R.read.by \in {"name", "id or name"} \/ Some("findByName") \/ Some("findNamed") \/ Unique # {} \/ \E i \in DOMAIN R.create : R.create[i].rescued)

CreateForeign ==
  /\ LooksUpNames /\ Unused # {} /\ Fault("foreign") /\ told' = "none"
  /\ \E v \in Set :
       /\ Unique = {} \/ SameName(v) = {}
       /\ cloud' = With(NewUuid, [own |-> FALSE, on |-> TRUE, attrs |-> [a \in Attrs |-> v]])
  /\ UNCHANGED <<kind, config, saved, fresh, op, program, at, failures, d, changes>>

-----------------------------------------------------------------------------
\* The user has written every attribute, and applied nothing yet.
Init ==
  /\ kind \in DOMAIN Catalogue
  /\ cloud = [u \in {} |-> u]
  /\ config = [present |-> TRUE, attrs |-> [a \in R.attrs |-> 1]]
  /\ saved = Gone /\ fresh = FALSE /\ op = "idle" /\ program = <<>> /\ at = 1 /\ failures = 0 /\ d = NoData
  /\ told = "none" /\ faults = [number |-> 0, kinds |-> {}] /\ changes = 0

Terraform == Refresh \/ Create \/ Update \/ Delete

Provider ==
  \/ MakeObject \/ MakeObjectWithout \/ MakeUnknownObject \/ KnowObject \/ FindObject \/ AdoptObject
  \/ WriteObject \/ WriteNothing \/ RenameObject \/ ClearObject \/ ClearObjectIfPossible
  \/ DisableObject \/ TurnObjectOff \/ TurnObjectOn
  \/ CheckObject \/ Refusal \/ DropObject \/ ReadObject
  \/ FindNamedObject \/ RefindObject \/ PassOver
  \/ Return

Environment == Edit \/ OutOfBand \/ CreateForeign \/ Crash

Next == Terraform \/ Provider \/ Environment

\* The user runs terraform apply as long as there is something to apply.
Fairness == WF_vars(Terraform) /\ WF_vars(Provider)

Spec == Init /\ [][Next]_vars /\ Fairness

-----------------------------------------------------------------------------
(* Properties                                                              *)

ById == ByIdentity(R)
StepsOf(steps) == {steps[i] : i \in DOMAIN steps}

DataOK(data) == data.attrs \in [R.attrs -> Values] /\ data.id \in Uuid \cup {NoObject}

\* What the variables range over; the handlers only ever write attributes of the
\* schema, and the state names at most one object.
TypeOK ==
  /\ kind \in DOMAIN Catalogue
  /\ DOMAIN cloud \subseteq Uuid
  /\ \A u \in DOMAIN cloud : cloud[u] \in [own : BOOLEAN, on : BOOLEAN, attrs : [R.attrs -> Values]]
  /\ config \in [present : BOOLEAN, attrs : [R.attrs -> Values]]
  /\ DataOK(saved) /\ saved.tainted \in BOOLEAN /\ DataOK(d) /\ d.made \in Uuid \cup {NoObject}
  /\ fresh \in BOOLEAN /\ op \in {"idle", "create", "update", "destroy"}
  /\ told \in {"none", "ok", "error", "read"}
  /\ faults \in [number : 0..MaxFaults + 1, kinds : SUBSET FaultKinds] /\ changes \in 0..MaxChanges

\* The provider never loses an object it created: as long as every answer arrives,
\* the state, or the handler that runs, knows the only object there is.  Not
\* promised where Create sets the id late, nor where Read goes by the name.
Blinded == faults.kinds \cap {"lostReply", "crash"} # {}
Tracked == ById /\ kind \notin LateId /\ ~Blinded => Own \subseteq {saved.id, d.id}

\* When Create or Update reports success, the object is as configured: in what
\* Read always refreshes whatever went wrong before, in what it does not as long as
\* nothing did, and was not left out for want of a lookup.  Where an error is dropped or
\* the name decides, it takes a run without faults; nothing is promised where a handler
\* gives the object a name that is not configured.
Unreliable ==
  {"configuration", "cni_configuration", "snapshot_policy_unnamed", "project", "project_in_domain",
   "network_service_provider"}
Sends(steps) == UNION {s.sets : s \in StepsOf(steps)}
Keeps(steps) == UNION {s.keeps : s \in StepsOf(steps)}
Guessed(r) == UNION {s.guesses : s \in StepsOf(r.create) \cup StepsOf(r.update)}

\* The attributes that both halves of the resource send: Create to a new object, and
\* Update, unless their change replaces the object.
Created(r) == UNION {s.sets : s \in {t \in StepsOf(r.create) : t.when # "known"}}
Handled ==
  (R.renew \cup {a \in Sends(R.update) : a \in Keeps(R.update) => config.attrs[a] # Unset}) \cap Created(R)

Misnames == \E steps \in {R.create, R.update, R.delete} : Has(steps, {"rename"})

Trusted ==
  IF Misnames THEN {}
  ELSE IF faults.number = 0 THEN Handled
  ELSE IF ~ById \/ kind \in Unreliable \/ "race" \in faults.kinds THEN {}
  ELSE (R.read.always \cap Handled) \ Guessed(R)

OkMeansApplied ==
  told = "ok" => \A a \in Trusted : Exists(saved.id) /\ cloud[saved.id].attrs[a] = config.attrs[a]

\* An instance that had to be stopped for a change is started again, unless a call
\* failed in between.
OffOnlyAfterFault == Idle /\ faults.number = 0 => \A u \in Own : cloud[u].on

\* An object of the provider's is forgotten only when it does not exist any more.
ForgetsOnlyGone ==
  [][ById /\ saved.id # NoObject /\ saved'.id # saved.id => saved.id \notin Own']_vars

\* The plan is empty.
Settled ==
  /\ Idle
  /\ IF config.present THEN saved.id # NoObject /\ ~saved.tainted /\ Changed = {} ELSE saved.id = NoObject

\* Read fails, or finds nothing wrong, when the object is gone.
Strict ==
  {"loadbalancer", "zone", "pod", "cluster", "physical_network", "storage_pool", "secondary_storage",
   "vlan_ip_range", "domain", "account", "user", "attach_volume", "service_offering_fixed",
   "service_offering_constrained", "service_offering_unconstrained"}
Stubborn ==
  [instance |-> {"userdata_id"}, ipaddress |-> {"tags"},
   autoscale_vm_profile |-> {"display", "user_data"}, autoscale_policy |-> {"name"},
   autoscale_vm_group |-> {"name"}, pod |-> {"zone_id", "allocation_state"},
   cluster |-> {"zone_id"}, physical_network |-> {"vlan"}, vlan_ip_range |-> {"end_ip"},
   template |-> {"is_public"}, vpn_customer_gateway |-> {"dpd", "esp_lifetime"},
   host |-> {"allocation_state"}, service_offering |-> {"display_text"}, kubernetes_cluster |-> {"description"}, configuration |-> {"value"},
   network_offering |-> {"guest_ip_type"}, network_service_provider |-> {"service_list"},
   service_offering_fixed |-> {"host_tags", "network_rate"},
   service_offering_constrained |-> {"host_tags", "network_rate"},
   service_offering_unconstrained |-> {"host_tags", "network_rate"}]

Hopeless ==
  \/ kind \in Strict /\ saved.id # NoObject /\ ~Exists(saved.id)
  \/ Protected(saved.id)
  \/ R.read.by = "name" /\ faults.number > 0
  \/ Misnames /\ SameName(saved.attrs["name"]) \ {saved.id} # {}
  \/ \E s \in StepsOf(R.create) :
       s.unique # {} /\ s.when = "always" /\ Rivals(s, config.attrs) \ {saved.id} # {}
  \/ \E s \in StepsOf(R.create) : s.does = "refuse" /\ \A a \in s.on : config.attrs[a] \in s.to
  \/ \E s \in StepsOf(R.delete) : s.does = "refuse" /\ \A a \in s.on : saved.attrs[a] \in s.to
  \/ kind \in DOMAIN Stubborn /\ Stubborn[kind] \cap Changed # {}

Settles == <>[](Settled \/ Hopeless)
=============================================================================
