------------------------------ MODULE Reconciler ------------------------------
(***************************************************************************)
(* What every resource that keeps a collection of objects promises its     *)
(* user, whatever goroutines, calls and retries that takes: it creates     *)
(* what is wanted and not there, removes what is not wanted, and at any    *)
(* moment it knows everything it has made.                                 *)
(***************************************************************************)
EXTENDS Naturals

VARIABLES want,       \* the contents the user configures
          objects,    \* what the resource has made and still exists: [uuid, content]
          known,      \* the uuids in the state, or in the hands of the running handler
          replacing,  \* a failed creation is to be undone, and tried again
          mishaps     \* how often the environment interfered

vars == <<want, objects, known, replacing, mishaps>>

Ids(os) == {o.uuid : o \in os}
Contents(os) == {o.content : o \in os}

-----------------------------------------------------------------------------
\* The user changes the configuration.
Edit == UNCHANGED <<objects, known, replacing, mishaps>>

\* What is created is wanted, is not there yet, and is known at once.
Add ==
  /\ \E o \in objects' \ objects :
       /\ o.content \in want \ Contents(objects) /\ o.uuid \notin known
       /\ objects' = objects \cup {o} /\ known' = known \cup {o.uuid}
  /\ UNCHANGED <<want, replacing, mishaps>>

\* What is removed is not wanted, unless all is to be made anew.
Remove ==
  /\ \E o \in objects :
       /\ replacing \/ o.content \notin want
       /\ objects' = objects \ {o} /\ known' \in {known, known \ {o.uuid}}
  /\ UNCHANGED <<want, replacing, mishaps>>

\* The handler keeps its books: only what does not exist is struck off.
Book == Ids(objects) \subseteq known' /\ UNCHANGED <<want, objects, mishaps>>

\* A call fails, or others remove something; and what exists is known all the same.
Mishap ==
  /\ mishaps' = mishaps + 1
  /\ objects' \subseteq objects /\ Ids(objects') \subseteq known'
  /\ UNCHANGED want

Init == want = {} /\ objects = {} /\ known = {} /\ replacing = FALSE /\ mishaps = 0

Next == Edit \/ Add \/ Remove \/ Book \/ Mishap

Spec == Init /\ [][Next]_vars
=============================================================================
