----------------------------- MODULE WorkerPool -----------------------------
(***************************************************************************)
(* The goroutine fan-out that every rule collection of the provider uses   *)
(* to create and delete its rules: one goroutine per rule, a buffered      *)
(* channel `sem' as a counting semaphore, and a sync.WaitGroup the handler *)
(* waits on.                                                               *)
(*                                                                         *)
(*   wg.Add(n); for each rule: go func() {                                 *)
(*     defer wg.Done(); sem <- struct{}{}; call; collect; <-sem }          *)
(*   wg.Wait()                                                             *)
(*                                                                         *)
(* The handler staggers the launches by 500 ms; a goroutine launched late  *)
(* is one that is slow to reach `sem <-', so all are spawned at once.      *)
(*                                                                         *)
(* The stages of a goroutine:                                              *)
(*   spawned     before `sem <- struct{}{}'                                *)
(*   working     it holds a slot and its API calls are under way           *)
(*   collecting  it is inside rules.Add(rule), on the set the goroutines   *)
(*               share                                                     *)
(*   done        it gave its slot back and called wg.Done                  *)
(*   leaked      it called wg.Done and kept its slot (a `return' between   *)
(*               `sem <-' and `<-sem')                                     *)
(***************************************************************************)
EXTENDS Naturals, FiniteSets

CONSTANT Parallelism     \* the capacity of the channel `sem'

VARIABLE stage           \* [the rules of one fan-out -> Stages]

Stages == {"spawned", "working", "collecting", "done", "leaked"}

\* The goroutines whose slot of `sem' is taken.
Holders == {j \in DOMAIN stage : stage[j] \in {"working", "collecting", "leaked"}}

Spawn(jobs) == [j \in jobs |-> "spawned"]

\* wg.Wait() returns: every goroutine has called wg.Done.
Returned == \A j \in DOMAIN stage : stage[j] \in {"done", "leaked"}

\* rules.Add of j overlaps that of another goroutine.
Overlapped(j) == \E k \in DOMAIN stage \ {j} : stage[k] = "collecting"

-----------------------------------------------------------------------------
Goto(j, from, to) ==
  /\ stage[j] = from
  /\ stage' = [stage EXCEPT ![j] = to]

\* Acquisitions that are off by one.
AcquireOneMore(j) == Cardinality(Holders) <= Parallelism /\ Goto(j, "spawned", "working")
AcquireOneLess(j) == Cardinality(Holders) + 1 < Parallelism /\ Goto(j, "spawned", "working")

Acquire(j) == Cardinality(Holders) < Parallelism /\ Goto(j, "spawned", "working")
StartCollecting(j) == Goto(j, "working", "collecting")
Collected(j) == Goto(j, "collecting", "done")
Leak(j) == Goto(j, "working", "leaked")
NothingToCollect(j) == Goto(j, "working", "done")

=============================================================================
