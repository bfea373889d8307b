------------------------------- MODULE FanOut -------------------------------
(***************************************************************************)
(* One fan-out of the worker pool on its own.  Some goroutines may be      *)
(* careless and return without giving their slot back, as those of         *)
(* createSecurityGroupRules do for a rule that fails its verification; the *)
(* other five rule collections have none.                                  *)
(***************************************************************************)
EXTENDS WorkerPool

CONSTANTS Jobs,         \* the rules one fan-out handles
          Careless      \* those whose goroutine returns without `<-sem'

\* `parallelism' is a schema.TypeInt with no validation: 0 is accepted, and so
\* it is not excluded here.
ASSUME PoolAssumption ==
  /\ IsFiniteSet(Jobs)
  /\ Careless \subseteq Jobs
  /\ Parallelism \in Nat

-----------------------------------------------------------------------------
FanOutInit == stage = Spawn(Jobs)

Step(j) ==
  \/ Acquire(j)
  \/ j \notin Careless /\ (StartCollecting(j) \/ NothingToCollect(j))
  \/ j \in Careless /\ Leak(j)
  \/ Collected(j)

FanOutNext == \E j \in Jobs : Step(j)

\* Every goroutine that can run does: the Go scheduler is fair and an API
\* call returns or times out.
FanOutFairness == \A j \in Jobs : WF_stage(Step(j))

FanOutSpec == FanOutInit /\ [][FanOutNext]_stage /\ FanOutFairness

-----------------------------------------------------------------------------
TypeOK == stage \in [Jobs -> Stages]

\* At most Parallelism goroutines hold a slot, hence at most that many API
\* calls of one fan-out are in flight (what `parallelism' promises).
SlotsBounded == Cardinality(Holders) <= Parallelism

\* While some goroutine has not returned, one of them can move: the handler is
\* never stuck in wg.Wait, provided fewer goroutines leak their slot than there
\* are slots.
CanMove(j) ==
  \/ stage[j] \in {"working", "collecting"}
  \/ stage[j] = "spawned" /\ Cardinality(Holders) < Parallelism

NeverStuck == Returned \/ \E j \in Jobs : CanMove(j)
=============================================================================
