----------------- MODULE FanOutLimitsAutoscaleRole_proofs -----------------
(***************************************************************************)
(* The proofs of four components that share nothing but what Terraform     *)
(* declares.  FanOut: the semaphore of a fan-out does its work for any     *)
(* number of rules and any `parallelism'.  Limits: whose limits            *)
(* cloudstack_limits touches, for every set of scopes, every maximum, and  *)
(* any number of faults and edits.  Autoscale: when the members of an      *)
(* autoscaled rule change, for any configurations and number of machines,  *)
(* attempts, faults, edits and scalings.  RolePermission: what the         *)
(* resources of a role do to its permissions, for any number of resources, *)
(* rules and permissions, any lists of blocks, any faults and edits, and   *)
(* that they make each other no errors.                                    *)
(***************************************************************************)
EXTENDS FanOut, Limits, Autoscale, RolePermission, FiniteSetTheorems,
        NaturalsInduction, WellFoundedInduction, SequenceTheorems, TLAPS

-----------------------------------------------------------------------------
(* FanOut.                                                                 *)

\* The goroutines that gave up their slot for good are careless ones.
LeaksAreCareless == \A j \in Jobs : stage[j] = "leaked" => j \in Careless

FanOutIInv == TypeOK /\ SlotsBounded /\ LeaksAreCareless

LEMMA HoldersFinite == TypeOK => IsFiniteSet(Holders) /\ Cardinality(Holders) \in Nat
<1> SUFFICES ASSUME TypeOK PROVE IsFiniteSet(Holders) /\ Cardinality(Holders) \in Nat
  OBVIOUS
<1>1. Holders \subseteq Jobs
  BY DEF TypeOK, Holders
<1>2. IsFiniteSet(Holders)
  BY <1>1, PoolAssumption, FS_Subset DEF PoolAssumption
<1> QED
  BY <1>2, FS_CardinalityType

LEMMA InitFanOut == FanOutInit => FanOutIInv
<1> SUFFICES ASSUME FanOutInit PROVE FanOutIInv
  OBVIOUS
<1>1. TypeOK /\ LeaksAreCareless
  BY DEF FanOutInit, Spawn, TypeOK, Stages, LeaksAreCareless
<1>2. Holders = {}
  BY DEF FanOutInit, Spawn, Holders
<1>3. SlotsBounded
  BY <1>2, FS_EmptySet, PoolAssumption DEF SlotsBounded, PoolAssumption
<1> QED
  BY <1>1, <1>3 DEF FanOutIInv

\* A step of one goroutine takes a slot only when one is free.
LEMMA StepFanOut == ASSUME FanOutIInv, NEW j \in Jobs, Step(j) PROVE FanOutIInv'
<1> USE DEF FanOutIInv
<1>1. TypeOK' /\ LeaksAreCareless'
  BY DEF Step, Acquire, StartCollecting, NothingToCollect, Leak, Collected, Goto,
         TypeOK, Stages, LeaksAreCareless
<1>2. IsFiniteSet(Holders) /\ Cardinality(Holders) \in Nat
  BY HoldersFinite
<1>3. CASE Acquire(j)
  <2>1. Holders' = Holders \cup {j} /\ j \notin Holders
    BY <1>3 DEF Acquire, Goto, TypeOK, Holders
  <2>2. Cardinality(Holders') = Cardinality(Holders) + 1
    BY <2>1, <1>2, FS_AddElement
  <2> QED
    BY <2>2, <1>1, <1>2, <1>3, PoolAssumption DEF Acquire, SlotsBounded, PoolAssumption
<1>4. CASE StartCollecting(j) \/ NothingToCollect(j) \/ Leak(j) \/ Collected(j)
  <2>1. Holders' \subseteq Holders
    BY <1>4 DEF StartCollecting, NothingToCollect, Leak, Collected, Goto, TypeOK, Holders
  <2>2. Cardinality(Holders') <= Cardinality(Holders) /\ Cardinality(Holders') \in Nat
    BY <2>1, <1>2, FS_Subset, FS_CardinalityType
  <2> QED
    BY <2>2, <1>1, <1>2, PoolAssumption DEF SlotsBounded, PoolAssumption
<1> QED
  BY <1>3, <1>4 DEF Step

LEMMA NextFanOut == FanOutIInv /\ [FanOutNext]_stage => FanOutIInv'
<1> SUFFICES ASSUME FanOutIInv, [FanOutNext]_stage PROVE FanOutIInv'
  OBVIOUS
<1>1. CASE UNCHANGED stage
  BY <1>1 DEF FanOutIInv, TypeOK, SlotsBounded, LeaksAreCareless, Holders
<1>2. CASE FanOutNext
  BY <1>2, StepFanOut DEF FanOutNext
<1> QED
  BY <1>1, <1>2

\* Type correctness of a fan-out.
THEOREM TypeCorrect == FanOutSpec => []TypeOK
<1>1. FanOutIInv => TypeOK
  BY DEF FanOutIInv
<1> QED
  BY <1>1, InitFanOut, NextFanOut, PTL DEF FanOutSpec

\* At most `parallelism' goroutines of createFirewallRules and its like are
\* past `sem <-' at once, whatever the number of rules.
THEOREM Semaphore == FanOutSpec => []SlotsBounded
<1>1. FanOutIInv => SlotsBounded
  BY DEF FanOutIInv
<1> QED
  BY <1>1, InitFanOut, NextFanOut, PTL DEF FanOutSpec

\* wg.Wait never blocks for good while fewer goroutines return without `<-sem'
\* than the channel has slots; with none, `parallelism' >= 1 is enough.
THEOREM DeadlockFree ==
  ASSUME Cardinality(Careless) < Parallelism
  PROVE  FanOutSpec => []NeverStuck
<1>1. ASSUME FanOutIInv PROVE NeverStuck
  <2> SUFFICES ASSUME ~Returned, \A j \in Jobs : stage[j] \notin {"working", "collecting"}
               PROVE  \E j \in Jobs : CanMove(j)
    BY DEF NeverStuck, CanMove
  <2>1. PICK j \in Jobs : stage[j] = "spawned"
    BY <1>1 DEF Returned, FanOutIInv, TypeOK, Stages
  <2>2. Holders \subseteq Careless
    BY <1>1 DEF Holders, FanOutIInv, TypeOK, LeaksAreCareless
  <2>3. IsFiniteSet(Careless)
    BY PoolAssumption, FS_Subset DEF PoolAssumption
  <2>4. Cardinality(Holders) <= Cardinality(Careless)
    BY <2>2, <2>3, FS_Subset
  <2>5. Cardinality(Holders) \in Nat /\ Cardinality(Careless) \in Nat
    BY <1>1, <2>3, HoldersFinite, FS_CardinalityType DEF FanOutIInv
  <2>6. Cardinality(Holders) < Parallelism
    BY <2>4, <2>5, PoolAssumption DEF PoolAssumption
  <2> QED
    BY <2>1, <2>6 DEF CanMove
<1> QED
  BY <1>1, InitFanOut, NextFanOut, PTL DEF FanOutSpec

-----------------------------------------------------------------------------
(* Limits.                                                                 *)

Whole == Values \cup {Removed}
LimitStates == [exists : BOOLEAN, tainted : BOOLEAN, scope : Scopes, max : Whole, configured : Whole]

\* The variables have the shape the handlers expect, and a step is only ever taken by a
\* handler that runs.
LimitsTypeOK ==
  /\ limit \in [Scopes -> Whole] /\ zeroReads \in {0, Unlimited}
  /\ config \in [present : BOOLEAN, scope : Scopes, max : Whole]
  /\ saved \in LimitStates
  /\ h \in [op : {"none", "create", "update", "destroy"}, step : {"none", "call", "read"}, d : LimitStates]
  /\ h.op = "none" <=> h.step = "none"
  /\ imported \in BOOLEAN

\* A scope the provider may touch.
Known(s) == s \in named \/ (imported /\ s = Own)

\* Where a scope that the user never named could come from: the configuration, the
\* state, and what a running handler took from them.
LimitsIInv ==
  /\ LimitsTypeOK
  /\ config.present => config.scope \in named
  /\ saved.exists => Known(saved.scope)
  /\ ~NothingRuns => Known(h.d.scope)

-----------------------------------------------------------------------------
\* Read keeps the scope of what it finds, and forgets what it does not find.
LEMMA ReadKeepsScope ==
  ASSUME limit \in [Scopes -> Whole], zeroReads \in {0, Unlimited}, NEW d \in LimitStates
  PROVE  Read(d) \in LimitStates /\ (Read(d).exists => d.exists /\ Read(d).scope = d.scope)
  BY LimitsAssumption DEF Read, NoLimit, LimitStates, Reported, Whole, Values, LimitsAssumption

LEMMA NothingKnown == NoLimit \in LimitStates /\ NoLimitHandler.d = NoLimit /\ NoLimitHandler.op = "none" /\ NoLimitHandler.step = "none"
  BY LimitsAssumption DEF NoLimit, NoLimitHandler, LimitStates, Whole, Values, LimitsAssumption

LEMMA InitLimits == LimitsInit => LimitsIInv
<1> SUFFICES ASSUME LimitsInit PROVE LimitsIInv
  OBVIOUS
<1> USE LimitsAssumption, EnvironmentAssumption, NothingKnown DEF LimitsInit, LimitsAssumption, EnvironmentAssumption
<1>1. limit \in [Scopes -> Whole] /\ zeroReads \in {0, Unlimited} /\ imported \in BOOLEAN
  BY DEF Whole, Values
<1>2. config \in [present : BOOLEAN, scope : Scopes, max : Whole] /\ ~config.present
  BY DEF Whole, Values
<1>3. h \in [op : {"none", "create", "update", "destroy"}, step : {"none", "call", "read"}, d : LimitStates]
  BY DEF NoLimitHandler
<1>4. h.op = "none" /\ h.step = "none" /\ saved \in LimitStates /\ ~saved.exists
  BY DEF NoLimit
<1> QED
  BY <1>1, <1>2, <1>3, <1>4 DEF LimitsIInv, LimitsTypeOK, NothingRuns

-----------------------------------------------------------------------------
\* A handler ends: what it leaves in the state has to be known.
LEMMA ReturnLimitFacts ==
  ASSUME LimitsTypeOK, NEW d \in LimitStates, ReturnLimit(d)
  PROVE  /\ h' \in [op : {"none", "create", "update", "destroy"}, step : {"none", "call", "read"}, d : LimitStates]
         /\ h'.op = "none" /\ h'.step = "none" /\ saved' = d
  BY NothingKnown DEF ReturnLimit, NoLimitHandler

\* A handler begins, with the state or with what is planned.
LEMMA StartFacts ==
  ASSUME LimitsIInv, NEW op \in {"create", "update", "destroy"}, NEW d \in LimitStates, Start(op, d), Known(d.scope)
  PROVE  LimitsIInv'
<1>1. h' \in [op : {"none", "create", "update", "destroy"}, step : {"none", "call", "read"}, d : LimitStates]
      /\ h'.op # "none" /\ h'.step # "none" /\ h'.d = d
  BY DEF Start
<1>2. UNCHANGED <<limit, zeroReads, config, saved, imported, named>>
  BY DEF Start, User
<1> QED
  BY <1>1, <1>2 DEF LimitsIInv, LimitsTypeOK, NothingRuns, Known

LEMMA PlannedLimitFacts ==
  ASSUME LimitsTypeOK
  PROVE  /\ PlannedLimit \in LimitStates /\ PlannedLimit.scope = config.scope
         /\ [PlannedLimit EXCEPT !.configured = 0] \in LimitStates /\ [PlannedLimit EXCEPT !.configured = 0].scope = config.scope
  BY DEF LimitsTypeOK, PlannedLimit, LimitStates, Whole, Values

LEMMA AskedFacts == ASSUME LimitsTypeOK PROVE Asked \in LimitStates /\ Asked.scope = h.d.scope
  BY DEF LimitsTypeOK, Asked, Remembered, LimitStates

LEMMA StepLimits == LimitsIInv /\ [LimitsNext]_limitsVars => LimitsIInv'
<1> SUFFICES ASSUME LimitsIInv, [LimitsNext]_limitsVars PROVE LimitsIInv'
  OBVIOUS
<1> USE LimitsAssumption, EnvironmentAssumption DEF LimitsAssumption, EnvironmentAssumption
<1>0. LimitsTypeOK /\ (config.present => Known(config.scope))
  BY DEF LimitsIInv, Known
<1>1. CASE RefreshLimit
  <2>1. saved' \in LimitStates /\ (saved'.exists => Known(saved'.scope))
    BY <1>0, <1>1, ReadKeepsScope DEF RefreshLimit, LimitsIInv, LimitsTypeOK
  <2> QED
    BY <2>1, <1>1 DEF RefreshLimit, User, LimitsIInv, LimitsTypeOK, NothingRuns, Known
<1>2. CASE Import
  <2> DEFINE d == [NoLimit EXCEPT !.exists = TRUE]
  <2>1. d \in LimitStates /\ d.scope = Own
    BY DEF NoLimit, LimitStates, Whole, Values
  <2> HIDE DEF d
  <2>2. saved' \in LimitStates /\ (saved'.exists => saved'.scope = Own)
    BY <1>0, <1>2, <2>1, ReadKeepsScope DEF Import, LimitsTypeOK, d
  <2> QED
    BY <2>2, <1>2 DEF Import, LimitsIInv, LimitsTypeOK, NothingRuns, Known
<1>3. CASE ApplyLimit
  <2>1. CASE CreateLimit
    BY <2>1, <1>0, PlannedLimitFacts, StartFacts DEF CreateLimit
  <2>2. CASE UpdateLimit
    BY <2>2, <1>0, PlannedLimitFacts, StartFacts DEF UpdateLimit
  <2>3. CASE DeleteLimit
    BY <2>3, <1>0, StartFacts DEF DeleteLimit, LimitsIInv, LimitsTypeOK
  <2> QED
    BY <1>3, <2>1, <2>2, <2>3 DEF ApplyLimit
<1>4. CASE CallLimit
  <2>1. h.op # "none" /\ Known(h.d.scope) /\ Asked \in LimitStates /\ Asked.scope = h.d.scope
    BY <1>0, <1>4, AskedFacts DEF CallLimit, LimitsIInv, LimitsTypeOK, NothingRuns
  <2>2. limit' \in [Scopes -> Whole] /\ UNCHANGED <<zeroReads, config, imported, named>>
    BY <1>0, <1>4 DEF CallLimit, User, LimitsTypeOK, Sent, CreateMax, UpdateMax, LimitStates, Whole, Values
  <2>3. CASE h' = [h EXCEPT !.step = "read", !.d = Asked] /\ UNCHANGED saved
    BY <2>1, <2>2, <2>3, <1>0 DEF LimitsIInv, LimitsTypeOK, NothingRuns, Known
  <2>4. ASSUME NEW d \in LimitStates, ReturnLimit(d), d.exists => Known(d.scope) PROVE LimitsIInv'
    BY <2>2, <2>4, <1>0, ReturnLimitFacts DEF LimitsIInv, LimitsTypeOK, NothingRuns, Known
  <2>5. CASE ReturnLimit(NoLimit)
    BY <2>4, <2>5, NothingKnown DEF NoLimit
  <2>6. CASE FailLimit(Asked)
    <3>1. CASE h.op = "create"
      BY <2>4, <2>6, <3>1, NothingKnown DEF FailLimit, NoLimit
    <3>2. CASE h.op = "update"
      BY <2>1, <2>4, <2>6, <3>2 DEF FailLimit
    <3>3. CASE h.op = "destroy"
      BY <2>4, <2>6, <3>3, <1>0 DEF FailLimit, LimitsIInv, LimitsTypeOK
    <3> QED
      BY <2>1, <3>1, <3>2, <3>3, <1>0 DEF LimitsTypeOK
  <2> QED
    BY <1>4, <2>3, <2>5, <2>6 DEF CallLimit
<1>5. CASE ReadBack
  <2>1. Known(h.d.scope) /\ h.d \in LimitStates
    BY <1>0, <1>5 DEF ReadBack, LimitsIInv, LimitsTypeOK, NothingRuns
  <2>2. PICK d \in LimitStates : ReturnLimit(d) /\ (d.exists => Known(d.scope))
    <3>1. ASSUME NEW e \in LimitStates, NEW t \in BOOLEAN
          PROVE  /\ [e EXCEPT !.tainted = t] \in LimitStates /\ [e EXCEPT !.tainted = t].exists = e.exists
                 /\ [e EXCEPT !.tainted = t].scope = e.scope
      BY DEF LimitStates
    <3>2. CASE ReturnLimit([Read(h.d) EXCEPT !.tainted = FALSE])
      <4>1. Read(h.d) \in LimitStates /\ (Read(h.d).exists => Known(Read(h.d).scope))
        BY <2>1, <1>0, ReadKeepsScope DEF LimitsTypeOK
      <4>2. LET d == [Read(h.d) EXCEPT !.tainted = FALSE] IN d \in LimitStates /\ (d.exists => Known(d.scope))
        BY <3>1, <4>1
      <4> QED
        BY <3>2, <4>2
    <3>3. CASE ReturnLimit([h.d EXCEPT !.tainted = (h.op = "create")])
      <4>1. LET d == [h.d EXCEPT !.tainted = (h.op = "create")] IN d \in LimitStates /\ Known(d.scope)
        BY <2>1, <3>1
      <4> QED
        BY <3>3, <4>1
    <3> QED
      BY <1>5, <3>2, <3>3 DEF ReadBack
  <2> QED
    BY <1>0, <1>5, <2>2, ReturnLimitFacts DEF ReadBack, User, LimitsIInv, LimitsTypeOK, NothingRuns, Known
<1>6. CASE CrashLimits
  BY <1>0, <1>6, ReturnLimitFacts DEF CrashLimits, User, LimitsIInv, LimitsTypeOK, NothingRuns, Known
<1>7. CASE EditLimit
  BY <1>7 DEF EditLimit, LimitsIInv, LimitsTypeOK, NothingRuns, Known, Whole
<1>8. CASE SetByOther
  <2>1. limit' \in [Scopes -> Whole]
    BY <1>0, <1>8 DEF SetByOther, LimitsTypeOK, Whole
  <2> QED
    BY <1>8, <2>1 DEF SetByOther, User, LimitsIInv, LimitsTypeOK, NothingRuns, Known
<1>9. CASE UNCHANGED limitsVars
  BY <1>9 DEF limitsVars, LimitsIInv, LimitsTypeOK, NothingRuns, Known
<1> QED
  BY <1>1, <1>2, <1>3, <1>4, <1>5, <1>6, <1>7, <1>8, <1>9 DEF LimitsNext, Handle

-----------------------------------------------------------------------------
\* Whatever the configurations, faults and edits are, the variables keep their shape,
\* and the state never lists a scope that the provider has no business with.
THEOREM KnownScopes == LimitsSpec => []LimitsIInv
<1>1. LimitsInit => LimitsIInv
  BY InitLimits
<1>2. LimitsIInv /\ [LimitsNext]_limitsVars => LimitsIInv'
  BY StepLimits
<1> QED
  BY <1>1, <1>2, PTL DEF LimitsSpec

\* No call changes a limit of a scope the user never configured, but for the caller's
\* own once something was imported: a call names the scope the handler has, and the
\* invariant knows where that came from.
THEOREM OthersLimitsStay == LimitsSpec => OnlyNamed
<1>1. LimitsIInv /\ [LimitsNext]_limitsVars
      => [h.step = "call" /\ h' # h
          => \A s \in Scopes : limit'[s] # limit[s] => s \in named \/ (imported /\ s = Own)]_limitsVars
  <2> SUFFICES ASSUME LimitsIInv, LimitsNext, h.step = "call", h' # h, NEW s \in Scopes, limit'[s] # limit[s]
               PROVE  Known(s)
    BY DEF limitsVars, Known
  <2>1. ~NothingRuns /\ Known(h.d.scope) /\ limit \in [Scopes -> Whole]
    BY DEF LimitsIInv, LimitsTypeOK, NothingRuns
  <2>2. CallLimit
    BY <2>1 DEF LimitsNext, RefreshLimit, Import, ApplyLimit, CreateLimit, UpdateLimit, DeleteLimit, Start, Handle, ReadBack, CrashLimits, EditLimit, SetByOther
  <2>3. limit' = [limit EXCEPT ![h.d.scope] = Sent]
    BY <2>2 DEF CallLimit, Target
  <2> QED
    BY <2>1, <2>3
<1> QED
  BY <1>1, KnownScopes, PTL DEF LimitsSpec, OnlyNamed

-----------------------------------------------------------------------------
(* Autoscale.                                                              *)

Steps == {"none", "list", "compare", "poll", "remove", "add", "read", "write",
          "wait", "disable", "params", "enable"}

\* The fields of CloudStack's side, and the shape of the handlers.
AutoscaleTypeOK ==
  /\ DOMAIN real = {"members", "profile", "params", "on"}
  /\ h \in [Parts -> [step : Steps, tries : Nat]]

\* The wait of the rule's handler lasts: once it is over the group is disabled, or its
\* handler does not wait for the rule's, or somebody else interferes.
Waited ==
  h["rule"].step \in {"remove", "add"}
    => \/ ~real.on
       \/ ~plan.refers /\ plan.on
       \/ "outOfBand" \in faults.kinds

\* A group that refers to the others begins when they are done, and none of them begins
\* before the next run.
GroupLast ==
  ~Rests("group") /\ ~At("group", "wait") /\ plan.refers => Rests("rule") /\ Rests("profile")

\* The group is enabled only if that is the plan.
EnabledAsPlanned == At("group", "enable") => plan.on

IInv == AutoscaleTypeOK /\ Waited /\ GroupLast /\ EnabledAsPlanned

-----------------------------------------------------------------------------
LEMMA AtRestFacts == AtRest \in [step : Steps, tries : Nat] /\ AtRest.step = "none"
  BY AutoscaleAssumption DEF AtRest, Steps, AutoscaleAssumption

\* How a handler moves: to another step, to another look, or to its end.  Nothing it does
\* changes what the others do.
Moves(r, next) ==
  /\ h' \in [Parts -> [step : Steps, tries : Nat]]
  /\ \A q \in Parts \ {r} : h'[q] = h[q]
  /\ h'[r].step \in {"none", next}

LEMMA GoOnFacts ==
  ASSUME AutoscaleTypeOK, NEW r \in Parts, NEW step \in Steps, GoOn(r, step)
  PROVE  Moves(r, step) /\ h'[r].step = step
  BY DEF AutoscaleTypeOK, GoOn, Moves

LEMMA ReturnFacts ==
  ASSUME AutoscaleTypeOK, NEW r \in Parts, NEW d, NEW result, NEW next, Return(r, d, result)
  PROVE  Moves(r, next) /\ h'[r].step = "none"
  BY AtRestFacts DEF AutoscaleTypeOK, Return, Moves

LEMMA LookAgainFacts ==
  ASSUME AutoscaleTypeOK, NEW r \in Parts, LookAgain(r)
  PROVE  Moves(r, h[r].step)
<1>1. CASE h[r].tries > 1
  BY <1>1 DEF AutoscaleTypeOK, LookAgain, Moves
<1>2. CASE ~(h[r].tries > 1)
  BY <1>2, ReturnFacts DEF LookAgain, Fail
<1> QED
  BY <1>1, <1>2

\* When the provider dies no handler is left.
LEMMA DieFacts ==
  ASSUME Die PROVE h' \in [Parts -> [step : Steps, tries : Nat]] /\ \A r \in Parts : h'[r].step = "none"
  BY AtRestFacts DEF Die

\* A fault is remembered.
LEMMA FaultKindFacts ==
  ASSUME NEW k, Fault(k) PROVE faults'.kinds = faults.kinds \cup {k}
  BY DEF Fault

LEMMA InitInvariant == AutoscaleInit => IInv
  BY AtRestFacts DEF AutoscaleInit, IInv, AutoscaleTypeOK, Waited, GroupLast, EnabledAsPlanned, Rests, At, Parts, Steps

-----------------------------------------------------------------------------
\* What all steps of handlers have in common.
Quiet == UNCHANGED plan /\ faults.kinds \subseteq faults'.kinds

LEMMA QuietFacts ==
  ASSUME OthersRest, NoFault \/ \E k \in FaultKinds : Fault(k) PROVE Quiet
  BY FaultKindFacts DEF OthersRest, NoFault, Quiet

\* What a call with an effect leaves behind.
LEMMA EffectFacts ==
  ASSUME AutoscaleTypeOK, NEW r \in Parts, NEW after, NEW next \in Steps, Effect(r, after, next)
  PROVE  real' = after /\ Moves(r, next) /\ (NoFault \/ \E k \in FaultKinds : Fault(k))
  BY GoOnFacts, ReturnFacts DEF Effect, Fail, FaultKinds

LEMMA FailingFacts ==
  ASSUME AutoscaleTypeOK, NEW r \in Parts, NEW next, Failing(r)
  PROVE  UNCHANGED real /\ Moves(r, next) /\ h'[r].step = "none" /\ \E k \in FaultKinds : Fault(k)
  BY ReturnFacts DEF Failing, Fail, FaultKinds

LEMMA FailFacts ==
  ASSUME AutoscaleTypeOK, NEW r \in Parts, NEW next, Fail(r)
  PROVE  Moves(r, next) /\ h'[r].step = "none"
  BY ReturnFacts DEF Fail

\* The handlers of the rule and the profile never enable the group, and the rule's
\* changes members only once it has seen the group disabled.
LEMMA MemberSteps ==
  ASSUME IInv, NEW r \in {"rule", "profile"}, NEW next \in Steps, Moves(r, next), Quiet, ~Rests(r),
         DOMAIN real' = DOMAIN real, real'.on = real.on,
         r = "rule" /\ next \in {"remove", "add"} => ~real.on \/ h["rule"].step \in {"remove", "add"}
  PROVE  IInv'
<1>1. "group" \in Parts /\ "rule" \in Parts /\ "profile" \in Parts /\ h'["group"] = h["group"]
  BY DEF Moves, Parts
<1>2. AutoscaleTypeOK'
  BY DEF IInv, AutoscaleTypeOK, Moves
<1>3. Waited'
  BY <1>1 DEF IInv, Waited, Moves, Quiet
<1>4. GroupLast' /\ EnabledAsPlanned'
  BY <1>1 DEF IInv, GroupLast, EnabledAsPlanned, Moves, Quiet, Rests, At
<1> QED
  BY <1>2, <1>3, <1>4 DEF IInv

\* The handler of the group enables it only if that is the plan, and then the rule's
\* is done, unless the two do not wait for each other.
LEMMA GroupSteps ==
  ASSUME IInv, NEW next \in Steps, Moves("group", next), Quiet, ~Rests("group"),
         At("group", "wait") /\ plan.refers => Rests("rule") /\ Rests("profile"),
         next = "enable" => plan.on,
         DOMAIN real' = DOMAIN real,
         real'.on = real.on \/ ~real'.on \/ (At("group", "enable") /\ plan.on)
  PROVE  IInv'
<1>1. "group" \in Parts /\ h'["rule"] = h["rule"] /\ h'["profile"] = h["profile"]
  BY DEF Moves, Parts
<1>2. AutoscaleTypeOK'
  BY DEF IInv, AutoscaleTypeOK, Moves
<1>3. plan.refers => (Rests("rule") /\ Rests("profile")) \/ Rests("group")
  BY DEF IInv, GroupLast
<1>4. Waited'
  BY <1>1, <1>3 DEF IInv, Waited, Quiet, Rests, At
<1>5. GroupLast' /\ EnabledAsPlanned'
  BY <1>1, <1>3 DEF IInv, GroupLast, EnabledAsPlanned, Moves, Quiet, Rests, At
<1> QED
  BY <1>2, <1>4, <1>5 DEF IInv

LEMMA DeathSteps == ASSUME IInv, Die, UNCHANGED real PROVE IInv'
  BY DieFacts DEF IInv, AutoscaleTypeOK, Waited, GroupLast, EnabledAsPlanned, Rests, At, Parts

-----------------------------------------------------------------------------
LEMMA RuleInvariant == ASSUME IInv, HandleRule PROVE IInv'
<1> USE DEF At, Steps
<1>0. AutoscaleTypeOK /\ "rule" \in Parts /\ DOMAIN real = {"members", "profile", "params", "on"}
  BY DEF IInv, AutoscaleTypeOK, Parts
<1>1. CASE ListGroups
  <2>1. CASE Die
    BY <2>1, <1>1, DeathSteps DEF ListGroups
  <2>2. CASE NoFault /\ GoOn("rule", "compare")
    BY <2>2, <1>0, <1>1, GoOnFacts, QuietFacts, MemberSteps DEF ListGroups, Rests
  <2> QED
    BY <1>1, <2>1, <2>2 DEF ListGroups
<1>2. CASE Compare
  <2>1. CASE Failing("rule")
    BY <2>1, <1>0, <1>2, FailingFacts, QuietFacts, MemberSteps DEF Compare, Rests
  <2>2. CASE NoFault /\ UNCHANGED real /\ GoOn("rule", IF LeftAlone \/ plan.members = {} THEN "read" ELSE "poll")
    <3>1. PICK next \in {"read", "poll"} : GoOn("rule", next)
      BY <2>2
    <3> QED
      BY <2>2, <3>1, <1>0, <1>2, GoOnFacts, QuietFacts, MemberSteps DEF Compare, Rests
  <2> QED
    BY <1>2, <2>1, <2>2 DEF Compare
<1>3. CASE PollForRule
  <2>1. CASE NoFault /\ ~real.on /\ GoOn("rule", "remove")
    BY <2>1, <1>0, <1>3, GoOnFacts, QuietFacts, MemberSteps DEF PollForRule, Rests
  <2>2. CASE LookAgain("rule")
    <3>1. Quiet
      BY <1>3, QuietFacts DEF PollForRule, FaultKinds
    <3> QED
      BY <2>2, <3>1, <1>0, <1>3, LookAgainFacts, MemberSteps DEF PollForRule, Rests
  <2> QED
    BY <1>3, <2>1, <2>2 DEF PollForRule
<1>4. CASE RemoveMembers
  <2>1. CASE Surplus = {}
    BY <2>1, <1>0, <1>4, GoOnFacts, QuietFacts, MemberSteps DEF RemoveMembers, Rests
  <2>2. CASE Effect("rule", [real EXCEPT !.members = @ \ Surplus], "add")
    BY <2>2, <1>0, <1>4, EffectFacts, QuietFacts, MemberSteps DEF RemoveMembers, Rests
  <2>3. CASE Failing("rule")
    BY <2>3, <1>0, <1>4, FailingFacts, QuietFacts, MemberSteps DEF RemoveMembers, Rests
  <2> QED
    BY <1>4, <2>1, <2>2, <2>3 DEF RemoveMembers
<1>5. CASE AddMembers
  <2>1. CASE Missing = {}
    BY <2>1, <1>0, <1>5, GoOnFacts, QuietFacts, MemberSteps DEF AddMembers, Rests
  <2>2. CASE Effect("rule", [real EXCEPT !.members = @ \cup Missing], "read")
    BY <2>2, <1>0, <1>5, EffectFacts, QuietFacts, MemberSteps DEF AddMembers, Rests
  <2>3. CASE NoFault /\ Fail("rule") /\ UNCHANGED real
    BY <2>3, <1>0, <1>5, FailFacts, QuietFacts, MemberSteps DEF AddMembers, Rests
  <2>4. CASE Failing("rule")
    BY <2>4, <1>0, <1>5, FailingFacts, QuietFacts, MemberSteps DEF AddMembers, Rests
  <2> QED
    BY <1>5, <2>1, <2>2, <2>3, <2>4 DEF AddMembers
<1>6. CASE ReadRule
  <2>1. CASE Die
    BY <2>1, <1>6, DeathSteps DEF ReadRule
  <2>2. CASE ~Die
    <3>1. PICK d, result : Return("rule", d, result)
      BY <2>2, <1>6 DEF ReadRule
    <3>2. Quiet
      BY <1>6, QuietFacts DEF ReadRule, FaultKinds
    <3> QED
      BY <3>1, <3>2, <1>0, <1>6, ReturnFacts, MemberSteps DEF ReadRule, Rests
  <2> QED
    BY <2>1, <2>2
<1> QED
  BY <1>1, <1>2, <1>3, <1>4, <1>5, <1>6 DEF HandleRule

LEMMA ProfileInvariant == ASSUME IInv, HandleProfile PROVE IInv'
<1> USE DEF At, Steps
<1>0. AutoscaleTypeOK /\ "profile" \in Parts /\ DOMAIN real = {"members", "profile", "params", "on"}
  BY DEF IInv, AutoscaleTypeOK, Parts
<1>1. ASSUME Failing("profile"), OthersRest, ~Rests("profile") PROVE IInv'
  BY <1>0, <1>1, FailingFacts, QuietFacts, MemberSteps
<1>2. CASE ListUsers
  BY <1>0, <1>1, <1>2, GoOnFacts, QuietFacts, MemberSteps DEF ListUsers, Rests
<1>3. CASE PollForProfile
  BY <1>0, <1>1, <1>3, GoOnFacts, LookAgainFacts, QuietFacts, MemberSteps DEF PollForProfile, Rests
<1>4. CASE WriteProfile
  <2>1. CASE Effect("profile", [real EXCEPT !.profile = plan.profile], "read")
    BY <2>1, <1>0, <1>4, EffectFacts, QuietFacts, MemberSteps DEF WriteProfile, Rests
  <2> QED
    BY <2>1, <1>0, <1>1, <1>4, FailFacts, QuietFacts, MemberSteps DEF WriteProfile, Rests
<1>5. CASE ReadProfile
  BY <1>0, <1>1, <1>5, ReturnFacts, QuietFacts, MemberSteps DEF ReadProfile, Rests
<1> QED
  BY <1>2, <1>3, <1>4, <1>5 DEF HandleProfile

LEMMA GroupInvariant == ASSUME IInv, HandleGroup PROVE IInv'
<1> USE DEF At, Steps
<1>0. AutoscaleTypeOK /\ "group" \in Parts /\ DOMAIN real = {"members", "profile", "params", "on"} /\ EnabledAsPlanned
  BY DEF IInv, AutoscaleTypeOK, Parts
<1>1. ASSUME Failing("group"), OthersRest, h["group"].step \notin {"none", "wait"} PROVE IInv'
  BY <1>0, <1>1, FailingFacts, QuietFacts, GroupSteps DEF Rests
<1>2. CASE StartGroup
  <2>1. CASE plan.refers /\ \E r \in {"rule", "profile"} : outcome[r] \in {"error", "crash"}
    <3>1. h' = [h EXCEPT !["group"] = AtRest]
      BY <2>1, <1>2 DEF StartGroup
    <3>2. Moves("group", "none")
      BY <3>1, <1>0, AtRestFacts DEF Moves, AutoscaleTypeOK
    <3> QED
      BY <3>2, <1>0, <1>2, QuietFacts, GroupSteps DEF StartGroup, Rests
  <2>2. CASE ~(plan.refers /\ \E r \in {"rule", "profile"} : outcome[r] \in {"error", "crash"})
    <3>1. PICK next \in {"disable", "params"} : GoOn("group", next)
      BY <2>2, <1>2 DEF StartGroup
    <3> QED
      BY <3>1, <1>0, <1>2, GoOnFacts, QuietFacts, GroupSteps DEF StartGroup, Rests
  <2> QED
    BY <2>1, <2>2
<1>3. CASE DisableGroup
  <2>1. CASE Effect("group", [real EXCEPT !.on = FALSE], "params")
    <3>1. DOMAIN real' = DOMAIN real /\ ~real'.on
      BY <2>1, <1>0, EffectFacts
    <3> QED
      BY <2>1, <3>1, <1>0, <1>3, EffectFacts, QuietFacts, GroupSteps DEF DisableGroup, Rests
  <2> QED
    BY <2>1, <1>0, <1>1, <1>3, FailFacts, QuietFacts, GroupSteps DEF DisableGroup, Rests
<1>4. CASE UpdateParams
  <2>0. AfterParams \in {"enable", "read"} /\ (AfterParams = "enable" => plan.on)
    BY DEF AfterParams, Turns
  <2>1. CASE Effect("group", [real EXCEPT !.params = plan.params], AfterParams)
    BY <2>0, <2>1, <1>0, <1>4, EffectFacts, QuietFacts, GroupSteps DEF UpdateParams, Rests
  <2>2. CASE NoFault /\ GoOn("group", AfterParams) /\ UNCHANGED real
    BY <2>0, <2>2, <1>0, <1>4, GoOnFacts, QuietFacts, GroupSteps DEF UpdateParams, Rests
  <2> QED
    BY <2>1, <2>2, <1>0, <1>1, <1>4, FailFacts, QuietFacts, GroupSteps DEF UpdateParams, Rests
<1>5. CASE EnableGroup
  <2>1. CASE Effect("group", [real EXCEPT !.on = TRUE], "read")
    BY <2>1, <1>0, <1>5, EffectFacts, QuietFacts, GroupSteps DEF EnableGroup, EnabledAsPlanned, Rests
  <2> QED
    BY <2>1, <1>1, <1>5 DEF EnableGroup
<1>6. CASE ReadGroup
  BY <1>0, <1>1, <1>6, ReturnFacts, QuietFacts, GroupSteps DEF ReadGroup, Rests
<1> QED
  BY <1>2, <1>3, <1>4, <1>5, <1>6 DEF HandleGroup

LEMMA RunInvariant == ASSUME IInv, Run PROVE IInv'
<1>1. h' \in [Parts -> [step : Steps, tries : Nat]]
      /\ \A r \in Parts : h'[r].step \in {"none", "list", "wait"} /\ (r # "group" => h'[r].step # "wait")
                              /\ (r = "group" => h'[r].step # "list")
  BY AutoscaleAssumption, AtRestFacts DEF Run, AtRest, FirstStep, Steps, Parts, AutoscaleAssumption
<1> QED
  BY <1>1 DEF Run, IInv, AutoscaleTypeOK, Waited, GroupLast, EnabledAsPlanned, Rests, At, Parts

LEMMA StepInvariant == IInv /\ [AutoscaleNext]_autoscaleVars => IInv'
<1> SUFFICES ASSUME IInv, [AutoscaleNext]_autoscaleVars PROVE IInv'
  OBVIOUS
<1> USE DEF IInv, AutoscaleTypeOK, Waited, GroupLast, EnabledAsPlanned, Rests, At
<1>1. CASE Run
  BY <1>1, RunInvariant
<1>2. CASE EditWish
  BY <1>2 DEF EditWish
<1>3. CASE Scale
  BY <1>3 DEF Scale
<1>4. CASE CrashAutoscale
  BY <1>4, DeathSteps DEF CrashAutoscale
<1>5. CASE Toggle
  BY <1>5, FaultKindFacts DEF Toggle, OthersRest
<1>6. CASE UNCHANGED autoscaleVars
  BY <1>6 DEF autoscaleVars
<1> QED
  BY <1>1, <1>2, <1>3, <1>4, <1>5, <1>6, RuleInvariant, ProfileInvariant, GroupInvariant DEF AutoscaleNext

-----------------------------------------------------------------------------
\* The invariant holds of every behaviour.
THEOREM WaitLasts == AutoscaleSpec => []IInv
<1>1. AutoscaleInit => IInv
  BY InitInvariant
<1>2. IInv /\ [AutoscaleNext]_autoscaleVars => IInv'
  BY StepInvariant
<1> QED
  BY <1>1, <1>2, PTL DEF AutoscaleSpec

\* A rule's handler changes the members only while the group is disabled, unless the
\* group does not refer to the rule, or somebody else enables it.
THEOREM MembersSafe == AutoscaleSpec => MembersChangedWhileDisabled
<1>1. IInv /\ [AutoscaleNext]_autoscaleVars
      => [h["rule"].step \in {"remove", "add"} /\ real'.members # real.members /\ scalings' = scalings
          => \/ ~real.on
             \/ ~plan.refers /\ plan.on
             \/ "outOfBand" \in faults.kinds]_autoscaleVars
  BY DEF IInv, Waited
<1> QED
  BY <1>1, WaitLasts, PTL DEF AutoscaleSpec, MembersChangedWhileDisabled

-----------------------------------------------------------------------------
(* RolePermission.                                                         *)

-----------------------------------------------------------------------------
(* The invariant.                                                          *)

AnyId == Uuid \cup {NoId}
Held == [id : Uuid, rule : Rules, permission : Permissions]
Plans == [id : AnyId, rule : Rules, permission : Permissions]
PlainBlocks == [rule : Rules, permission : Permissions]

States == [exists : BOOLEAN, tainted : BOOLEAN, authoritative : BOOLEAN, blocks : Seq(Plans)]
Handlers ==
  [op : {"idle", "create", "update", "destroy"},
   phase : {"none", "list", "blocks", "recreate", "order", "read", "drop"},
   authoritative : BOOLEAN, blocks : Seq(Plans), old : SUBSET AnyId, listed : Seq(Held),
   managed : Seq(AnyId), used : SUBSET AnyId, deleted : SUBSET AnyId]

RoleTypes ==
  /\ role \in Seq(Held)
  /\ config \in [Resources -> [present : BOOLEAN, authoritative : BOOLEAN, blocks : Seq(PlainBlocks)]]
  /\ \A r \in Resources : config[r] \in Configurations(r)
  /\ saved \in [Resources -> States]
  /\ h \in [Resources -> Handlers]
  /\ told \in [Resources -> {"none", "ok", "error"}]

\* Each permission has an id of its own.
Distinct(list) == \A i, j \in DOMAIN list : list[i].id = list[j].id => i = j

\* The ids of these blocks are those of permissions that the user of r declared once, or
\* of none.
DeclaredIn(r, list, blocks) ==
  /\ RulesIn(blocks) \subseteq RulesOf(r)
  /\ \A i \in DOMAIN list : list[i].id \in Ids(blocks) => list[i].rule \in RulesOf(r)

\* An id that was listed is still that of the same rule.
Agrees(list, listed) ==
  \A i \in DOMAIN list, j \in DOMAIN listed : list[i].id = listed[j].id => list[i].rule = listed[j].rule

\* What the handler x knows of the role while only the provider changes it.
Untouched(list, x) ==
  \A i \in DOMAIN list, j \in DOMAIN x.listed :
    list[i].id = x.listed[j].id /\ list[i].id \notin ToSet(x.managed) => list[i] = x.listed[j]
Covered(list, x) == Ids(list) \subseteq (Ids(x.listed) \ x.deleted) \cup ToSet(x.managed)

\* The permission a block was given, unless it was given to another block too, is as that
\* block says.
Alone(x, n) == \A m \in DOMAIN x.managed : x.managed[m] = x.managed[n] => m = n
IsBlock(permission, block) == permission.rule = block.rule /\ permission.permission = block.permission
Done(r, list, x) ==
  /\ Len(x.managed) <= Len(x.blocks)
  /\ \A i \in DOMAIN list : list[i].id \in ToSet(x.managed) => list[i].rule \in RulesOf(r)
  /\ \A n \in DOMAIN x.managed : Alone(x, n) =>
       \A i \in DOMAIN list : list[i].id = x.managed[n] => IsBlock(list[i], x.blocks[n])

Listing(list, x) ==
  /\ x.listed = list /\ Len(x.managed) = Len(x.blocks)
  /\ x.authoritative => Ids(list) \subseteq ToSet(x.managed)
Applied(list, x) ==
  /\ IF x.authoritative THEN Len(list) = Len(x.blocks) ELSE Len(list) >= Len(x.blocks)
  /\ \A i \in DOMAIN x.blocks : IsBlock(list[i], x.blocks[i])

Progress(r, list, x) ==
  /\ x.phase \in {"blocks", "recreate"} => Untouched(list, x) /\ Covered(list, x) /\ Done(r, list, x)
  /\ x.phase = "order" => Listing(list, x) /\ Done(r, list, x)
  /\ x.phase = "read" => Applied(list, x)

\* The steps of a handler: it begins with nothing done, holds the mutex from then on, and
\* brings about what is configured.
Orderly(x) ==
  /\ x.op = "idle" <=> x.phase = "none"
  /\ x.phase = "none" => x.old = {}
  /\ x.phase = "list" => x.managed = <<>> /\ x.deleted = {}
  /\ x.phase \in {"blocks", "recreate", "order", "read"} => x.op \in {"create", "update"}
  /\ x.phase = "recreate" => Len(x.managed) < Len(x.blocks)
Working(x) == x.phase \notin {"none", "list"}
Applying(x, wish) ==
  x.op \in {"create", "update"} => Plain(x.blocks) = wish.blocks /\ x.authoritative = wish.authoritative

Undisturbed == "race" \notin faults.kinds

RoleIInv ==
  /\ RoleTypes /\ Distinct(role)
  /\ \A r \in Resources :
       /\ Orderly(h[r]) /\ Applying(h[r], config[r])
       /\ Working(h[r]) => lock = r
       /\ DeclaredIn(r, role, saved[r].blocks) /\ DeclaredIn(r, role, h[r].blocks)
       /\ h[r].old \subseteq Ids(saved[r].blocks)
       /\ Agrees(role, h[r].listed)
       /\ Undisturbed => Progress(r, role, h[r])

-----------------------------------------------------------------------------
(* What a step does to the role.                                           *)

\* A permission of the list was there, or is one that CloudStack made with a new id.
Stems(p) ==
  \/ \E j \in DOMAIN role : role[j].id = p.id /\ role[j].rule = p.rule
  \/ p.id \in Unused
Sound(list) == list \in Seq(Held) /\ Distinct(list) /\ \A i \in DOMAIN list : Stems(list[i])

\* What r never declared stays.
Respects(r, list) ==
  /\ Undeclared(r, list) = Undeclared(r, role)
  /\ Undisturbed =>
       \A p, q \in Undeclared(r, role) : Before(list, p, q) <=> Before(role, p, q)

-----------------------------------------------------------------------------
(* Positions in order.                                                     *)

\* The place of a number among those of a finite set.
LEMMA PlaceFacts ==
  ASSUME NEW S, S \subseteq Nat, IsFiniteSet(S), NEW m \in S
  PROVE  /\ Cardinality({j \in S : j <= m}) \in 1..Cardinality(S)
         /\ \A n \in S : m < n => Cardinality({j \in S : j <= m}) < Cardinality({j \in S : j <= n})
<1> DEFINE Upto(i) == {j \in S : j <= i}
<1>1. \A i : IsFiniteSet(Upto(i)) /\ Cardinality(Upto(i)) \in Nat /\ Cardinality(Upto(i)) <= Cardinality(S)
  <2>1. TAKE i
  <2>2. Upto(i) \in SUBSET S
    OBVIOUS
  <2> HIDE DEF Upto
  <2> QED
    BY <2>2, FS_Subset, FS_CardinalityType
<1>2. m \in Upto(m)
  OBVIOUS
<1>3. ASSUME NEW n \in S, m < n PROVE Upto(m) \in SUBSET Upto(n) /\ n \in Upto(n) /\ n \notin Upto(m)
  <2>1. m \in Nat /\ n \in Nat /\ \A j \in S : j \in Nat
    OBVIOUS
  <2>2. \A j \in S : j <= m => j <= n
    BY <1>3, <2>1
  <2>3. n <= n /\ ~(n <= m)
    BY <1>3, <2>1
  <2> QED
    BY <2>2, <2>3
<1> HIDE DEF Upto
<1>4. Cardinality(Upto(m)) # 0
  BY <1>1, <1>2, FS_EmptySet
<1>5. ASSUME NEW n \in S, m < n PROVE Cardinality(Upto(m)) < Cardinality(Upto(n))
  <2>1. Cardinality(Upto(m)) <= Cardinality(Upto(n)) /\ Cardinality(Upto(m)) # Cardinality(Upto(n))
    BY <1>1, <1>3, <1>5, FS_Subset
  <2> QED
    BY <1>1, <2>1
<1>6. Cardinality(S) \in Nat
  BY FS_CardinalityType
<1>7. Cardinality(Upto(m)) \in 1..Cardinality(S)
  BY <1>1, <1>4, <1>6
<1> QED
  BY <1>5, <1>7 DEF Upto

LEMMA InOrderFacts ==
  ASSUME NEW S, S \subseteq Nat, IsFiniteSet(S)
  PROVE  /\ Cardinality(S) \in Nat /\ InOrder(S) \in [1..Cardinality(S) -> S]
         /\ \A m, n \in 1..Cardinality(S) : m < n => InOrder(S)[m] < InOrder(S)[n]
         /\ \A i \in S : \E n \in 1..Cardinality(S) : InOrder(S)[n] = i
<1>0. \A i \in S : i \in Nat
  OBVIOUS
<1> DEFINE size == Cardinality(S)
           place == [i \in S |-> Cardinality({j \in S : j <= i})]
           inverse == [n \in 1..size |-> CHOOSE i \in S : place[i] = n]
           order == InOrder(S)
<1>1. size \in Nat
  BY FS_CardinalityType
<1>2. place \in [S -> 1..size] /\ \A m, n \in S : m < n => place[m] < place[n]
  BY PlaceFacts
<1> HIDE DEF size, place
<1>3. IsFiniteSet(1..size) /\ Cardinality(1..size) = size
  BY <1>1, FS_Interval
<1>4. \A n \in 1..size : \E i \in S : place[i] = n
  <2>1. \A m, n \in S : place[m] = place[n] => m = n
    BY <1>1, <1>2
  <2>2. place \in Injection(S, 1..size)
    BY <1>2, <2>1 DEF Injection, IsInjective
  <2>3. place \in Surjection(S, 1..size)
    BY <1>3, <2>2, FS_Injection DEF size
  <2> QED
    BY <2>3 DEF Surjection
<1>5. inverse \in [1..size -> S] /\ \A n \in 1..size : place[inverse[n]] = n
  BY <1>4
<1> HIDE DEF inverse
<1>6. \A m, n \in DOMAIN inverse : m < n => inverse[m] < inverse[n]
  <2>1. TAKE m, n \in DOMAIN inverse
  <2>2. m \in 1..size /\ n \in 1..size
    BY <1>5
  <2>3. inverse[m] \in S /\ inverse[n] \in S /\ place[inverse[m]] = m /\ place[inverse[n]] = n
    BY <1>5, <2>2
  <2>4. inverse[m] \in Nat /\ inverse[n] \in Nat
    BY <1>0, <2>3
  <2>5. m \in Nat /\ n \in Nat
    BY <1>1, <2>2
  <2>6. inverse[n] < inverse[m] => n < m
    BY <1>2, <2>3
  <2> QED
    BY <2>3, <2>4, <2>5, <2>6
<1>7. order \in [1..size -> S] /\ \A m, n \in DOMAIN order : m < n => order[m] < order[n]
  BY <1>5, <1>6 DEF InOrder, size
<1> HIDE DEF order
<1>8. \A i \in S : \E n \in 1..size : order[n] = i
  <2>1. \A m, n \in 1..size : order[m] = order[n] => m = n
    <3>1. TAKE m, n \in 1..size
    <3>2. order[m] \in S /\ order[n] \in S /\ DOMAIN order = 1..size
      BY <1>7
    <3>3. order[m] \in Nat /\ order[n] \in Nat
      BY <1>0, <3>2
    <3>4. m \in Nat /\ n \in Nat
      BY <1>1
    <3>5. (m < n => order[m] < order[n]) /\ (n < m => order[n] < order[m])
      BY <1>7, <3>2
    <3> QED
      BY <3>3, <3>4, <3>5
  <2>2. order \in Injection(1..size, S)
    BY <1>7, <2>1 DEF Injection, IsInjective
  <2>3. order \in Surjection(1..size, S)
    BY <1>3, <2>2, FS_Injection DEF size
  <2> QED
    BY <2>3 DEF Surjection
<1> QED
  BY <1>1, <1>7, <1>8 DEF size, order

LEMMA Smallest ==
  ASSUME NEW S, S \subseteq Nat, S # {}
  PROVE  \E x \in S : \A y \in S : x <= y
<1> DEFINE less == {pair \in Nat \X Nat : pair[1] < pair[2]}
<1>1. IsWellFoundedOn(less, Nat)
  <2>1. OpToRel(<, Nat) = less
    BY DEF OpToRel
  <2> QED
    BY <2>1, NatLessThanWellFounded
<1> HIDE DEF less
<1>2. PICK x \in S : \A y \in S : ~(<<y, x>> \in less)
  BY <1>1, WFMin
<1>3. ASSUME NEW y \in S PROVE x <= y
  <2>1. x \in Nat /\ y \in Nat /\ ~(<<y, x>> \in less)
    BY <1>2
  <2>2. y < x => <<y, x>> \in less
    BY <2>1 DEF less
  <2> QED
    BY <2>1, <2>2
<1> QED
  BY <1>3

-----------------------------------------------------------------------------
(* Lists.                                                                  *)

LEMMA ListFacts ==
  ASSUME NEW S, NEW list \in Seq(S)
  PROVE  /\ Len(list) \in Nat /\ DOMAIN list = 1..Len(list) /\ \A i \in DOMAIN list : list[i] \in S
         /\ IsFiniteSet(DOMAIN list) /\ DOMAIN list \subseteq Nat
<1>1. Len(list) \in Nat /\ DOMAIN list = 1..Len(list) /\ \A i \in DOMAIN list : list[i] \in S
  BY LenProperties, ElementOfSeq
<1> QED
  BY <1>1, FS_Interval

LEMMA AppendFacts ==
  ASSUME NEW S, NEW list \in Seq(S), NEW e \in S
  PROVE  /\ Append(list, e) \in Seq(S) /\ Len(Append(list, e)) = Len(list) + 1
         /\ DOMAIN Append(list, e) = 1..(Len(list) + 1)
         /\ \A i \in 1..Len(list) : Append(list, e)[i] = list[i]
         /\ Append(list, e)[Len(list) + 1] = e
         /\ ToSet(Append(list, e)) = ToSet(list) \cup {e}
<1>1. /\ Append(list, e) \in Seq(S) /\ Len(Append(list, e)) = Len(list) + 1
      /\ \A i \in 1..Len(list) : Append(list, e)[i] = list[i]
      /\ Append(list, e)[Len(list) + 1] = e
  BY AppendProperties
<1>2. Len(list) \in Nat /\ DOMAIN list = 1..Len(list) /\ DOMAIN Append(list, e) = 1..(Len(list) + 1)
  BY <1>1, LenProperties
<1>3. 1..(Len(list) + 1) = 1..Len(list) \cup {Len(list) + 1}
  BY <1>2
<1>4. ToSet(Append(list, e)) = ToSet(list) \cup {e}
  BY <1>1, <1>2, <1>3 DEF ToSet
<1> QED
  BY <1>1, <1>2, <1>4

\* What Without leaves, where it was, and that the order stays.
Leaves(f, list, ids, left) ==
  /\ f \in [DOMAIN left -> DOMAIN list]
  /\ \A n \in DOMAIN left : left[n] = list[f[n]] /\ list[f[n]].id \notin ids
  /\ \A m, n \in DOMAIN left : m < n => f[m] < f[n]
  /\ \A i \in DOMAIN list : list[i].id \notin ids => \E n \in DOMAIN left : f[n] = i

LEMMA WithoutFacts ==
  ASSUME NEW S, NEW list \in Seq(S), NEW ids
  PROVE  /\ Without(list, ids) \in Seq(S)
         /\ \E f : Leaves(f, list, ids, Without(list, ids))
<1> DEFINE T == {i \in DOMAIN list : list[i].id \notin ids}
           size == Cardinality(T)
           order == InOrder(T)
           left == Without(list, ids)
<1>1. T \in SUBSET DOMAIN list /\ IsFiniteSet(DOMAIN list) /\ DOMAIN list \subseteq Nat
  BY ListFacts
<1>2. IsFiniteSet(T) /\ T \subseteq Nat
  BY <1>1, FS_Subset
<1>3. /\ size \in Nat /\ order \in [1..size -> T]
      /\ \A m, n \in 1..size : m < n => order[m] < order[n]
      /\ \A i \in T : \E n \in 1..size : order[n] = i
  BY <1>2, InOrderFacts
<1>4. left = [n \in 1..size |-> list[order[n]]]
  BY DEF Without, Select
<1>5. \A i \in DOMAIN list : list[i] \in S
  BY ListFacts
<1>6. \A i : i \in T <=> i \in DOMAIN list /\ list[i].id \notin ids
  OBVIOUS
<1> HIDE DEF T, size, order, left
<1>7. left \in [1..size -> S] /\ DOMAIN left = 1..size
  BY <1>3, <1>4, <1>5, <1>6
<1>8. left \in Seq(S)
  BY <1>3, <1>7
<1>9. order \in [DOMAIN left -> DOMAIN list] /\ DOMAIN order = 1..size
  BY <1>3, <1>6, <1>7
<1>10. \A n \in DOMAIN order : left[n] = list[order[n]] /\ list[order[n]].id \notin ids
  BY <1>3, <1>4, <1>6, <1>9
<1>11. \A i \in DOMAIN list : list[i].id \notin ids => \E n \in DOMAIN order : order[n] = i
  BY <1>3, <1>6, <1>9
<1>12. Leaves(order, list, ids, left)
  BY <1>3, <1>7, <1>9, <1>10, <1>11 DEF Leaves
<1> QED
  BY <1>8, <1>12 DEF left

\* A list has the permission of an id it has.
LEMMA ByIdFacts ==
  ASSUME NEW list, NEW id \in Ids(list)
  PROVE  \E i \in DOMAIN list : ById(list, id) = list[i] /\ list[i].id = id
BY DEF Ids, ById

LEMMA FindFacts ==
  ASSUME NEW list \in Seq(Held), NEW rule, NEW used, HasMatch(list, rule, used)
  PROVE  \E i \in DOMAIN list : FindMatching(list, rule, used) = list[i] /\ list[i].rule = rule
<1> DEFINE S == Matches(list, rule, used)
<1>1. S \subseteq Nat /\ S # {} /\ \A i \in S : i \in DOMAIN list /\ list[i].rule = rule
  BY ListFacts DEF Matches, HasMatch
<1>2. FindMatching(list, rule, used) = list[CHOOSE i \in S : \A j \in S : i <= j]
  BY DEF FindMatching
<1> HIDE DEF S
<1>3. \E i \in S : \A j \in S : i <= j
  BY <1>1, Smallest
<1> QED
  BY <1>1, <1>2, <1>3

-----------------------------------------------------------------------------
(* What is worked out block by block.                                      *)

Reads(f, n, listed, blocks) ==
  f = [i \in 1..n |-> ReadBlock(listed, {f[j].id : j \in 1..(i - 1)}, blocks[i])]
DropsOf(f, n, r, blocks) ==
  f = [i \in 1..n |-> IdToDrop(r, {f[j] : j \in 1..(i - 1)}, blocks[i])]

\* ReadBlocks is a function of the kind its definition wants.
LEMMA ReadsExist ==
  ASSUME NEW n \in Nat, NEW listed, NEW blocks
  PROVE  \E f : Reads(f, n, listed, blocks)
<1> DEFINE Good(k) == \E f : Reads(f, k, listed, blocks)
           bad == {k \in Nat : ~Good(k)}
<1> HIDE DEF Good
<1>1. SUFFICES ASSUME bad # {} PROVE FALSE
  <2>1. Good(n)
    BY <1>1
  <2> QED
    BY <2>1 DEF Good
<1>2. PICK k \in bad : \A m \in bad : k <= m
  <2>1. bad \subseteq Nat
    OBVIOUS
  <2> HIDE DEF bad
  <2> QED
    BY <1>1, <2>1, Smallest
<1>3. k \in Nat /\ ~Good(k) /\ \A m \in Nat : m < k => Good(m)
  BY <1>2
<1> HIDE DEF bad
<1>4. k # 0
  <2>1. 1..0 = {}
    OBVIOUS
  <2>2. DEFINE f == [i \in {} |-> 0]
  <2>3. f = [i \in 1..0 |-> ReadBlock(listed, {f[j].id : j \in 1..(i - 1)}, blocks[i])]
    BY <2>1
  <2> HIDE DEF f
  <2>4. Good(0)
    BY <2>3 DEF Good, Reads
  <2> QED
    BY <1>3, <2>4
<1>5. k - 1 \in Nat /\ k - 1 < k
  BY <1>3, <1>4
<1>6. PICK f : f = [i \in 1..(k - 1) |-> ReadBlock(listed, {f[j].id : j \in 1..(i - 1)}, blocks[i])]
  BY <1>3, <1>5 DEF Good, Reads
<1> DEFINE g == [i \in 1..k |-> IF i = k THEN ReadBlock(listed, {f[j].id : j \in 1..(k - 1)}, blocks[k]) ELSE f[i]]
<1>7. \A i \in 1..k : {g[j].id : j \in 1..(i - 1)} = {f[j].id : j \in 1..(i - 1)}
  <2>1. TAKE i \in 1..k
  <2>2. \A j \in 1..(i - 1) : j \in 1..k /\ j # k
    BY <1>3
  <2>3. \A j \in 1..(i - 1) : g[j] = f[j]
    BY <2>2
  <2> HIDE DEF g
  <2> QED
    BY <2>3
<1>8. \A i \in 1..k : g[i] = ReadBlock(listed, {f[j].id : j \in 1..(i - 1)}, blocks[i])
  <2>1. TAKE i \in 1..k
  <2>2. CASE i = k
    BY <2>2
  <2>3. CASE i # k
    <3>1. i \in 1..(k - 1)
      BY <1>3, <2>3
    <3> QED
      BY <1>6, <2>3, <3>1
  <2> QED
    BY <2>2, <2>3
<1>9. \A i \in 1..k : g[i] = ReadBlock(listed, {g[j].id : j \in 1..(i - 1)}, blocks[i])
  BY <1>7, <1>8
<1>10. g = [i \in 1..k |-> g[i]]
  OBVIOUS
<1> HIDE DEF g
<1>11. g = [i \in 1..k |-> ReadBlock(listed, {g[j].id : j \in 1..(i - 1)}, blocks[i])]
  BY <1>9, <1>10
<1> QED
  BY <1>3, <1>11 DEF Good, Reads

LEMMA ReadBlocksFacts ==
  ASSUME NEW listed, NEW S, NEW blocks \in Seq(S)
  PROVE  /\ DOMAIN ReadBlocks(listed, blocks) = DOMAIN blocks
         /\ ReadBlocks(listed, blocks) = [i \in DOMAIN blocks |-> ReadBlocks(listed, blocks)[i]]
         /\ \A i \in DOMAIN blocks : \E used : ReadBlocks(listed, blocks)[i] = ReadBlock(listed, used, blocks[i])
<1> DEFINE read == ReadBlocks(listed, blocks)
<1>1. Len(blocks) \in Nat /\ DOMAIN blocks = 1..Len(blocks)
  BY ListFacts
<1>2. \E f : f = [i \in DOMAIN blocks |-> ReadBlock(listed, {f[j].id : j \in 1..(i - 1)}, blocks[i])]
  <2>1. PICK f : Reads(f, Len(blocks), listed, blocks)
    BY <1>1, ReadsExist
  <2>2. f = [i \in DOMAIN blocks |-> ReadBlock(listed, {f[j].id : j \in 1..(i - 1)}, blocks[i])]
    BY <1>1, <2>1 DEF Reads
  <2> QED
    BY <2>2
<1>3. read = [i \in DOMAIN blocks |-> ReadBlock(listed, {read[j].id : j \in 1..(i - 1)}, blocks[i])]
  BY <1>2 DEF ReadBlocks
<1> HIDE DEF read
<1>4. \A i \in DOMAIN blocks : read[i] = ReadBlock(listed, {read[j].id : j \in 1..(i - 1)}, blocks[i])
  BY <1>3
<1>5. DOMAIN read = DOMAIN blocks /\ read = [i \in DOMAIN blocks |-> read[i]]
  BY <1>3
<1> QED
  BY <1>4, <1>5 DEF read

\* So is the list of what Delete deletes.
LEMMA DropsExist ==
  ASSUME NEW n \in Nat, NEW r, NEW blocks
  PROVE  \E f : DropsOf(f, n, r, blocks)
<1> DEFINE Good(k) == \E f : DropsOf(f, k, r, blocks)
           bad == {k \in Nat : ~Good(k)}
<1> HIDE DEF Good
<1>1. SUFFICES ASSUME bad # {} PROVE FALSE
  <2>1. Good(n)
    BY <1>1
  <2> QED
    BY <2>1 DEF Good
<1>2. PICK k \in bad : \A m \in bad : k <= m
  <2>1. bad \subseteq Nat
    OBVIOUS
  <2> HIDE DEF bad
  <2> QED
    BY <1>1, <2>1, Smallest
<1>3. k \in Nat /\ ~Good(k) /\ \A m \in Nat : m < k => Good(m)
  BY <1>2
<1> HIDE DEF bad
<1>4. k # 0
  <2>1. 1..0 = {}
    OBVIOUS
  <2>2. DEFINE f == [i \in {} |-> 0]
  <2>3. f = [i \in 1..0 |-> IdToDrop(r, {f[j] : j \in 1..(i - 1)}, blocks[i])]
    BY <2>1
  <2> HIDE DEF f
  <2>4. Good(0)
    BY <2>3 DEF Good, DropsOf
  <2> QED
    BY <1>3, <2>4
<1>5. k - 1 \in Nat /\ k - 1 < k
  BY <1>3, <1>4
<1>6. PICK f : f = [i \in 1..(k - 1) |-> IdToDrop(r, {f[j] : j \in 1..(i - 1)}, blocks[i])]
  BY <1>3, <1>5 DEF Good, DropsOf
<1> DEFINE g == [i \in 1..k |-> IF i = k THEN IdToDrop(r, {f[j] : j \in 1..(k - 1)}, blocks[k]) ELSE f[i]]
<1>7. \A i \in 1..k : {g[j] : j \in 1..(i - 1)} = {f[j] : j \in 1..(i - 1)}
  <2>1. TAKE i \in 1..k
  <2>2. \A j \in 1..(i - 1) : j \in 1..k /\ j # k
    BY <1>3
  <2>3. \A j \in 1..(i - 1) : g[j] = f[j]
    BY <2>2
  <2> HIDE DEF g
  <2> QED
    BY <2>3
<1>8. \A i \in 1..k : g[i] = IdToDrop(r, {f[j] : j \in 1..(i - 1)}, blocks[i])
  <2>1. TAKE i \in 1..k
  <2>2. CASE i = k
    BY <2>2
  <2>3. CASE i # k
    <3>1. i \in 1..(k - 1)
      BY <1>3, <2>3
    <3> QED
      BY <1>6, <2>3, <3>1
  <2> QED
    BY <2>2, <2>3
<1>9. \A i \in 1..k : g[i] = IdToDrop(r, {g[j] : j \in 1..(i - 1)}, blocks[i])
  BY <1>7, <1>8
<1>10. g = [i \in 1..k |-> g[i]]
  OBVIOUS
<1> HIDE DEF g
<1>11. g = [i \in 1..k |-> IdToDrop(r, {g[j] : j \in 1..(i - 1)}, blocks[i])]
  BY <1>9, <1>10
<1> QED
  BY <1>3, <1>11 DEF Good, DropsOf

\* What Delete deletes is listed, and has the id of a block or the rule of one.
LEMMA DropsFacts ==
  ASSUME NEW r, h[r].blocks \in Seq(Plans), h[r].listed \in Seq(Held)
  PROVE  /\ DropsBlocks(r) \in Seq(AnyId)
         /\ \A n \in DOMAIN DropsBlocks(r) : \E i \in DOMAIN h[r].blocks :
              \/ DropsBlocks(r)[n] = h[r].blocks[i].id
              \/ \E j \in DOMAIN h[r].listed :
                   DropsBlocks(r)[n] = h[r].listed[j].id /\ h[r].listed[j].rule = h[r].blocks[i].rule
<1> DEFINE blocks == h[r].blocks
           listed == h[r].listed
           Ids0 == CHOOSE f : f = [i \in DOMAIN blocks |-> IdToDrop(r, {f[j] : j \in 1..(i - 1)}, blocks[i])]
           T == {i \in DOMAIN blocks : Listed(r, Ids0[i])}
           size == Cardinality(T)
           order == InOrder(T)
           drops == DropsBlocks(r)
<1>1. /\ Len(blocks) \in Nat /\ DOMAIN blocks = 1..Len(blocks)
      /\ IsFiniteSet(DOMAIN blocks) /\ DOMAIN blocks \subseteq Nat
  BY ListFacts
<1>2. \E f : f = [i \in DOMAIN blocks |-> IdToDrop(r, {f[j] : j \in 1..(i - 1)}, blocks[i])]
  <2> HIDE DEF blocks
  <2>1. PICK f : DropsOf(f, Len(blocks), r, blocks)
    BY <1>1, DropsExist
  <2>2. f = [i \in DOMAIN blocks |-> IdToDrop(r, {f[j] : j \in 1..(i - 1)}, blocks[i])]
    BY <1>1, <2>1 DEF DropsOf
  <2> QED
    BY <2>2
<1>3. Ids0 = [i \in DOMAIN blocks |-> IdToDrop(r, {Ids0[j] : j \in 1..(i - 1)}, blocks[i])]
  <2> HIDE DEF blocks
  <2> QED
    BY <1>2
<1>4. drops = [n \in 1..size |-> Ids0[order[n]]]
  BY DEF DropsBlocks, Select
<1>5. T \in SUBSET DOMAIN blocks /\ \A i \in T : Ids0[i] \in Ids(listed)
  <2> HIDE DEF Ids0
  <2> QED
    BY DEF Listed
<1> HIDE DEF Ids0, T, drops, size
<1>6. IsFiniteSet(T) /\ T \subseteq Nat
  BY <1>1, <1>5, FS_Subset
<1>7. size \in Nat /\ order \in [1..size -> T]
  BY <1>6, InOrderFacts DEF size
<1> HIDE DEF order
<1>8. \A i \in T : Ids0[i] \in AnyId
  <2>1. \A j \in DOMAIN listed : listed[j] \in Held
    BY ListFacts
  <2> QED
    BY <1>5, <2>1 DEF Ids, Held, AnyId
<1>9. drops \in Seq(AnyId) /\ DOMAIN drops = 1..size
  <2>1. drops \in [1..size -> AnyId]
    BY <1>4, <1>7, <1>8
  <2> QED
    BY <1>7, <2>1
<1>10. ASSUME NEW n \in 1..size
       PROVE  \E i \in DOMAIN blocks :
                \/ drops[n] = blocks[i].id
                \/ \E j \in DOMAIN listed : drops[n] = listed[j].id /\ listed[j].rule = blocks[i].rule
  <2> DEFINE i == order[n]
  <2>1. i \in DOMAIN blocks /\ drops[n] = Ids0[i]
    BY <1>4, <1>5, <1>7
  <2> HIDE DEF i
  <2>2. PICK used : Ids0[i] = IdToDrop(r, used, blocks[i])
    <3> HIDE DEF blocks
    <3>1. \A k \in DOMAIN blocks : Ids0[k] = IdToDrop(r, {Ids0[j] : j \in 1..(k - 1)}, blocks[k])
      BY <1>3
    <3> QED
      BY <2>1, <3>1
  <2>3. CASE blocks[i].id = NoId /\ HasMatch(listed, blocks[i].rule, used)
    <3>1. PICK j \in DOMAIN listed :
            FindMatching(listed, blocks[i].rule, used) = listed[j] /\ listed[j].rule = blocks[i].rule
      BY <2>3, FindFacts
    <3>2. Ids0[i] = listed[j].id
      BY <2>2, <2>3, <3>1 DEF IdToDrop
    <3> QED
      BY <2>1, <3>1, <3>2
  <2>4. CASE ~(blocks[i].id = NoId /\ HasMatch(listed, blocks[i].rule, used))
    <3>1. Ids0[i] = blocks[i].id
      BY <2>2, <2>4 DEF IdToDrop
    <3> QED
      BY <2>1, <3>1
  <2> QED
    BY <2>3, <2>4
<1> QED
  BY <1>9, <1>10 DEF drops

-----------------------------------------------------------------------------
(* What each call makes of the role.                                       *)

RoleOK == role \in Seq(Held) /\ Distinct(role)

LEMMA SameSound == ASSUME RoleOK PROVE Sound(role) /\ \A r : Respects(r, role)
BY DEF RoleOK, Sound, Stems, Respects

\* r declared what has the id.
MayTouch(r, id) == \A i \in DOMAIN role : role[i].id = id => role[i].rule \in RulesOf(r)

\* A deletion.
LEMMA DroppedFacts ==
  ASSUME RoleOK, NEW id
  PROVE  /\ Sound(Dropped(role, id))
         /\ \A n \in DOMAIN Dropped(role, id) : \E i \in DOMAIN role : Dropped(role, id)[n] = role[i] /\ role[i].id # id
         /\ \A r : MayTouch(r, id) => Respects(r, Dropped(role, id))
<1> DEFINE list == Dropped(role, id)
<1>1. list \in Seq(Held) /\ \E f : Leaves(f, role, {id}, list)
  BY WithoutFacts DEF RoleOK, Dropped
<1> HIDE DEF list
<1>2. PICK f :
        /\ f \in [DOMAIN list -> DOMAIN role]
        /\ \A n \in DOMAIN list : list[n] = role[f[n]] /\ role[f[n]].id # id
        /\ \A m, n \in DOMAIN list : m < n => f[m] < f[n]
        /\ \A i \in DOMAIN role : role[i].id # id => \E n \in DOMAIN list : f[n] = i
  BY <1>1 DEF Leaves
<1>3. DOMAIN list \subseteq Nat /\ DOMAIN role \subseteq Nat
  BY <1>1, ListFacts DEF RoleOK
<1>4. \A m, n \in DOMAIN list : f[m] = f[n] => m = n
  <2>1. TAKE m, n \in DOMAIN list
  <2>2. m \in Nat /\ n \in Nat /\ f[m] \in Nat /\ f[n] \in Nat
    BY <1>2, <1>3
  <2> QED
    BY <1>2, <2>2
<1>5. Distinct(list)
  BY <1>2, <1>4 DEF RoleOK, Distinct
<1>6. Sound(list)
  BY <1>1, <1>2, <1>5 DEF Sound, Stems
<1>7. ASSUME NEW r, MayTouch(r, id) PROVE Respects(r, list)
  <2>1. \A p : p \in Undeclared(r, list) <=> p \in Undeclared(r, role)
    <3>1. ASSUME NEW n \in DOMAIN list PROVE list[n] \in ToSet(role)
      BY <1>2 DEF ToSet
    <3>2. ASSUME NEW i \in DOMAIN role, role[i].rule \notin RulesOf(r) PROVE role[i] \in ToSet(list)
      <4>1. role[i].id # id
        BY <1>7, <3>2 DEF MayTouch
      <4> QED
        BY <1>2, <4>1 DEF ToSet
    <3> QED
      BY <3>1, <3>2 DEF Undeclared, ToSet
  <2>2. ASSUME NEW p \in Undeclared(r, role), NEW q \in Undeclared(r, role)
        PROVE  Before(list, p, q) <=> Before(role, p, q)
    <3>1. ASSUME Before(list, p, q) PROVE Before(role, p, q)
      BY <1>2, <3>1 DEF Before
    <3>2. ASSUME Before(role, p, q) PROVE Before(list, p, q)
      <4>1. PICK i, j \in DOMAIN role : i < j /\ role[i] = p /\ role[j] = q
        BY <3>2 DEF Before
      <4>2. role[i].id # id /\ role[j].id # id
        BY <1>7, <4>1 DEF MayTouch, Undeclared
      <4>3. PICK m, n \in DOMAIN list : f[m] = i /\ f[n] = j
        BY <1>2, <4>2
      <4>4. list[m] = p /\ list[n] = q
        BY <1>2, <4>1, <4>3
      <4>5. m < n
        <5>1. m \in Nat /\ n \in Nat /\ i \in Nat /\ j \in Nat
          BY <1>3
        <5>2. (n < m => j < i) /\ (m = n => i = j)
          BY <1>2, <4>3
        <5> QED
          BY <4>1, <5>1, <5>2
      <4> QED
        BY <4>4, <4>5 DEF Before
    <3> QED
      BY <3>1, <3>2
  <2> QED
    BY <2>1, <2>2 DEF Respects
<1> QED
  BY <1>2, <1>6, <1>7 DEF list

LEMMA NewIdFacts == ASSUME Unused # {} PROVE NewId \in Unused /\ NewId \in Uuid /\ NewId \notin Ids(role)
BY DEF NewId, Unused

\* A new permission.
LEMMA AddedFacts ==
  ASSUME RoleOK, Unused # {}, NEW block, block.rule \in Rules, block.permission \in Permissions
  PROVE  /\ Sound(Added(block)) /\ DOMAIN Added(block) = 1..(Len(role) + 1)
         /\ \A i \in DOMAIN role : Added(block)[i] = role[i]
         /\ Added(block)[Len(role) + 1] = [id |-> NewId, rule |-> block.rule, permission |-> block.permission]
         /\ \A r : block.rule \in RulesOf(r) => Respects(r, Added(block))
<1> DEFINE new == [id |-> NewId, rule |-> block.rule, permission |-> block.permission]
           list == Added(block)
<1>1. NewId \in Unused /\ NewId \in Uuid /\ NewId \notin Ids(role)
  BY NewIdFacts
<1>2. new \in Held /\ new.id = NewId /\ new.rule = block.rule
  BY <1>1 DEF Held
<1>3. list = Append(role, new)
  BY DEF Added
<1>4. Len(role) \in Nat /\ DOMAIN role = 1..Len(role)
  BY ListFacts DEF RoleOK
<1> HIDE DEF new, list
<1>5. /\ list \in Seq(Held) /\ DOMAIN list = 1..(Len(role) + 1)
      /\ \A i \in 1..Len(role) : list[i] = role[i]
      /\ list[Len(role) + 1] = new
      /\ ToSet(list) = ToSet(role) \cup {new}
  BY <1>2, <1>3, AppendFacts DEF RoleOK
<1>6. \A i \in DOMAIN list : i \in DOMAIN role \/ (i = Len(role) + 1 /\ list[i] = new)
  BY <1>4, <1>5
<1>7. \A i \in DOMAIN role : list[i] = role[i] /\ role[i].id # new.id
  BY <1>1, <1>2, <1>4, <1>5 DEF Ids
<1>8. Distinct(list)
  <2>1. SUFFICES ASSUME NEW i \in DOMAIN list, NEW j \in DOMAIN list, list[i].id = list[j].id PROVE i = j
    BY DEF Distinct
  <2>2. CASE i \in DOMAIN role /\ j \in DOMAIN role
    BY <1>7, <2>1, <2>2 DEF RoleOK, Distinct
  <2>3. CASE ~(i \in DOMAIN role /\ j \in DOMAIN role)
    BY <1>6, <1>7, <2>1, <2>3
  <2> QED
    BY <2>2, <2>3
<1>9. \A i \in DOMAIN list : Stems(list[i])
  BY <1>1, <1>2, <1>6, <1>7 DEF Stems
<1>10. Sound(list)
  BY <1>5, <1>8, <1>9 DEF Sound
<1>11. ASSUME NEW r, block.rule \in RulesOf(r) PROVE Respects(r, list)
  <2>1. Undeclared(r, list) = Undeclared(r, role)
    BY <1>2, <1>5, <1>11 DEF Undeclared
  <2>2. ASSUME NEW p \in Undeclared(r, role), NEW q \in Undeclared(r, role)
        PROVE  Before(list, p, q) <=> Before(role, p, q)
    <3>1. p # new /\ q # new
      BY <1>2, <1>11 DEF Undeclared
    <3>2. \A i \in DOMAIN list : list[i] = p \/ list[i] = q => i \in DOMAIN role
      BY <1>6, <3>1
    <3>3. \A i \in DOMAIN role : i \in DOMAIN list
      BY <1>4, <1>5
    <3> QED
      BY <1>7, <3>2, <3>3 DEF Before
  <2> QED
    BY <2>1, <2>2 DEF Respects
<1>12. list[Len(role) + 1] = [id |-> NewId, rule |-> block.rule, permission |-> block.permission]
  BY <1>5 DEF new
<1> QED
  BY <1>5, <1>7, <1>10, <1>11, <1>12 DEF list

\* A change.
LEMMA PermittingFacts ==
  ASSUME RoleOK, NEW id, NEW permission \in Permissions
  PROVE  /\ Sound(Permitting(role, id, permission)) /\ DOMAIN Permitting(role, id, permission) = DOMAIN role
         /\ \A i \in DOMAIN role :
              /\ Permitting(role, id, permission)[i].id = role[i].id
              /\ Permitting(role, id, permission)[i].rule = role[i].rule
              /\ role[i].id = id => Permitting(role, id, permission)[i].permission = permission
              /\ role[i].id # id => Permitting(role, id, permission)[i] = role[i]
         /\ \A r : MayTouch(r, id) => Respects(r, Permitting(role, id, permission))
<1> DEFINE list == Permitting(role, id, permission)
<1>1. Len(role) \in Nat /\ DOMAIN role = 1..Len(role) /\ \A i \in DOMAIN role : role[i] \in Held
  BY ListFacts DEF RoleOK
<1>2. list = [i \in DOMAIN role |-> IF role[i].id = id THEN [role[i] EXCEPT !.permission = permission] ELSE role[i]]
  BY DEF Permitting
<1> HIDE DEF list
<1>3. DOMAIN list = DOMAIN role
  BY <1>2
<1>4. \A i \in DOMAIN role :
        /\ list[i] \in Held /\ list[i].id = role[i].id /\ list[i].rule = role[i].rule
        /\ role[i].id = id => list[i].permission = permission
        /\ role[i].id # id => list[i] = role[i]
  <2>1. TAKE i \in DOMAIN role
  <2>2. CASE role[i].id = id
    <3>1. list[i] = [role[i] EXCEPT !.permission = permission]
      BY <1>2, <2>2
    <3> QED
      BY <1>1, <2>2, <3>1 DEF Held
  <2>3. CASE role[i].id # id
    BY <1>1, <1>2, <2>3
  <2> QED
    BY <2>2, <2>3
<1>5. list \in Seq(Held)
  <2>1. list \in [1..Len(role) -> Held]
    BY <1>1, <1>2, <1>4
  <2> QED
    BY <1>1, <2>1
<1>6. Sound(list)
  BY <1>3, <1>4, <1>5 DEF Sound, Stems, Distinct, RoleOK
<1>7. ASSUME NEW r, MayTouch(r, id) PROVE Respects(r, list)
  <2>1. \A i \in DOMAIN role : list[i].rule \notin RulesOf(r) \/ role[i].rule \notin RulesOf(r) => list[i] = role[i]
    BY <1>4, <1>7 DEF MayTouch
  <2>2. Undeclared(r, list) = Undeclared(r, role)
    BY <1>3, <1>4, <2>1 DEF Undeclared, ToSet
  <2>3. ASSUME NEW p \in Undeclared(r, role), NEW q \in Undeclared(r, role)
        PROVE  Before(list, p, q) <=> Before(role, p, q)
    <3>1. p.rule \notin RulesOf(r) /\ q.rule \notin RulesOf(r)
      BY DEF Undeclared
    <3>2. \A i \in DOMAIN role : (list[i] = p <=> role[i] = p) /\ (list[i] = q <=> role[i] = q)
      BY <2>1, <3>1
    <3> QED
      BY <1>3, <3>2 DEF Before
  <2> QED
    BY <2>2, <2>3 DEF Respects
<1> QED
  BY <1>3, <1>4, <1>6, <1>7 DEF list

\* An accepted order.
InTheOrder(order) == [i \in DOMAIN order |-> ById(role, order[i])]

LEMMA OrderFacts ==
  ASSUME RoleOK, NEW order \in Seq(AnyId), ~OrderRefused(order)
  PROVE  /\ Sound(InTheOrder(order)) /\ DOMAIN InTheOrder(order) = 1..Len(role) /\ Len(order) = Len(role)
         /\ \A i, j \in DOMAIN order : order[i] = order[j] => i = j
         /\ \A i \in DOMAIN order :
              \E k \in DOMAIN role : InTheOrder(order)[i] = role[k] /\ role[k].id = order[i]
         /\ \A r : Undeclared(r, InTheOrder(order)) = Undeclared(r, role)
<1> DEFINE list == InTheOrder(order)
<1>1. Len(role) \in Nat /\ DOMAIN role = 1..Len(role) /\ \A i \in DOMAIN role : role[i] \in Held
  BY ListFacts DEF RoleOK
<1>2. ToSet(order) = Ids(role) /\ Len(order) = Len(role) /\ DOMAIN order = 1..Len(role)
  BY <1>1, ListFacts DEF OrderRefused
<1>3. list = [i \in 1..Len(role) |-> ById(role, order[i])]
  BY <1>2 DEF InTheOrder
<1> HIDE DEF list
<1>4. \A i \in DOMAIN order : order[i] \in Ids(role)
  BY <1>2 DEF ToSet
<1>5. \A i \in DOMAIN order : \E k \in DOMAIN role : list[i] = role[k] /\ role[k].id = order[i]
  BY <1>2, <1>3, <1>4, ByIdFacts
<1>6. \A i, j \in DOMAIN order : order[i] = order[j] => i = j
  <2> DEFINE size == Len(role)
             ids == Ids(role)
             numbers == [i \in 1..size |-> role[i].id]
  <2>1. numbers \in Injection(1..size, ids) /\ numbers \in Surjection(1..size, ids)
    BY <1>1 DEF Injection, IsInjective, Surjection, RoleOK, Distinct, Ids
  <2>2. order \in [1..size -> ids] /\ \A id \in ids : \E i \in 1..size : order[i] = id
    <3>1. order = [i \in 1..size |-> order[i]]
      BY <1>2
    <3> QED
      BY <1>2, <1>4, <3>1 DEF ToSet
  <2>3. order \in Surjection(1..size, ids)
    BY <2>2 DEF Surjection
  <2>4. IsFiniteSet(1..size) /\ size \in Nat
    BY <1>1, FS_Interval
  <2> HIDE DEF size, ids, numbers
  <2>5. IsFiniteSet(ids) /\ Cardinality(ids) = Cardinality(1..size)
    BY <2>1, <2>4, FS_Surjection
  <2>6. order \in Injection(1..size, ids)
    BY <2>3, <2>4, <2>5, FS_Surjection
  <2> QED
    BY <1>2, <2>6 DEF Injection, IsInjective, size
<1>7. list \in Seq(Held) /\ DOMAIN list = 1..Len(role)
  <2>1. list \in [1..Len(role) -> Held]
    BY <1>1, <1>2, <1>3, <1>5
  <2> QED
    BY <1>1, <2>1
<1>8. \A i \in DOMAIN list : list[i].id = order[i]
  BY <1>2, <1>5, <1>7
<1>9. Sound(list)
  <2>1. Distinct(list)
    BY <1>2, <1>6, <1>7, <1>8 DEF Distinct
  <2>2. \A i \in DOMAIN list : Stems(list[i])
    BY <1>2, <1>5, <1>7 DEF Stems
  <2> QED
    BY <1>7, <2>1, <2>2 DEF Sound
<1>10. ToSet(list) = ToSet(role)
  <2>1. ASSUME NEW i \in DOMAIN list PROVE list[i] \in ToSet(role)
    BY <1>2, <1>5, <1>7 DEF ToSet
  <2>2. ASSUME NEW k \in DOMAIN role PROVE role[k] \in ToSet(list)
    <3>1. role[k].id \in ToSet(order)
      BY <1>2 DEF Ids
    <3>2. PICK i \in DOMAIN order : order[i] = role[k].id
      BY <3>1 DEF ToSet
    <3>3. list[i] = role[k]
      BY <1>5, <3>2 DEF RoleOK, Distinct
    <3> QED
      BY <1>2, <1>7, <3>3 DEF ToSet
  <2> QED
    BY <2>1, <2>2 DEF ToSet
<1>11. \A r : Undeclared(r, list) = Undeclared(r, role)
  BY <1>10 DEF Undeclared
<1> QED
  BY <1>2, <1>5, <1>6, <1>7, <1>9, <1>11 DEF list

-----------------------------------------------------------------------------
(* The order of rules.                                                     *)

LEMMA RuleOrderFacts ==
  ASSUME NEW r, h[r] \in Handlers
  PROVE  LET m == Len(h[r].managed)
             left == Without(h[r].listed, Managed(r))
         IN /\ RuleOrder(r) \in Seq(AnyId) /\ left \in Seq(Held) /\ m \in Nat /\ DOMAIN h[r].managed = 1..m
            /\ Len(RuleOrder(r)) = m + Len(left)
            /\ \A n \in 1..m : RuleOrder(r)[n] = h[r].managed[n]
            /\ \A n \in 1..Len(left) : RuleOrder(r)[m + n] = left[n].id
<1> DEFINE managed == h[r].managed
           m == Len(managed)
           left == Without(h[r].listed, Managed(r))
           rest == Rest(r)
<1>1. managed \in Seq(AnyId) /\ h[r].listed \in Seq(Held)
  BY DEF Handlers
<1>2. left \in Seq(Held)
  BY <1>1, WithoutFacts
<1>3. rest = [n \in DOMAIN left |-> left[n].id]
  BY DEF Rest, Numbers
<1>4. RuleOrder(r) = managed \o rest
  BY DEF RuleOrder
<1> HIDE DEF managed, left, rest
<1>5. Len(left) \in Nat /\ DOMAIN left = 1..Len(left) /\ \A n \in DOMAIN left : left[n] \in Held
  BY <1>2, ListFacts
<1>6. rest \in [1..Len(left) -> AnyId]
  BY <1>3, <1>5 DEF Held, AnyId
<1>7. rest \in Seq(AnyId) /\ Len(rest) = Len(left)
  BY <1>5, <1>6
<1>8. m \in Nat /\ DOMAIN managed = 1..m
  BY <1>1, ListFacts
<1>9. /\ managed \o rest \in Seq(AnyId) /\ Len(managed \o rest) = m + Len(left)
      /\ \A i \in 1..(m + Len(left)) : (managed \o rest)[i] = IF i <= m THEN managed[i] ELSE rest[i - m]
  <2>1. managed \in Seq(AnyId) /\ rest \in Seq(AnyId)
    BY <1>1, <1>7
  <2>2. /\ managed \o rest \in Seq(AnyId) /\ Len(managed \o rest) = Len(managed) + Len(rest)
        /\ \A i \in 1..(Len(managed) + Len(rest)) :
             (managed \o rest)[i] = IF i <= Len(managed) THEN managed[i] ELSE rest[i - Len(managed)]
    BY <2>1, ConcatProperties
  <2> QED
    BY <1>7, <2>2
<1>10. \A n \in 1..m : (managed \o rest)[n] = managed[n]
  BY <1>5, <1>8, <1>9
<1>11. \A n \in 1..Len(left) : (managed \o rest)[m + n] = left[n].id
  <2>1. TAKE n \in 1..Len(left)
  <2>2. m + n \in 1..(m + Len(left)) /\ ~(m + n <= m) /\ (m + n) - m = n
    BY <1>5, <1>8
  <2>3. (managed \o rest)[m + n] = rest[n]
    BY <1>9, <2>2
  <2> QED
    BY <1>3, <1>5, <2>3
<1> QED
  BY <1>2, <1>4, <1>8, <1>9, <1>10, <1>11 DEF managed, left

LEMMA OrderRespects ==
  ASSUME RoleOK, NEW r, h[r] \in Handlers, h[r].listed = role, ~OrderRefused(RuleOrder(r)),
         \A i \in DOMAIN role : role[i].id \in Managed(r) => role[i].rule \in RulesOf(r)
  PROVE  Respects(r, InTheOrder(RuleOrder(r)))
<1> DEFINE order == RuleOrder(r)
           list == InTheOrder(order)
           m == Len(h[r].managed)
           left == Without(role, Managed(r))
<1>1. /\ order \in Seq(AnyId) /\ left \in Seq(Held) /\ m \in Nat /\ Len(order) = m + Len(left)
      /\ \A n \in 1..Len(left) : order[m + n] = left[n].id
  BY RuleOrderFacts
<1>2. PICK f : Leaves(f, role, Managed(r), left)
  BY WithoutFacts DEF RoleOK
<1> HIDE DEF order, m, left
<1>3. /\ DOMAIN list = 1..Len(role) /\ Len(order) = Len(role)
      /\ \A i, j \in DOMAIN order : order[i] = order[j] => i = j
      /\ \A i \in DOMAIN order : \E k \in DOMAIN role : list[i] = role[k] /\ role[k].id = order[i]
      /\ Undeclared(r, list) = Undeclared(r, role)
  BY <1>1, OrderFacts DEF order
<1>4. /\ Len(left) \in Nat /\ DOMAIN left = 1..Len(left) /\ DOMAIN order = 1..(m + Len(left))
      /\ DOMAIN role \subseteq Nat /\ DOMAIN list = DOMAIN order
  BY <1>1, <1>3, ListFacts DEF RoleOK
<1> HIDE DEF list
<1>5. /\ f \in [DOMAIN left -> DOMAIN role]
      /\ \A n \in DOMAIN left : left[n] = role[f[n]]
      /\ \A k, n \in DOMAIN left : k < n => f[k] < f[n]
      /\ \A i \in DOMAIN role : role[i].id \notin Managed(r) => \E n \in DOMAIN left : f[n] = i
  BY <1>2 DEF Leaves
<1>6. ASSUME NEW p \in Undeclared(r, role)
      PROVE  \E n \in DOMAIN left :
               /\ role[f[n]] = p /\ list[m + n] = p /\ m + n \in DOMAIN list
               /\ \A i \in DOMAIN role : role[i] = p => i = f[n]
               /\ \A i \in DOMAIN list : list[i] = p => i = m + n
  <2>1. PICK i \in DOMAIN role : role[i] = p /\ role[i].rule \notin RulesOf(r)
    BY DEF Undeclared, ToSet
  <2>2. PICK n \in DOMAIN left : f[n] = i
    BY <1>5, <2>1
  <2>3. m + n \in DOMAIN order /\ order[m + n] = p.id
    BY <1>1, <1>4, <1>5, <2>1, <2>2
  <2>4. list[m + n] = p
    BY <1>3, <2>1, <2>3 DEF RoleOK, Distinct
  <2>5. \A k \in DOMAIN role : role[k] = p => k = f[n]
    BY <2>1, <2>2 DEF RoleOK, Distinct
  <2>6. ASSUME NEW k \in DOMAIN list, list[k] = p PROVE k = m + n
    <3>1. order[k] = p.id
      BY <1>3, <1>4, <2>6
    <3> QED
      BY <1>3, <1>4, <2>3, <3>1
  <2> QED
    BY <1>4, <2>1, <2>2, <2>3, <2>4, <2>5, <2>6
<1>7. ASSUME NEW p \in Undeclared(r, role), NEW q \in Undeclared(r, role)
      PROVE  Before(list, p, q) <=> Before(role, p, q)
  <2>1. PICK n \in DOMAIN left :
               /\ role[f[n]] = p /\ list[m + n] = p /\ m + n \in DOMAIN list
               /\ \A i \in DOMAIN role : role[i] = p => i = f[n]
               /\ \A i \in DOMAIN list : list[i] = p => i = m + n
    BY <1>6
  <2>2. PICK k \in DOMAIN left :
               /\ role[f[k]] = q /\ list[m + k] = q /\ m + k \in DOMAIN list
               /\ \A i \in DOMAIN role : role[i] = q => i = f[k]
               /\ \A i \in DOMAIN list : list[i] = q => i = m + k
    BY <1>6
  <2>3. Before(list, p, q) <=> m + n < m + k
    BY <2>1, <2>2 DEF Before
  <2>4. f[n] \in DOMAIN role /\ f[k] \in DOMAIN role
    BY <1>5
  <2>5. Before(role, p, q) <=> f[n] < f[k]
    BY <2>1, <2>2, <2>4 DEF Before
  <2>6. n \in Nat /\ k \in Nat /\ f[n] \in Nat /\ f[k] \in Nat
    BY <1>4, <2>4
  <2>7. (n < k => f[n] < f[k]) /\ (k < n => f[k] < f[n]) /\ (n = k => f[n] = f[k])
    BY <1>5
  <2>8. n < k <=> f[n] < f[k]
    BY <2>6, <2>7
  <2>9. m + n < m + k <=> n < k
    BY <1>1, <2>6
  <2> QED
    BY <2>3, <2>5, <2>8, <2>9
<1> QED
  BY <1>3, <1>7 DEF Respects, list, order

-----------------------------------------------------------------------------
(* What Read makes of a state.                                             *)

LEMMA GoneFacts == \A r, list : Gone \in States /\ DeclaredIn(r, list, Gone.blocks)
<1>1. <<>> \in Seq(Plans) /\ DOMAIN <<>> = {}
  OBVIOUS
<1> QED
  BY <1>1 DEF Gone, States, DeclaredIn, RulesIn, Ids

LEMMA ReadStateFacts ==
  ASSUME RoleOK, NEW r, NEW state \in States, DeclaredIn(r, role, state.blocks)
  PROVE  ReadState(state, role) \in States /\ DeclaredIn(r, role, ReadState(state, role).blocks)
<1> DEFINE blocks == state.blocks
           read == ReadBlocks(role, blocks)
<1>1. blocks \in Seq(Plans)
  BY DEF States
<1> HIDE DEF blocks
<1>2. /\ DOMAIN read = DOMAIN blocks /\ read = [i \in DOMAIN blocks |-> read[i]]
      /\ \A i \in DOMAIN blocks : \E used : read[i] = ReadBlock(role, used, blocks[i])
  BY <1>1, ReadBlocksFacts
<1>3. Len(blocks) \in Nat /\ DOMAIN blocks = 1..Len(blocks) /\ \A i \in DOMAIN blocks : blocks[i] \in Plans
  BY <1>1, ListFacts
<1>4. \A k \in DOMAIN role : role[k] \in Held /\ role[k] \in Plans
  <2>1. \A k \in DOMAIN role : role[k] \in Held
    BY ListFacts DEF RoleOK
  <2> QED
    BY <2>1 DEF Held, Plans, AnyId
<1>5. /\ \A i \in DOMAIN blocks : blocks[i].rule \in RulesOf(r)
      /\ \A i \in DOMAIN blocks, k \in DOMAIN role : role[k].id = blocks[i].id => role[k].rule \in RulesOf(r)
  BY DEF DeclaredIn, RulesIn, Ids, blocks
<1> HIDE DEF read
<1>6. ASSUME NEW i \in DOMAIN blocks
      PROVE  /\ read[i] \in Plans /\ read[i].rule \in RulesOf(r)
             /\ \A k \in DOMAIN role : role[k].id = read[i].id => role[k].rule \in RulesOf(r)
  <2>1. PICK used : read[i] = ReadBlock(role, used, blocks[i])
    BY <1>2
  <2>2. CASE blocks[i].id \in Ids(role)
    <3>1. PICK k \in DOMAIN role : ById(role, blocks[i].id) = role[k] /\ role[k].id = blocks[i].id
      BY <2>2, ByIdFacts
    <3>2. read[i] = role[k]
      BY <2>1, <2>2, <3>1 DEF ReadBlock
    <3> QED
      BY <1>4, <1>5, <3>1, <3>2
  <2>3. CASE blocks[i].id \notin Ids(role) /\ HasMatch(role, blocks[i].rule, used)
    <3>1. PICK k \in DOMAIN role : FindMatching(role, blocks[i].rule, used) = role[k] /\ role[k].rule = blocks[i].rule
      BY <2>3, FindFacts DEF RoleOK
    <3>2. read[i] = role[k]
      BY <2>1, <2>3, <3>1 DEF ReadBlock
    <3> QED
      BY <1>4, <1>5, <3>1, <3>2 DEF RoleOK, Distinct
  <2>4. CASE blocks[i].id \notin Ids(role) /\ ~HasMatch(role, blocks[i].rule, used)
    <3>1. read[i] = blocks[i]
      BY <2>1, <2>4 DEF ReadBlock
    <3> QED
      BY <1>3, <1>5, <3>1
  <2> QED
    BY <2>2, <2>3, <2>4
<1>7. read \in Seq(Plans)
  <2>1. read \in [1..Len(blocks) -> Plans]
    BY <1>2, <1>3, <1>6
  <2> QED
    BY <1>3, <2>1
<1>8. DeclaredIn(r, role, read)
  BY <1>2, <1>6 DEF DeclaredIn, RulesIn, Ids
<1>9. ReadState(state, role) = IF Ids(read) \subseteq Ids(role) THEN [state EXCEPT !.blocks = read] ELSE Gone
  BY DEF ReadState, read, blocks
<1>10. [state EXCEPT !.blocks = read] \in States /\ [state EXCEPT !.blocks = read].blocks = read
  BY <1>7 DEF States
<1> QED
  BY <1>8, <1>9, <1>10, GoneFacts

-----------------------------------------------------------------------------
(* What a step of a handler keeps.                                         *)

LEMMA InvRole == ASSUME RoleIInv PROVE RoleOK
BY DEF RoleIInv, RoleTypes, RoleOK

LEMMA InvFacts ==
  ASSUME RoleIInv, NEW r \in Resources
  PROVE  /\ h[r] \in Handlers /\ saved[r] \in States
         /\ Orderly(h[r]) /\ Applying(h[r], config[r]) /\ (Working(h[r]) => lock = r)
         /\ DeclaredIn(r, role, saved[r].blocks) /\ DeclaredIn(r, role, h[r].blocks)
         /\ h[r].old \subseteq Ids(saved[r].blocks)
         /\ Agrees(role, h[r].listed)
         /\ Undisturbed => Progress(r, role, h[r])
BY DEF RoleIInv, RoleTypes

LEMMA UnusedFacts ==
  ASSUME NEW r \in Resources, NEW id \in Unused
  PROVE  id \notin Ids(saved[r].blocks) /\ id \notin Ids(h[r].blocks) /\ id \notin Ids(h[r].listed)
<1>1. /\ Ids(saved[r].blocks) \cup Ids(h[r].blocks) \cup Ids(h[r].listed) \subseteq
           UNION {Ids(saved[s].blocks) \cup Ids(h[s].blocks) \cup Ids(h[s].listed) : s \in Resources}
  OBVIOUS
<1> QED
  BY <1>1 DEF Unused

LEMMA SoundKeeps ==
  ASSUME RoleIInv, NEW list, Sound(list), NEW r \in Resources
  PROVE  /\ DeclaredIn(r, list, saved[r].blocks) /\ DeclaredIn(r, list, h[r].blocks)
         /\ Agrees(list, h[r].listed)
<1>1. /\ DeclaredIn(r, role, saved[r].blocks) /\ DeclaredIn(r, role, h[r].blocks)
      /\ Agrees(role, h[r].listed)
  BY InvFacts
<1>2. \A i \in DOMAIN list :
        \/ \E j \in DOMAIN role : role[j].id = list[i].id /\ role[j].rule = list[i].rule
        \/ /\ list[i].id \notin Ids(saved[r].blocks) /\ list[i].id \notin Ids(h[r].blocks)
           /\ list[i].id \notin Ids(h[r].listed)
  BY UnusedFacts DEF Sound, Stems
<1>3. DeclaredIn(r, list, saved[r].blocks) /\ DeclaredIn(r, list, h[r].blocks)
  BY <1>1, <1>2 DEF DeclaredIn
<1>4. Agrees(list, h[r].listed)
  <2>1. \A j \in DOMAIN h[r].listed : h[r].listed[j].id \in Ids(h[r].listed)
    BY DEF Ids
  <2> QED
    BY <1>1, <1>2, <2>1 DEF Agrees
<1> QED
  BY <1>3, <1>4

LEMMA NoHandlerFacts ==
  /\ NoHandler \in Handlers /\ Orderly(NoHandler) /\ ~Working(NoHandler) /\ NoHandler.old = {}
  /\ \A wish : Applying(NoHandler, wish)
  /\ \A r, list : Progress(r, list, NoHandler) /\ DeclaredIn(r, list, NoHandler.blocks)
  /\ \A list : Agrees(list, NoHandler.listed)
<1>1. <<>> \in Seq(Plans) /\ <<>> \in Seq(Held) /\ <<>> \in Seq(AnyId) /\ DOMAIN <<>> = {}
  OBVIOUS
<1>2. NoHandler \in Handlers
  BY <1>1 DEF NoHandler, Handlers
<1>3. Orderly(NoHandler) /\ ~Working(NoHandler) /\ NoHandler.old = {} /\ \A wish : Applying(NoHandler, wish)
  BY DEF NoHandler, Orderly, Working, Applying
<1>4. \A r, list : Progress(r, list, NoHandler)
  BY DEF NoHandler, Progress
<1>5. NoHandler.blocks = <<>> /\ NoHandler.listed = <<>>
  BY DEF NoHandler
<1>6. \A r, list : DeclaredIn(r, list, NoHandler.blocks) /\ Agrees(list, NoHandler.listed)
  BY <1>1, <1>5 DEF DeclaredIn, RulesIn, Ids, Agrees
<1> QED
  BY <1>2, <1>3, <1>4, <1>6

LEMMA RestingProgress == ASSUME NEW x, ~Working(x) PROVE \A r, list : Progress(r, list, x)
BY DEF Working, Progress

\* The handler of r, with the mutex or about to get it, becomes x; the state becomes s.
LEMMA StepKeeps ==
  ASSUME RoleIInv, NEW r \in Resources, NEW x \in Handlers, NEW s \in States,
         h' = [h EXCEPT ![r] = x], saved' = [saved EXCEPT ![r] = s], config' = config,
         told' \in [Resources -> {"none", "ok", "error"}], Sound(role'),
         lock \in {r, Nobody}, Working(x) => lock' = r, Undisturbed' => Undisturbed,
         Orderly(x), Applying(x, config[r]), DeclaredIn(r, role', s.blocks), DeclaredIn(r, role', x.blocks),
         x.old \subseteq Ids(s.blocks), Agrees(role', x.listed),
         Undisturbed' => Progress(r, role', x)
  PROVE  RoleIInv'
<1>1. h \in [Resources -> Handlers] /\ saved \in [Resources -> States]
  BY DEF RoleIInv, RoleTypes
<1>2. h'[r] = x /\ saved'[r] = s /\ \A q \in Resources : q # r => h'[q] = h[q] /\ saved'[q] = saved[q]
  BY <1>1
<1>3. role' \in Seq(Held) /\ Distinct(role')
  BY DEF Sound
<1>4. h' \in [Resources -> Handlers] /\ saved' \in [Resources -> States]
  BY <1>1
<1>5. RoleTypes'
  <2>1. /\ config \in [Resources -> [present : BOOLEAN, authoritative : BOOLEAN, blocks : Seq(PlainBlocks)]]
        /\ \A q \in Resources : config[q] \in Configurations(q)
    BY DEF RoleIInv, RoleTypes
  <2> QED
    BY <1>3, <1>4, <2>1 DEF RoleTypes
<1>6. ASSUME NEW q \in Resources
      PROVE  /\ Orderly(h'[q]) /\ Applying(h'[q], config'[q]) /\ (Working(h'[q]) => lock' = q)
             /\ DeclaredIn(q, role', saved'[q].blocks) /\ DeclaredIn(q, role', h'[q].blocks)
             /\ h'[q].old \subseteq Ids(saved'[q].blocks)
             /\ Agrees(role', h'[q].listed)
             /\ Undisturbed' => Progress(q, role', h'[q])
  <2>1. CASE q = r
    BY <1>2, <2>1
  <2>2. CASE q # r
    <3>1. h'[q] = h[q] /\ saved'[q] = saved[q] /\ config'[q] = config[q]
      BY <1>2, <2>2
    <3>2. /\ Orderly(h[q]) /\ Applying(h[q], config[q]) /\ (Working(h[q]) => lock = q)
          /\ h[q].old \subseteq Ids(saved[q].blocks)
      BY InvFacts
    <3>3. ~Working(h[q])
      BY <2>2, <3>2, RolePermissionAssumption
    <3>4. /\ DeclaredIn(q, role', saved[q].blocks) /\ DeclaredIn(q, role', h[q].blocks)
          /\ Agrees(role', h[q].listed)
      BY SoundKeeps
    <3> QED
      BY <3>1, <3>2, <3>3, <3>4, RestingProgress
  <2> QED
    BY <2>1, <2>2
<1> QED
  BY <1>3, <1>5, <1>6 DEF RoleIInv

\* The handler goes on.
LEMMA ContinueKeeps ==
  ASSUME RoleIInv, NEW r \in Resources, Working(h[r]), NEW x \in Handlers, Continue(r, x), config' = config,
         Sound(role'), Undisturbed' => Undisturbed, Orderly(x),
         x.op = h[r].op, x.blocks = h[r].blocks, x.authoritative = h[r].authoritative, x.old = h[r].old,
         Agrees(role', x.listed), Undisturbed' => Progress(r, role', x)
  PROVE  RoleIInv'
<1>1. h' = [h EXCEPT ![r] = x] /\ lock' = lock /\ saved' = saved /\ told' = told
  BY DEF Continue
<1>2. /\ saved \in [Resources -> States] /\ told \in [Resources -> {"none", "ok", "error"}]
  BY DEF RoleIInv, RoleTypes
<1>3. saved' = [saved EXCEPT ![r] = saved[r]]
  BY <1>1, <1>2
<1>4. lock = r /\ Applying(x, config[r]) /\ h[r].old \subseteq Ids(saved[r].blocks) /\ saved[r] \in States
  BY InvFacts DEF Applying
<1>5. DeclaredIn(r, role', saved[r].blocks) /\ DeclaredIn(r, role', x.blocks)
  BY SoundKeeps
<1> QED
  BY <1>1, <1>2, <1>3, <1>4, <1>5, StepKeeps

\* The handler returns.
LEMMA StopKeeps ==
  ASSUME RoleIInv, NEW r \in Resources, NEW s \in States, NEW result \in {"none", "ok", "error"},
         Stop(r, s, result), config' = config, lock \in {r, Nobody}, Sound(role'), Undisturbed' => Undisturbed,
         DeclaredIn(r, role', s.blocks)
  PROVE  RoleIInv' /\ told'[r] = result
<1>1. told \in [Resources -> {"none", "ok", "error"}]
  BY DEF RoleIInv, RoleTypes
<1>2. /\ h' = [h EXCEPT ![r] = NoHandler] /\ saved' = [saved EXCEPT ![r] = s]
      /\ told' = [told EXCEPT ![r] = result]
  BY DEF Stop
<1>3. told' \in [Resources -> {"none", "ok", "error"}] /\ told'[r] = result
  BY <1>1, <1>2
<1>4. /\ NoHandler \in Handlers /\ Orderly(NoHandler) /\ ~Working(NoHandler) /\ NoHandler.old = {}
      /\ Applying(NoHandler, config[r])
      /\ Progress(r, role', NoHandler) /\ DeclaredIn(r, role', NoHandler.blocks)
      /\ Agrees(role', NoHandler.listed)
  BY NoHandlerFacts
<1> QED
  BY <1>2, <1>3, <1>4, StepKeeps

LEMMA PlannedStateFacts ==
  ASSUME RoleIInv, NEW r \in Resources, NEW failed \in BOOLEAN
  PROVE  PlannedState(r, failed) \in States /\ PlannedState(r, failed).blocks = h[r].blocks
<1>1. h[r] \in Handlers
  BY InvFacts
<1>2. h[r].authoritative \in BOOLEAN /\ h[r].blocks \in Seq(Plans)
  BY <1>1 DEF Handlers
<1> QED
  BY <1>2 DEF PlannedState, States

LEMMA FailKeeps ==
  ASSUME RoleIInv, NEW r \in Resources, ReturnError(r), config' = config, lock \in {r, Nobody},
         Sound(role'), Undisturbed' => Undisturbed
  PROVE  RoleIInv' /\ told'[r] = "error"
<1>1. /\ DeclaredIn(r, role', saved[r].blocks) /\ DeclaredIn(r, role', h[r].blocks) /\ saved[r] \in States
  BY SoundKeeps, InvFacts
<1>2. CASE h[r].op = "destroy"
  <2>1. Stop(r, saved[r], "error")
    BY <1>2 DEF ReturnError
  <2> QED
    BY <1>1, <2>1, StopKeeps
<1>3. CASE h[r].op # "destroy"
  <2>1. Stop(r, PlannedState(r, TRUE), "error")
    BY <1>3 DEF ReturnError
  <2> QED
    BY <1>1, <2>1, StopKeeps, PlannedStateFacts
<1> QED
  BY <1>2, <1>3

LEMMA FaultFacts == \A k : (Fault(k) => (Undisturbed' => Undisturbed)) /\ (NoFault => (Undisturbed' <=> Undisturbed))
BY DEF Fault, NoFault, Undisturbed

\* What a step of the handler of r is to do.
Kept(r) ==
  /\ RoleIInv'
  /\ h[r].authoritative \/ Respects(r, role')
  /\ Undisturbed /\ told'[r] = "ok" /\ Returns(r) => h[r].op \in {"create", "update"} /\ Applied(role', h[r])

LEMMA CallKeeps ==
  ASSUME RoleIInv, NEW r \in Resources, Working(h[r]), NEW refused \in BOOLEAN, NEW result, NEW x \in Handlers,
         Call(r, refused, result, x), Orderly(x), x.op # "idle",
         x.op = h[r].op, x.blocks = h[r].blocks, x.authoritative = h[r].authoritative, x.old = h[r].old,
         ~refused => Sound(result) /\ Agrees(result, x.listed) /\ (h[r].authoritative \/ Respects(r, result)),
         ~refused /\ Undisturbed => Progress(r, result, x)
  PROVE  Kept(r)
<1>1. config' = config /\ lock = r /\ h \in [Resources -> Handlers]
  BY InvFacts DEF Call, Outside, RoleIInv, RoleTypes
<1>2. Sound(role) /\ Respects(r, role)
  BY InvRole, SameSound
<1>3. CASE ~refused /\ role' = result /\ Continue(r, x) /\ NoFault
  <2>1. /\ Undisturbed' => Undisturbed
        /\ Undisturbed' => Progress(r, role', x)
    BY <1>3, FaultFacts
  <2>2. RoleIInv'
    BY <1>1, <1>3, <2>1, ContinueKeeps
  <2>3. ~Returns(r)
    BY <1>1, <1>3 DEF Continue, Returns
  <2> QED
    BY <1>3, <2>2, <2>3 DEF Kept
<1>4. ASSUME ReturnError(r), Undisturbed' => Undisturbed, role' = role \/ (~refused /\ role' = result)
      PROVE  Kept(r)
  <2>1. Sound(role') /\ (h[r].authoritative \/ Respects(r, role'))
    BY <1>2, <1>4
  <2>2. RoleIInv' /\ told'[r] = "error"
    BY <1>1, <1>4, <2>1, FailKeeps
  <2> QED
    BY <2>1, <2>2 DEF Kept
<1> QED
  BY <1>3, <1>4, FaultFacts DEF Call

LEMMA LocalKeeps ==
  ASSUME RoleIInv, NEW r \in Resources, Working(h[r]), NEW x \in Handlers, Local(r, x), Orderly(x), x.op # "idle",
         x.op = h[r].op, x.blocks = h[r].blocks, x.authoritative = h[r].authoritative, x.old = h[r].old,
         Agrees(role, x.listed), Undisturbed => Progress(r, role, x)
  PROVE  Kept(r)
<1>1. /\ config' = config /\ role' = role /\ Continue(r, x) /\ (Undisturbed' => Undisturbed)
      /\ h \in [Resources -> Handlers]
  BY FaultFacts DEF Local, Outside, RoleIInv, RoleTypes
<1>2. Sound(role') /\ Respects(r, role')
  BY <1>1, InvRole, SameSound
<1>3. RoleIInv'
  BY <1>1, <1>2, ContinueKeeps
<1>4. ~Returns(r)
  BY <1>1 DEF Continue, Returns
<1> QED
  BY <1>2, <1>3, <1>4 DEF Kept

LEMMA InFacts ==
  ASSUME RoleIInv, NEW r \in Resources, NEW phase \in {"blocks", "recreate", "order", "read", "drop"}, In(r, phase)
  PROVE  Working(h[r]) /\ h[r].phase = phase /\ h[r].op # "idle" /\ lock = r
BY InvFacts DEF In, Idle, Working

LEMMA HandlerTypes ==
  ASSUME RoleIInv, NEW r \in Resources
  PROVE  /\ h[r].blocks \in Seq(Plans) /\ h[r].listed \in Seq(Held) /\ h[r].managed \in Seq(AnyId)
         /\ h[r].used \subseteq AnyId /\ h[r].deleted \subseteq AnyId /\ h[r].old \subseteq AnyId
         /\ h[r].authoritative \in BOOLEAN
         /\ Len(h[r].managed) \in Nat /\ DOMAIN h[r].managed = 1..Len(h[r].managed)
         /\ Len(h[r].blocks) \in Nat /\ DOMAIN h[r].blocks = 1..Len(h[r].blocks)
         /\ \A i \in DOMAIN h[r].listed : h[r].listed[i] \in Held
<1>1. h[r] \in Handlers
  BY InvFacts
<1>2. h[r].blocks \in Seq(Plans) /\ h[r].listed \in Seq(Held) /\ h[r].managed \in Seq(AnyId)
  BY <1>1 DEF Handlers
<1> QED
  BY <1>1, <1>2, ListFacts DEF Handlers

LEMMA BlockFacts ==
  ASSUME RoleIInv, NEW r \in Resources, Len(h[r].managed) < Len(h[r].blocks)
  PROVE  /\ Len(h[r].managed) + 1 \in DOMAIN h[r].blocks
         /\ Block(r) \in Plans /\ Block(r).id \in AnyId /\ Block(r).rule \in Rules /\ Block(r).permission \in Permissions
         /\ Block(r).rule \in RulesOf(r) /\ MayTouch(r, Block(r).id)
<1>1. Len(h[r].managed) + 1 \in DOMAIN h[r].blocks /\ \A i \in DOMAIN h[r].blocks : h[r].blocks[i] \in Plans
  BY HandlerTypes, ListFacts
<1>2. Block(r) \in Plans
  BY <1>1 DEF Block
<1>3. DeclaredIn(r, role, h[r].blocks)
  BY InvFacts
<1>4. Block(r).rule \in RulesIn(h[r].blocks) /\ Block(r).id \in Ids(h[r].blocks)
  BY <1>1 DEF Block, RulesIn, Ids
<1>5. Block(r).rule \in RulesOf(r) /\ MayTouch(r, Block(r).id)
  BY <1>3, <1>4 DEF DeclaredIn, MayTouch
<1> QED
  BY <1>1, <1>2, <1>5 DEF Plans

\* While it brings the blocks about.
LEMMA BlocksProgress ==
  ASSUME RoleIInv, NEW r \in Resources, h[r].phase \in {"blocks", "recreate"}, Undisturbed
  PROVE  Untouched(role, h[r]) /\ Covered(role, h[r]) /\ Done(r, role, h[r])
BY InvFacts DEF Progress

\* After a deletion.
LEMMA DropProgress ==
  ASSUME RoleIInv, NEW r \in Resources, h[r].phase \in {"blocks", "recreate"}, Undisturbed, NEW id, NEW x,
         x.listed = h[r].listed, x.managed = h[r].managed, x.blocks = h[r].blocks,
         x.deleted = h[r].deleted \cup {id},
         x.phase \in {"blocks", "recreate"}
  PROVE  Progress(r, Dropped(role, id), x)
<1> DEFINE list == Dropped(role, id)
<1>1. \A n \in DOMAIN list : \E i \in DOMAIN role : list[n] = role[i] /\ role[i].id # id
  BY InvRole, DroppedFacts
<1>2. Untouched(role, h[r]) /\ Covered(role, h[r]) /\ Done(r, role, h[r])
  BY BlocksProgress
<1> HIDE DEF list
<1>3. Untouched(list, x)
  BY <1>1, <1>2 DEF Untouched
<1>4. Covered(list, x)
  <2>1. \A n \in DOMAIN list : list[n].id \in Ids(role) /\ list[n].id # id
    BY <1>1 DEF Ids
  <2>2. \A e \in Ids(list) : e \in Ids(role) /\ e # id
    BY <2>1 DEF Ids
  <2> QED
    BY <1>2, <2>2 DEF Covered
<1>5. Done(r, list, x)
  <2>1. \A n \in DOMAIN x.managed : Alone(x, n) => Alone(h[r], n)
    BY DEF Alone
  <2>2. /\ Len(x.managed) <= Len(x.blocks)
        /\ \A i \in DOMAIN role : role[i].id \in ToSet(x.managed) => role[i].rule \in RulesOf(r)
        /\ \A n \in DOMAIN x.managed : Alone(x, n) =>
             \A i \in DOMAIN role : role[i].id = x.managed[n] => IsBlock(role[i], x.blocks[n])
    BY <1>2, <2>1 DEF Done
  <2>3. \A i \in DOMAIN list : list[i].id \in ToSet(x.managed) => list[i].rule \in RulesOf(r)
    BY <1>1, <2>2
  <2>4. ASSUME NEW n \in DOMAIN x.managed, Alone(x, n), NEW i \in DOMAIN list, list[i].id = x.managed[n]
        PROVE  IsBlock(list[i], x.blocks[n])
    BY <1>1, <2>2, <2>4
  <2> QED
    BY <2>2, <2>3, <2>4 DEF Done
<1> QED
  BY <1>3, <1>4, <1>5 DEF Progress, list

\* The next block is given the permission with that id.
LEMMA ManageFacts ==
  ASSUME RoleIInv, NEW r \in Resources, Len(h[r].managed) < Len(h[r].blocks), Working(h[r]), h[r].phase # "drop",
         NEW id \in AnyId
  PROVE  LET x == Manage(r, id) IN
         /\ x \in Handlers /\ Orderly(x) /\ x.op = h[r].op /\ x.op # "idle" /\ x.blocks = h[r].blocks
         /\ x.authoritative = h[r].authoritative /\ x.old = h[r].old /\ x.listed = h[r].listed
         /\ x.phase = "blocks" /\ x.deleted = h[r].deleted
         /\ Len(x.managed) <= Len(x.blocks)
         /\ DOMAIN x.managed = 1..(Len(h[r].managed) + 1)
         /\ \A n \in DOMAIN h[r].managed : x.managed[n] = h[r].managed[n]
         /\ x.managed[Len(h[r].managed) + 1] = id
         /\ ToSet(x.managed) = Managed(r) \cup {id}
         /\ \A n \in DOMAIN h[r].managed : Alone(x, n) => Alone(h[r], n) /\ h[r].managed[n] # id
         /\ Alone(x, Len(h[r].managed) + 1) => id \notin Managed(r)
<1> DEFINE x == Manage(r, id)
           managed == h[r].managed
           m == Len(managed)
<1>1. h[r] \in Handlers /\ Orderly(h[r])
  BY InvFacts
<1>2. /\ managed \in Seq(AnyId) /\ m \in Nat /\ DOMAIN managed = 1..m /\ Len(h[r].blocks) \in Nat
      /\ m < Len(h[r].blocks)
  BY HandlerTypes
<1>3. x = [h[r] EXCEPT !.phase = "blocks", !.managed = Append(@, id), !.used = @ \cup {id}]
  BY DEF Manage
<1> HIDE DEF managed, m
<1>4. /\ Append(managed, id) \in Seq(AnyId) /\ Len(Append(managed, id)) = m + 1
      /\ DOMAIN Append(managed, id) = 1..(m + 1)
      /\ \A i \in 1..m : Append(managed, id)[i] = managed[i]
      /\ Append(managed, id)[m + 1] = id
      /\ ToSet(Append(managed, id)) = ToSet(managed) \cup {id}
  BY <1>2, AppendFacts DEF m
<1>5. /\ x \in Handlers /\ x.op = h[r].op /\ x.blocks = h[r].blocks
      /\ x.authoritative = h[r].authoritative /\ x.old = h[r].old /\ x.listed = h[r].listed
      /\ x.phase = "blocks" /\ x.deleted = h[r].deleted /\ x.managed = Append(managed, id)
  <2> DEFINE used == h[r].used \cup {id}
             after == Append(managed, id)
  <2>1. used \in SUBSET AnyId /\ after \in Seq(AnyId)
    BY <1>4, HandlerTypes
  <2>2. x = [h[r] EXCEPT !.phase = "blocks", !.managed = after, !.used = used]
    BY <1>3 DEF managed
  <2> HIDE DEF used, after, x
  <2>3. /\ x \in Handlers /\ x.op = h[r].op /\ x.blocks = h[r].blocks
        /\ x.authoritative = h[r].authoritative /\ x.old = h[r].old /\ x.listed = h[r].listed
        /\ x.phase = "blocks" /\ x.deleted = h[r].deleted /\ x.managed = after
    BY <1>1, <2>1, <2>2 DEF Handlers
  <2> QED
    BY <2>3 DEF after
<1> HIDE DEF x
<1>6. h[r].op \in {"create", "update"}
  BY <1>1 DEF Orderly, Working, Handlers
<1>7. Orderly(x) /\ x.op # "idle"
  BY <1>5, <1>6 DEF Orderly
<1>8. Len(x.managed) <= Len(x.blocks)
  BY <1>2, <1>4, <1>5
<1>9. ASSUME NEW n \in DOMAIN managed, Alone(x, n) PROVE Alone(h[r], n) /\ managed[n] # id
  <2>1. \A k \in DOMAIN managed : k \in DOMAIN x.managed /\ x.managed[k] = managed[k]
    BY <1>2, <1>4, <1>5
  <2>2. Alone(h[r], n)
    BY <1>9, <2>1 DEF Alone, managed
  <2>3. m + 1 \in DOMAIN x.managed /\ x.managed[m + 1] = id /\ m + 1 # n
    BY <1>2, <1>4, <1>5
  <2>4. managed[n] # id
    BY <1>9, <2>1, <2>3 DEF Alone
  <2> QED
    BY <2>2, <2>4
<1>10. ASSUME Alone(x, m + 1) PROVE id \notin ToSet(managed)
  <2>1. \A k \in DOMAIN managed : k \in DOMAIN x.managed /\ x.managed[k] = managed[k] /\ k # m + 1
    BY <1>2, <1>4, <1>5
  <2> QED
    BY <1>4, <1>5, <1>10, <2>1 DEF Alone, ToSet
<1>11. ToSet(x.managed) = Managed(r) \cup {id} /\ Managed(r) = ToSet(managed)
  BY <1>4, <1>5 DEF Managed, managed
<1>12. \A n \in DOMAIN managed : x.managed[n] = managed[n]
  BY <1>2, <1>4, <1>5
<1> QED
  BY <1>4, <1>5, <1>7, <1>8, <1>9, <1>10, <1>11, <1>12 DEF x, managed, m

-----------------------------------------------------------------------------
(* Reconcile, block by block.                                              *)

LEMMA DeleteMismatchedKeeps ==
  ASSUME RoleIInv, NEW r \in Resources, DeleteMismatched(r)
  PROVE  Kept(r)
<1> DEFINE id == Block(r).id
           list == Dropped(role, id)
           x == [h[r] EXCEPT !.phase = "recreate", !.used = @ \cup {id}, !.deleted = @ \cup {id}]
<1>1. /\ In(r, "blocks") /\ Len(h[r].managed) < Len(h[r].blocks)
      /\ Call(r, id \notin Ids(role), list, x)
  BY DEF DeleteMismatched, AtBlock
<1>2. Working(h[r]) /\ h[r].phase = "blocks" /\ h[r].op # "idle" /\ h[r] \in Handlers /\ Orderly(h[r])
  BY <1>1, InFacts, InvFacts
<1>3. id \in AnyId /\ MayTouch(r, id) /\ h[r].used \cup {id} \in SUBSET AnyId /\ h[r].deleted \cup {id} \in SUBSET AnyId
  BY <1>1, BlockFacts, HandlerTypes
<1>4. Sound(list) /\ Respects(r, list)
  BY <1>3, InvRole, DroppedFacts
<1> HIDE DEF id, list
<1>5. /\ x \in Handlers /\ x.op = h[r].op /\ x.blocks = h[r].blocks /\ x.phase = "recreate"
      /\ x.authoritative = h[r].authoritative /\ x.old = h[r].old /\ x.listed = h[r].listed
      /\ x.managed = h[r].managed /\ x.deleted = h[r].deleted \cup {id}
  BY <1>2, <1>3 DEF Handlers
<1> HIDE DEF x
<1>6. Orderly(x)
  BY <1>1, <1>2, <1>5 DEF Orderly
<1>7. Agrees(list, x.listed)
  BY <1>4, <1>5, SoundKeeps
<1>8. Undisturbed => Progress(r, list, x)
  BY <1>1, <1>2, <1>5, DropProgress DEF list
<1> QED
  BY <1>1, <1>2, <1>4, <1>5, <1>6, <1>7, <1>8, CallKeeps

\* The block after the last one done, as Manage counts.
LEMMA NewBlock == \A r : Block(r) = h[r].blocks[Len(h[r].managed) + 1]
BY DEF Block

LEMMA CreateProgress ==
  ASSUME RoleIInv, NEW r \in Resources, Unused # {}, Working(h[r]), h[r].phase \in {"blocks", "recreate"},
         Len(h[r].managed) < Len(h[r].blocks), Undisturbed
  PROVE  Progress(r, Added(Block(r)), Manage(r, NewId))
<1> DEFINE list == Added(Block(r))
           x == Manage(r, NewId)
           m == Len(h[r].managed)
           last == Len(role) + 1
<1>1. /\ Block(r) \in Plans /\ Block(r).rule \in Rules /\ Block(r).permission \in Permissions
      /\ Block(r).rule \in RulesOf(r)
  BY BlockFacts
<1>2. NewId \in Unused /\ NewId \in AnyId /\ NewId \notin Ids(role) /\ NewId \notin Ids(h[r].listed)
  BY NewIdFacts, UnusedFacts DEF AnyId
<1>3. /\ x.blocks = h[r].blocks /\ x.listed = h[r].listed /\ x.deleted = h[r].deleted /\ x.phase = "blocks"
      /\ Len(x.managed) <= Len(x.blocks)
      /\ DOMAIN x.managed = 1..(m + 1)
      /\ \A n \in DOMAIN h[r].managed : x.managed[n] = h[r].managed[n]
      /\ x.managed[m + 1] = NewId
      /\ ToSet(x.managed) = Managed(r) \cup {NewId}
      /\ \A n \in DOMAIN h[r].managed : Alone(x, n) => Alone(h[r], n) /\ h[r].managed[n] # NewId
  BY <1>2, ManageFacts
<1>4. /\ DOMAIN list = 1..(Len(role) + 1)
      /\ \A i \in DOMAIN role : list[i] = role[i]
      /\ list[Len(role) + 1] = [id |-> NewId, rule |-> Block(r).rule, permission |-> Block(r).permission]
  BY <1>1, InvRole, AddedFacts
<1>5. Len(role) \in Nat /\ DOMAIN role = 1..Len(role) /\ m \in Nat /\ DOMAIN h[r].managed = 1..m
  BY HandlerTypes, ListFacts, InvRole DEF RoleOK
<1>6. /\ list[last].id = NewId /\ list[last].rule = Block(r).rule /\ list[last].permission = Block(r).permission
      /\ \A i \in DOMAIN list : (i \in DOMAIN role /\ list[i] = role[i]) \/ i = last
  BY <1>4, <1>5
<1>7. Untouched(role, h[r]) /\ Covered(role, h[r]) /\ Done(r, role, h[r])
  BY BlocksProgress
<1>8. Managed(r) = ToSet(h[r].managed) /\ Block(r) = h[r].blocks[m + 1]
  BY NewBlock DEF Managed
<1>9. \A i \in DOMAIN role : role[i].id # NewId
  BY <1>2 DEF Ids
<1> HIDE DEF list, x, m, last
<1>10. Untouched(list, x)
  BY <1>3, <1>6, <1>7, <1>8 DEF Untouched
<1>11. Covered(list, x)
  <2>1. \A e \in Ids(list) : e \in Ids(role) \/ e = NewId
    BY <1>6 DEF Ids
  <2> QED
    BY <1>3, <1>7, <1>8, <2>1 DEF Covered
<1>12. Done(r, list, x)
  <2>1. ASSUME NEW i \in DOMAIN list, list[i].id \in ToSet(x.managed) PROVE list[i].rule \in RulesOf(r)
    BY <1>1, <1>3, <1>6, <1>7, <1>8, <1>9, <2>1 DEF Done
  <2>2. ASSUME NEW n \in DOMAIN x.managed, Alone(x, n), NEW i \in DOMAIN list, list[i].id = x.managed[n]
        PROVE  IsBlock(list[i], x.blocks[n])
    <3>1. n \in DOMAIN h[r].managed \/ n = m + 1
      BY <1>3, <1>5
    <3>2. CASE n \in DOMAIN h[r].managed
      <4>1. Alone(h[r], n) /\ x.managed[n] = h[r].managed[n] /\ h[r].managed[n] # NewId
        BY <1>3, <2>2, <3>2
      <4>2. i \in DOMAIN role /\ list[i] = role[i]
        BY <1>6, <2>2, <4>1
      <4> QED
        BY <1>3, <1>7, <2>2, <3>2, <4>1, <4>2 DEF Done
    <3>3. CASE n = m + 1
      <4>1. i = last
        BY <1>3, <1>6, <1>9, <2>2, <3>3
      <4> QED
        BY <1>3, <1>6, <1>8, <3>3, <4>1 DEF IsBlock
    <3> QED
      BY <3>1, <3>2, <3>3
  <2> QED
    BY <1>3, <2>1, <2>2 DEF Done
<1> QED
  BY <1>3, <1>10, <1>11, <1>12 DEF Progress, list, x

LEMMA CreatePermissionKeeps ==
  ASSUME RoleIInv, NEW r \in Resources, CreatePermission(r)
  PROVE  Kept(r)
<1> DEFINE list == Added(Block(r))
           x == Manage(r, NewId)
           taken == Block(r).rule \in RulesIn(role)
<1>1. /\ Unused # {} /\ (In(r, "blocks") \/ In(r, "recreate"))
      /\ In(r, "blocks") => Len(h[r].managed) < Len(h[r].blocks)
      /\ Call(r, taken, list, x)
  BY DEF CreatePermission, AtBlock, In
<1>2. /\ Working(h[r]) /\ h[r].phase \in {"blocks", "recreate"} /\ Len(h[r].managed) < Len(h[r].blocks)
  BY <1>1, InFacts, InvFacts DEF Orderly
<1>3. NewId \in AnyId
  BY <1>1, NewIdFacts DEF AnyId
<1>4. Sound(list) /\ Respects(r, list)
  BY <1>1, <1>2, BlockFacts, InvRole, AddedFacts
<1>5. Undisturbed => Progress(r, list, x)
  BY <1>1, <1>2, CreateProgress
<1>6. /\ x \in Handlers /\ Orderly(x) /\ x.op # "idle" /\ x.op = h[r].op /\ x.blocks = h[r].blocks
      /\ x.authoritative = h[r].authoritative /\ x.old = h[r].old /\ x.listed = h[r].listed
  BY <1>2, <1>3, ManageFacts
<1>7. taken \in BOOLEAN
  OBVIOUS
<1> HIDE DEF list, x, taken
<1>8. Agrees(list, x.listed)
  BY <1>4, <1>6, SoundKeeps
<1> QED
  BY <1>1, <1>2, <1>4, <1>5, <1>6, <1>7, <1>8, CallKeeps

\* The permission a block is to become is listed, and has its rule.
LEMMA ChosenFacts ==
  ASSUME RoleIInv, NEW r \in Resources, Matched(r) \/ (Listed(r, Block(r).id) /\ ~Mismatched(r)),
         Len(h[r].managed) < Len(h[r].blocks)
  PROVE  \E j \in DOMAIN h[r].listed :
           /\ Chosen(r) = h[r].listed[j] /\ Chosen(r).rule = Block(r).rule /\ Chosen(r).id \in AnyId
           /\ MayTouch(r, Chosen(r).id)
           /\ \A i \in DOMAIN role : role[i].id = Chosen(r).id => role[i].rule = Block(r).rule
<1>1. \E j \in DOMAIN h[r].listed : Chosen(r) = h[r].listed[j] /\ Chosen(r).rule = Block(r).rule
  <2>1. CASE Listed(r, Block(r).id) /\ ~Mismatched(r)
    BY <2>1, ByIdFacts DEF Chosen, Listed, Mismatched
  <2>2. CASE ~(Listed(r, Block(r).id) /\ ~Mismatched(r))
    <3>1. h[r].listed \in Seq(Held) /\ HasMatch(h[r].listed, Block(r).rule, h[r].used)
      BY <2>2, HandlerTypes DEF Matched
    <3>2. PICK j \in DOMAIN h[r].listed :
            /\ FindMatching(h[r].listed, Block(r).rule, h[r].used) = h[r].listed[j]
            /\ h[r].listed[j].rule = Block(r).rule
      BY <3>1, FindFacts
    <3> QED
      BY <2>2, <3>2 DEF Chosen
  <2> QED
    BY <2>1, <2>2
<1>2. PICK j \in DOMAIN h[r].listed : Chosen(r) = h[r].listed[j] /\ Chosen(r).rule = Block(r).rule
  BY <1>1
<1>3. Agrees(role, h[r].listed) /\ h[r].listed[j] \in Held
  BY InvFacts, HandlerTypes
<1>4. \A i \in DOMAIN role : role[i].id = Chosen(r).id => role[i].rule = Block(r).rule
  BY <1>2, <1>3 DEF Agrees
<1>5. MayTouch(r, Chosen(r).id)
  BY <1>4, BlockFacts DEF MayTouch
<1>6. Chosen(r).id \in AnyId
  BY <1>2, <1>3 DEF Held, AnyId
<1> QED
  BY <1>2, <1>4, <1>5, <1>6

\* Its permission is right, or was put right.
LEMMA KeepProgress ==
  ASSUME RoleIInv, NEW r \in Resources, Working(h[r]), h[r].phase \in {"blocks", "recreate"},
         Len(h[r].managed) < Len(h[r].blocks), Undisturbed, NEW id \in AnyId, NEW list,
         DOMAIN list = DOMAIN role, MayTouch(r, id),
         \A i \in DOMAIN role :
           /\ list[i].id = role[i].id /\ list[i].rule = role[i].rule
           /\ role[i].id # id => list[i] = role[i]
           /\ role[i].id = id /\ id \notin Managed(r) => IsBlock(list[i], Block(r))
  PROVE  Progress(r, list, Manage(r, id))
<1> DEFINE x == Manage(r, id)
           m == Len(h[r].managed)
<1>1. /\ x.blocks = h[r].blocks /\ x.listed = h[r].listed /\ x.deleted = h[r].deleted /\ x.phase = "blocks"
      /\ Len(x.managed) <= Len(x.blocks)
      /\ DOMAIN x.managed = 1..(m + 1)
      /\ \A n \in DOMAIN h[r].managed : x.managed[n] = h[r].managed[n]
      /\ x.managed[m + 1] = id
      /\ ToSet(x.managed) = Managed(r) \cup {id}
      /\ \A n \in DOMAIN h[r].managed : Alone(x, n) => Alone(h[r], n) /\ h[r].managed[n] # id
      /\ Alone(x, m + 1) => id \notin Managed(r)
  BY ManageFacts
<1>2. m \in Nat /\ DOMAIN h[r].managed = 1..m
  BY HandlerTypes
<1>3. Untouched(role, h[r]) /\ Covered(role, h[r]) /\ Done(r, role, h[r])
  BY BlocksProgress
<1>4. Managed(r) = ToSet(h[r].managed) /\ Block(r) = h[r].blocks[m + 1]
  BY NewBlock DEF Managed
<1> HIDE DEF x, m
<1>5. Untouched(list, x)
  <2>1. ASSUME NEW i \in DOMAIN role, list[i].id \notin ToSet(x.managed) PROVE list[i] = role[i] /\ role[i].id \notin ToSet(h[r].managed)
    BY <1>1, <1>4, <2>1
  <2> QED
    BY <1>1, <1>3, <2>1 DEF Untouched
<1>6. Covered(list, x)
  <2>1. \A e \in Ids(list) : e \in Ids(role)
    BY DEF Ids
  <2> QED
    BY <1>1, <1>3, <1>4, <2>1 DEF Covered
<1>7. Done(r, list, x)
  <2>1. ASSUME NEW i \in DOMAIN role, list[i].id \in ToSet(x.managed) PROVE list[i].rule \in RulesOf(r)
    BY <1>1, <1>3, <1>4, <2>1 DEF Done, MayTouch
  <2>2. ASSUME NEW n \in DOMAIN x.managed, Alone(x, n), NEW i \in DOMAIN role, list[i].id = x.managed[n]
        PROVE  IsBlock(list[i], x.blocks[n])
    <3>1. n \in DOMAIN h[r].managed \/ n = m + 1
      BY <1>1, <1>2
    <3>2. CASE n \in DOMAIN h[r].managed
      <4>1. Alone(h[r], n) /\ x.managed[n] = h[r].managed[n] /\ h[r].managed[n] # id
        BY <1>1, <2>2, <3>2
      <4>2. list[i] = role[i]
        BY <2>2, <4>1
      <4> QED
        BY <1>1, <1>3, <2>2, <3>2, <4>1, <4>2 DEF Done
    <3>3. CASE n = m + 1
      BY <1>1, <1>4, <2>2, <3>3
    <3> QED
      BY <3>1, <3>2, <3>3
  <2> QED
    BY <1>1, <2>1, <2>2 DEF Done
<1> QED
  BY <1>1, <1>5, <1>6, <1>7 DEF Progress, x

LEMMA KeepPermissionKeeps ==
  ASSUME RoleIInv, NEW r \in Resources, KeepPermission(r)
  PROVE  Kept(r)
<1> DEFINE id == Chosen(r).id
           x == Manage(r, id)
           gone == id \notin Ids(role)
           list == Permitting(role, id, Block(r).permission)
<1>1. /\ In(r, "blocks") /\ Len(h[r].managed) < Len(h[r].blocks)
      /\ Matched(r) \/ (Listed(r, Block(r).id) /\ ~Mismatched(r))
      /\ \/ Chosen(r).permission = Block(r).permission /\ Local(r, x)
         \/ Call(r, gone, list, x)
  BY DEF KeepPermission, AtBlock
<1>2. Working(h[r]) /\ h[r].phase = "blocks" /\ RoleOK /\ Agrees(role, h[r].listed) /\ Block(r).permission \in Permissions
  BY <1>1, InFacts, InvFacts, InvRole, BlockFacts
<1>3. PICK j \in DOMAIN h[r].listed :
        /\ Chosen(r) = h[r].listed[j] /\ Chosen(r).rule = Block(r).rule /\ Chosen(r).id \in AnyId
        /\ MayTouch(r, Chosen(r).id)
        /\ \A i \in DOMAIN role : role[i].id = Chosen(r).id => role[i].rule = Block(r).rule
  BY <1>1, ChosenFacts
<1>4. id \in AnyId /\ MayTouch(r, id)
  BY <1>3
<1>5. /\ x \in Handlers /\ Orderly(x) /\ x.op # "idle" /\ x.op = h[r].op /\ x.blocks = h[r].blocks
      /\ x.authoritative = h[r].authoritative /\ x.old = h[r].old /\ x.listed = h[r].listed
  BY <1>1, <1>2, <1>4, ManageFacts
<1>6. gone \in BOOLEAN
  OBVIOUS
<1>7. CASE Chosen(r).permission = Block(r).permission /\ Local(r, x)
  <2>1. ASSUME Undisturbed PROVE Progress(r, role, x)
    <3>1. Untouched(role, h[r])
      BY <1>2, <2>1, BlocksProgress
    <3>2. ASSUME NEW i \in DOMAIN role, role[i].id = id, id \notin Managed(r) PROVE IsBlock(role[i], Block(r))
      <4>1. role[i] = h[r].listed[j]
        BY <1>3, <3>1, <3>2 DEF Untouched, Managed
      <4> QED
        BY <1>3, <1>7, <4>1 DEF IsBlock
    <3> HIDE DEF id, x
    <3> QED
      BY <1>1, <1>2, <1>4, <2>1, <3>2, KeepProgress DEF x
  <2> HIDE DEF x
  <2> QED
    BY <1>2, <1>5, <1>7, <2>1, LocalKeeps
<1>8. CASE Call(r, gone, list, x)
  <2>1. /\ Sound(list) /\ DOMAIN list = DOMAIN role
        /\ \A i \in DOMAIN role :
             /\ list[i].id = role[i].id /\ list[i].rule = role[i].rule
             /\ role[i].id = id => list[i].permission = Block(r).permission
             /\ role[i].id # id => list[i] = role[i]
        /\ Respects(r, list)
    BY <1>2, <1>4, PermittingFacts
  <2>2. \A i \in DOMAIN role : role[i].id = id => IsBlock(list[i], Block(r))
    BY <1>3, <2>1 DEF IsBlock
  <2> HIDE DEF id, list
  <2>3. Undisturbed => Progress(r, list, x)
    BY <1>1, <1>2, <1>4, <2>1, <2>2, KeepProgress
  <2> HIDE DEF x, gone
  <2>4. Agrees(list, x.listed)
    BY <1>5, <2>1, SoundKeeps
  <2> QED
    BY <1>2, <1>5, <1>6, <1>8, <2>1, <2>3, <2>4, CallKeeps
<1> QED
  BY <1>1, <1>7, <1>8

-----------------------------------------------------------------------------
(* Reconcile, after the blocks.                                            *)

LEMMA DeleteLeftoverKeeps ==
  ASSUME RoleIInv, NEW r \in Resources, DeleteLeftover(r)
  PROVE  Kept(r)
<1>1. PICK i \in DOMAIN h[r].listed :
        LET id == h[r].listed[i].id IN
        /\ id \in Leftover(r)
        /\ Call(r, id \notin Ids(role), Dropped(role, id), [h[r] EXCEPT !.deleted = @ \cup {id}])
  BY DEF DeleteLeftover
<1> DEFINE id == h[r].listed[i].id
           list == Dropped(role, id)
           x == [h[r] EXCEPT !.deleted = @ \cup {id}]
           gone == id \notin Ids(role)
<1>2. id \in Leftover(r) /\ Call(r, gone, list, x)
  BY <1>1
<1>3. /\ Working(h[r]) /\ h[r].phase = "blocks" /\ h[r].op # "idle" /\ h[r] \in Handlers /\ Orderly(h[r])
      /\ RoleOK /\ gone \in BOOLEAN
  BY InFacts, InvFacts, InvRole DEF DeleteLeftover, BlocksDone
<1>4. h[r].deleted \cup {id} \in SUBSET AnyId
  <2>1. h[r].listed[i] \in Held /\ h[r].deleted \subseteq AnyId
    BY HandlerTypes
  <2> QED
    BY <2>1 DEF Held, AnyId
<1>5. h[r].authoritative \/ MayTouch(r, id)
  <2>1. ASSUME ~h[r].authoritative PROVE id \in Ids(saved[r].blocks)
    BY <1>2, <2>1, InvFacts DEF Leftover
  <2>2. DeclaredIn(r, role, saved[r].blocks)
    BY InvFacts
  <2> QED
    BY <2>1, <2>2 DEF DeclaredIn, MayTouch
<1> HIDE DEF id, gone
<1>6. Sound(list) /\ (h[r].authoritative \/ Respects(r, list))
  BY <1>3, <1>5, DroppedFacts
<1>7. /\ x \in Handlers /\ x.op = h[r].op /\ x.blocks = h[r].blocks /\ x.phase = "blocks"
      /\ x.authoritative = h[r].authoritative /\ x.old = h[r].old /\ x.listed = h[r].listed
      /\ x.managed = h[r].managed /\ x.deleted = h[r].deleted \cup {id}
  BY <1>3, <1>4 DEF Handlers
<1> HIDE DEF x
<1>8. Orderly(x)
  BY <1>3, <1>7 DEF Orderly
<1>9. Agrees(list, x.listed)
  BY <1>6, <1>7, SoundKeeps
<1>10. Undisturbed => Progress(r, list, x)
  BY <1>3, <1>7, DropProgress
<1> HIDE DEF list
<1> QED
  BY <1>2, <1>3, <1>6, <1>7, <1>8, <1>9, <1>10, CallKeeps

LEMMA ListAgainKeeps ==
  ASSUME RoleIInv, NEW r \in Resources, ListAgain(r)
  PROVE  Kept(r)
<1> DEFINE x == [h[r] EXCEPT !.phase = "order", !.listed = role]
<1>1. /\ In(r, "blocks") /\ Len(h[r].managed) = Len(h[r].blocks) /\ Leftover(r) = {}
      /\ Call(r, FALSE, role, x)
  BY DEF ListAgain, BlocksDone
<1>2. /\ Working(h[r]) /\ h[r].phase = "blocks" /\ h[r].op # "idle" /\ h[r] \in Handlers /\ Orderly(h[r])
      /\ RoleOK /\ role \in Seq(Held)
  BY <1>1, InFacts, InvFacts, InvRole DEF RoleOK
<1>3. /\ x \in Handlers /\ x.op = h[r].op /\ x.blocks = h[r].blocks /\ x.phase = "order"
      /\ x.authoritative = h[r].authoritative /\ x.old = h[r].old /\ x.listed = role
      /\ x.managed = h[r].managed
  BY <1>2 DEF Handlers
<1> HIDE DEF x
<1>4. Orderly(x)
  BY <1>2, <1>3 DEF Orderly
<1>5. Agrees(role, x.listed)
  BY <1>2, <1>3 DEF Agrees, RoleOK, Distinct
<1>6. Sound(role) /\ Respects(r, role)
  BY <1>2, SameSound
<1>7. ASSUME Undisturbed PROVE Progress(r, role, x)
  <2>1. Covered(role, h[r]) /\ Done(r, role, h[r])
    BY <1>2, <1>7, BlocksProgress
  <2>2. Done(r, role, x)
    BY <1>3, <2>1 DEF Done, Alone
  <2>3. x.authoritative => Ids(role) \subseteq ToSet(x.managed)
    BY <1>1, <1>3, <2>1 DEF Leftover, Covered, Managed
  <2>4. Listing(role, x)
    BY <1>1, <1>3, <2>3 DEF Listing
  <2> QED
    BY <1>3, <2>2, <2>4 DEF Progress
<1> QED
  BY <1>1, <1>2, <1>3, <1>4, <1>5, <1>6, <1>7, CallKeeps

\* The accepted order brings the blocks to the front, and nothing else remains when the
\* handler has authority.
LEMMA OrderApplies ==
  ASSUME RoleIInv, NEW r \in Resources, h[r].phase = "order", Undisturbed, ~OrderRefused(RuleOrder(r))
  PROVE  Applied(InTheOrder(RuleOrder(r)), h[r])
<1> DEFINE order == RuleOrder(r)
           list == InTheOrder(order)
           m == Len(h[r].managed)
           left == Without(h[r].listed, Managed(r))
<1>1. Listing(role, h[r]) /\ Done(r, role, h[r]) /\ h[r] \in Handlers /\ RoleOK
  BY InvFacts, InvRole DEF Progress
<1>2. /\ order \in Seq(AnyId) /\ left \in Seq(Held) /\ m \in Nat /\ DOMAIN h[r].managed = 1..m
      /\ Len(order) = m + Len(left)
      /\ \A n \in 1..m : order[n] = h[r].managed[n]
  BY <1>1, RuleOrderFacts
<1>3. /\ Sound(list) /\ DOMAIN list = 1..Len(role) /\ Len(order) = Len(role)
      /\ \A i, j \in DOMAIN order : order[i] = order[j] => i = j
      /\ \A i \in DOMAIN order : \E k \in DOMAIN role : list[i] = role[k] /\ role[k].id = order[i]
  BY <1>1, <1>2, OrderFacts
<1>4. left = Without(role, Managed(r)) /\ Len(h[r].blocks) = m /\ DOMAIN h[r].blocks = 1..m
  BY <1>1, HandlerTypes DEF Listing
<1> HIDE DEF order, m, left, list
<1>5. /\ Len(left) \in Nat /\ DOMAIN left = 1..Len(left) /\ DOMAIN order = 1..(m + Len(left))
      /\ Len(list) = m + Len(left)
  <2>1. list \in Seq(Held)
    BY <1>3 DEF Sound
  <2>2. Len(list) \in Nat /\ DOMAIN list = 1..Len(list) /\ Len(role) \in Nat
    BY <1>1, <2>1, ListFacts DEF RoleOK
  <2>3. Len(list) = Len(role)
    BY <1>3, <2>2
  <2> QED
    BY <1>2, <1>3, <2>3, ListFacts
<1>6. ASSUME NEW n \in 1..m PROVE IsBlock(list[n], h[r].blocks[n])
  <2>1. n \in DOMAIN order /\ order[n] = h[r].managed[n] /\ \A k \in 1..m : k \in DOMAIN order
    BY <1>2, <1>5
  <2>2. Alone(h[r], n)
    BY <1>2, <1>3, <2>1 DEF Alone
  <2>3. PICK k \in DOMAIN role : list[n] = role[k] /\ role[k].id = order[n]
    BY <1>3, <2>1
  <2> QED
    BY <1>1, <1>2, <2>1, <2>2, <2>3 DEF Done
<1>7. ASSUME h[r].authoritative PROVE Len(left) = 0
  <2>1. PICK f : Leaves(f, role, Managed(r), left)
    BY <1>1, <1>4, WithoutFacts DEF RoleOK
  <2>2. \A i \in DOMAIN role : role[i].id \in Managed(r)
    BY <1>1, <1>7 DEF Listing, Ids, Managed
  <2>3. \A n \in DOMAIN left : FALSE
    BY <2>1, <2>2 DEF Leaves
  <2>4. Len(left) # 0 => 1 \in DOMAIN left
    BY <1>5
  <2> QED
    BY <2>3, <2>4
<1> QED
  BY <1>2, <1>4, <1>5, <1>6, <1>7 DEF Applied, list, order

LEMMA OrderPermissionsKeeps ==
  ASSUME RoleIInv, NEW r \in Resources, OrderPermissions(r)
  PROVE  Kept(r)
<1> DEFINE order == RuleOrder(r)
           x == [h[r] EXCEPT !.phase = "read"]
           list == IF OrderRefused(order) THEN role ELSE [i \in DOMAIN order |-> ById(role, order[i])]
           refused == OrderRefused(order)
<1>1. /\ In(r, "order")
      /\ \/ order = <<>> /\ Local(r, x)
         \/ order # <<>> /\ Call(r, refused, list, x)
  BY DEF OrderPermissions
<1>2. /\ Working(h[r]) /\ h[r].phase = "order" /\ h[r].op # "idle" /\ h[r] \in Handlers /\ Orderly(h[r])
      /\ RoleOK /\ Agrees(role, h[r].listed)
  BY <1>1, InFacts, InvFacts, InvRole
<1>3. /\ x \in Handlers /\ x.op = h[r].op /\ x.blocks = h[r].blocks /\ x.phase = "read"
      /\ x.authoritative = h[r].authoritative /\ x.old = h[r].old /\ x.listed = h[r].listed
      /\ x.managed = h[r].managed
  BY <1>2 DEF Handlers
<1>4. refused \in BOOLEAN /\ (~refused => list = InTheOrder(order)) /\ (refused <=> OrderRefused(order))
  BY DEF OrderRefused, InTheOrder
<1>5. order \in Seq(AnyId) /\ Len(order) = Len(h[r].managed) + Len(Without(h[r].listed, Managed(r)))
      /\ Without(h[r].listed, Managed(r)) \in Seq(Held)
  BY <1>2, RuleOrderFacts
<1> HIDE DEF x, list, refused
<1>6. Orderly(x)
  BY <1>2, <1>3 DEF Orderly
<1>7. \A l : Applied(l, h[r]) => Progress(r, l, x)
  BY <1>3 DEF Progress, Applied
<1>8. ASSUME Undisturbed PROVE Listing(role, h[r]) /\ Done(r, role, h[r])
  BY <1>2, <1>8, InvFacts DEF Progress
<1>9. CASE order = <<>> /\ Local(r, x)
  <2>1. ASSUME Undisturbed PROVE Progress(r, role, x)
    <3>1. /\ Len(h[r].managed) \in Nat /\ Len(order) = 0 /\ Len(Without(h[r].listed, Managed(r))) \in Nat
          /\ DOMAIN h[r].blocks = 1..Len(h[r].blocks) /\ DOMAIN h[r].managed = 1..Len(h[r].managed)
          /\ Len(role) \in Nat /\ DOMAIN role = 1..Len(role)
      BY <1>2, <1>5, <1>9, ListFacts, HandlerTypes DEF RoleOK
    <3>2. Len(h[r].managed) = 0 /\ Len(h[r].blocks) = 0
      <4>1. Len(h[r].managed) = Len(h[r].blocks)
        BY <1>8, <2>1 DEF Listing
      <4>2. Len(h[r].managed) = 0
        <5>1. \A a, b \in Nat : a + b = 0 => a = 0
          OBVIOUS
        <5>2. Len(h[r].managed) + Len(Without(h[r].listed, Managed(r))) = 0
          BY <1>5, <3>1
        <5> QED
          BY <3>1, <5>1, <5>2
      <4> QED
        BY <4>1, <4>2
    <3>3. ASSUME h[r].authoritative PROVE Len(role) = 0
      <4>1. ToSet(h[r].managed) = {}
        BY <3>1, <3>2 DEF ToSet
      <4>2. \A i \in DOMAIN role : FALSE
        BY <1>8, <2>1, <3>3, <4>1 DEF Listing, Ids
      <4>3. Len(role) # 0 => 1 \in DOMAIN role
        BY <3>1
      <4> QED
        BY <4>2, <4>3
    <3>4. Applied(role, h[r])
      BY <3>1, <3>2, <3>3 DEF Applied
    <3> QED
      BY <1>7, <3>4
  <2> QED
    BY <1>2, <1>3, <1>6, <1>9, <2>1, LocalKeeps
<1>10. CASE Call(r, refused, list, x)
  <2>1. ASSUME ~refused
        PROVE  /\ Sound(list) /\ Respects(r, list) /\ Agrees(list, x.listed)
               /\ Undisturbed => Progress(r, list, x)
    <3>1. ~OrderRefused(order) /\ list = InTheOrder(order)
      BY <1>4, <2>1
    <3>2. Sound(list) /\ Undeclared(r, list) = Undeclared(r, role)
      BY <1>2, <1>5, <3>1, OrderFacts
    <3>3. ASSUME Undisturbed PROVE Respects(r, list) /\ Progress(r, list, x)
      <4>1. /\ h[r].listed = role
            /\ \A i \in DOMAIN role : role[i].id \in Managed(r) => role[i].rule \in RulesOf(r)
        BY <1>8, <3>3 DEF Listing, Done, Managed
      <4>2. Respects(r, list)
        BY <1>2, <3>1, <4>1, OrderRespects
      <4>3. Progress(r, list, x)
        BY <1>2, <1>7, <3>1, <3>3, OrderApplies
      <4> QED
        BY <4>2, <4>3
    <3>4. Respects(r, list)
      BY <3>2, <3>3 DEF Respects
    <3>5. Agrees(list, x.listed)
      BY <1>3, <3>2, SoundKeeps
    <3> QED
      BY <3>2, <3>3, <3>4, <3>5
  <2> QED
    BY <1>2, <1>3, <1>4, <1>6, <1>10, <2>1, CallKeeps
<1> QED
  BY <1>1, <1>9, <1>10

LEMMA ReturnReadKeeps ==
  ASSUME RoleIInv, NEW r \in Resources, ReturnRead(r)
  PROVE  Kept(r)
<1> DEFINE state == ReadState(PlannedState(r, FALSE), role)
           result == IF state.exists THEN "ok" ELSE "error"
<1>1. /\ In(r, "read") /\ role' = role /\ config' = config
      /\ \/ NoFault /\ Stop(r, state, result)
         \/ Fault("apiError") /\ ReturnError(r)
  BY DEF ReturnRead, Outside
<1>2. /\ h[r].phase = "read" /\ lock = r /\ RoleOK /\ DeclaredIn(r, role, h[r].blocks)
      /\ Undisturbed => Progress(r, role, h[r])
  BY <1>1, InFacts, InvFacts, InvRole
<1>3. Sound(role') /\ Respects(r, role') /\ (Undisturbed' => Undisturbed)
  BY <1>1, <1>2, SameSound, FaultFacts
<1>4. h[r].op \in {"create", "update"} /\ (Undisturbed => Applied(role', h[r]))
  BY <1>1, <1>2, InvFacts DEF Progress, Orderly
<1>5. RoleIInv'
  <2>1. CASE Stop(r, state, result)
    <3>1. PlannedState(r, FALSE) \in States /\ PlannedState(r, FALSE).blocks = h[r].blocks
      BY PlannedStateFacts
    <3>2. state \in States /\ DeclaredIn(r, role, state.blocks)
      BY <1>2, <3>1, ReadStateFacts
    <3> HIDE DEF state
    <3>3. result \in {"none", "ok", "error"} /\ DeclaredIn(r, role', state.blocks)
      BY <1>1, <3>2
    <3> QED
      BY <1>1, <1>2, <1>3, <2>1, <3>2, <3>3, StopKeeps
  <2>2. CASE ReturnError(r)
    BY <1>1, <1>2, <1>3, <2>2, FailKeeps
  <2> QED
    BY <1>1, <2>1, <2>2
<1> QED
  BY <1>3, <1>4, <1>5 DEF Kept

-----------------------------------------------------------------------------
(* The first list, and Delete.                                             *)

LEMMA ListPermissionsKeeps ==
  ASSUME RoleIInv, NEW r \in Resources, ListPermissions(r)
  PROVE  Kept(r)
<1> DEFINE phase == IF h[r].op = "destroy" THEN "drop" ELSE "blocks"
           x == [h[r] EXCEPT !.phase = phase, !.listed = role]
<1>1. /\ In(r, "list") /\ lock = Nobody /\ role' = role /\ config' = config
      /\ h[r] \in Handlers /\ Orderly(h[r]) /\ h \in [Resources -> Handlers] /\ RoleOK /\ role \in Seq(Held)
      /\ saved \in [Resources -> States] /\ told \in [Resources -> {"none", "ok", "error"}]
  BY InvFacts, InvRole DEF ListPermissions, LockFree, Outside, RoleIInv, RoleTypes, RoleOK
<1>2. Sound(role') /\ Respects(r, role')
  BY <1>1, SameSound
<1>3. CASE /\ lock' = r /\ h' = [h EXCEPT ![r].phase = phase, ![r].listed = role]
           /\ NoFault /\ UNCHANGED <<saved, told, fresh>>
  <2>1. h' = [h EXCEPT ![r] = x] /\ saved' = [saved EXCEPT ![r] = saved[r]] /\ told' = told
    BY <1>1, <1>3
  <2>2. /\ x \in Handlers /\ x.op = h[r].op /\ x.blocks = h[r].blocks /\ x.phase = phase
        /\ x.authoritative = h[r].authoritative /\ x.old = h[r].old /\ x.listed = role
        /\ x.managed = <<>> /\ x.deleted = {}
    BY <1>1 DEF Handlers, In, Orderly
  <2>3. h[r].op \in {"create", "update", "destroy"}
    BY <1>1 DEF In, Idle, Handlers
  <2> HIDE DEF x
  <2>4. Orderly(x) /\ x.op # "idle"
    BY <2>2, <2>3 DEF Orderly
  <2>5. /\ Applying(x, config[r]) /\ DeclaredIn(r, role', saved[r].blocks) /\ DeclaredIn(r, role', x.blocks)
        /\ x.old \subseteq Ids(saved[r].blocks) /\ saved[r] \in States
    BY <1>1, <2>2, InvFacts DEF Applying
  <2>6. Agrees(role', x.listed)
    BY <1>1, <2>2 DEF Agrees, RoleOK, Distinct
  <2>7. Progress(r, role', x)
    <3>1. Len(h[r].blocks) \in Nat
      BY HandlerTypes
    <3>2. Untouched(role, x)
      BY <1>1, <2>2 DEF Untouched, RoleOK, Distinct
    <3>3. Covered(role, x)
      BY <2>2 DEF Covered
    <3>4. Done(r, role, x)
      BY <2>2, <3>1 DEF Done, ToSet
    <3> QED
      BY <1>1, <2>2, <3>2, <3>3, <3>4 DEF Progress
  <2>8. Undisturbed' => Undisturbed
    BY <1>3, FaultFacts
  <2>9. RoleIInv'
    <3>1. x \in Handlers /\ lock \in {r, Nobody} /\ lock' = r /\ config' = config /\ Orderly(x)
      BY <1>1, <1>3, <2>2, <2>4
    <3>2. told' \in [Resources -> {"none", "ok", "error"}] /\ Sound(role')
      BY <1>1, <1>2, <2>1
    <3> QED
      BY <2>1, <2>5, <2>6, <2>7, <2>8, <3>1, <3>2, StepKeeps
  <2>10. ~Returns(r)
    BY <1>1, <2>1, <2>4 DEF Returns
  <2> QED
    BY <1>2, <2>9, <2>10 DEF Kept
<1>4. CASE Fault("apiError") /\ ReturnError(r)
  <2>1. Undisturbed' => Undisturbed
    BY <1>4, FaultFacts
  <2>2. RoleIInv' /\ told'[r] = "error"
    BY <1>1, <1>2, <1>4, <2>1, FailKeeps
  <2> QED
    BY <1>2, <2>2 DEF Kept
<1> QED
  BY <1>3, <1>4 DEF ListPermissions

LEMMA DropPermissionKeeps ==
  ASSUME RoleIInv, NEW r \in Resources, DropPermission(r)
  PROVE  Kept(r)
<1> DEFINE m == Len(h[r].managed)
           drops == Drops(r)
           id == drops[m + 1]
           list == Dropped(role, id)
           gone == id \notin Ids(role)
           after == Append(h[r].managed, id)
           x == [h[r] EXCEPT !.managed = after]
<1>1. In(r, "drop") /\ m < Len(drops) /\ Call(r, gone, list, x)
  BY DEF DropPermission
<1>2. /\ Working(h[r]) /\ h[r].phase = "drop" /\ h[r].op # "idle" /\ h[r] \in Handlers /\ Orderly(h[r])
      /\ RoleOK /\ gone \in BOOLEAN
  BY <1>1, InFacts, InvFacts, InvRole
<1>3. /\ h[r].blocks \in Seq(Plans) /\ h[r].listed \in Seq(Held) /\ h[r].managed \in Seq(AnyId) /\ m \in Nat
      /\ \A i \in DOMAIN h[r].listed : h[r].listed[i] \in Held
      /\ Len(h[r].listed) \in Nat /\ DOMAIN h[r].listed = 1..Len(h[r].listed)
  BY HandlerTypes, ListFacts
<1>4. /\ DropsBlocks(r) \in Seq(AnyId)
      /\ \A n \in DOMAIN DropsBlocks(r) : \E i \in DOMAIN h[r].blocks :
           \/ DropsBlocks(r)[n] = h[r].blocks[i].id
           \/ \E j \in DOMAIN h[r].listed :
                DropsBlocks(r)[n] = h[r].listed[j].id /\ h[r].listed[j].rule = h[r].blocks[i].rule
  BY <1>3, DropsFacts
<1>5. drops \in Seq(AnyId)
  <2>1. CASE h[r].authoritative
    <3>1. drops = [i \in DOMAIN h[r].listed |-> h[r].listed[i].id]
      BY <2>1 DEF Drops, DropsAll, Numbers
    <3>2. drops \in [1..Len(h[r].listed) -> AnyId]
      BY <1>3, <3>1 DEF Held, AnyId
    <3> QED
      BY <1>3, <3>2
  <2>2. CASE ~h[r].authoritative
    BY <1>4, <2>2 DEF Drops
  <2> QED
    BY <2>1, <2>2
<1> HIDE DEF drops, m
<1>6. m + 1 \in DOMAIN drops /\ id \in AnyId
  <2>1. Len(drops) \in Nat /\ DOMAIN drops = 1..Len(drops) /\ \A n \in DOMAIN drops : drops[n] \in AnyId
    BY <1>5, ListFacts
  <2>2. m + 1 \in DOMAIN drops
    BY <1>1, <1>3, <2>1
  <2> QED
    BY <2>1, <2>2
<1>7. h[r].authoritative \/ MayTouch(r, id)
  <2>1. ASSUME ~h[r].authoritative PROVE MayTouch(r, id)
    <3>1. drops = DropsBlocks(r)
      BY <2>1 DEF Drops, drops
    <3>2. PICK i \in DOMAIN h[r].blocks :
            \/ id = h[r].blocks[i].id
            \/ \E j \in DOMAIN h[r].listed :
                 id = h[r].listed[j].id /\ h[r].listed[j].rule = h[r].blocks[i].rule
      BY <1>4, <1>6, <3>1
    <3>3. DeclaredIn(r, role, h[r].blocks) /\ Agrees(role, h[r].listed)
      BY InvFacts
    <3>4. h[r].blocks[i].id \in Ids(h[r].blocks) /\ h[r].blocks[i].rule \in RulesOf(r)
      BY <3>3 DEF DeclaredIn, RulesIn, Ids
    <3> HIDE DEF id
    <3>5. CASE id = h[r].blocks[i].id
      BY <3>3, <3>4, <3>5 DEF MayTouch, DeclaredIn
    <3>6. ASSUME NEW j \in DOMAIN h[r].listed, id = h[r].listed[j].id, h[r].listed[j].rule = h[r].blocks[i].rule
          PROVE  MayTouch(r, id)
      BY <3>3, <3>4, <3>6 DEF MayTouch, Agrees
    <3> QED
      BY <3>2, <3>5, <3>6
  <2> QED
    BY <2>1
<1> HIDE DEF id, gone
<1>8. Sound(list) /\ (h[r].authoritative \/ Respects(r, list))
  BY <1>2, <1>7, DroppedFacts
<1>9. after \in Seq(AnyId)
  BY <1>3, <1>6, AppendFacts
<1> HIDE DEF list, after
<1>10. /\ x \in Handlers /\ x.op = h[r].op /\ x.blocks = h[r].blocks /\ x.phase = "drop"
       /\ x.authoritative = h[r].authoritative /\ x.old = h[r].old /\ x.listed = h[r].listed
  BY <1>2, <1>9 DEF Handlers
<1> HIDE DEF x
<1>11. Orderly(x) /\ Progress(r, list, x)
  BY <1>2, <1>10 DEF Orderly, Progress
<1>12. Agrees(list, x.listed)
  BY <1>8, <1>10, SoundKeeps
<1> QED
  BY <1>1, <1>2, <1>8, <1>10, <1>11, <1>12, CallKeeps

LEMMA ReturnDeletedKeeps ==
  ASSUME RoleIInv, NEW r \in Resources, ReturnDeleted(r)
  PROVE  Kept(r)
<1>1. In(r, "drop") /\ Stop(r, Gone, "none") /\ role' = role /\ config' = config /\ NoFault
  BY DEF ReturnDeleted, Outside
<1>2. lock = r /\ RoleOK /\ Gone \in States /\ DeclaredIn(r, role', Gone.blocks)
  BY <1>1, InFacts, InvRole, GoneFacts
<1>3. Sound(role') /\ Respects(r, role') /\ (Undisturbed' => Undisturbed)
  BY <1>1, <1>2, SameSound, FaultFacts
<1>4. RoleIInv' /\ told'[r] = "none"
  BY <1>1, <1>2, <1>3, StopKeeps
<1> QED
  BY <1>3, <1>4 DEF Kept

LEMMA HandlerKeeps ==
  ASSUME RoleIInv, NEW r \in Resources, Handler(r)
  PROVE  Kept(r) /\ \A q \in Resources : q # r => h'[q] = h[q]
<1>1. Kept(r)
  BY DeleteMismatchedKeeps, CreatePermissionKeeps, KeepPermissionKeeps, DeleteLeftoverKeeps, ListAgainKeeps,
     OrderPermissionsKeeps, ReturnReadKeeps, ListPermissionsKeeps, DropPermissionKeeps, ReturnDeletedKeeps
     DEF Handler, Reconcile
<1>2. \E x : h' = [h EXCEPT ![r] = x]
  <2>1. \A s, result : Stop(r, s, result) => \E x : h' = [h EXCEPT ![r] = x]
    BY DEF Stop
  <2>2. ReturnError(r) => \E x : h' = [h EXCEPT ![r] = x]
    BY <2>1 DEF ReturnError
  <2>3. \A y : Continue(r, y) => \E x : h' = [h EXCEPT ![r] = x]
    BY DEF Continue
  <2>4. \A refused, result, y : Call(r, refused, result, y) => \E x : h' = [h EXCEPT ![r] = x]
    BY <2>2, <2>3 DEF Call
  <2>5. \A y : Local(r, y) => \E x : h' = [h EXCEPT ![r] = x]
    BY <2>3 DEF Local
  <2>6. ListPermissions(r) => \E x : h' = [h EXCEPT ![r] = x]
    BY <2>2 DEF ListPermissions
  <2> QED
    BY <2>1, <2>2, <2>4, <2>5, <2>6
    DEF Handler, Reconcile, DeleteMismatched, CreatePermission, KeepPermission, DeleteLeftover, ListAgain,
        OrderPermissions, ReturnRead, DropPermission, ReturnDeleted
<1>3. h \in [Resources -> Handlers]
  BY DEF RoleIInv, RoleTypes
<1> QED
  BY <1>1, <1>2, <1>3

-----------------------------------------------------------------------------
(* Terraform, the user and the others.                                     *)

LEMMA LaunchKeeps ==
  ASSUME RoleIInv, NEW r \in Resources, NEW x \in Handlers, Launch(r, x), Orderly(x), x.phase = "list",
         Applying(x, config[r]), DeclaredIn(r, role, x.blocks), x.old \subseteq Ids(saved[r].blocks), x.listed = <<>>
  PROVE  RoleIInv'
<1>1. /\ h' = [h EXCEPT ![r] = x] /\ h \in [Resources -> Handlers]
      /\ UNCHANGED <<role, config, saved, lock, told, faults, changes>>
  BY DEF Launch, RoleIInv, RoleTypes
<1>2. RoleTypes' /\ Distinct(role')
  BY <1>1 DEF RoleIInv, RoleTypes
<1>3. Undisturbed' <=> Undisturbed
  BY <1>1 DEF Undisturbed
<1>4. ASSUME NEW q \in Resources
      PROVE  /\ Orderly(h'[q]) /\ Applying(h'[q], config'[q]) /\ (Working(h'[q]) => lock' = q)
             /\ DeclaredIn(q, role', saved'[q].blocks) /\ DeclaredIn(q, role', h'[q].blocks)
             /\ h'[q].old \subseteq Ids(saved'[q].blocks)
             /\ Agrees(role', h'[q].listed)
             /\ Undisturbed' => Progress(q, role', h'[q])
  <2>1. CASE q = r
    <3>1. ~Working(x) /\ Progress(r, role, x)
      BY RestingProgress DEF Working
    <3>2. Agrees(role, x.listed)
      BY DEF Agrees
    <3>3. DeclaredIn(r, role, saved[r].blocks)
      BY InvFacts
    <3> QED
      BY <1>1, <2>1, <3>1, <3>2, <3>3
  <2>2. CASE q # r
    <3>1. h'[q] = h[q]
      BY <1>1, <2>2
    <3> QED
      BY <1>1, <1>3, <3>1, InvFacts
  <2> QED
    BY <2>1, <2>2
<1> QED
  BY <1>2, <1>4 DEF RoleIInv

LEMMA ConfigFacts ==
  ASSUME RoleIInv, NEW r \in Resources
  PROVE  /\ config[r].authoritative \in BOOLEAN /\ config[r].blocks \in Seq(PlainBlocks)
         /\ RulesIn(config[r].blocks) \subseteq RulesOf(r)
<1>1. /\ config[r] \in [present : BOOLEAN, authoritative : BOOLEAN, blocks : Seq(PlainBlocks)]
      /\ config[r] \in Configurations(r)
  BY DEF RoleIInv, RoleTypes
<1>2. CASE config[r] = Absent(r)
  <2>1. config[r].blocks = <<>> /\ DOMAIN <<>> = {}
    BY <1>2 DEF Absent
  <2> QED
    BY <1>1, <2>1 DEF RulesIn
<1>3. ASSUME NEW c \in Configs[r], config[r] = [present |-> TRUE, authoritative |-> c.authoritative, blocks |-> c.blocks]
      PROVE  RulesIn(config[r].blocks) \subseteq RulesOf(r)
  BY <1>3 DEF RulesOf
<1> QED
  BY <1>1, <1>2, <1>3 DEF Configurations

\* The blocks a handler starts with.
LEMMA PlannedFacts ==
  ASSUME RoleIInv, NEW r \in Resources
  PROVE  /\ Planned(r) \in Seq(Plans) /\ Plain(Planned(r)) = config[r].blocks /\ DeclaredIn(r, role, Planned(r))
<1> DEFINE blocks == config[r].blocks
           old == saved[r].blocks
           new == Planned(r)
<1>1. blocks \in Seq(PlainBlocks) /\ RulesIn(blocks) \subseteq RulesOf(r)
  BY ConfigFacts
<1>2. old \in Seq(Plans) /\ DeclaredIn(r, role, old)
  BY InvFacts DEF States
<1>3. new = [i \in DOMAIN blocks |->
               [id |-> IF i \in DOMAIN old THEN old[i].id ELSE NoId,
                rule |-> blocks[i].rule, permission |-> blocks[i].permission]]
  BY DEF Planned
<1> HIDE DEF blocks, old, new
<1>4. /\ Len(blocks) \in Nat /\ DOMAIN blocks = 1..Len(blocks) /\ \A i \in DOMAIN blocks : blocks[i] \in PlainBlocks
      /\ \A i \in DOMAIN old : old[i] \in Plans
  BY <1>1, <1>2, ListFacts
<1>5. DOMAIN new = DOMAIN blocks
  BY <1>3
<1>6. \A i \in DOMAIN blocks :
        /\ new[i] \in Plans /\ new[i].rule = blocks[i].rule /\ new[i].permission = blocks[i].permission
        /\ new[i].id = NoId \/ new[i].id \in Ids(old)
  <2>1. TAKE i \in DOMAIN blocks
  <2>2. i \in DOMAIN old => old[i].id \in AnyId /\ old[i].id \in Ids(old)
    BY <1>4 DEF Plans, Ids
  <2>3. NoId \in AnyId /\ blocks[i].rule \in Rules /\ blocks[i].permission \in Permissions
    BY <1>4 DEF AnyId, PlainBlocks
  <2> QED
    BY <1>3, <2>2, <2>3 DEF Plans
<1>7. new \in Seq(Plans)
  <2>1. new \in [1..Len(blocks) -> Plans]
    BY <1>3, <1>4, <1>6
  <2> QED
    BY <1>4, <2>1
<1>8. Plain(new) = blocks
  <2>1. Plain(new) = [i \in DOMAIN new |-> [rule |-> new[i].rule, permission |-> new[i].permission]]
    BY DEF Plain
  <2>2. \A i \in DOMAIN blocks : [rule |-> new[i].rule, permission |-> new[i].permission] = blocks[i]
    BY <1>4, <1>6 DEF PlainBlocks
  <2>3. blocks = [i \in DOMAIN blocks |-> blocks[i]]
    BY <1>1, <1>4
  <2> QED
    BY <1>5, <2>1, <2>2, <2>3
<1>9. DeclaredIn(r, role, new)
  <2>1. RulesIn(new) \subseteq RulesOf(r)
    BY <1>1, <1>5, <1>6 DEF RulesIn
  <2>2. ASSUME NEW i \in DOMAIN role, role[i].id \in Ids(new) PROVE role[i].rule \in RulesOf(r)
    <3>1. role[i] \in Held
      BY ListFacts, InvRole DEF RoleOK
    <3>2. role[i].id # NoId
      BY <3>1, RolePermissionAssumption DEF Held, Uuid, NoId
    <3>3. role[i].id \in Ids(old)
      BY <1>5, <1>6, <2>2, <3>2 DEF Ids
    <3> QED
      BY <1>2, <3>3 DEF DeclaredIn
  <2> QED
    BY <2>1, <2>2 DEF DeclaredIn
<1> QED
  BY <1>7, <1>8, <1>9 DEF blocks, new

LEMMA ApplyKeeps == ASSUME RoleIInv, NEW r \in Resources, Apply(r) PROVE RoleIInv' /\ Idle(r) /\ \A q \in Resources : q # r => h'[q] = h[q]
<1>1. /\ saved[r] \in States /\ DeclaredIn(r, role, saved[r].blocks) /\ h \in [Resources -> Handlers]
      /\ config[r].authoritative \in BOOLEAN
  BY InvFacts, ConfigFacts DEF RoleIInv, RoleTypes
<1>2. /\ Planned(r) \in Seq(Plans) /\ Plain(Planned(r)) = config[r].blocks /\ DeclaredIn(r, role, Planned(r))
  BY PlannedFacts
<1>3. NoHandler \in Handlers /\ NoHandler.managed = <<>> /\ NoHandler.deleted = {} /\ NoHandler.listed = <<>> /\ NoHandler.old = {}
  BY NoHandlerFacts DEF NoHandler
<1>4. Ids(saved[r].blocks) \subseteq AnyId
  <2>1. saved[r].blocks \in Seq(Plans)
    BY <1>1 DEF States
  <2>2. \A i \in DOMAIN saved[r].blocks : saved[r].blocks[i] \in Plans
    BY <2>1, ListFacts
  <2> QED
    BY <2>2 DEF Ids, Plans
<1>5. ASSUME Create(r) PROVE RoleIInv'
  <2> DEFINE x == [NoHandler EXCEPT !.op = "create", !.phase = "list",
                                    !.authoritative = config[r].authoritative, !.blocks = Planned(r)]
  <2>1. Launch(r, x)
    BY <1>5 DEF Create
  <2>2. /\ x \in Handlers /\ x.op = "create" /\ x.phase = "list" /\ x.authoritative = config[r].authoritative
        /\ x.blocks = Planned(r) /\ x.managed = <<>> /\ x.deleted = {} /\ x.listed = <<>> /\ x.old = {}
    BY <1>1, <1>2, <1>3 DEF Handlers
  <2> HIDE DEF x
  <2>3. Orderly(x) /\ Applying(x, config[r]) /\ x.old \subseteq Ids(saved[r].blocks)
    BY <1>2, <2>2 DEF Orderly, Applying
  <2> QED
    BY <1>2, <2>1, <2>2, <2>3, LaunchKeeps
<1>6. ASSUME Update(r) PROVE RoleIInv'
  <2> DEFINE old == IF BlocksChanged(r) THEN Ids(saved[r].blocks) \ {NoId} ELSE {}
             x == [NoHandler EXCEPT !.op = "update", !.phase = "list",
                                    !.authoritative = config[r].authoritative, !.blocks = Planned(r), !.old = old]
  <2>1. Launch(r, x)
    BY <1>6 DEF Update
  <2>2. old \in SUBSET AnyId /\ old \subseteq Ids(saved[r].blocks)
    BY <1>4
  <2> HIDE DEF old
  <2>3. /\ x \in Handlers /\ x.op = "update" /\ x.phase = "list" /\ x.authoritative = config[r].authoritative
        /\ x.blocks = Planned(r) /\ x.managed = <<>> /\ x.deleted = {} /\ x.listed = <<>> /\ x.old = old
    BY <1>1, <1>2, <1>3, <2>2 DEF Handlers
  <2> HIDE DEF x
  <2>4. Orderly(x) /\ Applying(x, config[r]) /\ x.old \subseteq Ids(saved[r].blocks)
    BY <1>2, <2>2, <2>3 DEF Orderly, Applying
  <2> QED
    BY <1>2, <2>1, <2>3, <2>4, LaunchKeeps
<1>7. ASSUME Delete(r) PROVE RoleIInv'
  <2> DEFINE x == [NoHandler EXCEPT !.op = "destroy", !.phase = "list",
                                    !.authoritative = saved[r].authoritative, !.blocks = saved[r].blocks]
  <2>1. Launch(r, x)
    BY <1>7 DEF Delete
  <2>2. /\ x \in Handlers /\ x.op = "destroy" /\ x.phase = "list"
        /\ x.blocks = saved[r].blocks /\ x.managed = <<>> /\ x.deleted = {} /\ x.listed = <<>> /\ x.old = {}
    BY <1>1, <1>3 DEF Handlers, States
  <2> HIDE DEF x
  <2>3. Orderly(x) /\ Applying(x, config[r]) /\ x.old \subseteq Ids(saved[r].blocks)
    BY <2>2 DEF Orderly, Applying
  <2> QED
    BY <1>1, <2>1, <2>2, <2>3, LaunchKeeps
<1>8. Idle(r) /\ \E x : Launch(r, x)
  BY DEF Apply, Create, Update, Delete
<1>9. \A q \in Resources : q # r => h'[q] = h[q]
  BY <1>1, <1>8 DEF Launch
<1> QED
  BY <1>5, <1>6, <1>7, <1>8, <1>9 DEF Apply

\* Nothing runs: what holds for the handlers says nothing.
LEMMA IdleFacts == ASSUME RoleIInv, NEW r \in Resources, Idle(r) PROVE ~Working(h[r])
BY InvFacts DEF Idle, Orderly, Working

\* A step that changes the role from outside, the configuration or the state, while the
\* handlers stay as they are.
LEMMA OutsideKeeps ==
  ASSUME RoleIInv, RoleTypes', Distinct(role'), h' = h, lock' = lock,
         \A r \in Resources :
           /\ Working(h[r]) => ~Undisturbed' \/ role' = role
           /\ h[r].op = "idle" \/ (config'[r] = config[r] /\ Ids(saved[r].blocks) \subseteq Ids(saved'[r].blocks))
           /\ DeclaredIn(r, role', saved'[r].blocks) /\ DeclaredIn(r, role', h[r].blocks)
           /\ Agrees(role', h[r].listed),
         Undisturbed' => Undisturbed
  PROVE  RoleIInv'
<1>1. ASSUME NEW q \in Resources
      PROVE  /\ Orderly(h'[q]) /\ Applying(h'[q], config'[q]) /\ (Working(h'[q]) => lock' = q)
             /\ h'[q].old \subseteq Ids(saved'[q].blocks)
             /\ Undisturbed' => Progress(q, role', h'[q])
  <2>1. /\ Orderly(h[q]) /\ Applying(h[q], config[q]) /\ (Working(h[q]) => lock = q)
        /\ h[q].old \subseteq Ids(saved[q].blocks)
        /\ Undisturbed => Progress(q, role, h[q])
    BY InvFacts
  <2>2. Applying(h[q], config'[q])
    BY <2>1 DEF Applying
  <2>3. h[q].old \subseteq Ids(saved'[q].blocks)
    <3>1. h[q].op = "idle" => h[q].old = {}
      BY <2>1 DEF Orderly
    <3> QED
      BY <2>1, <3>1
  <2>4. Undisturbed' => Progress(q, role', h[q])
    BY <2>1, RestingProgress
  <2> QED
    BY <2>1, <2>2, <2>3, <2>4
<1> QED
  BY <1>1 DEF RoleIInv

LEMMA RefreshKeeps == ASSUME RoleIInv, Refresh PROVE RoleIInv'
<1>1. /\ AllIdle /\ role' = role /\ config' = config /\ lock' = lock /\ h' = h /\ faults' = faults
      /\ saved' = [r \in Resources |-> IF saved[r].exists THEN ReadState(saved[r], role) ELSE saved[r]]
      /\ told' = [r \in Resources |-> "none"]
  BY DEF Refresh
<1>2. RoleOK /\ Distinct(role)
  BY InvRole DEF RoleOK
<1>3. ASSUME NEW r \in Resources PROVE saved'[r] \in States /\ DeclaredIn(r, role, saved'[r].blocks)
  <2>1. saved[r] \in States /\ DeclaredIn(r, role, saved[r].blocks)
    BY InvFacts
  <2>2. saved'[r] = ReadState(saved[r], role) \/ saved'[r] = saved[r]
    BY <1>1
  <2>3. ReadState(saved[r], role) \in States /\ DeclaredIn(r, role, ReadState(saved[r], role).blocks)
    BY <1>2, <2>1, ReadStateFacts
  <2> QED
    BY <2>1, <2>2, <2>3
<1>4. RoleTypes'
  <2>1. saved' \in [Resources -> States] /\ told' \in [Resources -> {"none", "ok", "error"}]
    BY <1>1, <1>3
  <2>2. /\ role \in Seq(Held) /\ h \in [Resources -> Handlers]
        /\ config \in [Resources -> [present : BOOLEAN, authoritative : BOOLEAN, blocks : Seq(PlainBlocks)]]
        /\ \A r \in Resources : config[r] \in Configurations(r)
    BY DEF RoleIInv, RoleTypes
  <2> QED
    BY <1>1, <2>1, <2>2 DEF RoleTypes
<1>5. ASSUME NEW r \in Resources
      PROVE  /\ ~Working(h[r]) /\ h[r].op = "idle"
             /\ DeclaredIn(r, role', saved'[r].blocks) /\ DeclaredIn(r, role', h[r].blocks)
             /\ Agrees(role', h[r].listed)
  BY <1>1, <1>3, IdleFacts, InvFacts DEF AllIdle, Idle
<1>6. Undisturbed' => Undisturbed
  BY <1>1 DEF Undisturbed
<1> QED
  BY <1>1, <1>2, <1>4, <1>5, <1>6, OutsideKeeps

LEMMA EditKeeps == ASSUME RoleIInv, NEW r \in Resources, Edit(r) PROVE RoleIInv'
<1>1. PICK c \in Configurations(r) : config' = [config EXCEPT ![r] = c]
  BY DEF Edit
<1>2. /\ AllIdle /\ role' = role /\ lock' = lock /\ h' = h /\ faults' = faults /\ saved' = saved
      /\ told' = [told EXCEPT ![r] = "none"]
  BY DEF Edit
<1>3. c \in [present : BOOLEAN, authoritative : BOOLEAN, blocks : Seq(PlainBlocks)]
  <2>1. CASE c = Absent(r)
    BY <2>1, <<>> \in Seq(PlainBlocks) DEF Absent
  <2>2. ASSUME NEW w \in Configs[r], c = [present |-> TRUE, authoritative |-> w.authoritative, blocks |-> w.blocks]
        PROVE  c \in [present : BOOLEAN, authoritative : BOOLEAN, blocks : Seq(PlainBlocks)]
    <3>1. w \in Lists
      BY RolePermissionAssumption
    <3> QED
      BY <2>2, <3>1 DEF Lists, PlainBlocks
  <2> QED
    BY <2>1, <2>2 DEF Configurations
<1>4. /\ role \in Seq(Held) /\ h \in [Resources -> Handlers] /\ saved \in [Resources -> States]
      /\ config \in [Resources -> [present : BOOLEAN, authoritative : BOOLEAN, blocks : Seq(PlainBlocks)]]
      /\ \A q \in Resources : config[q] \in Configurations(q)
      /\ told \in [Resources -> {"none", "ok", "error"}]
  BY DEF RoleIInv, RoleTypes
<1>5. RoleTypes'
  <2>1. config' \in [Resources -> [present : BOOLEAN, authoritative : BOOLEAN, blocks : Seq(PlainBlocks)]]
    BY <1>1, <1>3, <1>4
  <2>2. ASSUME NEW q \in Resources PROVE config'[q] \in Configurations(q)
    BY <1>1, <1>4
  <2>3. \A q \in Resources : Configurations(q)' = Configurations(q)
    BY DEF Configurations, Absent
  <2> QED
    BY <1>2, <1>4, <2>1, <2>2, <2>3 DEF RoleTypes
<1>6. ASSUME NEW q \in Resources
      PROVE  /\ ~Working(h[q]) /\ h[q].op = "idle"
             /\ DeclaredIn(q, role', saved'[q].blocks) /\ DeclaredIn(q, role', h[q].blocks)
             /\ Agrees(role', h[q].listed)
  BY <1>2, IdleFacts, InvFacts DEF AllIdle, Idle
<1>7. Distinct(role') /\ (Undisturbed' => Undisturbed)
  BY <1>2, InvRole DEF RoleOK, Undisturbed
<1> QED
  BY <1>2, <1>5, <1>6, <1>7, OutsideKeeps

\* What somebody else makes of the role is sound: each id is that of the same rule, or
\* one nobody has.
LEMMA OthersSound == ASSUME RoleOK, OutOfBand PROVE Sound(role')
<1>1. ASSUME NEW id \in Ids(role), role' = Dropped(role, id) PROVE Sound(role')
  BY <1>1, DroppedFacts
<1>2. ASSUME NEW id, NEW p \in Permissions, role' = Permitting(role, id, p) PROVE Sound(role')
  BY <1>2, PermittingFacts
<1>3. ASSUME NEW id \in Ids(role), role' = <<ById(role, id)>> \o Dropped(role, id) PROVE Sound(role')
  <2> DEFINE rest == Dropped(role, id)
             first == ById(role, id)
             list == <<first>> \o rest
  <2>1. Sound(rest) /\ \A n \in DOMAIN rest : \E i \in DOMAIN role : rest[n] = role[i] /\ role[i].id # id
    BY DroppedFacts
  <2>2. PICK k \in DOMAIN role : first = role[k] /\ role[k].id = id
    BY ByIdFacts
  <2>3. first \in Held
    BY <2>2, ListFacts DEF RoleOK
  <2>4. rest \in Seq(Held) /\ Distinct(rest)
    BY <2>1 DEF Sound
  <2> HIDE DEF rest, first
  <2>5. Len(rest) \in Nat /\ DOMAIN rest = 1..Len(rest)
    BY <2>4, ListFacts
  <2>6. /\ list \in Seq(Held) /\ Len(list) = 1 + Len(rest) /\ list[1] = first
        /\ \A i \in 2..(1 + Len(rest)) : list[i] = rest[i - 1]
    <3>1. <<first>> \in Seq(Held) /\ Len(<<first>>) = 1 /\ <<first>>[1] = first
      BY <2>3
    <3>2. /\ list \in Seq(Held) /\ Len(list) = 1 + Len(rest)
          /\ \A i \in 1..(1 + Len(rest)) : list[i] = IF i <= 1 THEN <<first>>[i] ELSE rest[i - 1]
      BY <2>4, <3>1, ConcatProperties
    <3> HIDE DEF list
    <3>3. 1 \in 1..(1 + Len(rest)) /\ 2..(1 + Len(rest)) \subseteq 1..(1 + Len(rest))
      BY <2>5
    <3>4. \A i \in 2..(1 + Len(rest)) : ~(i <= 1)
      BY <2>5
    <3> QED
      BY <3>1, <3>2, <3>3, <3>4
  <2> HIDE DEF list
  <2>7. DOMAIN list = 1..(1 + Len(rest))
    BY <2>6, ListFacts
  <2>8. \A i \in DOMAIN list : i = 1 \/ (i - 1 \in DOMAIN rest /\ list[i] = rest[i - 1])
    <3>1. \A i \in 1..(1 + Len(rest)) : i = 1 \/ (i \in 2..(1 + Len(rest)) /\ i - 1 \in 1..Len(rest))
      BY <2>5
    <3> QED
      BY <2>5, <2>6, <2>7, <3>1
  <2>9. list[1].id = id /\ \A n \in DOMAIN rest : rest[n].id # id
    BY <2>1, <2>2, <2>6
  <2>10. Distinct(list)
    <3>1. SUFFICES ASSUME NEW i \in DOMAIN list, NEW j \in DOMAIN list, list[i].id = list[j].id PROVE i = j
      BY DEF Distinct
    <3>2. CASE i = 1 \/ j = 1
      BY <2>8, <2>9, <3>1, <3>2
    <3>3. CASE i # 1 /\ j # 1
      <4>1. i - 1 = j - 1
        BY <2>4, <2>8, <3>1, <3>3 DEF Distinct
      <4>2. i \in Nat /\ j \in Nat
        BY <2>5, <2>7
      <4> QED
        BY <4>1, <4>2
    <3> QED
      BY <3>2, <3>3
  <2>11. \A i \in DOMAIN list : Stems(list[i])
    <3>1. Stems(first)
      BY <2>2 DEF Stems
    <3>2. \A n \in DOMAIN rest : Stems(rest[n])
      BY <2>1 DEF Stems
    <3> QED
      BY <2>6, <2>8, <3>1, <3>2
  <2> QED
    BY <1>3, <2>6, <2>10, <2>11 DEF Sound, list, first, rest
<1>4. ASSUME NEW rule \in Rules, Unused # {}, role' = Added([rule |-> rule, permission |-> "deny"])
      PROVE  Sound(role')
  <2> DEFINE block == [rule |-> rule, permission |-> "deny"]
  <2>1. block.rule \in Rules /\ block.permission \in Permissions
    BY DEF Permissions
  <2> HIDE DEF block
  <2>2. Sound(Added(block))
    BY <1>4, <2>1, AddedFacts
  <2> QED
    BY <1>4, <2>2 DEF block
<1> QED
  BY <1>1, <1>2, <1>3, <1>4 DEF OutOfBand

LEMMA OutOfBandKeeps == ASSUME RoleIInv, OutOfBand PROVE RoleIInv'
<1>1. /\ h' = h /\ lock' = lock /\ config' = config /\ saved' = saved
      /\ told' = [r \in Resources |-> "none"] /\ Fault(IF AllIdle /\ fresh = {} THEN "outOfBand" ELSE "race")
  BY DEF OutOfBand
<1>2. Sound(role')
  BY InvRole, OthersSound
<1>3. RoleTypes' /\ Distinct(role')
  <2>1. role' \in Seq(Held) /\ Distinct(role') /\ told' \in [Resources -> {"none", "ok", "error"}]
    BY <1>1, <1>2 DEF Sound
  <2> QED
    BY <1>1, <2>1 DEF RoleIInv, RoleTypes
<1>4. Undisturbed' => Undisturbed /\ AllIdle
  BY <1>1 DEF Fault, Undisturbed
<1>5. ASSUME NEW r \in Resources
      PROVE  /\ Working(h[r]) => ~Undisturbed'
             /\ DeclaredIn(r, role', saved'[r].blocks) /\ DeclaredIn(r, role', h[r].blocks)
             /\ Agrees(role', h[r].listed)
  BY <1>1, <1>2, <1>4, SoundKeeps, IdleFacts DEF AllIdle
<1> QED
  BY <1>1, <1>3, <1>4, <1>5, OutsideKeeps

LEMMA CrashKeeps == ASSUME RoleIInv, Crash PROVE RoleIInv' /\ ~\E r \in Resources : Returns(r) /\ told'[r] = "ok"
<1>1. /\ h' = [r \in Resources |-> NoHandler] /\ lock' = Nobody
      /\ told' = [r \in Resources |-> IF Idle(r) THEN told[r] ELSE "error"]
      /\ role' = role /\ config' = config /\ saved' = saved
  BY DEF Crash
<1>2. RoleTypes' /\ Distinct(role')
  <2>1. h' \in [Resources -> Handlers]
    BY <1>1, NoHandlerFacts
  <2>2. told' \in [Resources -> {"none", "ok", "error"}]
    BY <1>1 DEF RoleIInv, RoleTypes
  <2> QED
    BY <1>1, <2>1, <2>2 DEF RoleIInv, RoleTypes
<1>3. ASSUME NEW q \in Resources
      PROVE  /\ Orderly(h'[q]) /\ Applying(h'[q], config'[q]) /\ (Working(h'[q]) => lock' = q)
             /\ DeclaredIn(q, role', saved'[q].blocks) /\ DeclaredIn(q, role', h'[q].blocks)
             /\ h'[q].old \subseteq Ids(saved'[q].blocks)
             /\ Agrees(role', h'[q].listed)
             /\ Undisturbed' => Progress(q, role', h'[q])
  <2>1. h'[q] = NoHandler
    BY <1>1
  <2>2. DeclaredIn(q, role', saved'[q].blocks)
    BY <1>1, InvFacts
  <2> QED
    BY <2>1, <2>2, NoHandlerFacts
<1>4. ~\E r \in Resources : Returns(r) /\ told'[r] = "ok"
  BY <1>1 DEF Returns
<1> QED
  BY <1>2, <1>3, <1>4 DEF RoleIInv

-----------------------------------------------------------------------------
(* The theorems.                                                           *)

LEMMA RoleInit == Init => RoleIInv
<1> SUFFICES ASSUME Init PROVE RoleIInv
  OBVIOUS
<1>1. /\ role = <<>> /\ \A r \in Resources : config[r] \in Configurations(r)
      /\ config \in [Resources -> UNION {Configurations(r) : r \in Resources}]
      /\ saved = [r \in Resources |-> Gone] /\ h = [r \in Resources |-> NoHandler]
      /\ told = [r \in Resources |-> "none"]
  BY DEF Init
<1>2. <<>> \in Seq(Held) /\ <<>> \in Seq(PlainBlocks) /\ DOMAIN <<>> = {}
  OBVIOUS
<1>3. ASSUME NEW r \in Resources
      PROVE  config[r] \in [present : BOOLEAN, authoritative : BOOLEAN, blocks : Seq(PlainBlocks)]
  <2>1. CASE config[r] = Absent(r)
    BY <1>2, <2>1 DEF Absent
  <2>2. ASSUME NEW w \in Configs[r], config[r] = [present |-> TRUE, authoritative |-> w.authoritative, blocks |-> w.blocks]
        PROVE  config[r] \in [present : BOOLEAN, authoritative : BOOLEAN, blocks : Seq(PlainBlocks)]
    <3>1. w \in Lists
      BY RolePermissionAssumption
    <3> QED
      BY <2>2, <3>1 DEF Lists, PlainBlocks
  <2> QED
    BY <1>1, <2>1, <2>2 DEF Configurations
<1>4. config \in [Resources -> [present : BOOLEAN, authoritative : BOOLEAN, blocks : Seq(PlainBlocks)]]
  BY <1>1, <1>3
<1>5. RoleTypes /\ Distinct(role)
  <2>1. saved \in [Resources -> States] /\ h \in [Resources -> Handlers] /\ told \in [Resources -> {"none", "ok", "error"}]
    BY <1>1, GoneFacts, NoHandlerFacts
  <2> QED
    BY <1>1, <1>2, <1>4, <2>1 DEF RoleTypes, Distinct
<1>6. ASSUME NEW r \in Resources
      PROVE  /\ Orderly(h[r]) /\ Applying(h[r], config[r])
             /\ Working(h[r]) => lock = r
             /\ DeclaredIn(r, role, saved[r].blocks) /\ DeclaredIn(r, role, h[r].blocks)
             /\ h[r].old \subseteq Ids(saved[r].blocks)
             /\ Agrees(role, h[r].listed)
             /\ Undisturbed => Progress(r, role, h[r])
  <2>1. h[r] = NoHandler /\ saved[r] = Gone
    BY <1>1
  <2> QED
    BY <2>1, NoHandlerFacts, GoneFacts
<1> QED
  BY <1>5, <1>6 DEF RoleIInv

LEMMA RoleStep == ASSUME RoleIInv, [Next]_vars PROVE RoleIInv'
<1>1. CASE UNCHANGED vars
  BY <1>1 DEF vars, RoleIInv, RoleTypes, Undisturbed
<1>2. CASE Next
  BY <1>2, RefreshKeeps, ApplyKeeps, HandlerKeeps, EditKeeps, OutOfBandKeeps, CrashKeeps DEF Next, Provider, Environment, Kept
<1> QED
  BY <1>1, <1>2

\* A handler that has no authority respects what its resource never declared.
LEMMA RoleRespected ==
  ASSUME RoleIInv, Next, NEW r \in Resources, ~Idle(r), h'[r] # h[r], ~h[r].authoritative
  PROVE  Respects(r, role')
<1>1. CASE Refresh \/ OutOfBand \/ \E q \in Resources : Edit(q)
  BY <1>1 DEF Refresh, OutOfBand, Edit
<1>2. CASE Crash
  BY <1>2, InvRole, SameSound DEF Crash
<1>3. ASSUME NEW q \in Resources, Apply(q) PROVE FALSE
  BY <1>3, ApplyKeeps
<1>4. ASSUME NEW q \in Resources, Handler(q) PROVE Respects(r, role')
  <2>1. q = r /\ Kept(r)
    BY <1>4, HandlerKeeps
  <2> QED
    BY <2>1 DEF Kept
<1> QED
  BY <1>1, <1>2, <1>3, <1>4 DEF Next, Provider, Environment

\* A handler that reports success leaves what it was to bring about.
LEMMA RoleApplied ==
  ASSUME RoleIInv, Next, Undisturbed, NEW r \in Resources, Returns(r), told'[r] = "ok"
  PROVE  h[r].op \in {"create", "update"} /\ Applied(role', h[r])
<1>1. CASE Refresh \/ OutOfBand \/ \E q \in Resources : Edit(q)
  BY <1>1 DEF Refresh, OutOfBand, Edit, Returns, Idle
<1>2. CASE Crash
  BY <1>2, CrashKeeps
<1>3. ASSUME NEW q \in Resources, Apply(q) PROVE FALSE
  <2>1. q # r => h'[r] = h[r]
    BY <1>3, ApplyKeeps
  <2> QED
    BY <1>3, <2>1, ApplyKeeps DEF Returns, Idle
<1>4. ASSUME NEW q \in Resources, Handler(q) PROVE h[r].op \in {"create", "update"} /\ Applied(role', h[r])
  <2>1. q # r => h'[r] = h[r]
    BY <1>4, HandlerKeeps
  <2>2. q = r
    BY <2>1 DEF Returns, Idle
  <2> QED
    BY <1>4, <2>2, HandlerKeeps DEF Kept
<1> QED
  BY <1>1, <1>2, <1>3, <1>4 DEF Next, Provider, Environment

\* What was to be brought about is what is configured.
LEMMA RoleAsConfigured ==
  ASSUME RoleIInv, RoleIInv', NEW r \in Resources, h[r].op \in {"create", "update"}, Applied(role', h[r])
  PROVE  LET n == Len(config[r].blocks) IN
         /\ IF config[r].authoritative THEN Len(role') = n ELSE Len(role') >= n
         /\ \A i \in 1..n : Plain(role')[i] = config[r].blocks[i]
<1> DEFINE wish == config[r].blocks
           blocks == h[r].blocks
           list == role'
<1>1. Plain(blocks) = wish /\ h[r].authoritative = config[r].authoritative /\ blocks \in Seq(Plans)
  BY InvFacts DEF Applying, Handlers
<1>2. wish \in Seq(PlainBlocks) /\ list \in Seq(Held)
  BY ConfigFacts DEF RoleIInv, RoleTypes
<1>3. /\ IF h[r].authoritative THEN Len(list) = Len(blocks) ELSE Len(list) >= Len(blocks)
      /\ \A i \in DOMAIN blocks : list[i].rule = blocks[i].rule /\ list[i].permission = blocks[i].permission
  BY DEF Applied, IsBlock
<1>4. wish = [i \in DOMAIN blocks |-> [rule |-> blocks[i].rule, permission |-> blocks[i].permission]]
  BY <1>1 DEF Plain
<1>5. Plain(list) = [i \in DOMAIN list |-> [rule |-> list[i].rule, permission |-> list[i].permission]]
  BY DEF Plain
<1> HIDE DEF wish, blocks, list
<1>6. /\ Len(wish) \in Nat /\ Len(list) \in Nat /\ Len(blocks) \in Nat
      /\ DOMAIN wish = 1..Len(wish) /\ DOMAIN blocks = 1..Len(blocks) /\ DOMAIN list = 1..Len(list)
  BY <1>1, <1>2, ListFacts
<1>7. DOMAIN wish = DOMAIN blocks
  BY <1>4
<1>8. Len(wish) = Len(blocks)
  <2>1. \A m, n \in Nat : 1..m = 1..n => m = n
    <3>1. SUFFICES ASSUME NEW m \in Nat, NEW n \in Nat, 1..m = 1..n PROVE m = n
      OBVIOUS
    <3>2. \A i : i \in 1..m <=> i \in 1..n
      BY <3>1
    <3>3. (m = 0 <=> n = 0) /\ (m # 0 => m \in 1..n) /\ (n # 0 => n \in 1..m)
      <4>1. (m # 0 => m \in 1..m) /\ (n # 0 => n \in 1..n)
        OBVIOUS
      <4>2. (m = 0 => 1..m = {}) /\ (n = 0 => 1..n = {})
        OBVIOUS
      <4> QED
        BY <3>2, <4>1, <4>2
    <3> QED
      BY <3>3
  <2> QED
    BY <1>6, <1>7, <2>1
<1>9. \A i \in 1..Len(wish) : i \in DOMAIN list
  <2>1. Len(list) >= Len(wish)
    <3>1. Len(list) = Len(blocks) \/ Len(list) >= Len(blocks)
      BY <1>3
    <3>2. Len(list) \in Nat /\ Len(blocks) \in Nat /\ Len(wish) = Len(blocks)
      BY <1>6, <1>8
    <3>3. \A m, n \in Nat : m = n => m >= n
      OBVIOUS
    <3> QED
      BY <3>1, <3>2, <3>3
  <2> QED
    BY <1>6, <2>1
<1>10. \A i \in 1..Len(wish) : Plain(list)[i] = wish[i]
  BY <1>3, <1>4, <1>5, <1>6, <1>7, <1>9
<1> QED
  BY <1>1, <1>3, <1>8, <1>10 DEF wish, list

LEMMA RoleInvariant == Spec => []RoleIInv
<1>1. Init => RoleIInv
  BY RoleInit
<1>2. RoleIInv /\ [Next]_vars => RoleIInv'
  BY RoleStep
<1> QED
  BY <1>1, <1>2, PTL DEF Spec

\* A handler without authority leaves the permissions its resource never declared as they
\* are, and, unless somebody else changes the role meanwhile, in their order: for every
\* number of resources, rules and configured lists, with calls that fail or whose reply
\* is lost, and with crashes (reconcileRolePermissions, and Delete).
THEOREM UndeclaredUntouched == Spec => OthersUntouched
<1> DEFINE Promise == \A r \in Resources : ~Idle(r) /\ h'[r] # h[r] /\ ~h[r].authoritative =>
                      /\ Undeclared(r, role') = Undeclared(r, role)
                      /\ "race" \notin faults.kinds =>
                           \A p, q \in Undeclared(r, role) : Before(role', p, q) <=> Before(role, p, q)
<1>1. RoleIInv /\ Next => Promise
  BY RoleRespected DEF Respects, Undisturbed
<1>2. UNCHANGED vars => Promise
  BY DEF vars
<1>3. RoleIInv /\ [Next]_vars => [Promise]_vars
  BY <1>1, <1>2
<1> HIDE DEF Promise
<1>4. Spec => [][Promise]_vars
  BY <1>3, RoleInvariant, PTL DEF Spec
<1> QED
  BY <1>4 DEF OthersUntouched, Promise

\* When Create or Update reports success, the role has the declared permissions first and
\* in their order, and an authoritative resource has left no others, unless somebody
\* else changes the role meanwhile: for every list of blocks, with every assignment of ids
\* that the state may have, whatever the handlers of other resources on the role do.
THEOREM OkRoleApplied == Spec => OkMeansApplied
<1> DEFINE Promise == \A r \in Resources : Returns(r) /\ told'[r] = "ok" /\ "race" \notin faults.kinds =>
                      LET n == Len(config[r].blocks) IN
                      /\ IF config[r].authoritative THEN Len(role') = n ELSE Len(role') >= n
                      /\ \A i \in 1..n : Plain(role')[i] = config[r].blocks[i]
<1>1. RoleIInv /\ RoleIInv' /\ Next => Promise
  BY RoleApplied, RoleAsConfigured DEF Undisturbed
<1>2. UNCHANGED vars => Promise
  BY DEF vars, Returns, Idle
<1>3. RoleIInv /\ RoleIInv' /\ [Next]_vars => [Promise]_vars
  BY <1>1, <1>2
<1> HIDE DEF Promise
<1>4. Spec => [][Promise]_vars
  BY <1>3, RoleInvariant, PTL DEF Spec
<1> QED
  BY <1>4 DEF OkMeansApplied, Promise
-----------------------------------------------------------------------------
(* Errors have causes outside the provider.                                *)

\* Blocks with ids that are still those of the same rules, each of one permission.
Truthful(list, blocks) ==
  /\ Agrees(list, blocks)
  /\ \A i \in DOMAIN blocks : blocks[i].id # NoId
  /\ \A i, j \in DOMAIN blocks : blocks[i].id = blocks[j].id => blocks[i] = blocks[j]

\* A handler runs on a state that was refreshed, or on none, and has its blocks from it.
Steady(r) ==
  /\ saved[r].exists \/ saved[r].blocks = <<>>
  /\ ~Idle(r) => r \notin fresh
  /\ r \in fresh \/ ~Idle(r) => Truthful(role, saved[r].blocks)
  /\ h[r].op \in {"create", "update"} => h[r].blocks = Planned(r)
  /\ h[r].op = "destroy" => h[r].blocks = saved[r].blocks
  /\ h[r].phase = "drop" => h[r].op = "destroy"
  /\ h[r].phase = "list" => h[r].used = {}

\* The blocks done so far have a permission each, and what was listed and not deleted is
\* there.
Given(x) == \A m, n \in DOMAIN x.managed : x.managed[m] = x.managed[n] => m = n
ToDo(x) == IF x.phase = "recreate" THEN Len(x.managed) + 2 ELSE Len(x.managed) + 1
Matching(list, x) ==
  /\ Given(x) /\ ToSet(x.managed) \subseteq Ids(list) /\ Ids(x.listed) \ x.deleted \subseteq Ids(list)
  /\ Len(x.managed) < Len(x.blocks) => x.used = ToSet(x.managed) \cup x.deleted
  /\ \A n \in DOMAIN x.blocks : n >= ToDo(x) => x.blocks[n].id \notin x.deleted
  /\ x.phase = "recreate" => ~HasMatch(x.listed, x.blocks[Len(x.managed) + 1].rule, x.used)

\* What Delete works out of a list.
IdDropped(listed, used, block) ==
  IF block.id = NoId /\ HasMatch(listed, block.rule, used)
  THEN FindMatching(listed, block.rule, used).id ELSE block.id
BlocksDropped(listed, blocks) ==
  LET ids[i \in DOMAIN blocks] == IdDropped(listed, {ids[j] : j \in 1..(i - 1)}, blocks[i])
  IN Select(ids, {i \in DOMAIN blocks : ids[i] \in Ids(listed)})
AllDropped(x) == IF x.authoritative THEN Numbers(x.listed) ELSE BlocksDropped(x.listed, x.blocks)

\* Delete has deleted a part of that, and nothing else is missing.
Dropping(list, x) ==
  /\ Distinct(x.listed)
  /\ \A n \in DOMAIN x.managed : n \in DOMAIN AllDropped(x) /\ x.managed[n] = AllDropped(x)[n]
  /\ Ids(x.listed) \ ToSet(x.managed) \subseteq Ids(list)

Faithful(list, x) ==
  /\ x.phase \in {"blocks", "recreate"} => Matching(list, x)
  /\ x.phase = "order" => Given(x) /\ ToSet(x.managed) \subseteq Ids(list)
  /\ x.phase = "drop" => Dropping(list, x)

Unforced(r) == faults.number = 0 /\ ~Displaced(r)

ErrorIInv ==
  /\ faults.number \in Nat /\ (faults.number = 0 => faults.kinds = {})
  /\ \A r \in Resources : Steady(r) /\ (Unforced(r) => Faithful(role, h[r]))

-----------------------------------------------------------------------------
(* The blocks.                                                             *)

\* The plan, of a configuration and a state.
PlanOf(wish, old) ==
  [i \in DOMAIN wish |->
     [id |-> IF i \in DOMAIN old THEN old[i].id ELSE NoId, rule |-> wish[i].rule, permission |-> wish[i].permission]]

LEMMA PlanFacts ==
  /\ \A r : Planned(r) = PlanOf(config[r].blocks, saved[r].blocks)
  /\ \A r : Planned(r)' = PlanOf(config'[r].blocks, saved'[r].blocks)
BY DEF Planned, PlanOf

LEMMA WishApart ==
  ASSUME DeclaredOnce, RoleIInv, NEW r \in Resources
  PROVE  \A i, j \in DOMAIN config[r].blocks : config[r].blocks[i].rule = config[r].blocks[j].rule => i = j
<1>1. config[r] \in Configurations(r)
  BY DEF RoleIInv, RoleTypes
<1>2. CASE config[r] = Absent(r)
  <2>1. config[r].blocks = <<>> /\ DOMAIN <<>> = {}
    BY <1>2 DEF Absent
  <2> QED
    BY <2>1
<1>3. ASSUME NEW c \in Configs[r],
             config[r] = [present |-> TRUE, authoritative |-> c.authoritative, blocks |-> c.blocks]
      PROVE  \A i, j \in DOMAIN config[r].blocks : config[r].blocks[i].rule = config[r].blocks[j].rule => i = j
  <2>1. config[r].blocks = c.blocks
    BY <1>3
  <2> QED
    BY <2>1 DEF DeclaredOnce
<1> QED
  BY <1>1, <1>2, <1>3 DEF Configurations

\* The blocks of a Create or an Update: no rule twice, no id twice, and none with the id of a
\* permission that another block is about.
LEMMA BlocksApart ==
  ASSUME DeclaredOnce, RoleIInv, ErrorIInv, NEW r \in Resources, h[r].op \in {"create", "update"}, ~Displaced(r)
  PROVE  LET blocks == h[r].blocks IN
         /\ \A i, j \in DOMAIN blocks : blocks[i].rule = blocks[j].rule => i = j
         /\ \A i, j \in DOMAIN blocks : blocks[i].id = blocks[j].id /\ blocks[i].id # NoId => i = j
         /\ \A i \in DOMAIN blocks, k \in DOMAIN role : role[k].id = blocks[i].id =>
              role[k].rule = blocks[i].rule \/ role[k].rule \notin RulesIn(blocks)
<1> DEFINE blocks == h[r].blocks
           wish == config[r].blocks
           old == saved[r].blocks
<1>1. blocks = PlanOf(wish, old) /\ Truthful(role, old)
  BY PlanFacts DEF ErrorIInv, Steady, Idle
<1>2. /\ \A i, j \in DOMAIN wish : wish[i].rule = wish[j].rule => i = j
      /\ \A i \in DOMAIN old \cap DOMAIN wish : old[i].rule = wish[i].rule \/ old[i].rule \notin RulesIn(wish)
      /\ \A i, j \in DOMAIN old : old[i] = old[j] => i = j
  BY WishApart DEF Displaced, IsInjective
<1>3. \A k \in DOMAIN role : role[k].id # NoId
  <2>1. \A k \in DOMAIN role : role[k] \in Held
    BY ListFacts, InvRole DEF RoleOK
  <2> QED
    BY <2>1, RolePermissionAssumption DEF Held, Uuid, NoId
<1> HIDE DEF blocks, wish, old
<1>4. /\ DOMAIN blocks = DOMAIN wish
      /\ \A i \in DOMAIN blocks :
           /\ blocks[i].rule = wish[i].rule
           /\ blocks[i].id = IF i \in DOMAIN old THEN old[i].id ELSE NoId
  BY <1>1 DEF PlanOf
<1>5. RulesIn(blocks) = RulesIn(wish)
  BY <1>4 DEF RulesIn
<1>6. \A i, j \in DOMAIN blocks : blocks[i].id = blocks[j].id /\ blocks[i].id # NoId => i = j
  BY <1>1, <1>2, <1>4 DEF Truthful
<1>7. ASSUME NEW i \in DOMAIN blocks, NEW k \in DOMAIN role, role[k].id = blocks[i].id
      PROVE  role[k].rule = blocks[i].rule \/ role[k].rule \notin RulesIn(blocks)
  <2>1. i \in DOMAIN old \cap DOMAIN wish /\ role[k].id = old[i].id
    BY <1>3, <1>4, <1>7
  <2>2. role[k].rule = old[i].rule
    BY <1>1, <2>1 DEF Truthful, Agrees
  <2> QED
    BY <1>2, <1>4, <1>5, <2>1, <2>2
<1> QED
  BY <1>2, <1>4, <1>6, <1>7 DEF blocks

\* A change that keeps the role in good order keeps what the state says of it.
LEMMA TruthKeeps ==
  ASSUME NEW list, Sound(list), NEW r \in Resources, Truthful(role, saved[r].blocks)
  PROVE  Truthful(list, saved[r].blocks)
<1> DEFINE blocks == saved[r].blocks
<1>1. ASSUME NEW i \in DOMAIN list, NEW j \in DOMAIN blocks, list[i].id = blocks[j].id
      PROVE  list[i].rule = blocks[j].rule
  <2>1. list[i].id \in Ids(blocks)
    BY <1>1 DEF Ids
  <2>2. list[i].id \notin Unused
    BY <2>1, UnusedFacts
  <2>3. PICK k \in DOMAIN role : role[k].id = list[i].id /\ role[k].rule = list[i].rule
    BY <2>2 DEF Sound, Stems
  <2> QED
    BY <1>1, <2>3 DEF Truthful, Agrees
<1> QED
  BY <1>1 DEF Truthful, Agrees

-----------------------------------------------------------------------------
(* A step of a handler.                                                    *)

\* Nothing done by another resource matters; the handler of r goes on with its blocks, or
\* leaves a state that exists or has no blocks.
Advances(r) ==
  /\ config' = config /\ fresh' = fresh /\ Sound(role')
  /\ \E x, s :
       /\ h' = [h EXCEPT ![r] = x] /\ saved' = [saved EXCEPT ![r] = s]
       /\ \/ /\ x.op = h[r].op /\ x.blocks = h[r].blocks /\ s = saved[r]
             /\ x.phase # "list" /\ (x.phase = "drop" => x.op = "destroy")
          \/ x = NoHandler /\ (s.exists \/ s.blocks = <<>>)

\* It ends in an error only because of a fault, or because blocks change places.
Carried(r) ==
  /\ Advances(r) /\ (role' = role \/ lock = r)
  /\ faults'.number \in Nat /\ (faults'.number = 0 => faults' = faults)
  /\ faults'.number = 0 /\ Unforced(r) =>
       /\ Returns(r) => told'[r] # "error"
       /\ Faithful(role', h'[r])

LEMMA FaultCounts ==
  ASSUME ErrorIInv
  PROVE  /\ NoFault => faults'.number \in Nat /\ faults' = faults
         /\ \A k : Fault(k) => faults'.number \in Nat /\ faults'.number # 0
BY DEF ErrorIInv, NoFault, Fault

LEMMA StopAdvances ==
  ASSUME RoleIInv, NEW r \in Resources, NEW s, NEW result, Stop(r, s, result), config' = config, Sound(role'),
         s.exists \/ s.blocks = <<>>
  PROVE  Advances(r) /\ told'[r] = result /\ h'[r] = NoHandler
<1>1. /\ h' = [h EXCEPT ![r] = NoHandler] /\ saved' = [saved EXCEPT ![r] = s] /\ fresh' = fresh
      /\ told' = [told EXCEPT ![r] = result]
  BY DEF Stop
<1>2. h \in [Resources -> Handlers] /\ told \in [Resources -> {"none", "ok", "error"}]
  BY DEF RoleIInv, RoleTypes
<1> QED
  BY <1>1, <1>2 DEF Advances

LEMMA FailAdvances ==
  ASSUME RoleIInv, ErrorIInv, NEW r \in Resources, ReturnError(r), config' = config, Sound(role')
  PROVE  Advances(r)
<1>1. CASE h[r].op = "destroy"
  <2>1. Stop(r, saved[r], "error") /\ (saved[r].exists \/ saved[r].blocks = <<>>)
    BY <1>1 DEF ReturnError, ErrorIInv, Steady
  <2> QED
    BY <2>1, StopAdvances
<1>2. CASE h[r].op # "destroy"
  <2>1. Stop(r, PlannedState(r, TRUE), "error") /\ PlannedState(r, TRUE).exists
    BY <1>2 DEF ReturnError, PlannedState
  <2> QED
    BY <2>1, StopAdvances
<1> QED
  BY <1>1, <1>2

LEMMA ContinueAdvances ==
  ASSUME RoleIInv, NEW r \in Resources, NEW x, Continue(r, x), config' = config, Sound(role'),
         x.op = h[r].op, x.blocks = h[r].blocks, x.phase # "list", x.phase = "drop" => x.op = "destroy"
  PROVE  Advances(r) /\ h'[r] = x
<1>1. h' = [h EXCEPT ![r] = x] /\ saved' = saved /\ fresh' = fresh
  BY DEF Continue
<1>2. h \in [Resources -> Handlers] /\ saved \in [Resources -> States]
  BY DEF RoleIInv, RoleTypes
<1>3. saved' = [saved EXCEPT ![r] = saved[r]]
  BY <1>1, <1>2
<1> QED
  BY <1>1, <1>2, <1>3 DEF Advances

LEMMA CallCarries ==
  ASSUME RoleIInv, ErrorIInv, NEW r \in Resources, lock = r, NEW refused \in BOOLEAN, NEW result, NEW x,
         Call(r, refused, result, x), x.op = h[r].op, x.op # "idle", x.blocks = h[r].blocks,
         x.phase # "list", x.phase = "drop" => x.op = "destroy",
         ~refused => Sound(result), Unforced(r) => ~refused /\ Faithful(result, x)
  PROVE  Carried(r)
<1>1. config' = config /\ Sound(role)
  BY InvRole, SameSound DEF Call, Outside
<1>2. CASE ~refused /\ role' = result /\ Continue(r, x) /\ NoFault
  <2>1. Advances(r) /\ h'[r] = x
    BY <1>1, <1>2, ContinueAdvances
  <2> QED
    BY <1>2, <2>1, FaultCounts DEF Carried, Returns
<1>3. CASE refused /\ UNCHANGED role /\ ReturnError(r) /\ NoFault
  <2>1. Advances(r)
    BY <1>1, <1>3, FailAdvances
  <2> QED
    BY <1>3, <2>1, FaultCounts DEF Carried
<1>4. ASSUME NEW k, Fault(k), ReturnError(r), role' = role \/ (~refused /\ role' = result)
      PROVE  Carried(r)
  <2>1. Advances(r)
    BY <1>1, <1>4, FailAdvances
  <2> QED
    BY <1>4, <2>1, FaultCounts DEF Carried
<1> QED
  BY <1>2, <1>3, <1>4 DEF Call

LEMMA LocalCarries ==
  ASSUME RoleIInv, ErrorIInv, NEW r \in Resources, lock = r, NEW x, Local(r, x), x.op = h[r].op, x.op # "idle",
         x.blocks = h[r].blocks, x.phase # "list", x.phase = "drop" => x.op = "destroy",
         Unforced(r) => Faithful(role, x)
  PROVE  Carried(r)
<1>1. config' = config /\ role' = role /\ Sound(role) /\ Continue(r, x) /\ NoFault
  BY InvRole, SameSound DEF Local, Outside
<1>2. Advances(r) /\ h'[r] = x
  BY <1>1, ContinueAdvances
<1> QED
  BY <1>1, <1>2, FaultCounts DEF Carried, Returns

-----------------------------------------------------------------------------
(* Reconcile is not refused.                                               *)

\* What holds of its blocks, and of the permissions they were given.
LEMMA MatchingFacts ==
  ASSUME DeclaredOnce, RoleIInv, ErrorIInv, NEW r \in Resources, h[r].phase \in {"blocks", "recreate"}, Unforced(r)
  PROVE  /\ Matching(role, h[r]) /\ Covered(role, h[r]) /\ Agrees(role, h[r].listed)
         /\ h[r].op \in {"create", "update"} /\ ~Displaced(r)
         /\ \A m \in DOMAIN h[r].managed : m \in DOMAIN h[r].blocks
         /\ \A m \in DOMAIN h[r].managed, i \in DOMAIN role :
              role[i].id = h[r].managed[m] => role[i].rule = h[r].blocks[m].rule
<1>1. Matching(role, h[r]) /\ Undisturbed /\ ~Displaced(r)
  BY DEF ErrorIInv, Unforced, Faithful, Undisturbed
<1>2. Covered(role, h[r]) /\ Done(r, role, h[r])
  BY <1>1, BlocksProgress
<1>3. Agrees(role, h[r].listed) /\ h[r].op \in {"create", "update"}
  BY InvFacts DEF Orderly
<1>4. \A m \in DOMAIN h[r].managed : Alone(h[r], m)
  BY <1>1 DEF Matching, Given, Alone
<1>5. \A m \in DOMAIN h[r].managed : m \in DOMAIN h[r].blocks
  BY <1>2, HandlerTypes DEF Done
<1> QED
  BY <1>1, <1>2, <1>3, <1>4, <1>5 DEF Done, IsBlock

\* A deletion takes away one id.
LEMMA DroppedKeepsIds ==
  ASSUME RoleOK, NEW id
  PROVE  \A e \in Ids(role) : e # id => e \in Ids(Dropped(role, id))
<1> DEFINE list == Dropped(role, id)
<1>1. PICK f : Leaves(f, role, {id}, list)
  BY WithoutFacts DEF RoleOK, Dropped
<1> HIDE DEF list
<1>2. \A i \in DOMAIN role : role[i].id # id => role[i].id \in Ids(list)
  BY <1>1 DEF Leaves, Ids
<1> QED
  BY <1>2 DEF Ids, list

LEMMA DeleteMismatchedCarries ==
  ASSUME DeclaredOnce, RoleIInv, ErrorIInv, NEW r \in Resources, DeleteMismatched(r)
  PROVE  Carried(r)
<1> DEFINE id == Block(r).id
           list == Dropped(role, id)
           x == [h[r] EXCEPT !.phase = "recreate", !.used = @ \cup {id}, !.deleted = @ \cup {id}]
           gone == id \notin Ids(role)
           m == Len(h[r].managed)
           n == m + 1
<1>1. /\ In(r, "blocks") /\ m < Len(h[r].blocks) /\ Mismatched(r) /\ ~Matched(r)
      /\ Call(r, gone, list, x) /\ gone \in BOOLEAN
  BY DEF DeleteMismatched, AtBlock
<1>2. /\ h[r].phase = "blocks" /\ h[r].op # "idle" /\ lock = r /\ h[r] \in Handlers
      /\ m \in Nat /\ DOMAIN h[r].managed = 1..m /\ n \in DOMAIN h[r].blocks /\ DOMAIN h[r].blocks \subseteq Nat
      /\ Block(r) = h[r].blocks[n] /\ id = h[r].blocks[n].id
  BY <1>1, InFacts, InvFacts, HandlerTypes, BlockFacts, NewBlock, ListFacts
<1>3. Sound(list)
  BY InvRole, DroppedFacts
<1>4. \A i \in DOMAIN role : role[i].id # id => role[i].id \in Ids(list)
  <2>1. PICK f : Leaves(f, role, {id}, list)
    BY InvRole, WithoutFacts DEF RoleOK, Dropped
  <2> HIDE DEF list, id
  <2> QED
    BY <2>1 DEF Leaves, Ids
<1>5. /\ x.op = h[r].op /\ x.blocks = h[r].blocks /\ x.phase = "recreate" /\ x.listed = h[r].listed
      /\ x.managed = h[r].managed /\ x.used = h[r].used \cup {id} /\ x.deleted = h[r].deleted \cup {id}
  BY <1>2 DEF Handlers
<1> HIDE DEF x, list
<1>6. ASSUME Unforced(r) PROVE ~gone /\ Faithful(list, x)
  <2>1. /\ Matching(role, h[r]) /\ Covered(role, h[r]) /\ Agrees(role, h[r].listed)
        /\ h[r].op \in {"create", "update"} /\ ~Displaced(r)
        /\ \A k \in DOMAIN h[r].managed : k \in DOMAIN h[r].blocks
        /\ \A k \in DOMAIN h[r].managed, i \in DOMAIN role :
             role[i].id = h[r].managed[k] => role[i].rule = h[r].blocks[k].rule
    BY <1>2, <1>6, MatchingFacts
  <2>2. /\ \A i, j \in DOMAIN h[r].blocks : h[r].blocks[i].id = h[r].blocks[j].id /\ h[r].blocks[i].id # NoId => i = j
        /\ \A i \in DOMAIN h[r].blocks, k \in DOMAIN role : role[k].id = h[r].blocks[i].id =>
             role[k].rule = h[r].blocks[i].rule \/ role[k].rule \notin RulesIn(h[r].blocks)
    BY <2>1, BlocksApart
  <2>3. PICK j \in DOMAIN h[r].listed : h[r].listed[j].id = id /\ h[r].listed[j].rule # Block(r).rule
    BY <1>1, ByIdFacts DEF Mismatched, Listed
  <2>4. id \in Uuid /\ id # NoId
    <3>1. h[r].listed[j] \in Held
      BY HandlerTypes
    <3> QED
      BY <2>3, <3>1, RolePermissionAssumption DEF Held, Uuid, NoId
  <2>5. id \notin h[r].deleted
    BY <1>2, <2>1 DEF Matching, ToDo
  <2>6. id \in Ids(h[r].listed) \ h[r].deleted
    BY <2>3, <2>5 DEF Ids
  <2>7. ~gone
    BY <2>1, <2>6 DEF Matching
  <2>8. \A k \in DOMAIN h[r].managed : h[r].managed[k] # id
    <3>1. SUFFICES ASSUME NEW k \in DOMAIN h[r].managed, h[r].managed[k] = id PROVE FALSE
      OBVIOUS
    <3>2. PICK i \in DOMAIN role : role[i].id = id
      BY <2>7 DEF Ids
    <3>3. role[i].rule = h[r].blocks[k].rule /\ k \in DOMAIN h[r].blocks
      BY <2>1, <3>1, <3>2
    <3>4. role[i].rule = h[r].listed[j].rule
      BY <2>1, <2>3, <3>2 DEF Agrees
    <3>5. role[i].rule # h[r].blocks[n].rule
      BY <1>2, <2>3, <3>4
    <3>6. role[i].rule \in RulesIn(h[r].blocks)
      BY <3>3 DEF RulesIn
    <3> HIDE DEF id
    <3> QED
      BY <1>2, <2>2, <3>2, <3>5, <3>6
  <2> HIDE DEF id
  <2>9. Given(x) /\ ToSet(x.managed) \subseteq Ids(list)
    <3>1. \A k \in DOMAIN h[r].managed : h[r].managed[k] \in Ids(role)
      BY <2>1 DEF Matching, ToSet
    <3>2. \A e \in Ids(role) : e # id => e \in Ids(list)
      BY <1>4 DEF Ids
    <3> QED
      BY <1>5, <2>1, <2>8, <3>1, <3>2 DEF Matching, Given, ToSet
  <2>10. Ids(x.listed) \ x.deleted \subseteq Ids(list)
    <3>1. \A e \in Ids(role) : e # id => e \in Ids(list)
      BY <1>4 DEF Ids
    <3> QED
      BY <1>5, <2>1, <3>1 DEF Matching
  <2>11. x.used = ToSet(x.managed) \cup x.deleted
    BY <1>1, <1>5, <2>1 DEF Matching
  <2>12. ASSUME NEW k \in DOMAIN x.blocks, k >= ToDo(x) PROVE x.blocks[k].id \notin x.deleted
    <3>1. k >= m + 2 /\ k \in Nat /\ k \in DOMAIN h[r].blocks
      BY <1>2, <1>5, <2>12 DEF ToDo
    <3>2. k # n /\ k >= ToDo(h[r])
      BY <1>2, <3>1 DEF ToDo
    <3>3. h[r].blocks[k].id \notin h[r].deleted
      BY <2>1, <3>1, <3>2 DEF Matching
    <3>4. h[r].blocks[k].id # id
      BY <1>2, <2>2, <2>4, <3>1, <3>2
    <3> QED
      BY <1>5, <3>3, <3>4
  <2>13. ~HasMatch(x.listed, x.blocks[Len(x.managed) + 1].rule, x.used)
    BY <1>1, <1>2, <1>5 DEF Matched, HasMatch, Matches
  <2>14. Matching(list, x)
    BY <2>9, <2>10, <2>11, <2>12, <2>13 DEF Matching
  <2> QED
    BY <1>5, <2>7, <2>14 DEF Faithful
<1> HIDE DEF id, gone
<1> QED
  BY <1>1, <1>2, <1>3, <1>5, <1>6, CallCarries

\* What FindMatching finds is not used yet.
LEMMA FindUnused ==
  ASSUME NEW list \in Seq(Held), NEW rule, NEW used, HasMatch(list, rule, used)
  PROVE  \E i \in DOMAIN list :
           FindMatching(list, rule, used) = list[i] /\ list[i].rule = rule /\ list[i].id \notin used
<1> DEFINE S == Matches(list, rule, used)
<1>1. S \subseteq Nat /\ S # {} /\ \A i \in S : i \in DOMAIN list /\ list[i].rule = rule /\ list[i].id \notin used
  BY ListFacts DEF Matches, HasMatch
<1>2. FindMatching(list, rule, used) = list[CHOOSE i \in S : \A j \in S : i <= j]
  BY DEF FindMatching
<1> HIDE DEF S
<1>3. \E i \in S : \A j \in S : i <= j
  BY <1>1, Smallest
<1> QED
  BY <1>1, <1>2, <1>3

\* A block given a permission that the role has and no block has yet.
LEMMA ManageMatches ==
  ASSUME DeclaredOnce, RoleIInv, ErrorIInv, NEW r \in Resources, h[r].phase \in {"blocks", "recreate"}, Unforced(r),
         Len(h[r].managed) < Len(h[r].blocks), NEW id \in AnyId, id \notin Managed(r),
         NEW list, id \in Ids(list), Ids(role) \subseteq Ids(list)
  PROVE  Faithful(list, Manage(r, id))
<1> DEFINE x == Manage(r, id)
           m == Len(h[r].managed)
<1>1. Matching(role, h[r])
  BY MatchingFacts
<1>2. h[r] \in Handlers /\ Working(h[r]) /\ h[r].phase # "drop"
  BY InvFacts DEF Working
<1>3. /\ x.blocks = h[r].blocks /\ x.listed = h[r].listed /\ x.phase = "blocks" /\ x.deleted = h[r].deleted
      /\ DOMAIN x.managed = 1..(m + 1)
      /\ \A n \in DOMAIN h[r].managed : x.managed[n] = h[r].managed[n]
      /\ x.managed[m + 1] = id
      /\ ToSet(x.managed) = Managed(r) \cup {id}
  BY <1>2, ManageFacts
<1>4. x.used = h[r].used \cup {id} /\ Len(x.managed) = m + 1
  <2>1. x.managed = Append(h[r].managed, id) /\ h[r].managed \in Seq(AnyId)
    BY <1>2 DEF Manage, Handlers
  <2>2. Len(x.managed) = m + 1
    BY <2>1, AppendFacts
  <2> QED
    BY <1>2, <2>2 DEF Manage, Handlers
<1>5. m \in Nat /\ DOMAIN h[r].managed = 1..m /\ DOMAIN h[r].blocks \subseteq Nat
  BY HandlerTypes, ListFacts
<1> HIDE DEF x
<1>6. Given(x)
  <2>1. \A n \in 1..m : h[r].managed[n] \in Managed(r)
    BY <1>5 DEF Managed, ToSet
  <2>2. \A n \in 1..(m + 1) : n \in 1..m \/ n = m + 1
    BY <1>5
  <2>3. \A n \in 1..m : x.managed[n] = h[r].managed[n] /\ x.managed[n] # id
    BY <1>3, <1>5, <2>1
  <2>4. \A k, n \in 1..m : h[r].managed[k] = h[r].managed[n] => k = n
    BY <1>1, <1>5 DEF Matching, Given
  <2> QED
    BY <1>3, <2>2, <2>3, <2>4 DEF Given
<1>7. ToSet(x.managed) \subseteq Ids(list) /\ Ids(x.listed) \ x.deleted \subseteq Ids(list)
  BY <1>1, <1>3 DEF Matching, Managed
<1>8. x.used = ToSet(x.managed) \cup x.deleted
  BY <1>1, <1>3, <1>4 DEF Matching, Managed
<1>9. ASSUME NEW n \in DOMAIN x.blocks, n >= ToDo(x) PROVE x.blocks[n].id \notin x.deleted
  <2>1. n >= m + 2 /\ n \in Nat
    BY <1>3, <1>4, <1>5, <1>9 DEF ToDo
  <2>2. n >= ToDo(h[r])
    BY <1>5, <2>1 DEF ToDo
  <2> QED
    BY <1>1, <1>3, <2>2 DEF Matching
<1>10. Matching(list, x)
  BY <1>3, <1>6, <1>7, <1>8, <1>9 DEF Matching
<1> QED
  BY <1>3, <1>10 DEF Faithful, x

LEMMA CreatePermissionCarries ==
  ASSUME DeclaredOnce, RoleIInv, ErrorIInv, NEW r \in Resources, CreatePermission(r)
  PROVE  Carried(r)
<1> DEFINE list == Added(Block(r))
           x == Manage(r, NewId)
           taken == Block(r).rule \in RulesIn(role)
           m == Len(h[r].managed)
<1>1. /\ Unused # {} /\ (In(r, "blocks") \/ In(r, "recreate"))
      /\ In(r, "blocks") => Len(h[r].managed) < Len(h[r].blocks) /\ ~Matched(r)
      /\ Call(r, taken, list, x) /\ taken \in BOOLEAN
  BY DEF CreatePermission, AtBlock, In
<1>2. /\ Working(h[r]) /\ h[r].phase \in {"blocks", "recreate"} /\ Len(h[r].managed) < Len(h[r].blocks)
      /\ lock = r /\ h[r].phase # "drop" /\ (h[r].phase = "blocks" => ~Matched(r))
  BY <1>1, InFacts, InvFacts DEF Orderly, In
<1>3. NewId \in AnyId /\ NewId \in Uuid /\ NewId \notin Ids(role)
  BY <1>1, NewIdFacts DEF AnyId
<1>4. /\ Sound(list) /\ DOMAIN list = 1..(Len(role) + 1)
      /\ \A i \in DOMAIN role : list[i] = role[i]
      /\ list[Len(role) + 1] = [id |-> NewId, rule |-> Block(r).rule, permission |-> Block(r).permission]
  BY <1>1, <1>2, BlockFacts, InvRole, AddedFacts
<1>5. Len(role) \in Nat /\ DOMAIN role = 1..Len(role)
  BY ListFacts, InvRole DEF RoleOK
<1>6. x.op = h[r].op /\ x.op # "idle" /\ x.blocks = h[r].blocks /\ x.phase = "blocks"
  BY <1>2, <1>3, ManageFacts
<1>7. m \in Nat /\ DOMAIN h[r].managed = 1..m /\ m + 1 \in DOMAIN h[r].blocks /\ Block(r) = h[r].blocks[m + 1]
  BY <1>2, HandlerTypes, BlockFacts, NewBlock
<1>8. ASSUME Unforced(r) PROVE ~taken /\ Faithful(list, x)
  <2>1. /\ Matching(role, h[r]) /\ Covered(role, h[r]) /\ Agrees(role, h[r].listed)
        /\ h[r].op \in {"create", "update"} /\ ~Displaced(r)
        /\ \A k \in DOMAIN h[r].managed : k \in DOMAIN h[r].blocks
        /\ \A k \in DOMAIN h[r].managed, i \in DOMAIN role :
             role[i].id = h[r].managed[k] => role[i].rule = h[r].blocks[k].rule
    BY <1>2, <1>8, MatchingFacts
  <2>2. \A i, j \in DOMAIN h[r].blocks : h[r].blocks[i].rule = h[r].blocks[j].rule => i = j
    BY <2>1, BlocksApart
  <2>3. ~taken
    <3>1. SUFFICES ASSUME NEW i \in DOMAIN role, role[i].rule = Block(r).rule PROVE FALSE
      BY DEF RulesIn
    <3>2. role[i].id \notin ToSet(h[r].managed)
      <4>1. SUFFICES ASSUME NEW k \in DOMAIN h[r].managed, role[i].id = h[r].managed[k] PROVE FALSE
        BY DEF ToSet
      <4>2. h[r].blocks[k].rule = h[r].blocks[m + 1].rule /\ k \in DOMAIN h[r].blocks
        BY <1>7, <2>1, <3>1, <4>1
      <4>3. k = m + 1
        BY <1>7, <2>2, <4>2
      <4> QED
        BY <1>7, <4>3
    <3>3. role[i].id \in Ids(h[r].listed) /\ role[i].id \notin h[r].deleted
      BY <2>1, <3>2 DEF Covered, Ids
    <3>4. PICK j \in DOMAIN h[r].listed : h[r].listed[j].id = role[i].id
      BY <3>3 DEF Ids
    <3>5. h[r].listed[j].rule = Block(r).rule /\ h[r].listed[j].id \notin h[r].used
      BY <1>2, <2>1, <3>1, <3>2, <3>3, <3>4 DEF Agrees, Matching
    <3>6. HasMatch(h[r].listed, Block(r).rule, h[r].used)
      BY <3>5 DEF HasMatch, Matches
    <3> QED
      BY <1>2, <1>7, <2>1, <3>6 DEF Matching, Matched
  <2>4. NewId \in Ids(list) /\ Ids(role) \subseteq Ids(list)
    <3> HIDE DEF list
    <3>1. Len(role) + 1 \in DOMAIN list /\ list[Len(role) + 1].id = NewId
      BY <1>4, <1>5
    <3>2. \A i \in DOMAIN role : i \in DOMAIN list /\ list[i].id = role[i].id
      BY <1>4, <1>5
    <3> QED
      BY <3>1, <3>2 DEF Ids
  <2>5. NewId \notin Managed(r)
    BY <1>3, <2>1 DEF Matching, Managed
  <2> HIDE DEF list
  <2> QED
    BY <1>2, <1>3, <1>8, <2>3, <2>4, <2>5, ManageMatches
<1> HIDE DEF list, x, taken
<1> QED
  BY <1>1, <1>2, <1>4, <1>6, <1>8, CallCarries

LEMMA KeepPermissionCarries ==
  ASSUME DeclaredOnce, RoleIInv, ErrorIInv, NEW r \in Resources, KeepPermission(r)
  PROVE  Carried(r)
<1> DEFINE id == Chosen(r).id
           x == Manage(r, id)
           gone == id \notin Ids(role)
           list == Permitting(role, id, Block(r).permission)
           m == Len(h[r].managed)
<1>1. /\ In(r, "blocks") /\ m < Len(h[r].blocks)
      /\ Matched(r) \/ (Listed(r, Block(r).id) /\ ~Mismatched(r))
      /\ Local(r, x) \/ Call(r, gone, list, x)
      /\ gone \in BOOLEAN
  BY DEF KeepPermission, AtBlock
<1>2. /\ Working(h[r]) /\ h[r].phase = "blocks" /\ RoleOK /\ Block(r).permission \in Permissions /\ lock = r
  BY <1>1, InFacts, InvRole, BlockFacts
<1>3. PICK j \in DOMAIN h[r].listed :
        /\ Chosen(r) = h[r].listed[j] /\ Chosen(r).rule = Block(r).rule /\ Chosen(r).id \in AnyId
        /\ \A i \in DOMAIN role : role[i].id = Chosen(r).id => role[i].rule = Block(r).rule
  BY <1>1, ChosenFacts
<1>4. x.op = h[r].op /\ x.op # "idle" /\ x.blocks = h[r].blocks /\ x.phase = "blocks"
  BY <1>1, <1>2, <1>3, ManageFacts
<1>5. /\ Sound(list) /\ DOMAIN list = DOMAIN role
      /\ \A i \in DOMAIN role : list[i].id = role[i].id
  BY <1>2, PermittingFacts
<1>6. m \in Nat /\ DOMAIN h[r].managed = 1..m /\ m + 1 \in DOMAIN h[r].blocks /\ Block(r) = h[r].blocks[m + 1]
  BY <1>1, HandlerTypes, BlockFacts, NewBlock
<1>7. ASSUME Unforced(r) PROVE ~gone /\ Faithful(list, x) /\ Faithful(role, x)
  <2>1. /\ Matching(role, h[r]) /\ Covered(role, h[r]) /\ Agrees(role, h[r].listed)
        /\ h[r].op \in {"create", "update"} /\ ~Displaced(r)
        /\ \A k \in DOMAIN h[r].managed : k \in DOMAIN h[r].blocks
        /\ \A k \in DOMAIN h[r].managed, i \in DOMAIN role :
             role[i].id = h[r].managed[k] => role[i].rule = h[r].blocks[k].rule
    BY <1>2, <1>7, MatchingFacts
  <2>2. \A i, k \in DOMAIN h[r].blocks : h[r].blocks[i].rule = h[r].blocks[k].rule => i = k
    BY <2>1, BlocksApart
  <2>3. h[r].blocks[m + 1].id \notin h[r].deleted /\ h[r].used = Managed(r) \cup h[r].deleted
    BY <1>1, <1>2, <1>6, <2>1 DEF Matching, ToDo, Managed
  <2>4. id \notin h[r].deleted
    <3>1. CASE Listed(r, Block(r).id) /\ ~Mismatched(r)
      <4>1. Chosen(r).id = Block(r).id
        BY <3>1, ByIdFacts DEF Chosen, Listed
      <4> QED
        BY <1>6, <2>3, <4>1
    <3>2. CASE ~(Listed(r, Block(r).id) /\ ~Mismatched(r))
      <4>1. HasMatch(h[r].listed, Block(r).rule, h[r].used) /\ h[r].listed \in Seq(Held)
        BY <1>1, <3>2, HandlerTypes DEF Matched
      <4>2. Chosen(r).id \notin h[r].used
        BY <3>2, <4>1, FindUnused DEF Chosen
      <4> QED
        BY <2>3, <4>2
    <3> QED
      BY <3>1, <3>2
  <2>5. ~gone
    <3>1. id \in Ids(h[r].listed) \ h[r].deleted
      BY <1>3, <2>4 DEF Ids
    <3> QED
      BY <2>1, <3>1 DEF Matching
  <2>6. id \notin Managed(r)
    <3>1. SUFFICES ASSUME NEW k \in DOMAIN h[r].managed, h[r].managed[k] = id PROVE FALSE
      BY DEF Managed, ToSet
    <3>2. PICK i \in DOMAIN role : role[i].id = id
      BY <2>5 DEF Ids
    <3>3. h[r].blocks[k].rule = h[r].blocks[m + 1].rule /\ k \in DOMAIN h[r].blocks
      BY <1>3, <1>6, <2>1, <3>1, <3>2
    <3>4. k = m + 1
      BY <1>6, <2>2, <3>3
    <3> QED
      BY <1>6, <3>4
  <2>7. Ids(list) = Ids(role)
    <3> HIDE DEF list
    <3> QED
      BY <1>5 DEF Ids
  <2> HIDE DEF list
  <2> QED
    BY <1>1, <1>2, <1>3, <1>7, <2>5, <2>6, <2>7, ManageMatches
<1> HIDE DEF id, x, gone, list
<1>8. CASE Local(r, x)
  BY <1>2, <1>4, <1>7, <1>8, LocalCarries
<1>9. CASE Call(r, gone, list, x)
  BY <1>1, <1>2, <1>4, <1>5, <1>7, <1>9, CallCarries
<1> QED
  BY <1>1, <1>8, <1>9

LEMMA DeleteLeftoverCarries ==
  ASSUME DeclaredOnce, RoleIInv, ErrorIInv, NEW r \in Resources, DeleteLeftover(r)
  PROVE  Carried(r)
<1>1. PICK i \in DOMAIN h[r].listed :
        LET id == h[r].listed[i].id IN
        /\ id \in Leftover(r)
        /\ Call(r, id \notin Ids(role), Dropped(role, id), [h[r] EXCEPT !.deleted = @ \cup {id}])
  BY DEF DeleteLeftover
<1> DEFINE id == h[r].listed[i].id
           list == Dropped(role, id)
           x == [h[r] EXCEPT !.deleted = @ \cup {id}]
           gone == id \notin Ids(role)
           m == Len(h[r].managed)
<1>2. id \in Leftover(r) /\ Call(r, gone, list, x) /\ gone \in BOOLEAN
  BY <1>1
<1>3. /\ h[r].phase = "blocks" /\ h[r].op # "idle" /\ h[r] \in Handlers /\ lock = r
      /\ m = Len(h[r].blocks) /\ m \in Nat /\ DOMAIN h[r].blocks = 1..m
  BY InFacts, InvFacts, HandlerTypes DEF DeleteLeftover, BlocksDone
<1>4. id \in Ids(h[r].listed) /\ id \notin Managed(r) /\ id \notin h[r].deleted
  BY <1>2 DEF Leftover
<1> HIDE DEF id, gone
<1>5. Sound(list)
  BY InvRole, DroppedFacts
<1>6. /\ x.op = h[r].op /\ x.blocks = h[r].blocks /\ x.phase = "blocks" /\ x.listed = h[r].listed
      /\ x.managed = h[r].managed /\ x.deleted = h[r].deleted \cup {id}
  BY <1>3 DEF Handlers
<1>7. \A e \in Ids(role) : e # id => e \in Ids(list)
  BY InvRole, DroppedKeepsIds DEF RoleOK
<1> HIDE DEF x, list
<1>8. ASSUME Unforced(r) PROVE ~gone /\ Faithful(list, x)
  <2>1. Matching(role, h[r])
    BY <1>3, <1>8, MatchingFacts
  <2>2. ~gone
    BY <1>4, <2>1 DEF Matching, gone
  <2>3. Given(x) /\ ToSet(x.managed) \subseteq Ids(list)
    BY <1>4, <1>6, <1>7, <2>1 DEF Matching, Given, Managed
  <2>4. Ids(x.listed) \ x.deleted \subseteq Ids(list)
    BY <1>6, <1>7, <2>1 DEF Matching
  <2>5. ~(Len(x.managed) < Len(x.blocks)) /\ \A n \in DOMAIN x.blocks : ~(n >= ToDo(x))
    BY <1>3, <1>6 DEF ToDo
  <2>6. Matching(list, x)
    BY <1>6, <2>3, <2>4, <2>5 DEF Matching
  <2> QED
    BY <1>6, <2>2, <2>6 DEF Faithful
<1> QED
  BY <1>2, <1>3, <1>5, <1>6, <1>8, CallCarries

LEMMA ListAgainCarries ==
  ASSUME DeclaredOnce, RoleIInv, ErrorIInv, NEW r \in Resources, ListAgain(r)
  PROVE  Carried(r)
<1> DEFINE x == [h[r] EXCEPT !.phase = "order", !.listed = role]
<1>1. In(r, "blocks") /\ Call(r, FALSE, role, x)
  BY DEF ListAgain, BlocksDone
<1>2. h[r].phase = "blocks" /\ h[r].op # "idle" /\ h[r] \in Handlers /\ lock = r
  BY <1>1, InFacts, InvFacts
<1>3. x.op = h[r].op /\ x.blocks = h[r].blocks /\ x.phase = "order" /\ x.managed = h[r].managed
  BY <1>2 DEF Handlers
<1> HIDE DEF x
<1>4. Sound(role)
  BY InvRole, SameSound
<1>5. Unforced(r) => Faithful(role, x)
  BY <1>2, <1>3, MatchingFacts DEF Matching, Faithful, Given
<1> QED
  BY <1>1, <1>2, <1>3, <1>4, <1>5, CallCarries

\* An order of the permissions that the blocks were given, and of the others.
LEMMA OrderAccepted ==
  ASSUME RoleOK, NEW r, h[r] \in Handlers, h[r].listed = role, Given(h[r]), ToSet(h[r].managed) \subseteq Ids(role)
  PROVE  ~OrderRefused(RuleOrder(r))
<1> DEFINE order == RuleOrder(r)
           managed == h[r].managed
           m == Len(h[r].managed)
           left == Without(role, Managed(r))
           length == Len(order)
           size == Len(role)
           ids == Ids(role)
<1>1. /\ order \in Seq(AnyId) /\ left \in Seq(Held) /\ m \in Nat /\ DOMAIN managed = 1..m /\ length = m + Len(left)
      /\ \A n \in 1..m : order[n] = managed[n]
      /\ \A n \in 1..Len(left) : order[m + n] = left[n].id
  BY RuleOrderFacts
<1>2. PICK f : Leaves(f, role, Managed(r), left)
  BY WithoutFacts DEF RoleOK
<1>3. Managed(r) = {managed[n] : n \in DOMAIN managed}
  BY DEF Managed, ToSet
<1>4. (\A n \in DOMAIN managed : managed[n] \in ids) /\ \A k, n \in DOMAIN managed : managed[k] = managed[n] => k = n
  BY DEF Given, ToSet
<1> HIDE DEF order, m, left, managed
<1>5. /\ Len(left) \in Nat /\ DOMAIN left = 1..Len(left) /\ length \in Nat /\ DOMAIN order = 1..length
      /\ size \in Nat /\ DOMAIN role = 1..size
  BY <1>1, ListFacts DEF RoleOK
<1>6. /\ f \in [DOMAIN left -> DOMAIN role]
      /\ \A n \in DOMAIN left : left[n] = role[f[n]] /\ role[f[n]].id \notin Managed(r)
      /\ \A k, n \in DOMAIN left : k < n => f[k] < f[n]
      /\ \A i \in DOMAIN role : role[i].id \notin Managed(r) => \E n \in DOMAIN left : f[n] = i
  BY <1>2 DEF Leaves
<1> HIDE DEF length
<1>7. ASSUME NEW i \in DOMAIN order
      PROVE  \/ i \in DOMAIN managed /\ order[i] = managed[i]
             \/ i - m \in DOMAIN left /\ order[i] = left[i - m].id
  <2>1. CASE i <= m
    BY <1>1, <1>5, <2>1
  <2>2. CASE ~(i <= m)
    <3>1. i - m \in 1..Len(left) /\ m + (i - m) = i
      BY <1>1, <1>5, <2>2
    <3> QED
      BY <1>1, <1>5, <3>1
  <2> QED
    BY <2>1, <2>2
<1>8. \A i \in DOMAIN order : order[i] \in ids
  BY <1>4, <1>6, <1>7 DEF Ids
<1>9. ASSUME NEW id \in ids PROVE \E i \in DOMAIN order : order[i] = id
  <2>1. PICK k \in DOMAIN role : role[k].id = id
    BY DEF Ids
  <2>2. CASE id \in Managed(r)
    <3>1. PICK n \in DOMAIN managed : managed[n] = id
      BY <1>3, <2>2
    <3>2. n \in DOMAIN order
      BY <1>1, <1>5, <3>1
    <3> QED
      BY <1>1, <3>1, <3>2
  <2>3. CASE id \notin Managed(r)
    <3>1. PICK n \in DOMAIN left : f[n] = k
      BY <1>6, <2>1, <2>3
    <3>2. m + n \in DOMAIN order
      BY <1>1, <1>5, <3>1
    <3> QED
      BY <1>1, <1>5, <1>6, <2>1, <3>1, <3>2
  <2> QED
    BY <2>2, <2>3
<1>10. ASSUME NEW i \in DOMAIN order, NEW j \in DOMAIN order, order[i] = order[j] PROVE i = j
  <2>1. \A k, n \in DOMAIN left : left[k].id = left[n].id => k = n
    <3>1. TAKE k, n \in DOMAIN left
    <3>2. f[k] \in DOMAIN role /\ f[n] \in DOMAIN role /\ f[k] \in Nat /\ f[n] \in Nat /\ k \in Nat /\ n \in Nat
      BY <1>5, <1>6
    <3>3. left[k].id = left[n].id => f[k] = f[n]
      BY <1>6, <3>2 DEF RoleOK, Distinct
    <3>4. (k < n => f[k] < f[n]) /\ (n < k => f[n] < f[k])
      BY <1>6
    <3> QED
      BY <3>2, <3>3, <3>4
  <2>2. \A k \in DOMAIN managed, n \in DOMAIN left : managed[k] # left[n].id
    BY <1>3, <1>6
  <2>3. i \in Nat /\ j \in Nat /\ (i - m = j - m => i = j)
    BY <1>1, <1>5
  <2>4. CASE i \in DOMAIN managed /\ order[i] = managed[i]
    BY <1>4, <1>7, <1>10, <2>2, <2>4
  <2>5. CASE i - m \in DOMAIN left /\ order[i] = left[i - m].id
    BY <1>7, <1>10, <2>1, <2>2, <2>3, <2>5
  <2> QED
    BY <1>7, <2>4, <2>5
<1> DEFINE numbers == [n \in 1..size |-> role[n].id]
<1>11. numbers \in Injection(1..size, ids) /\ numbers \in Surjection(1..size, ids)
  BY <1>5 DEF Injection, IsInjective, Surjection, RoleOK, Distinct, Ids
<1>12. order \in Injection(1..length, ids) /\ order \in Surjection(1..length, ids)
  <2>1. order \in [1..length -> ids]
    <3>1. order = [i \in 1..length |-> order[i]]
      BY <1>1, <1>5
    <3> QED
      BY <1>5, <1>8, <3>1
  <2> HIDE DEF ids
  <2> QED
    BY <1>5, <1>9, <1>10, <2>1 DEF Injection, IsInjective, Surjection
<1>13. /\ IsFiniteSet(1..size) /\ Cardinality(1..size) = size
       /\ IsFiniteSet(1..length) /\ Cardinality(1..length) = length
  BY <1>5, FS_Interval
<1> HIDE DEF size, ids, numbers
<1>14. length = size
  BY <1>11, <1>12, <1>13, FS_Surjection
<1>15. ToSet(order) = Ids(role)
  BY <1>8, <1>9 DEF ToSet, ids
<1> QED
  BY <1>14, <1>15 DEF OrderRefused, order, length, size

LEMMA OrderPermissionsCarries ==
  ASSUME DeclaredOnce, RoleIInv, ErrorIInv, NEW r \in Resources, OrderPermissions(r)
  PROVE  Carried(r)
<1> DEFINE order == RuleOrder(r)
           x == [h[r] EXCEPT !.phase = "read"]
           refused == OrderRefused(order)
           list == IF refused THEN role ELSE InTheOrder(order)
<1>1. In(r, "order") /\ (Local(r, x) \/ Call(r, refused, list, x)) /\ refused \in BOOLEAN
  BY DEF OrderPermissions, OrderRefused, InTheOrder
<1>2. h[r].phase = "order" /\ h[r].op # "idle" /\ h[r] \in Handlers /\ lock = r /\ RoleOK
  BY <1>1, InFacts, InvFacts, InvRole
<1>3. x.op = h[r].op /\ x.blocks = h[r].blocks /\ x.phase = "read"
  BY <1>2 DEF Handlers
<1> HIDE DEF x
<1>4. Faithful(list, x) /\ Faithful(role, x)
  BY <1>3 DEF Faithful
<1>5. ~refused => Sound(list)
  <2>1. order \in Seq(AnyId)
    BY <1>2, RuleOrderFacts
  <2> HIDE DEF order
  <2> QED
    BY <1>2, <2>1, OrderFacts
<1>6. Unforced(r) => ~refused
  <2>1. SUFFICES ASSUME Unforced(r) PROVE ~refused
    OBVIOUS
  <2>2. Given(h[r]) /\ ToSet(h[r].managed) \subseteq Ids(role) /\ Undisturbed
    BY <1>2, <2>1 DEF ErrorIInv, Unforced, Faithful, Undisturbed
  <2>3. h[r].listed = role
    BY <1>2, <2>2, InvFacts DEF Progress, Listing
  <2> QED
    BY <1>2, <2>2, <2>3, OrderAccepted
<1> HIDE DEF refused, list
<1>7. CASE Local(r, x)
  BY <1>2, <1>3, <1>4, <1>7, LocalCarries
<1>8. CASE Call(r, refused, list, x)
  BY <1>1, <1>2, <1>3, <1>4, <1>5, <1>6, <1>8, CallCarries
<1> QED
  BY <1>1, <1>7, <1>8

\* Read takes up one block after the other.
LEMMA ReadInTurn ==
  ASSUME NEW listed, NEW S, NEW blocks \in Seq(S)
  PROVE  LET read == ReadBlocks(listed, blocks) IN
         /\ DOMAIN read = DOMAIN blocks
         /\ \A i \in DOMAIN blocks : read[i] = ReadBlock(listed, {read[j].id : j \in 1..(i - 1)}, blocks[i])
<1> DEFINE read == ReadBlocks(listed, blocks)
<1>1. Len(blocks) \in Nat /\ DOMAIN blocks = 1..Len(blocks)
  BY ListFacts
<1>2. \E f : f = [i \in DOMAIN blocks |-> ReadBlock(listed, {f[j].id : j \in 1..(i - 1)}, blocks[i])]
  <2>1. PICK f : Reads(f, Len(blocks), listed, blocks)
    BY <1>1, ReadsExist
  <2>2. f = [i \in DOMAIN blocks |-> ReadBlock(listed, {f[j].id : j \in 1..(i - 1)}, blocks[i])]
    BY <1>1, <2>1 DEF Reads
  <2> QED
    BY <2>2
<1>3. read = [i \in DOMAIN blocks |-> ReadBlock(listed, {read[j].id : j \in 1..(i - 1)}, blocks[i])]
  BY <1>2 DEF ReadBlocks
<1> HIDE DEF read
<1>4. \A i \in DOMAIN blocks : read[i] = ReadBlock(listed, {read[j].id : j \in 1..(i - 1)}, blocks[i])
  BY <1>3
<1>5. DOMAIN read = DOMAIN blocks
  BY <1>3
<1> QED
  BY <1>4, <1>5 DEF read

\* The Read at the end finds a permission for each block.
LEMMA ReadFindsAll ==
  ASSUME DeclaredOnce, RoleIInv, ErrorIInv, NEW r \in Resources, h[r].phase = "read", Unforced(r)
  PROVE  ReadState(PlannedState(r, FALSE), role).exists
<1> DEFINE blocks == h[r].blocks
           read == ReadBlocks(role, blocks)
           state == PlannedState(r, FALSE)
<1>1. /\ h[r].op \in {"create", "update"} /\ ~Displaced(r) /\ Applied(role, h[r])
  BY InvFacts DEF Orderly, Unforced, ErrorIInv, Undisturbed, Progress
<1>2. /\ \A i, j \in DOMAIN blocks : blocks[i].rule = blocks[j].rule => i = j
      /\ \A i \in DOMAIN blocks, k \in DOMAIN role : role[k].id = blocks[i].id =>
           role[k].rule = blocks[i].rule \/ role[k].rule \notin RulesIn(blocks)
  BY <1>1, BlocksApart DEF Unforced
<1>3. /\ role \in Seq(Held) /\ Distinct(role) /\ Len(role) \in Nat /\ DOMAIN role = 1..Len(role)
      /\ blocks \in Seq(Plans) /\ Len(blocks) \in Nat /\ DOMAIN blocks = 1..Len(blocks)
  BY InvRole, ListFacts, HandlerTypes DEF RoleOK
<1>4. \A i \in DOMAIN blocks : i \in DOMAIN role /\ role[i].rule = blocks[i].rule
  <2>1. Len(role) >= Len(blocks)
    BY <1>1, <1>3 DEF Applied
  <2> QED
    BY <1>1, <1>3, <2>1 DEF Applied, IsBlock
<1>5. /\ DOMAIN read = DOMAIN blocks
      /\ \A i \in DOMAIN blocks : read[i] = ReadBlock(role, {read[j].id : j \in 1..(i - 1)}, blocks[i])
  BY <1>3, ReadInTurn
<1>6. state.blocks = blocks /\ state.exists = TRUE
  BY DEF PlannedState
<1>7. ReadState(state, role) = IF Ids(read) \subseteq Ids(role) THEN [state EXCEPT !.blocks = read] ELSE Gone
  BY <1>6 DEF ReadState
<1> HIDE DEF blocks, read
<1>8. ASSUME NEW i \in DOMAIN blocks PROVE read[i].id \in Ids(role)
  <2> DEFINE used == {read[j].id : j \in 1..(i - 1)}
  <2>1. read[i] = ReadBlock(role, used, blocks[i])
    BY <1>5
  <2>2. ASSUME NEW j \in 1..(i - 1) PROVE read[j].id # role[i].id
    <3>1. SUFFICES ASSUME read[j].id = role[i].id PROVE FALSE
      OBVIOUS
    <3>2. j \in DOMAIN blocks /\ j # i
      BY <1>3
    <3>3. /\ role[i].id \in Ids(role) /\ role[i].rule = blocks[i].rule
          /\ i \in DOMAIN role /\ blocks[i].rule \in RulesIn(blocks)
      BY <1>4 DEF Ids, RulesIn
    <3>4. blocks[j].rule # blocks[i].rule
      BY <1>2, <3>2
    <3>5. PICK taken : read[j] = ReadBlock(role, taken, blocks[j])
      BY <1>5, <3>2
    <3>6. CASE blocks[j].id \in Ids(role)
      <4>1. PICK k \in DOMAIN role : ById(role, blocks[j].id) = role[k] /\ role[k].id = blocks[j].id
        BY <3>6, ByIdFacts
      <4>2. read[j] = role[k]
        BY <3>5, <3>6, <4>1 DEF ReadBlock
      <4>3. blocks[j].id = role[i].id
        BY <3>1, <4>1, <4>2
      <4> QED
        BY <1>2, <3>2, <3>3, <3>4, <4>3
    <3>7. CASE blocks[j].id \notin Ids(role) /\ HasMatch(role, blocks[j].rule, taken)
      <4>1. PICK k \in DOMAIN role :
              FindMatching(role, blocks[j].rule, taken) = role[k] /\ role[k].rule = blocks[j].rule
        BY <1>3, <3>7, FindFacts
      <4>2. read[j] = role[k]
        BY <3>5, <3>7, <4>1 DEF ReadBlock
      <4>3. k = i
        BY <1>3, <3>1, <3>3, <4>2 DEF Distinct
      <4> QED
        BY <3>3, <3>4, <4>1, <4>3
    <3>8. CASE blocks[j].id \notin Ids(role) /\ ~HasMatch(role, blocks[j].rule, taken)
      <4>1. read[j] = blocks[j]
        BY <3>5, <3>8 DEF ReadBlock
      <4> QED
        BY <3>1, <3>3, <3>8, <4>1
    <3> QED
      BY <3>6, <3>7, <3>8
  <2>3. HasMatch(role, blocks[i].rule, used)
    <3>1. role[i].id \notin used
      BY <2>2
    <3> HIDE DEF used
    <3> QED
      BY <1>4, <3>1 DEF HasMatch, Matches
  <2> HIDE DEF used
  <2>4. CASE blocks[i].id \in Ids(role)
    <3>1. PICK k \in DOMAIN role : ById(role, blocks[i].id) = role[k]
      BY <2>4, ByIdFacts
    <3> QED
      BY <2>1, <2>4, <3>1 DEF ReadBlock, Ids
  <2>5. CASE blocks[i].id \notin Ids(role)
    <3>1. PICK k \in DOMAIN role : FindMatching(role, blocks[i].rule, used) = role[k]
      BY <1>3, <2>3, FindFacts
    <3> QED
      BY <2>1, <2>3, <2>5, <3>1 DEF ReadBlock, Ids
  <2> QED
    BY <2>4, <2>5
<1>9. Ids(read) \subseteq Ids(role)
  BY <1>5, <1>8 DEF Ids
<1>10. [state EXCEPT !.blocks = read].exists
  BY <1>6 DEF PlannedState
<1> QED
  BY <1>7, <1>9, <1>10

LEMMA ReturnReadCarries ==
  ASSUME DeclaredOnce, RoleIInv, ErrorIInv, NEW r \in Resources, ReturnRead(r)
  PROVE  Carried(r)
<1> DEFINE state == ReadState(PlannedState(r, FALSE), role)
           result == IF state.exists THEN "ok" ELSE "error"
<1>1. /\ In(r, "read") /\ role' = role /\ config' = config
      /\ \/ NoFault /\ Stop(r, state, result)
         \/ Fault("apiError") /\ ReturnError(r)
  BY DEF ReturnRead, Outside
<1>2. h[r].phase = "read" /\ Sound(role')
  BY <1>1, InFacts, InvRole, SameSound
<1>3. state.exists \/ state.blocks = <<>>
  <2>1. PlannedState(r, FALSE).exists
    BY DEF PlannedState
  <2>2. \/ state = Gone
        \/ \E read : state = [PlannedState(r, FALSE) EXCEPT !.blocks = read]
    BY DEF ReadState
  <2>3. \A read : [PlannedState(r, FALSE) EXCEPT !.blocks = read].exists
    BY DEF PlannedState
  <2> HIDE DEF state
  <2>4. CASE state = Gone
    BY <2>4 DEF Gone
  <2>5. ASSUME NEW read, state = [PlannedState(r, FALSE) EXCEPT !.blocks = read] PROVE state.exists
    BY <2>3, <2>5
  <2> QED
    BY <2>2, <2>4, <2>5
<1>4. Unforced(r) => state.exists
  BY <1>2, ReadFindsAll
<1> HIDE DEF state
<1>5. CASE NoFault /\ Stop(r, state, result)
  <2>1. Advances(r) /\ told'[r] = result /\ h'[r] = NoHandler
    BY <1>1, <1>2, <1>3, <1>5, StopAdvances
  <2>2. Faithful(role', h'[r])
    BY <2>1 DEF Faithful, NoHandler
  <2> QED
    BY <1>1, <1>4, <1>5, <2>1, <2>2, FaultCounts DEF Carried
<1>6. CASE Fault("apiError") /\ ReturnError(r)
  <2>1. Advances(r)
    BY <1>1, <1>2, <1>6, FailAdvances
  <2> QED
    BY <1>1, <1>6, <2>1, FaultCounts DEF Carried
<1> QED
  BY <1>1, <1>5, <1>6

-----------------------------------------------------------------------------
(* The first list, and Delete.                                             *)

LEMMA ListPermissionsCarries ==
  ASSUME DeclaredOnce, RoleIInv, ErrorIInv, NEW r \in Resources, ListPermissions(r)
  PROVE  Carried(r)
<1> DEFINE phase == IF h[r].op = "destroy" THEN "drop" ELSE "blocks"
           x == [h[r] EXCEPT !.phase = phase, !.listed = role]
<1>1. /\ In(r, "list") /\ role' = role /\ config' = config
      /\ h[r] \in Handlers /\ Orderly(h[r]) /\ h \in [Resources -> Handlers] /\ saved \in [Resources -> States]
      /\ h[r].used = {}
  BY InvFacts DEF ListPermissions, Outside, RoleIInv, RoleTypes, ErrorIInv, Steady, In
<1>2. Sound(role') /\ Distinct(role)
  BY <1>1, InvRole, SameSound DEF RoleOK
<1>3. CASE /\ h' = [h EXCEPT ![r].phase = phase, ![r].listed = role]
           /\ NoFault /\ UNCHANGED <<saved, told, fresh>>
  <2>1. h' = [h EXCEPT ![r] = x] /\ saved' = [saved EXCEPT ![r] = saved[r]]
    BY <1>1, <1>3
  <2>2. /\ x.op = h[r].op /\ x.blocks = h[r].blocks /\ x.phase = phase /\ x.listed = role
        /\ x.managed = <<>> /\ x.deleted = {} /\ x.used = {} /\ x.op # "idle"
    BY <1>1 DEF Handlers, In, Idle, Orderly
  <2> HIDE DEF x
  <2>3. h'[r] = x
    BY <1>1, <2>1
  <2>4. Advances(r)
    <3>1. /\ x.op = h[r].op /\ x.blocks = h[r].blocks /\ x.phase # "list" /\ (x.phase = "drop" => x.op = "destroy")
      BY <2>2
    <3> QED
      BY <1>1, <1>2, <1>3, <2>1, <3>1 DEF Advances
  <2>5. Faithful(role, x)
    <3>1. DOMAIN x.managed = {} /\ ToSet(x.managed) = {}
      BY <2>2 DEF ToSet
    <3>2. Matching(role, x) \/ x.phase = "drop"
      BY <2>2, <3>1 DEF Matching, Given
    <3>3. Dropping(role, x)
      BY <1>2, <2>2, <3>1 DEF Dropping
    <3> QED
      BY <2>2, <3>2, <3>3 DEF Faithful
  <2>6. ~Returns(r)
    BY <2>2, <2>3 DEF Returns
  <2> QED
    BY <1>1, <1>3, <2>3, <2>4, <2>5, <2>6, FaultCounts DEF Carried
<1>4. CASE Fault("apiError") /\ ReturnError(r)
  <2>1. Advances(r)
    BY <1>1, <1>2, <1>4, FailAdvances
  <2> QED
    BY <1>1, <1>4, <2>1, FaultCounts DEF Carried
<1> QED
  BY <1>3, <1>4 DEF ListPermissions

\* What Delete works out is what its handler knows.
LEMMA DropsKnown == \A r : Drops(r) = AllDropped(h[r])
BY DEF Drops, DropsAll, DropsBlocks, IdToDrop, Listed, AllDropped, BlocksDropped, IdDropped

\* It is listed, and comes once.
LEMMA AllDroppedFacts ==
  ASSUME NEW x, x.blocks \in Seq(Plans), x.listed \in Seq(Held), Distinct(x.listed),
         \A i \in DOMAIN x.blocks : x.blocks[i].id # NoId, Distinct(x.blocks)
  PROVE  /\ Len(AllDropped(x)) \in Nat /\ DOMAIN AllDropped(x) = 1..Len(AllDropped(x))
         /\ \A n \in DOMAIN AllDropped(x) : AllDropped(x)[n] \in Ids(x.listed)
         /\ \A m, n \in DOMAIN AllDropped(x) : AllDropped(x)[m] = AllDropped(x)[n] => m = n
<1> DEFINE blocks == x.blocks
           listed == x.listed
<1>1. CASE x.authoritative
  <2> DEFINE drops == Numbers(listed)
  <2>1. Len(listed) \in Nat /\ DOMAIN listed = 1..Len(listed)
    BY ListFacts
  <2>2. drops = [i \in DOMAIN listed |-> listed[i].id]
    BY DEF Numbers
  <2> HIDE DEF drops
  <2>3. DOMAIN drops = DOMAIN listed /\ \A i \in DOMAIN listed : drops[i] = listed[i].id
    BY <2>2
  <2>4. Len(drops) = Len(listed)
    <3>1. drops \in [1..Len(listed) -> Ids(listed)]
      BY <2>1, <2>2 DEF Ids
    <3> QED
      BY <2>1, <3>1
  <2>5. AllDropped(x) = drops
    BY <1>1 DEF AllDropped, drops
  <2> QED
    BY <2>1, <2>3, <2>4, <2>5 DEF Distinct, Ids
<1>2. CASE ~x.authoritative
  <2> DEFINE given == CHOOSE f : f = [i \in DOMAIN blocks |-> IdDropped(listed, {f[j] : j \in 1..(i - 1)}, blocks[i])]
             T == {i \in DOMAIN blocks : given[i] \in Ids(listed)}
             size == Cardinality(T)
             order == InOrder(T)
             drops == BlocksDropped(listed, blocks)
             ids == [i \in DOMAIN blocks |-> blocks[i].id]
  <2>1. \A used : \A i \in DOMAIN blocks : IdDropped(listed, used, blocks[i]) = blocks[i].id
    BY DEF IdDropped
  <2>2. ids = [i \in DOMAIN blocks |-> IdDropped(listed, {ids[j] : j \in 1..(i - 1)}, blocks[i])]
    <3>1. \A i \in DOMAIN blocks : ids[i] = IdDropped(listed, {ids[j] : j \in 1..(i - 1)}, blocks[i])
      <4>1. \A i \in DOMAIN blocks : ids[i] = blocks[i].id
        OBVIOUS
      <4> HIDE DEF ids
      <4> QED
        BY <2>1, <4>1
    <3>2. ids = [i \in DOMAIN blocks |-> ids[i]]
      OBVIOUS
    <3> HIDE DEF ids
    <3> QED
      BY <3>1, <3>2
  <2>3. given = [i \in DOMAIN blocks |-> IdDropped(listed, {given[j] : j \in 1..(i - 1)}, blocks[i])]
    <3> HIDE DEF ids, blocks, listed
    <3> QED
      BY <2>2
  <2>4. drops = [n \in 1..size |-> given[order[n]]]
    BY DEF BlocksDropped, Select
  <2> HIDE DEF given, drops, blocks, listed, ids
  <2>5. \A i \in DOMAIN blocks : given[i] = blocks[i].id
    BY <2>1, <2>3
  <2>6. /\ IsFiniteSet(DOMAIN blocks) /\ DOMAIN blocks \subseteq Nat
        /\ T \in SUBSET DOMAIN blocks /\ \A i \in T : given[i] \in Ids(listed)
    BY ListFacts DEF blocks
  <2> HIDE DEF T, size, order
  <2>7. IsFiniteSet(T) /\ T \subseteq Nat
    BY <2>6, FS_Subset
  <2>8. /\ size \in Nat /\ order \in [1..size -> T]
        /\ \A m, n \in 1..size : m < n => order[m] < order[n]
    BY <2>7, InOrderFacts DEF size, order
  <2>9. \A m, n \in 1..size : order[m] = order[n] => m = n
    <3> TAKE m, n \in 1..size
    <3>1. order[m] \in T /\ order[n] \in T /\ \A i \in T : i \in Nat
      BY <2>7, <2>8
    <3>2. order[m] \in Nat /\ order[n] \in Nat
      BY <3>1
    <3>3. m \in Nat /\ n \in Nat
      BY <2>8
    <3>4. (m < n => order[m] < order[n]) /\ (n < m => order[n] < order[m])
      BY <2>8
    <3> QED
      BY <3>2, <3>3, <3>4
  <2>10. DOMAIN drops = 1..size /\ \A n \in 1..size : drops[n] = given[order[n]] /\ order[n] \in T
    BY <2>4, <2>8
  <2>11. Len(drops) = size
    <3>1. drops \in [1..size -> Ids(listed)]
      BY <2>4, <2>6, <2>8
    <3> QED
      BY <2>8, <3>1
  <2>12. \A m, n \in 1..size : drops[m] = drops[n] => m = n
    BY <2>5, <2>6, <2>9, <2>10 DEF Distinct, blocks
  <2>13. AllDropped(x) = drops
    BY <1>2 DEF AllDropped, drops, blocks, listed
  <2> QED
    BY <2>6, <2>8, <2>10, <2>11, <2>12, <2>13 DEF listed
<1> QED
  BY <1>1, <1>2

LEMMA DropPermissionCarries ==
  ASSUME DeclaredOnce, RoleIInv, ErrorIInv, NEW r \in Resources, DropPermission(r)
  PROVE  Carried(r)
<1> DEFINE managed == h[r].managed
           m == Len(h[r].managed)
           drops == AllDropped(h[r])
           id == drops[m + 1]
           list == Dropped(role, id)
           gone == id \notin Ids(role)
           after == Append(h[r].managed, id)
           x == [h[r] EXCEPT !.managed = after]
<1>1. In(r, "drop") /\ m < Len(drops) /\ Call(r, gone, list, x) /\ gone \in BOOLEAN
  BY DropsKnown DEF DropPermission
<1>2. /\ h[r].phase = "drop" /\ h[r].op = "destroy" /\ h[r] \in Handlers /\ lock = r
      /\ h[r].blocks = saved[r].blocks /\ Truthful(role, saved[r].blocks)
  BY <1>1, InFacts, InvFacts DEF ErrorIInv, Steady, Idle
<1>3. /\ h[r].blocks \in Seq(Plans) /\ h[r].listed \in Seq(Held)
      /\ managed \in Seq(AnyId) /\ m \in Nat /\ DOMAIN managed = 1..m
      /\ \A i \in DOMAIN h[r].listed : h[r].listed[i] \in Held
  BY HandlerTypes
<1>4. Sound(list)
  BY InvRole, DroppedFacts
<1>5. \A e \in Ids(role) : e # id => e \in Ids(list)
  BY InvRole, DroppedKeepsIds
<1> HIDE DEF list, drops, after, m
<1>6. /\ x.op = h[r].op /\ x.blocks = h[r].blocks /\ x.phase = "drop" /\ x.listed = h[r].listed
      /\ x.authoritative = h[r].authoritative /\ x.managed = after
  BY <1>2 DEF Handlers
<1> HIDE DEF x
<1>7. AllDropped(x) = drops
  BY <1>6 DEF AllDropped, drops
<1> HIDE DEF gone
<1>8. ASSUME Unforced(r) PROVE ~gone /\ Faithful(list, x)
  <2>1. Dropping(role, h[r])
    BY <1>2, <1>8 DEF ErrorIInv, Faithful
  <2>2. (\A i \in DOMAIN h[r].blocks : h[r].blocks[i].id # NoId) /\ Distinct(h[r].blocks)
    BY <1>2, <1>8 DEF Truthful, Distinct, Unforced, Displaced, IsInjective
  <2>3. /\ Len(drops) \in Nat /\ DOMAIN drops = 1..Len(drops)
        /\ \A n \in DOMAIN drops : drops[n] \in Ids(h[r].listed)
        /\ \A k, n \in DOMAIN drops : drops[k] = drops[n] => k = n
    BY <1>3, <2>1, <2>2, AllDroppedFacts DEF drops, Dropping
  <2>4. m + 1 \in DOMAIN drops /\ \A n \in 1..m : n # m + 1
    BY <1>1, <1>3, <2>3
  <2>5. \A n \in 1..m : n \in DOMAIN drops /\ managed[n] = drops[n]
    BY <1>3, <2>1 DEF Dropping, drops
  <2>6. id \in Ids(h[r].listed) /\ id \notin ToSet(managed)
    BY <1>3, <2>3, <2>4, <2>5 DEF ToSet
  <2>7. id \in AnyId
    BY <1>3, <2>6 DEF Ids, Held, AnyId
  <2>8. /\ DOMAIN after = 1..(m + 1)
        /\ \A n \in 1..m : after[n] = managed[n]
        /\ after[m + 1] = id
        /\ ToSet(after) = ToSet(managed) \cup {id}
    <3> HIDE DEF id, managed
    <3>1. after = Append(managed, id) /\ m = Len(managed)
      BY DEF after, managed, m
    <3> QED
      BY <1>3, <2>7, <3>1, AppendFacts
  <2>9. ~gone
    BY <2>1, <2>6 DEF Dropping, gone
  <2>10. \A n \in DOMAIN x.managed : n \in DOMAIN drops /\ x.managed[n] = drops[n]
    <3>1. \A n \in DOMAIN after : n \in 1..m \/ n = m + 1
      BY <1>3, <2>8
    <3> QED
      BY <1>6, <2>4, <2>5, <2>8, <3>1
  <2> HIDE DEF id
  <2>11. Ids(x.listed) \ ToSet(x.managed) \subseteq Ids(list)
    BY <1>5, <1>6, <2>1, <2>8 DEF Dropping
  <2>12. Dropping(list, x)
    BY <1>6, <1>7, <2>1, <2>10, <2>11 DEF Dropping
  <2> QED
    BY <1>6, <2>9, <2>12 DEF Faithful
<1> HIDE DEF id
<1> QED
  BY <1>1, <1>2, <1>4, <1>6, <1>8, CallCarries

LEMMA ReturnDeletedCarries ==
  ASSUME DeclaredOnce, RoleIInv, ErrorIInv, NEW r \in Resources, ReturnDeleted(r)
  PROVE  Carried(r)
<1>1. Stop(r, Gone, "none") /\ role' = role /\ config' = config /\ NoFault /\ Gone.blocks = <<>>
  BY DEF ReturnDeleted, Outside, Gone
<1>2. Sound(role')
  BY <1>1, InvRole, SameSound
<1>3. Advances(r) /\ told'[r] = "none" /\ h'[r] = NoHandler
  BY <1>1, <1>2, StopAdvances
<1>4. Faithful(role', h'[r])
  BY <1>3 DEF Faithful, NoHandler
<1> QED
  BY <1>1, <1>3, <1>4, FaultCounts DEF Carried

LEMMA HandlerCarries ==
  ASSUME DeclaredOnce, RoleIInv, ErrorIInv, NEW r \in Resources, Handler(r)
  PROVE  Carried(r) /\ ~Idle(r)
<1>1. Carried(r)
  BY DeleteMismatchedCarries, CreatePermissionCarries, KeepPermissionCarries, DeleteLeftoverCarries, ListAgainCarries,
     OrderPermissionsCarries, ReturnReadCarries, ListPermissionsCarries, DropPermissionCarries, ReturnDeletedCarries
     DEF Handler, Reconcile
<1>2. ~Idle(r)
  BY DEF Handler, Reconcile, DeleteMismatched, CreatePermission, KeepPermission, DeleteLeftover, ListAgain,
         OrderPermissions, ReturnRead, ListPermissions, DropPermission, ReturnDeleted, AtBlock, BlocksDone, In
<1> QED
  BY <1>1, <1>2

-----------------------------------------------------------------------------
(* Every step.                                                             *)

\* No handler ends in an error of its own.
Answered == \A r \in Resources : Returns(r) /\ told'[r] = "error" => faults'.number > 0 \/ Displaced(r)

LEMMA AdvanceSteady ==
  ASSUME RoleIInv, ErrorIInv, NEW r \in Resources, Advances(r), ~Idle(r), NEW q \in Resources
  PROVE  Steady(q)' /\ (q # r => saved'[q] = saved[q])
<1>1. /\ config' = config /\ fresh' = fresh /\ Sound(role')
      /\ h \in [Resources -> Handlers] /\ saved \in [Resources -> States]
  BY DEF Advances, RoleIInv, RoleTypes
<1>2. PICK x, s :
        /\ h' = [h EXCEPT ![r] = x] /\ saved' = [saved EXCEPT ![r] = s]
        /\ \/ /\ x.op = h[r].op /\ x.blocks = h[r].blocks /\ s = saved[r]
              /\ x.phase # "list" /\ (x.phase = "drop" => x.op = "destroy")
           \/ x = NoHandler /\ (s.exists \/ s.blocks = <<>>)
  BY DEF Advances
<1>3. Steady(q) /\ Steady(r)
  BY DEF ErrorIInv
<1>4. /\ Planned(q) = PlanOf(config[q].blocks, saved[q].blocks)
      /\ Planned(q)' = PlanOf(config'[q].blocks, saved'[q].blocks)
  BY PlanFacts
<1>5. CASE q # r
  <2>1. h'[q] = h[q] /\ saved'[q] = saved[q] /\ Planned(q)' = Planned(q)
    BY <1>1, <1>2, <1>4, <1>5
  <2>2. q \in fresh \/ ~Idle(q) => Truthful(role', saved[q].blocks)
    BY <1>1, <1>3, TruthKeeps DEF Steady
  <2> QED
    BY <1>1, <1>3, <2>1, <2>2 DEF Steady, Idle
<1>6. CASE q = r /\ x = NoHandler /\ (s.exists \/ s.blocks = <<>>)
  <2>1. h'[r] = NoHandler /\ saved'[r] = s
    BY <1>1, <1>2, <1>6
  <2>2. NoHandler.op = "idle" /\ NoHandler.phase = "none"
    BY DEF NoHandler
  <2>3. r \notin fresh'
    BY <1>1, <1>3 DEF Steady
  <2> QED
    BY <1>6, <2>1, <2>2, <2>3 DEF Steady, Idle
<1>7. CASE q = r /\ x.op = h[r].op /\ x.blocks = h[r].blocks /\ s = saved[r]
           /\ x.phase # "list" /\ (x.phase = "drop" => x.op = "destroy")
  <2>1. h'[r] = x /\ saved'[r] = saved[r] /\ Planned(r)' = Planned(r)
    BY <1>1, <1>2, <1>4, <1>7
  <2>2. Truthful(role', saved[r].blocks) /\ r \notin fresh'
    BY <1>1, <1>3, TruthKeeps DEF Steady
  <2> QED
    BY <1>3, <1>7, <2>1, <2>2 DEF Steady, Idle
<1> QED
  BY <1>2, <1>5, <1>6, <1>7

LEMMA SameDisplaced ==
  ASSUME NEW r, config'[r] = config[r], saved'[r] = saved[r]
  PROVE  Displaced(r)' <=> Displaced(r)
BY DEF Displaced, RulesIn, IsInjective

LEMMA HandlerFaithful ==
  ASSUME DeclaredOnce, RoleIInv, ErrorIInv, NEW r \in Resources, Handler(r)
  PROVE  ErrorIInv' /\ Answered
<1>1. Carried(r) /\ Advances(r) /\ ~Idle(r) /\ \A q \in Resources : q # r => h'[q] = h[q]
  BY HandlerCarries, HandlerKeeps DEF Carried
<1>2. faults'.number \in Nat /\ (faults'.number = 0 => faults' = faults) /\ config' = config
  BY <1>1 DEF Carried, Advances
<1>3. \A q \in Resources : Steady(q)' /\ (q # r => saved'[q] = saved[q])
  BY <1>1, AdvanceSteady
<1>4. ASSUME NEW q \in Resources, Unforced(q)' PROVE Faithful(role', h'[q])
  <2>1. faults'.number = 0 /\ faults.number = 0
    BY <1>2, <1>4 DEF Unforced
  <2>2. CASE q # r
    <3>1. Unforced(q)
      BY <1>2, <1>3, <1>4, <2>1, <2>2, SameDisplaced DEF Unforced
    <3>2. CASE role' = role
      BY <1>1, <2>2, <3>1, <3>2 DEF ErrorIInv
    <3>3. CASE lock = r
      <4>1. ~Working(h[q])
        BY <2>2, <3>3, InvFacts, RolePermissionAssumption
      <4> QED
        BY <1>1, <2>2, <4>1 DEF Faithful, Working
    <3> QED
      BY <1>1, <3>2, <3>3 DEF Carried
  <2>3. CASE q = r
    <3>1. PICK x, s :
            /\ h' = [h EXCEPT ![r] = x] /\ saved' = [saved EXCEPT ![r] = s]
            /\ s = saved[r] \/ x = NoHandler
      BY <1>1 DEF Advances
    <3>2. h'[r] = x /\ saved'[r] = s
      BY <3>1 DEF RoleIInv, RoleTypes
    <3>3. CASE s = saved[r]
      <4>1. Unforced(r)
        BY <1>2, <1>4, <2>1, <2>3, <3>2, <3>3, SameDisplaced DEF Unforced
      <4> QED
        BY <1>1, <2>1, <2>3, <4>1 DEF Carried
    <3>4. CASE x = NoHandler
      BY <2>3, <3>2, <3>4 DEF Faithful, NoHandler
    <3> QED
      BY <3>1, <3>3, <3>4
  <2> QED
    BY <2>2, <2>3
<1>5. ErrorIInv'
  BY <1>2, <1>3, <1>4 DEF ErrorIInv
<1>6. ASSUME NEW q \in Resources, Returns(q), told'[q] = "error" PROVE faults'.number > 0 \/ Displaced(q)
  <2>1. q = r
    BY <1>1, <1>6 DEF Returns, Idle
  <2>2. faults'.number = 0 => Displaced(r)
    BY <1>1, <1>2, <1>6, <2>1 DEF Carried, Unforced
  <2> QED
    BY <1>2, <2>1, <2>2
<1> QED
  BY <1>5, <1>6 DEF Answered

LEMMA RestingSteady ==
  ASSUME NEW r \in Resources, h'[r].op = "idle", h'[r].phase = "none", saved'[r].exists \/ saved'[r].blocks = <<>>,
         r \in fresh' => Truthful(role', saved'[r].blocks)
  PROVE  Steady(r)' /\ Faithful(role', h'[r])
BY DEF Steady, Idle, Faithful

LEMMA NoBlocksTruthful == \A list : Truthful(list, <<>>)
<1>1. DOMAIN <<>> = {}
  OBVIOUS
<1> QED
  BY <1>1 DEF Truthful, Agrees

\* A refreshed state.
LEMMA ReadTruthful ==
  ASSUME RoleOK, NEW state \in States, state.exists
  PROVE  LET s == ReadState(state, role) IN (s.exists \/ s.blocks = <<>>) /\ Truthful(role, s.blocks)
<1> DEFINE blocks == state.blocks
           read == ReadBlocks(role, blocks)
           s == ReadState(state, role)
<1>1. blocks \in Seq(Plans) /\ role \in Seq(Held) /\ \A k \in DOMAIN role : role[k] \in Held
  BY ListFacts DEF States, RoleOK
<1>2. /\ DOMAIN read = DOMAIN blocks
      /\ \A i \in DOMAIN blocks : read[i] = ReadBlock(role, {read[j].id : j \in 1..(i - 1)}, blocks[i])
  BY <1>1, ReadInTurn
<1>3. s = IF Ids(read) \subseteq Ids(role) THEN [state EXCEPT !.blocks = read] ELSE Gone
  BY DEF ReadState
<1> HIDE DEF read, s
<1>4. CASE ~(Ids(read) \subseteq Ids(role))
  <2>1. s.blocks = <<>>
    BY <1>3, <1>4 DEF Gone
  <2> QED
    BY <2>1, NoBlocksTruthful DEF s
<1>5. CASE Ids(read) \subseteq Ids(role)
  <2>1. s.blocks = read /\ s.exists
    BY <1>3, <1>5 DEF States
  <2>2. ASSUME NEW i \in DOMAIN blocks PROVE \E k \in DOMAIN role : read[i] = role[k]
    <3>1. PICK used : read[i] = ReadBlock(role, used, blocks[i])
      BY <1>2
    <3>2. CASE blocks[i].id \in Ids(role)
      BY <3>1, <3>2, ByIdFacts DEF ReadBlock
    <3>3. CASE blocks[i].id \notin Ids(role) /\ HasMatch(role, blocks[i].rule, used)
      <4>1. PICK k \in DOMAIN role : FindMatching(role, blocks[i].rule, used) = role[k]
        BY <1>1, <3>3, FindFacts
      <4> QED
        BY <3>1, <3>3, <4>1 DEF ReadBlock
    <3>4. ~(blocks[i].id \notin Ids(role) /\ ~HasMatch(role, blocks[i].rule, used))
      <4>1. SUFFICES ASSUME blocks[i].id \notin Ids(role), ~HasMatch(role, blocks[i].rule, used) PROVE FALSE
        OBVIOUS
      <4>2. read[i] = blocks[i]
        BY <3>1, <4>1 DEF ReadBlock
      <4>3. read[i].id \in Ids(read)
        BY <1>2 DEF Ids
      <4> QED
        BY <1>5, <4>1, <4>2, <4>3
    <3> QED
      BY <3>2, <3>3, <3>4
  <2>3. \A k \in DOMAIN role : role[k].id # NoId
    BY <1>1, RolePermissionAssumption DEF Held, Uuid, NoId
  <2>4. \A k, l \in DOMAIN role : role[k].id = role[l].id => role[k] = role[l]
    BY DEF RoleOK, Distinct
  <2>5. Truthful(role, read)
    BY <1>2, <2>2, <2>3, <2>4 DEF Truthful, Agrees
  <2> QED
    BY <2>1, <2>5 DEF s
<1> QED
  BY <1>4, <1>5

LEMMA RefreshFaithful == ASSUME RoleIInv, ErrorIInv, Refresh PROVE ErrorIInv' /\ Answered
<1>1. /\ AllIdle /\ role' = role /\ h' = h /\ faults' = faults
      /\ saved' = [r \in Resources |-> IF saved[r].exists THEN ReadState(saved[r], role) ELSE saved[r]]
      /\ fresh' = {r \in Resources : saved[r].exists}
  BY DEF Refresh
<1>2. ASSUME NEW r \in Resources PROVE Steady(r)' /\ Faithful(role', h'[r])
  <2>1. h'[r].op = "idle" /\ h'[r].phase = "none" /\ saved[r] \in States
    BY <1>1, InvFacts DEF AllIdle, Idle, Orderly
  <2>2. CASE saved[r].exists
    <3> DEFINE s == ReadState(saved[r], role)
    <3>1. (s.exists \/ s.blocks = <<>>) /\ Truthful(role, s.blocks)
      BY <2>1, <2>2, InvRole, ReadTruthful
    <3>2. saved'[r] = s
      BY <1>1, <2>2
    <3> HIDE DEF s
    <3> QED
      BY <1>1, <2>1, <3>1, <3>2, RestingSteady
  <2>3. CASE ~saved[r].exists
    <3>1. saved'[r] = saved[r] /\ r \notin fresh' /\ saved[r].blocks = <<>>
      BY <1>1, <2>3 DEF ErrorIInv, Steady
    <3> QED
      BY <2>1, <3>1, RestingSteady
  <2> QED
    BY <2>2, <2>3
<1>3. ErrorIInv'
  BY <1>1, <1>2 DEF ErrorIInv
<1>4. Answered
  BY <1>1 DEF Answered, Returns, AllIdle
<1> QED
  BY <1>3, <1>4

LEMMA EditFaithful == ASSUME RoleIInv, ErrorIInv, NEW e \in Resources, Edit(e) PROVE ErrorIInv' /\ Answered
<1>1. AllIdle /\ role' = role /\ h' = h /\ faults' = faults /\ saved' = saved /\ fresh' = {}
  BY DEF Edit
<1>2. ASSUME NEW r \in Resources PROVE Steady(r)' /\ Faithful(role', h'[r])
  <2>1. h'[r].op = "idle" /\ h'[r].phase = "none" /\ r \notin fresh' /\ saved'[r] = saved[r]
    BY <1>1, InvFacts DEF AllIdle, Idle, Orderly
  <2>2. saved[r].exists \/ saved[r].blocks = <<>>
    BY DEF ErrorIInv, Steady
  <2> QED
    BY <2>1, <2>2, RestingSteady
<1>3. ErrorIInv'
  BY <1>1, <1>2 DEF ErrorIInv
<1>4. Answered
  BY <1>1 DEF Answered, Returns, AllIdle
<1> QED
  BY <1>3, <1>4

LEMMA CrashFaithful == ASSUME RoleIInv, ErrorIInv, Crash PROVE ErrorIInv' /\ Answered
<1>1. /\ role' = role /\ h' = [r \in Resources |-> NoHandler] /\ saved' = saved /\ fresh' = {}
      /\ faults'.number \in Nat /\ faults'.number # 0
  BY FaultCounts DEF Crash
<1>2. ASSUME NEW r \in Resources PROVE Steady(r)' /\ Faithful(role', h'[r])
  <2>1. h'[r].op = "idle" /\ h'[r].phase = "none" /\ r \notin fresh' /\ saved'[r] = saved[r]
    BY <1>1 DEF NoHandler
  <2>2. saved[r].exists \/ saved[r].blocks = <<>>
    BY DEF ErrorIInv, Steady
  <2> QED
    BY <2>1, <2>2, RestingSteady
<1>3. ErrorIInv'
  BY <1>1, <1>2 DEF ErrorIInv
<1>4. Answered
  BY <1>1 DEF Answered
<1> QED
  BY <1>3, <1>4

LEMMA OutOfBandFaithful == ASSUME RoleIInv, ErrorIInv, OutOfBand PROVE ErrorIInv' /\ Answered
<1>1. /\ h' = h /\ saved' = saved /\ fresh' = fresh /\ config' = config
      /\ faults'.number \in Nat /\ faults'.number # 0
  BY FaultCounts DEF OutOfBand
<1>2. Sound(role')
  BY InvRole, OthersSound
<1>3. ASSUME NEW r \in Resources PROVE Steady(r)'
  <2>1. Steady(r) /\ h'[r] = h[r] /\ saved'[r] = saved[r]
    BY <1>1 DEF ErrorIInv
  <2>2. Planned(r)' = Planned(r)
    BY <1>1, <2>1, PlanFacts
  <2>3. r \in fresh \/ ~Idle(r) => Truthful(role', saved[r].blocks)
    BY <1>2, <2>1, TruthKeeps DEF Steady
  <2> QED
    BY <1>1, <2>1, <2>2, <2>3 DEF Steady, Idle
<1>4. ErrorIInv'
  BY <1>1, <1>3 DEF ErrorIInv, Unforced
<1>5. Answered
  BY <1>1 DEF Answered
<1> QED
  BY <1>4, <1>5

\* A handler starts with what its state and its configuration say.
LEMMA ApplyStarts ==
  ASSUME RoleIInv, ErrorIInv, NEW r \in Resources, Apply(r)
  PROVE  \E x :
           /\ Launch(r, x) /\ x.phase = "list" /\ x.used = {} /\ Truthful(role, saved[r].blocks)
           /\ \/ x.op \in {"create", "update"} /\ x.blocks = Planned(r)
              \/ x.op = "destroy" /\ x.blocks = saved[r].blocks
<1>1. Steady(r)
  BY DEF ErrorIInv
<1>2. CASE Create(r)
  <2>1. Truthful(role, saved[r].blocks)
    BY <1>1, <1>2, NoBlocksTruthful DEF Create, Steady
  <2> DEFINE x == [NoHandler EXCEPT !.op = "create", !.phase = "list",
                                    !.authoritative = config[r].authoritative, !.blocks = Planned(r)]
  <2>2. Launch(r, x)
    BY <1>2 DEF Create
  <2>3. x.phase = "list" /\ x.used = {} /\ x.op = "create" /\ x.blocks = Planned(r)
    BY DEF NoHandler
  <2> HIDE DEF x
  <2> QED
    BY <2>1, <2>2, <2>3
<1>3. CASE Update(r)
  <2>1. Truthful(role, saved[r].blocks)
    BY <1>1, <1>3 DEF Update, Steady
  <2> DEFINE old == IF BlocksChanged(r) THEN Ids(saved[r].blocks) \ {NoId} ELSE {}
             x == [NoHandler EXCEPT !.op = "update", !.phase = "list",
                                    !.authoritative = config[r].authoritative, !.blocks = Planned(r), !.old = old]
  <2>2. Launch(r, x)
    BY <1>3 DEF Update
  <2> HIDE DEF old
  <2>3. x.phase = "list" /\ x.used = {} /\ x.op = "update" /\ x.blocks = Planned(r)
    BY DEF NoHandler
  <2> HIDE DEF x
  <2> QED
    BY <2>1, <2>2, <2>3
<1>4. CASE Delete(r)
  <2>1. Truthful(role, saved[r].blocks)
    BY <1>1, <1>4 DEF Delete, Steady
  <2> DEFINE x == [NoHandler EXCEPT !.op = "destroy", !.phase = "list",
                                    !.authoritative = saved[r].authoritative, !.blocks = saved[r].blocks]
  <2>2. Launch(r, x)
    BY <1>4 DEF Delete
  <2>3. x.phase = "list" /\ x.used = {} /\ x.op = "destroy" /\ x.blocks = saved[r].blocks
    BY DEF NoHandler
  <2> HIDE DEF x
  <2> QED
    BY <2>1, <2>2, <2>3
<1> QED
  BY <1>2, <1>3, <1>4 DEF Apply

LEMMA ApplyFaithful == ASSUME RoleIInv, ErrorIInv, NEW r \in Resources, Apply(r) PROVE ErrorIInv' /\ Answered
<1>1. PICK x :
        /\ Launch(r, x) /\ x.phase = "list" /\ x.used = {} /\ Truthful(role, saved[r].blocks)
        /\ \/ x.op \in {"create", "update"} /\ x.blocks = Planned(r)
           \/ x.op = "destroy" /\ x.blocks = saved[r].blocks
  BY ApplyStarts
<1>2. /\ h' = [h EXCEPT ![r] = x] /\ fresh' = fresh \ {r}
      /\ role' = role /\ config' = config /\ saved' = saved /\ faults' = faults
      /\ h \in [Resources -> Handlers]
  BY <1>1 DEF Launch, RoleIInv, RoleTypes
<1>3. ASSUME NEW q \in Resources PROVE Steady(q)' /\ (Unforced(q)' => Faithful(role', h'[q]))
  <2>1. saved'[q] = saved[q] /\ config'[q] = config[q]
    BY <1>2
  <2>2. Planned(q)' = Planned(q) /\ (Unforced(q)' => Unforced(q))
    BY <1>2, <2>1, PlanFacts, SameDisplaced DEF Unforced
  <2>3. Steady(q) /\ (Unforced(q) => Faithful(role, h[q]))
    BY DEF ErrorIInv
  <2>4. CASE q = r
    <3>1. h'[r] = x /\ r \notin fresh'
      BY <1>2
    <3> QED
      BY <1>1, <1>2, <2>1, <2>2, <2>3, <2>4, <3>1 DEF Steady, Idle, Faithful
  <2>5. CASE q # r
    <3>1. h'[q] = h[q] /\ (q \in fresh' <=> q \in fresh)
      BY <1>2, <2>5
    <3> QED
      BY <1>2, <2>1, <2>2, <2>3, <3>1 DEF Steady, Idle
  <2> QED
    BY <2>4, <2>5
<1>4. ErrorIInv'
  BY <1>2, <1>3 DEF ErrorIInv
<1>5. ~\E q \in Resources : Returns(q)
  <2>1. Idle(r) /\ \A q \in Resources : q # r => h'[q] = h[q]
    BY ApplyKeeps
  <2> QED
    BY <2>1 DEF Returns, Idle
<1> QED
  BY <1>4, <1>5 DEF Answered

LEMMA ErrorStep == ASSUME DeclaredOnce, RoleIInv, ErrorIInv, [Next]_vars PROVE ErrorIInv' /\ (Next => Answered)
<1>1. CASE UNCHANGED vars /\ ~Next
  <2>1. /\ role' = role /\ config' = config /\ saved' = saved /\ fresh' = fresh /\ h' = h /\ faults' = faults
    BY <1>1 DEF vars
  <2>2. ASSUME NEW r \in Resources PROVE Steady(r)' /\ (Unforced(r)' => Unforced(r))
    <3>1. Planned(r)' = Planned(r) /\ (Unforced(r)' => Unforced(r))
      BY <2>1, PlanFacts, SameDisplaced DEF Unforced
    <3>2. Steady(r)
      BY DEF ErrorIInv
    <3> QED
      BY <2>1, <3>1, <3>2 DEF Steady, Idle
  <2>3. ErrorIInv'
    BY <2>1, <2>2 DEF ErrorIInv
  <2> QED
    BY <1>1, <2>3
<1>2. CASE Next
  BY <1>2, RefreshFaithful, ApplyFaithful, HandlerFaithful, EditFaithful, OutOfBandFaithful, CrashFaithful
     DEF Next, Provider, Environment
<1> QED
  BY <1>1, <1>2

LEMMA ErrorInit == Init => ErrorIInv
<1> SUFFICES ASSUME Init PROVE ErrorIInv
  OBVIOUS
<1>1. /\ saved = [r \in Resources |-> Gone] /\ h = [r \in Resources |-> NoHandler] /\ fresh = {}
      /\ faults = [number |-> 0, kinds |-> {}]
  BY DEF Init
<1>2. ASSUME NEW r \in Resources PROVE Steady(r) /\ Faithful(role, h[r])
  <2>1. h[r].op = "idle" /\ h[r].phase = "none" /\ saved[r].blocks = <<>> /\ r \notin fresh
    BY <1>1 DEF Gone, NoHandler
  <2> QED
    BY <2>1 DEF Steady, Idle, Faithful
<1> QED
  BY <1>1, <1>2 DEF ErrorIInv

\* A Create, Update or Delete ends in an error only if the environment made it, or because
\* blocks changed places, provided that no list declares a rule twice: for every number of
\* resources that share the role, whatever their handlers do to it at the same time.
THEOREM ErrorsHaveCauses == ASSUME DeclaredOnce PROVE Spec => NoErrorWithoutFault
<1>1. Init => RoleIInv /\ ErrorIInv
  BY RoleInit, ErrorInit
<1>2. RoleIInv /\ ErrorIInv /\ [Next]_vars => RoleIInv' /\ ErrorIInv'
  BY RoleStep, ErrorStep
<1> DEFINE Promise == \A r \in Resources : Returns(r) /\ told'[r] = "error" => faults'.number > 0 \/ Displaced(r)
<1>3. RoleIInv /\ ErrorIInv /\ [Next]_vars => [Promise]_vars
  BY ErrorStep DEF Answered
<1> HIDE DEF Promise
<1>4. Spec => [][Promise]_vars
  BY <1>1, <1>2, <1>3, PTL DEF Spec
<1> QED
  BY <1>4 DEF NoErrorWithoutFault, Promise
=============================================================================
