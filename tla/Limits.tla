-------------------------------- MODULE Limits --------------------------------
(***************************************************************************)
(* cloudstack_limits: how much of something an account, a domain, a        *)
(* project or, when none is given, the caller may have.  The resource owns *)
(* no object, only a number in a scope that was there before and stays.    *)
(* CloudStack may report a limit of zero as -1, which means no limit; the  *)
(* attribute configured_max is to tell the two apart.                      *)
(***************************************************************************)
EXTENDS Terraform, Integers

CONSTANTS Scopes,      \* what a limit is for: the type, and an account, domain or project
          Own,         \* the scope of a type alone: the caller's own
          Maxima       \* positive limits

Unlimited == -1
Removed == -2             \* of a scope that was removed
Values == Maxima \cup {0, Unlimited}

ASSUME LimitsAssumption == Own \in Scopes /\ Maxima \subseteq Nat \ {0}

VARIABLES limit,      \* [scope -> the limit in force]
          zeroReads,  \* what the API says of a limit of zero: 0 or -1
          refreshed,  \* whether the state was refreshed and not applied since
          imported,   \* whether the resource was ever imported
          named       \* the scopes the user ever configured

\* In config: present, scope, max; a max left out is 0.  In h: what the handler does, its
\* next step, its data.

limitsVars == <<limit, zeroReads, config, saved, refreshed, h, imported, named, faults, changes>>

-----------------------------------------------------------------------------
Reported(s) == IF limit[s] = 0 THEN zeroReads ELSE limit[s]

NoLimit == [exists |-> FALSE, tainted |-> FALSE, scope |-> Own, max |-> 0, configured |-> 0]
NothingRuns == h.op = "none"
NoLimitHandler == [op |-> "none", step |-> "none", d |-> NoLimit]
User == UNCHANGED <<config, imported, named, changes>>

-----------------------------------------------------------------------------
(* Read goes by the type and scope in the state.  A zero in the state looks *)
(* like nothing at all, so a configured zero is not remembered.            *)

\* A variant: what was configured is taken whatever the limit is.
ReadAsConfigured(d) ==
  IF limit[d.scope] = Removed THEN NoLimit
  ELSE [d EXCEPT !.max = IF d.configured # 0 THEN d.configured ELSE Reported(d.scope)]

Read(d) ==
  IF limit[d.scope] = Removed THEN NoLimit
  ELSE [d EXCEPT !.max = IF Reported(d.scope) = Unlimited /\ d.configured # 0 THEN d.configured
                         ELSE Reported(d.scope)]

RefreshLimit ==
  /\ NothingRuns /\ saved.exists
  /\ saved' = Read(saved) /\ refreshed' = TRUE
  /\ UNCHANGED <<limit, zeroReads, h, faults>> /\ User

\* Import takes the type from the id, and nothing else; since Read has a type then, it
\* takes no scope from the id either.  An id that is a type alone is refused.
Import ==
  /\ NothingRuns /\ ~saved.exists /\ config.present /\ config.scope # Own /\ changes < MaxChanges
  /\ saved' = Read([NoLimit EXCEPT !.exists = TRUE])
  /\ refreshed' = FALSE /\ imported' = TRUE /\ changes' = changes + 1
  /\ UNCHANGED <<limit, zeroReads, config, h, named, faults>>

-----------------------------------------------------------------------------
(* The plan, and what a handler asks for.  Another scope is another        *)
(* resource: the old one is destroyed, the new one made.                   *)

PlannedLimit == [saved EXCEPT !.exists = TRUE, !.scope = config.scope, !.max = config.max]

\* Create sends any maximum and remembers it; Update does neither with a zero, and
\* without a maximum CloudStack lifts the limit.
CreateMax(d) == d.max
UpdateMax(d) == IF d.max = 0 THEN Unlimited ELSE d.max
Remembered(d) == IF h.op = "update" /\ d.max = 0 THEN d ELSE [d EXCEPT !.configured = d.max]

Start(op, d) ==
  /\ NothingRuns /\ h' = [op |-> op, step |-> "call", d |-> d] /\ refreshed' = FALSE
  /\ UNCHANGED <<limit, zeroReads, saved, faults>> /\ User

CreateLimit == config.present /\ ~saved.exists /\ Start("create", [PlannedLimit EXCEPT !.configured = 0])
UpdateLimit ==
  /\ config.present /\ saved.exists /\ refreshed /\ ~saved.tainted /\ config.scope = saved.scope /\ config.max # saved.max
  /\ Start("update", PlannedLimit)
DeleteLimit ==
  /\ saved.exists /\ refreshed /\ (~config.present \/ saved.tainted \/ config.scope # saved.scope)
  /\ Start("destroy", saved)

-----------------------------------------------------------------------------
(* The handlers.                                                           *)

ReturnLimit(d) == h' = NoLimitHandler /\ saved' = d
\* A failed Create has no id, a failed Update stores what it planned, a failed
\* Delete changes nothing.
FailLimit(d) == ReturnLimit(CASE h.op = "create" -> NoLimit [] h.op = "update" -> d [] h.op = "destroy" -> saved)

Sent == CASE h.op = "create" -> CreateMax(h.d) [] h.op = "update" -> UpdateMax(h.d) [] h.op = "destroy" -> Unlimited
Asked == IF h.op = "destroy" THEN h.d ELSE Remembered(h.d)

\* A variant: Delete leaves the account, domain or project out.
TargetTypeOnly(d) == IF h.op = "destroy" THEN Own ELSE d.scope

\* The scope a call names.
Target(d) == d.scope

CallLimit ==
  /\ h.step = "call"
  /\ \/ /\ limit[Target(h.d)] # Removed
        /\ limit' = [limit EXCEPT ![Target(h.d)] = Sent]
        /\ \/ NoFault
              /\ IF h.op = "destroy" THEN ReturnLimit(NoLimit)
                 ELSE h' = [h EXCEPT !.step = "read", !.d = Asked] /\ UNCHANGED saved
           \/ Fault("lostReply") /\ FailLimit(Asked)
     \/ limit[Target(h.d)] = Removed /\ NoFault /\ FailLimit(Asked) /\ UNCHANGED limit
     \/ Fault("apiError") /\ FailLimit(Asked) /\ UNCHANGED limit
  /\ UNCHANGED <<zeroReads, refreshed>> /\ User

\* The id is there by now: an error here leaves a created resource tainted, and what is
\* tainted is destroyed and made again.
ReadBack ==
  /\ h.step = "read"
  /\ \/ NoFault /\ ReturnLimit([Read(h.d) EXCEPT !.tainted = FALSE])
     \/ Fault("apiError") /\ ReturnLimit([h.d EXCEPT !.tainted = (h.op = "create")])
  /\ UNCHANGED <<limit, zeroReads, refreshed>> /\ User

CrashLimits ==
  /\ ~NothingRuns /\ Fault("crash") /\ ReturnLimit(saved)
  /\ UNCHANGED <<limit, zeroReads, refreshed>> /\ User

-----------------------------------------------------------------------------
(* The user, and others.                                                   *)

EditLimit ==
  /\ NothingRuns /\ changes < MaxChanges
  /\ \E present \in BOOLEAN, s \in Scopes, max \in Values :
       /\ config' = [present |-> present, scope |-> s, max |-> max] /\ config' # config
       /\ named' = IF present THEN named \cup {s} ELSE named
  /\ changes' = changes + 1
  /\ UNCHANGED <<limit, zeroReads, saved, refreshed, h, imported, faults>>

\* Somebody else sets a limit, or removes what it is for.
SetByOther ==
  /\ Fault("outOfBand")
  /\ \E s \in Scopes, max \in Values \cup {Removed} :
       /\ limit[s] # Removed /\ max # limit[s] /\ (max = Removed => s # Own)
       /\ limit' = [limit EXCEPT ![s] = max]
  /\ UNCHANGED <<zeroReads, saved, refreshed, h>> /\ User

-----------------------------------------------------------------------------
Handle == CallLimit \/ ReadBack
ApplyLimit == CreateLimit \/ UpdateLimit \/ DeleteLimit

LimitsInit ==
  /\ limit \in [Scopes -> Maxima] /\ zeroReads \in {0, Unlimited}
  /\ config = [present |-> FALSE, scope |-> Own, max |-> 0]
  /\ saved = NoLimit /\ refreshed = FALSE /\ h = NoLimitHandler
  /\ imported = FALSE /\ named = {}
  /\ faults = [number |-> 0, kinds |-> {}] /\ changes = 0

LimitsNext == RefreshLimit \/ Import \/ ApplyLimit \/ Handle \/ CrashLimits \/ EditLimit \/ SetByOther

\* Terraform is run again and again, and a handler that can take a step takes it.
LimitsFairness == WF_limitsVars(RefreshLimit) /\ WF_limitsVars(ApplyLimit) /\ WF_limitsVars(Handle)

LimitsSpec == LimitsInit /\ [][LimitsNext]_limitsVars /\ LimitsFairness

-----------------------------------------------------------------------------
(* Properties.                                                             *)

\* No handler changes a limit of a scope the user never configured, with one exception:
\* what was imported has the caller's own scope in its state, whatever its id says, and
\* putting that right begins with lifting the caller's own limit.
OnlyNamed ==
  [][h.step = "call" /\ h' # h
     => \A s \in Scopes : limit'[s] # limit[s] => s \in named \/ (imported /\ s = Own)]_limitsVars

\* The state says what is configured, and what is configured is what was last sent, so
\* that a limit somebody lifted is not seen; nor is one that an update to zero lifted,
\* when the old maximum is configured again.
Masked ==
  /\ Reported(config.scope) = Unlimited
  /\ saved.exists /\ saved.max = config.max /\ saved.configured = config.max

\* Run often enough, Terraform sets the limit the user wants, unless the user wants none
\* at all to be had, which an update takes for no limit, or a zero in force reads as no
\* limit, or the state masks it.
LimitSettles ==
  <>[](IF config.present
       THEN \/ limit[config.scope] \in {config.max, Removed}
            \/ config.max = 0 /\ limit[config.scope] = Unlimited
            \/ config.max = Unlimited /\ limit[config.scope] = 0 /\ zeroReads = Unlimited
            \/ Masked
       ELSE ~saved.exists)
=============================================================================
