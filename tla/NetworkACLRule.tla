---------------------------- MODULE NetworkACLRule ----------------------------
(***************************************************************************)
(* The cloudstack_network_acl_rule resource: the rules of a network ACL as *)
(* a LIST of blocks.  The uuids of a block are a computed map, so the plan *)
(* carries them over from the old block at the same position, whatever     *)
(* that block was.  Update matches the old blocks with the new ones (the   *)
(* first free one that agrees in protocol, traffic type, action and port), *)
(* deletes the unmatched old ones, changes the matched ones that differ    *)
(* and creates the unmatched new ones; when blocks without a port get one  *)
(* ("migration") it deletes and creates everything.                        *)
(***************************************************************************)
EXTENDS Naturals, FiniteSets, SequencesExt

CONSTANTS Rules,        \* what a rule block may say
          Invalid,      \* the rules verifyNetworkACLRuleParams rejects
          Configs,      \* what the user may write: [managed, rules]
          Parallelism,  \* the argument `parallelism'
          Attempts,     \* how often Retry tries a creation, 4 in the code
          Foreign,      \* what a rule of another party says
          Faults,       \* which faults the environment may inject
          MaxFaults,    \* bound: how many of them
          MaxChanges,   \* bound: how often the user edits the configuration
          MaxUuid       \* bound: how many uuids may be known or in use at a time

\* The last four are no doing of the environment.  emptied: a refused Update emptied the
\* state; abandoned: a Create or a migration failed after some of its rules were made;
\* misdirected: an update went to a uuid that its block had taken over from another;
\* confused: a uuid taken over kept a rule from being made, or another's from staying.
FaultKinds == {"createError", "apiError", "outage", "lostReply", "asyncTimeout",
               "outOfBand", "foreignRule", "import", "crash",
               "emptied", "abandoned", "misdirected", "confused"}

\* The faults after which nobody may know the uuid of a rule that exists.
Blinding == {"apiError", "outage", "lostReply", "asyncTimeout", "crash",
             "emptied", "abandoned", "misdirected"}

\* `side' stands for traffic type and action, and for the icmp_type and icmp_code of icmp,
\* which rulesMatch compares too; `body' for the rest.
Fields == {"number", "proto", "port", "side", "body"}

\* What is no port: the other keys of the uuids.
Reserved == {"icmp", "all", "all_ports", "unknown"}
NoPort == "none"

ASSUME NetworkACLRuleAssumption ==
  /\ \A r \in Rules \cup {Foreign} :
       /\ r = [f \in Fields |-> r[f]]
       /\ r.port \notin Reserved
       /\ r.proto \notin {"tcp", "udp"} => r.port = NoPort
  /\ Invalid \subseteq Rules
  /\ \A c \in Configs :
       /\ c.managed \in BOOLEAN /\ c.rules \in Seq(Rules)
       /\ IsInjective([i \in DOMAIN c.rules |-> c.rules[i].number])
  /\ Parallelism \in Nat \ {0} /\ Attempts \in Nat \ {0}
  /\ Faults \subseteq FaultKinds
  /\ MaxFaults \in Nat /\ MaxChanges \in Nat /\ MaxUuid \in Nat

VARIABLES cloud,     \* the rules of the ACL: [uuid, rule, ours]
          config,    \* what the user wants: [present, managed, rules]
          saved,     \* the Terraform state: [id, tainted, managed, rules]
          fresh,     \* a refresh preceded the next plan
          op,        \* the handler's phase
          news,      \* the planned blocks, which the handler mutates
          todo,      \* the calls the handler has not made: [deletes, updates, creates]
          tries,     \* [block handed to a goroutine -> attempts so far]
          stage,     \* [block handed to a goroutine -> its stage]
          failed,    \* the operation failed
          told,      \* how the last operation ended
          faults,    \* the faults injected so far: [number, kinds]
          changes    \* edits made so far

vars == <<cloud, config, saved, fresh, op, news, todo, tries, stage,
          failed, told, faults, changes>>

Pool == INSTANCE WorkerPool

-----------------------------------------------------------------------------
(* Blocks: [rule, uuids], `uuids' a map from key to uuid.                  *)

Uuid == 1..MaxUuid
NoUuids == [k \in {} |-> 0]

PortProtocol(r) == r.proto \in {"tcp", "udp"}
HasPort(r) == PortProtocol(r) /\ r.port # NoPort

\* The key the uuid of a rule is kept under.
Key(r) == IF HasPort(r) THEN r.port ELSE IF PortProtocol(r) THEN "all_ports" ELSE r.proto

\* The protocols for which the code makes a call: not those given by number.
Handled(r) == PortProtocol(r) \/ r.proto \in {"icmp", "all"}

UuidsIn(es) == UNION {Range(es[i].uuids) : i \in DOMAIN es}
Plain(es) == [i \in DOMAIN es |-> es[i].rule]

\* The blocks at the positions S, in their order.
InOrder(S) ==
  CHOOSE f \in [1..Cardinality(S) -> S] : \A m, n \in DOMAIN f : m < n => f[m] < f[n]
Select(es, S) == LET order == InOrder(S) IN [n \in 1..Cardinality(S) |-> es[order[n]]]

Ids(cs) == {c.uuid : c \in cs}
Own == {c \in cloud : c.ours}

\* The block that stands for a rule nobody configured.
Dummy(u) == [rule |-> [number |-> u, proto |-> "unknown", port |-> NoPort, side |-> "", body |-> ""],
             uuids |-> [k \in {"unknown"} |-> u]]

-----------------------------------------------------------------------------
(* The API.                                                                *)

Fault(kind) ==
  /\ kind \in Faults /\ faults.number < MaxFaults
  /\ faults' = [number |-> faults.number + 1, kinds |-> faults.kinds \cup {kind}]

NoFault == UNCHANGED faults

\* What the provider did to itself is noted, without a bound.
Note(kinds) == faults' = [number |-> faults.number, kinds |-> faults.kinds \cup kinds]

\* CloudStack refuses a number that is taken (external).
Taken(cs, number) == \E c \in cs : c.rule.number = number

\* A uuid nobody knows: what exists nowhere any more is as good as new.
Remembered == UuidsIn(saved.rules) \cup UuidsIn(news)
Unused == Uuid \ (Ids(cloud) \cup Remembered \cup todo.deletes \cup Ids(todo.updates))
NewUuid == CHOOSE u \in Unused : TRUE

NewRule(r, ours) ==
  /\ Unused # {}
  /\ cloud' = cloud \cup {[uuid |-> NewUuid, rule |-> r, ours |-> ours]}

RemoveRule(u) == cloud' = {c \in cloud : c.uuid # u}

-----------------------------------------------------------------------------
(* How handlers start and end.                                             *)

Idle == op = "idle"
NoJobs == [i \in {} |-> 0]
Nothing == [deletes |-> {}, updates |-> {}, creates |-> {}]

Begin(phase, blocks, jobs) ==
  /\ op' = phase /\ news' = blocks /\ todo' = jobs /\ failed' = FALSE
  /\ UNCHANGED <<tries, stage>>

Stop ==
  /\ op' = "idle" /\ news' = <<>> /\ todo' = Nothing
  /\ tries' = NoJobs /\ stage' = Pool!Spawn({}) /\ failed' = FALSE

Handler == <<op, news, todo, tries, stage, failed>>

Save(state, result) == saved' = state /\ told' = result /\ fresh' = FALSE

State(es, tainted, managed) == [id |-> TRUE, tainted |-> tainted, managed |-> managed, rules |-> es]
Gone == [id |-> FALSE, tainted |-> FALSE, managed |-> FALSE, rules |-> <<>>]

\* An operation that fails once the id is set; only a Create taints.
Partial(es) == State(es, ~saved.id \/ saved.tainted, config.managed)

-----------------------------------------------------------------------------
(* resourceCloudStackNetworkACLRuleRead                                    *)

\* The uuid a block is looked up by.
Wants(e) ==
  IF Handled(e.rule) /\ Key(e.rule) \in DOMAIN e.uuids THEN {e.uuids[Key(e.rule)]} ELSE {}
Wanted(es) == UNION {Wants(es[i]) : i \in DOMAIN es}

\* One block takes its rule away from those behind it.
Found(es, i) ==
  {c \in cloud : c.uuid \in Wants(es[i]) /\ \A j \in DOMAIN es : j < i => c.uuid \notin Wants(es[j])}
Kept(es) == {i \in DOMAIN es : Found(es, i) # {}}
Left(es) == {c \in cloud : c.uuid \notin Wanted(es)}

\* The port is not read back.
ReadBlock(es, i) ==
  [rule  |-> [(CHOOSE c \in Found(es, i) : TRUE).rule EXCEPT !.port = es[i].rule.port],
   uuids |-> es[i].uuids]

ReadBlocks(es) == Select([i \in Kept(es) |-> ReadBlock(es, i)], Kept(es))
Dummies(es, managed) == IF managed THEN SetToSeq({Dummy(c.uuid) : c \in Left(es)}) ELSE <<>>

ReadRules(es, managed) == ReadBlocks(es) \o Dummies(es, managed)

\* An ACL without a rule counts as gone, even when it is managed.
ReadState(es, tainted, managed) ==
  IF ReadRules(es, managed) = <<>> THEN Gone ELSE State(ReadRules(es, managed), tainted, managed)

\* The list is asked for again for 30 s; when it fails all that time (`outage')
\* the resource counts as gone.
FinishWithRead(es) ==
  \/ NoFault /\ Save(ReadState(es, FALSE, config.managed), "ok")
  \/ Fault("outage") /\ Save(Gone, "ok")
  \/ Fault("apiError") /\ Save(Partial(es), "error")

Refresh ==
  /\ Idle /\ saved.id
  /\ \/ saved' = ReadState(saved.rules, saved.tainted, saved.managed) /\ NoFault
     \/ saved' = Gone /\ Fault("outage")
  /\ fresh' = TRUE /\ told' = "read"
  /\ UNCHANGED <<cloud, config, changes, Handler>>

-----------------------------------------------------------------------------
(* The matching of old and new blocks (performNormalRuleUpdates).          *)

\* rulesMatch
Match(o, n) == o.proto = n.proto /\ o.side = n.side /\ (PortProtocol(n) => o.port = n.port)

\* The pairs <<old, new>>.  Each old block takes the first new one that matches and is not
\* taken; those that match are all alike, so the n-th old one of a kind takes the n-th
\* new one.
PairsNothing(olds, plan) == {}

Pairs(olds, plan) ==
  {p \in (DOMAIN olds) \X (DOMAIN plan) :
     /\ Match(olds[p[1]].rule, plan[p[2]].rule)
     /\ Cardinality({i \in DOMAIN olds : i < p[1] /\ Match(olds[i].rule, plan[p[2]].rule)})
        = Cardinality({k \in DOMAIN plan : k < p[2] /\ Match(olds[p[1]].rule, plan[k].rule)})}

\* A comparison that forgets the arguments in `body'.
NeedsUpdateByNumber(o, n) == o.number # n.number

\* ruleNeedsUpdate
NeedsUpdate(o, n) == o # n

\* isPortsMigration
Migrates(olds, plan) ==
  \E i \in DOMAIN olds, k \in DOMAIN plan :
    /\ PortProtocol(olds[i].rule) /\ ~HasPort(olds[i].rule)
    /\ HasPort(plan[k].rule) /\ plan[k].rule.proto = olds[i].rule.proto

\* The plan: the uuids are those of the old block at the same position.
Planned ==
  [i \in DOMAIN config.rules |->
     [rule |-> config.rules[i],
      uuids |-> IF i \in DOMAIN saved.rules THEN saved.rules[i].uuids ELSE NoUuids]]

\* A matched block gets the uuids of the old one.
Matched(plan, pairs) ==
  [k \in DOMAIN plan |->
     IF \E p \in pairs : p[2] = k
     THEN [rule |-> plan[k].rule, uuids |-> saved.rules[(CHOOSE p \in pairs : p[2] = k)[1]].uuids]
     ELSE plan[k]]

-----------------------------------------------------------------------------
(* Create, Update and Delete up to their first call.                       *)

\* verifyNetworkACLParams
VerifyParams == config.managed \/ config.rules # <<>>

Create ==
  /\ Idle /\ config.present /\ ~saved.id /\ VerifyParams
  /\ IF config.rules # <<>>
     THEN /\ Begin("create", Planned, [Nothing EXCEPT !.creates = DOMAIN Planned])
          /\ NoFault /\ UNCHANGED <<saved, told, fresh>>
     ELSE FinishWithRead(<<>>) /\ UNCHANGED Handler
  /\ UNCHANGED <<cloud, config, changes>>

Differs == Plain(saved.rules) # config.rules

\* The SDK saves the planned blocks, none, when Update fails.
RejectUpdate ==
  /\ ~VerifyParams /\ Save(Partial(Planned), "error")
  /\ Note({"emptied"}) /\ UNCHANGED Handler

Unmatched(pairs) == {i \in DOMAIN saved.rules : \A p \in pairs : p[1] # i}
Unpaired(pairs) == {k \in DOMAIN Planned : \A p \in pairs : p[2] # k}

\* Of two updates of one uuid the later block's counts.
Updates(target) ==
  {[uuid |-> target[p], rule |-> Planned[p[2]].rule] : p \in
    {q \in DOMAIN target : \A x \in DOMAIN target : x[1] > q[1] => target[x] # target[q]}}

\* What comes of uuids that a block took over from the one in its place before.
Misdirected(target) == \E p \in DOMAIN target : target[p] \notin Wants(saved.rules[p[1]])
Confused(pairs) ==
  \/ \E i \in Unmatched(pairs), p \in pairs :
       Range(saved.rules[i].uuids) \cap Wants(saved.rules[p[1]]) # {}
  \/ \E k \in Unpaired(pairs) :
       HasPort(Planned[k].rule) /\ Key(Planned[k].rule) \in DOMAIN Planned[k].uuids

\* Of a matched block with several uuids the update goes to any one of them.
NormalUpdate ==
  LET pairs == Pairs(saved.rules, Planned)
      changed == {p \in pairs : /\ NeedsUpdate(saved.rules[p[1]].rule, Planned[p[2]].rule)
                                /\ saved.rules[p[1]].uuids # NoUuids}
  IN /\ ~Migrates(saved.rules, Planned)
     /\ \E target \in [changed -> UuidsIn(saved.rules)] :
          /\ \A p \in changed : target[p] \in Range(saved.rules[p[1]].uuids)
          /\ Begin("update", Matched(Planned, pairs),
               [deletes |-> UNION {Range(saved.rules[i].uuids) : i \in Unmatched(pairs)},
                updates |-> Updates(target), creates |-> Unpaired(pairs)])
          /\ Note((IF Misdirected(target) THEN {"misdirected"} ELSE {})
                  \cup (IF Confused(pairs) THEN {"confused"} ELSE {}))

WithoutUuids(plan) == [k \in DOMAIN plan |-> [rule |-> plan[k].rule, uuids |-> NoUuids]]

\* A migration that leaves the old rules.
MigratingUpdateDeletesNothing ==
  /\ Migrates(saved.rules, Planned)
  /\ Begin("migrate", WithoutUuids(Planned),
       [deletes |-> {}, updates |-> {}, creates |-> DOMAIN Planned])
  /\ NoFault

\* performPortsMigration
MigratingUpdate ==
  /\ Migrates(saved.rules, Planned)
  /\ Begin("migrate", WithoutUuids(Planned),
       [deletes |-> UuidsIn(saved.rules), updates |-> {}, creates |-> DOMAIN Planned])
  /\ NoFault

\* An update of `managed' alone is a Read.
Update ==
  /\ Idle /\ config.present /\ saved.id /\ ~saved.tainted /\ fresh
  /\ Differs \/ saved.managed # config.managed
  /\ \/ RejectUpdate
     \/ /\ VerifyParams /\ Differs /\ (NormalUpdate \/ MigratingUpdate)
        /\ UNCHANGED <<saved, told, fresh>>
     \/ VerifyParams /\ ~Differs /\ FinishWithRead(saved.rules) /\ UNCHANGED Handler
  /\ UNCHANGED <<cloud, config, changes>>

\* Also the first half of the replacement of a tainted resource.
Delete ==
  /\ Idle /\ saved.id /\ fresh /\ (saved.tainted \/ ~config.present)
  /\ Begin("destroy", saved.rules, [Nothing EXCEPT !.deletes = UuidsIn(saved.rules)])
  /\ UNCHANGED <<cloud, config, saved, told, fresh, faults, changes>>

-----------------------------------------------------------------------------
(* The calls the handler makes one by one.                                 *)

Frame == UNCHANGED <<config, saved, fresh, told, changes, op, news, tries, stage>>

\* A uuid that does not exist any more counts as deleted.
DeleteRule(u) ==
  /\ ~failed /\ u \in todo.deletes
  /\ RemoveRule(u) /\ NoFault
  /\ todo' = [todo EXCEPT !.deletes = @ \ {u}]
  /\ UNCHANGED failed /\ Frame

DeleteFails(u) ==
  /\ ~failed /\ u \in todo.deletes
  /\ \/ Fault("apiError") /\ UNCHANGED cloud
     \/ Fault("lostReply") /\ RemoveRule(u)
  /\ failed' = TRUE
  /\ UNCHANGED todo /\ Frame

\* updateNetworkACLRule
Accepts(x) == x.uuid \in Ids(cloud) /\ ~Taken({c \in cloud : c.uuid # x.uuid}, x.rule.number)

ChangeRule(x) ==
  cloud' = {IF c.uuid = x.uuid THEN [uuid |-> c.uuid, rule |-> x.rule, ours |-> c.ours] ELSE c : c \in cloud}

UpdateRule(x) ==
  /\ ~failed /\ todo.deletes = {} /\ x \in todo.updates
  /\ Accepts(x) /\ ChangeRule(x) /\ NoFault
  /\ todo' = [todo EXCEPT !.updates = @ \ {x}]
  /\ UNCHANGED failed /\ Frame

UpdateFails(x) ==
  /\ ~failed /\ todo.deletes = {} /\ x \in todo.updates
  /\ \/ ~Accepts(x) /\ UNCHANGED cloud /\ NoFault
     \/ Fault("apiError") /\ UNCHANGED cloud
     \/ Fault("lostReply") /\ Accepts(x) /\ ChangeRule(x)
  /\ failed' = TRUE
  /\ UNCHANGED todo /\ Frame

-----------------------------------------------------------------------------
(* createNetworkACLRules: one goroutine per block.  Each works on its own  *)
(* block, and `errs' has a mutex.                                          *)

FanOut ==
  /\ ~failed /\ todo.deletes = {} /\ todo.updates = {} /\ todo.creates # {}
  /\ stage' = Pool!Spawn(todo.creates) /\ tries' = [i \in todo.creates |-> 0]
  /\ todo' = Nothing
  /\ UNCHANGED <<cloud, config, saved, fresh, op, news, failed, told, faults, changes>>

HandlerState == <<config, saved, fresh, op, todo, told, changes>>

Acquire(i) ==
  /\ Pool!Acquire(i)
  /\ UNCHANGED <<cloud, news, tries, failed, faults, HandlerState>>

\* A port that has an uuid already is skipped, a protocol number is skipped always.
Skips(e) == ~Handled(e.rule) \/ (HasPort(e.rule) /\ Key(e.rule) \in DOMAIN e.uuids)

Asks(i) == stage[i] = "working" /\ news[i].rule \notin Invalid /\ ~Skips(news[i])

SkipRule(i) ==
  /\ news[i].rule \notin Invalid /\ Skips(news[i])
  /\ Pool!NothingToCollect(i)
  /\ UNCHANGED <<cloud, news, tries, failed, faults, HandlerState>>

RejectRule(i) ==
  /\ news[i].rule \in Invalid
  /\ Pool!NothingToCollect(i) /\ failed' = TRUE
  /\ UNCHANGED <<cloud, news, tries, faults, HandlerState>>

CreateRule(i) ==
  LET k == Key(news[i].rule)
      uuids == [x \in DOMAIN news[i].uuids \cup {k} |-> IF x = k THEN NewUuid ELSE news[i].uuids[x]]
  IN /\ Asks(i) /\ ~Taken(cloud, news[i].rule.number)
     /\ NewRule(news[i].rule, TRUE) /\ NoFault
     /\ news' = [news EXCEPT ![i] = [rule |-> news[i].rule, uuids |-> uuids]]
     /\ Pool!NothingToCollect(i)
     /\ UNCHANGED <<tries, failed, HandlerState>>

GiveUp(i) == Pool!NothingToCollect(i) /\ failed' = TRUE /\ UNCHANGED tries

\* The rule fails with its last attempt, and at once with an AsyncTimeoutErr.
LastTry(i) == ~(tries[i] + 1 < Attempts)
Retry(i) ==
  IF LastTry(i) THEN GiveUp(i)
  ELSE tries' = [tries EXCEPT ![i] = @ + 1] /\ UNCHANGED <<stage, failed>>

CreateFails(i) ==
  /\ Asks(i)
  /\ \/ Taken(cloud, news[i].rule.number) /\ UNCHANGED cloud /\ NoFault /\ Retry(i)
     \/ Fault("createError") /\ UNCHANGED cloud /\ Retry(i)
     \/ /\ ~Taken(cloud, news[i].rule.number) /\ NewRule(news[i].rule, TRUE)
        /\ (Fault("lostReply") /\ Retry(i)) \/ (Fault("asyncTimeout") /\ GiveUp(i))
  /\ UNCHANGED <<news, HandlerState>>

-----------------------------------------------------------------------------
(* The handlers' returns.                                                  *)

Over == todo.deletes = {} /\ todo.updates = {} /\ todo.creates = {} /\ Pool!Returned

\* The blocks that have a uuid.
Made == {i \in DOMAIN news : news[i].uuids # NoUuids}
Results == Select(news, Made)

\* A rule was rejected, or as often as it is tried, and others were created.
Abandons ==
  /\ op \in {"create", "migrate"} /\ Own # {}
  /\ \E i \in DOMAIN stage : news[i].rule \in Invalid \/ LastTry(i)

\* Create sets the id only when every rule was created: nothing is saved.
\* Update saves the planned blocks; those of a migration are copies, so the plan
\* still has the uuids it carried over.
ReturnError ==
  /\ ~Idle /\ failed /\ Pool!Returned
  /\ CASE op = "create" -> Save(Gone, "error")
       [] op = "update" -> Save(Partial(news), "error")
       [] op = "migrate" -> Save(Partial(Planned), "error")
       [] op = "destroy" -> Save(saved, "error")
  /\ Stop /\ (IF Abandons THEN Note({"abandoned"}) ELSE NoFault)
  /\ UNCHANGED <<cloud, config, changes>>

ReturnRead ==
  /\ op \in {"create", "update"} /\ ~failed /\ Over
  /\ FinishWithRead(IF op = "create" THEN Results ELSE news) /\ Stop
  /\ UNCHANGED <<cloud, config, changes>>

\* A migration returns without a Read.
ReturnMigrated ==
  /\ op = "migrate" /\ ~failed /\ Over
  /\ Save(State(Results, FALSE, config.managed), "ok") /\ Stop
  /\ UNCHANGED <<cloud, config, faults, changes>>

ReturnDeleted ==
  /\ op = "destroy" /\ ~failed /\ Over
  /\ Save(Gone, "none") /\ Stop
  /\ UNCHANGED <<cloud, config, faults, changes>>

-----------------------------------------------------------------------------
(* The user, the other users of the account, and the provider's death.     *)

Absent == [present |-> FALSE, managed |-> FALSE, rules |-> <<>>]

Edit ==
  /\ Idle /\ changes < MaxChanges /\ changes' = changes + 1
  /\ \/ \E c \in Configs : config' = [present |-> TRUE, managed |-> c.managed, rules |-> c.rules]
     \/ config' = Absent
  /\ told' = "none" /\ fresh' = FALSE
  /\ UNCHANGED <<cloud, saved, faults, Handler>>

\* terraform import sets the id and `managed'; the refresh that follows makes a
\* dummy of every rule.
Import ==
  /\ Idle /\ config.present /\ ~saved.id /\ Fault("import")
  /\ Save(State(<<>>, FALSE, TRUE), "none")
  /\ UNCHANGED <<cloud, config, changes, Handler>>

DeleteOutOfBand ==
  /\ Fault("outOfBand") /\ told' = "none"
  /\ \E c \in cloud : RemoveRule(c.uuid)
  /\ UNCHANGED <<config, saved, fresh, changes, Handler>>

CreateForeign ==
  /\ Fault("foreignRule") /\ told' = "none"
  /\ ~Taken(cloud, Foreign.number) /\ NewRule(Foreign, FALSE)
  /\ UNCHANGED <<config, saved, fresh, changes, Handler>>

Crash ==
  /\ ~Idle /\ Fault("crash") /\ Stop
  /\ told' = "error" /\ fresh' = FALSE
  /\ UNCHANGED <<cloud, config, saved, changes>>

-----------------------------------------------------------------------------
Init ==
  /\ cloud = {}
  /\ config = Absent
  /\ saved = Gone /\ fresh = FALSE
  /\ op = "idle" /\ news = <<>> /\ todo = Nothing
  /\ tries = NoJobs /\ stage = Pool!Spawn({}) /\ failed = FALSE
  /\ told = "none" /\ changes = 0
  /\ faults = [number |-> 0, kinds |-> {}]

Goroutine(i) ==
  Acquire(i) \/ SkipRule(i) \/ RejectRule(i) \/ CreateRule(i) \/ CreateFails(i)

Calls ==
  \/ \E u \in todo.deletes : DeleteRule(u) \/ DeleteFails(u)
  \/ \E x \in todo.updates : UpdateRule(x) \/ UpdateFails(x)
  \/ FanOut
  \/ \E i \in DOMAIN stage : Goroutine(i)

Return == ReturnError \/ ReturnRead \/ ReturnMigrated \/ ReturnDeleted

Terraform == Refresh \/ Create \/ Update \/ Delete

Provider == Calls \/ Return

Environment == Edit \/ Import \/ DeleteOutOfBand \/ CreateForeign \/ Crash

Next == Terraform \/ Provider \/ Environment

\* The user runs terraform apply as long as there is something to apply, and the
\* handler and its goroutines go on.  Nothing is assumed of the environment.
Fairness == WF_vars(Terraform) /\ WF_vars(Provider)

Spec == Init /\ [][Next]_vars /\ Fairness

-----------------------------------------------------------------------------
(* Properties                                                              *)

EntryOK(e) == DOMAIN e.rule = Fields /\ Range(e.uuids) \subseteq Uuid

TypeOK ==
  /\ \A c \in cloud : c.uuid \in Uuid /\ c.rule \in Rules \cup {Foreign} /\ c.ours \in BOOLEAN
  /\ {config.present, config.managed} \subseteq BOOLEAN /\ Range(config.rules) \subseteq Rules
  /\ {saved.id, saved.tainted, saved.managed, fresh, failed} \subseteq BOOLEAN
  /\ \A e \in Range(saved.rules) \cup Range(news) : EntryOK(e)
  /\ op \in {"idle", "create", "update", "migrate", "destroy"}
  /\ todo.deletes \subseteq Uuid /\ todo.creates \subseteq DOMAIN news
  /\ \A x \in todo.updates : x.uuid \in Uuid /\ x.rule \in Rules
  /\ DOMAIN tries = DOMAIN stage /\ DOMAIN stage \subseteq DOMAIN news
  /\ \A i \in DOMAIN stage : tries[i] \in 0..Attempts - 1 /\ stage[i] \in Pool!Stages
  /\ told \in {"none", "ok", "error", "read"}
  /\ faults \in [number : 0..MaxFaults, kinds : SUBSET FaultKinds] /\ changes \in 0..MaxChanges

\* No rule the resource created is ever forgotten, neither by the handler at work
\* nor by the state it leaves behind, unless a call other than a creation failed,
\* an answer was lost, the user removed the last block, one dropped out of the state,
\* a Create or a migration failed for good half way, or an update went astray.
Blinded == faults.kinds \cap Blinding # {}
Shifted == Blinded \/ "outOfBand" \in faults.kinds

Tracked == ~Shifted => Ids(Own) \subseteq Remembered

\* An operation that reports success leaves every configured rule in the ACL; one
\* whose protocol is a number is skipped.
Clear == ~Shifted /\ "confused" \notin faults.kinds

OkMeansApplied ==
  Idle /\ told = "ok" /\ Clear =>
    {r \in Range(config.rules) : Handled(r)} \subseteq {c.rule : c \in cloud}

\* No operation deletes a rule whose block stays in the list as it is, a migration
\* apart: unless the list has, or had, two blocks of a kind.
OneOfAKind(rs) == \A i, j \in DOMAIN rs : i # j => ~Match(rs[i], rs[j])
Stays(c) ==
  /\ OneOfAKind(config.rules) /\ OneOfAKind(Plain(saved.rules))
  /\ c.rule \in Range(config.rules) /\ c.rule \in Range(Plain(saved.rules))

KeptRulesSurvive ==
  [][op = "update" /\ Clear /\ ~DeleteOutOfBand =>
       \A c \in Own : Stays(c) => c.uuid \in Ids(cloud')]_vars

\* The resource stops changing, with the configured rules in the ACL and in the
\* state; a managed ACL has no others.
Applied ==
  /\ Idle /\ saved.id = config.present
  /\ config.managed => {c.rule : c \in cloud} = Range(config.rules)
  /\ {c.rule : c \in Own} = Range(config.rules)
  /\ Plain(saved.rules) = config.rules

\* A block that took over a uuid of the one that stood in its place before.
Straying(e) == DOMAIN e.uuids \ {Key(e.rule)} # {}

\* What was forgotten is refused for ever, as is a list with rules that do not pass
\* the verification; a rule whose protocol is a number is created again and again;
\* and the update of a block may go to the uuid it took over, which may be dead.
Hopeless ==
  \/ Shifted \/ (config.present /\ ~VerifyParams)
  \/ \E e \in Range(saved.rules) : Straying(e)
  \/ \E r \in Range(config.rules) : r \in Invalid \/ ~Handled(r)

Settles == <>[](Applied \/ Hopeless)
=============================================================================
