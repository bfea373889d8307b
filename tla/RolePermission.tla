---------------------------- MODULE RolePermission ----------------------------
(***************************************************************************)
(* cloudstack_role_permission: an ordered list of permissions of a role.   *)
(* Several resources may share one role; their handlers run concurrently   *)
(* and exclude each other by a mutex per role.  Create and Update          *)
(* reconcile: they list the role's permissions once, bring one configured  *)
(* block after the other about by calls, delete what is left over, and     *)
(* order the list.  The id of a block is computed and travels with its     *)
(* position in the list, so it may be the id of another rule.              *)
(***************************************************************************)
EXTENDS Terraform, FiniteSets, SequencesExt

CONSTANTS Resources,    \* the resources on the role
          Rules,        \* rules, with their descriptions
          Configs,      \* [Resources -> the lists of blocks, with their authority, the user may write]
          MaxUuid       \* bound: how many permissions may exist or be remembered

Permissions == {"allow", "deny"}
Uuid == 1..MaxUuid
NoId == 0
Nobody == "nobody"
Lists == [authoritative : BOOLEAN, blocks : Seq([rule : Rules, permission : Permissions])]

ASSUME RolePermissionAssumption ==
  /\ Nobody \notin Resources
  /\ \A r \in Resources : Configs[r] \subseteq Lists
  /\ MaxUuid \in Nat

VARIABLES role,      \* the role's permissions, in their order: [id, rule, permission]
          fresh,     \* the resources that were refreshed and not applied since
          lock,      \* who holds the mutex of the role
          told       \* [r -> how its last operation ended]

\* Of each resource: in config present, authoritative, blocks; in saved exists, tainted,
\* authoritative, blocks with ids; in h its running handler.

vars == <<role, config, saved, fresh, lock, h, told, faults, changes>>

-----------------------------------------------------------------------------
(* The API.                                                                *)

Ids(permissions) == {permissions[i].id : i \in DOMAIN permissions}
RulesIn(permissions) == {permissions[i].rule : i \in DOMAIN permissions}

\* The permission of that id in a list that has it.
ById(permissions, id) == permissions[CHOOSE i \in DOMAIN permissions : permissions[i].id = id]

\* What is at the positions S, in their order.
InOrder(S) ==
  CHOOSE f \in [1..Cardinality(S) -> S] : \A m, n \in DOMAIN f : m < n => f[m] < f[n]
Select(list, S) == LET order == InOrder(S) IN [n \in 1..Cardinality(S) |-> list[order[n]]]

Without(permissions, ids) == Select(permissions, {i \in DOMAIN permissions : permissions[i].id \notin ids})
Dropped(permissions, id) == Without(permissions, {id})

Permitting(permissions, id, permission) ==
  [i \in DOMAIN permissions |-> IF permissions[i].id = id THEN [permissions[i] EXCEPT !.permission = permission] ELSE permissions[i]]

\* CloudStack puts a new permission last, and gives each an id of its own.
Unused == Uuid \ (Ids(role) \cup UNION {Ids(saved[r].blocks) \cup Ids(h[r].blocks) \cup Ids(h[r].listed) : r \in Resources})
NewId == CHOOSE u \in Unused : TRUE
Added(block) == Append(role, [id |-> NewId, rule |-> block.rule, permission |-> block.permission])

-----------------------------------------------------------------------------
(* What the handlers work out of a list of permissions.                    *)

\* The first permission with that rule and description that is not used yet.
Matches(listed, rule, used) == {i \in DOMAIN listed : listed[i].rule = rule /\ listed[i].id \notin used}
HasMatch(listed, rule, used) == Matches(listed, rule, used) # {}
FindMatching(listed, rule, used) ==
  listed[CHOOSE i \in Matches(listed, rule, used) : \A j \in Matches(listed, rule, used) : i <= j]

\* A variant: Read goes by the id only.
ReadBlockById(listed, used, block) ==
  IF block.id \in Ids(listed) THEN ById(listed, block.id) ELSE block

\* Read: each block becomes the permission of its id, or one that matches it.  If
\* there is neither, the whole resource is taken to be gone.
ReadBlock(listed, used, block) ==
  CASE block.id \in Ids(listed) -> ById(listed, block.id)
    [] block.id \notin Ids(listed) /\ HasMatch(listed, block.rule, used) -> FindMatching(listed, block.rule, used)
    [] OTHER -> block

ReadBlocks(listed, blocks) ==
  LET read[i \in DOMAIN blocks] == ReadBlock(listed, {read[j].id : j \in 1..(i - 1)}, blocks[i]) IN read

Gone == [exists |-> FALSE, tainted |-> FALSE, authoritative |-> FALSE, blocks |-> <<>>]

ReadState(state, listed) ==
  LET read == ReadBlocks(listed, state.blocks)
  IN IF Ids(read) \subseteq Ids(listed) THEN [state EXCEPT !.blocks = read] ELSE Gone

-----------------------------------------------------------------------------
(* Terraform: refresh, plan, and the start of a handler.                   *)

NoHandler == [op |-> "idle", phase |-> "none", authoritative |-> FALSE, blocks |-> <<>>, old |-> {},
              listed |-> <<>>, managed |-> <<>>, used |-> {}, deleted |-> {}]

Idle(r) == h[r].op = "idle"
AllIdle == \A r \in Resources : Idle(r)

\* A run of Terraform begins with a Read of every resource it knows.
Refresh ==
  /\ AllIdle /\ \E r \in Resources : saved[r].exists
  /\ saved' = [r \in Resources |-> IF saved[r].exists THEN ReadState(saved[r], role) ELSE saved[r]]
  /\ fresh' = {r \in Resources : saved[r].exists}
  /\ told' = [r \in Resources |-> "none"]
  /\ UNCHANGED <<role, config, lock, h, faults, changes>>

Plain(blocks) == [i \in DOMAIN blocks |-> [rule |-> blocks[i].rule, permission |-> blocks[i].permission]]

\* The plan: a block has the id of the block that was in its place.
Planned(r) ==
  [i \in DOMAIN config[r].blocks |->
     [id |-> IF i \in DOMAIN saved[r].blocks THEN saved[r].blocks[i].id ELSE NoId,
      rule |-> config[r].blocks[i].rule, permission |-> config[r].blocks[i].permission]]

BlocksChanged(r) == Plain(saved[r].blocks) # config[r].blocks
Changed(r) == BlocksChanged(r) \/ saved[r].authoritative # config[r].authoritative

Launch(r, handler) ==
  /\ h' = [h EXCEPT ![r] = handler] /\ fresh' = fresh \ {r}
  /\ UNCHANGED <<role, config, saved, lock, told, faults, changes>>

Create(r) ==
  /\ Idle(r) /\ config[r].present /\ ~saved[r].exists
  /\ Launch(r, [NoHandler EXCEPT !.op = "create", !.phase = "list",
                                 !.authoritative = config[r].authoritative, !.blocks = Planned(r)])

Update(r) ==
  /\ Idle(r) /\ config[r].present /\ saved[r].exists /\ r \in fresh
  /\ ~saved[r].tainted /\ Changed(r)
  /\ Launch(r, [NoHandler EXCEPT !.op = "update", !.phase = "list",
                                 !.authoritative = config[r].authoritative, !.blocks = Planned(r),
                                 !.old = IF BlocksChanged(r) THEN Ids(saved[r].blocks) \ {NoId} ELSE {}])

Delete(r) ==
  /\ Idle(r) /\ saved[r].exists /\ r \in fresh /\ (~config[r].present \/ saved[r].tainted)
  /\ Launch(r, [NoHandler EXCEPT !.op = "destroy", !.phase = "list",
                                 !.authoritative = saved[r].authoritative, !.blocks = saved[r].blocks])

-----------------------------------------------------------------------------
(* The handler returns, and the mutex is free.                             *)

Stop(r, state, result) ==
  /\ h' = [h EXCEPT ![r] = NoHandler] /\ lock' = Nobody
  /\ saved' = [saved EXCEPT ![r] = state] /\ told' = [told EXCEPT ![r] = result]
  /\ UNCHANGED fresh

\* The SDK saves the planned blocks, with the ids they were planned with; a Create
\* that fails has set the id first.
PlannedState(r, failed) ==
  [exists |-> TRUE, tainted |-> failed /\ h[r].op = "create",
   authoritative |-> h[r].authoritative, blocks |-> h[r].blocks]

ReturnError(r) == Stop(r, IF h[r].op = "destroy" THEN saved[r] ELSE PlannedState(r, TRUE), "error")

Outside == <<config, changes>>

Continue(r, handler) == h' = [h EXCEPT ![r] = handler] /\ UNCHANGED <<lock, saved, told, fresh>>

\* A call of r's handler that would turn the role's permissions into `result'.
Call(r, refused, result, handler) ==
  /\ \/ ~refused /\ role' = result /\ Continue(r, handler) /\ NoFault
     \/ refused /\ UNCHANGED role /\ ReturnError(r) /\ NoFault
     \/ Fault("apiError") /\ UNCHANGED role /\ ReturnError(r)
     \/ ~refused /\ result # role /\ Fault("lostReply") /\ role' = result /\ ReturnError(r)
  /\ UNCHANGED Outside

Local(r, handler) == Continue(r, handler) /\ UNCHANGED role /\ NoFault /\ UNCHANGED Outside

In(r, phase) == ~Idle(r) /\ h[r].phase = phase

-----------------------------------------------------------------------------
(* Reconcile.                                                              *)

\* A variant: the mutex does not exclude anybody.
NoLock(r) == TRUE

LockFree(r) == lock = Nobody

\* The handler gets the mutex and lists the permissions.
ListPermissions(r) ==
  /\ In(r, "list") /\ LockFree(r)
  /\ \/ /\ lock' = r /\ h' = [h EXCEPT ![r].phase = IF h[r].op = "destroy" THEN "drop" ELSE "blocks", ![r].listed = role]
        /\ NoFault /\ UNCHANGED <<saved, told, fresh>>
     \/ Fault("apiError") /\ ReturnError(r)
  /\ UNCHANGED role /\ UNCHANGED Outside

\* The block it is at, and the listed permission it is to become.
Block(r) == h[r].blocks[Len(h[r].managed) + 1]
AtBlock(r) == In(r, "blocks") /\ Len(h[r].managed) < Len(h[r].blocks)

Listed(r, id) == id \in Ids(h[r].listed)
Mismatched(r) == Listed(r, Block(r).id) /\ ById(h[r].listed, Block(r).id).rule # Block(r).rule
Matched(r) == HasMatch(h[r].listed, Block(r).rule, h[r].used)

Chosen(r) ==
  IF Listed(r, Block(r).id) /\ ~Mismatched(r) THEN ById(h[r].listed, Block(r).id)
  ELSE FindMatching(h[r].listed, Block(r).rule, h[r].used)

Manage(r, id) == [h[r] EXCEPT !.phase = "blocks", !.managed = Append(@, id), !.used = @ \cup {id}]

\* The block's id is that of another rule and nothing matches it: that permission is deleted,
\* and the block created.
DeleteMismatched(r) ==
  /\ AtBlock(r) /\ Mismatched(r) /\ ~Matched(r)
  /\ LET id == Block(r).id IN
     Call(r, id \notin Ids(role), Dropped(role, id),
          [h[r] EXCEPT !.phase = "recreate", !.used = @ \cup {id}, !.deleted = @ \cup {id}])

CreatePermission(r) ==
  /\ Unused # {}
  /\ \/ AtBlock(r) /\ ~Listed(r, Block(r).id) /\ ~Matched(r)
     \/ In(r, "recreate")
  /\ Call(r, Block(r).rule \in RulesIn(role), Added(Block(r)), Manage(r, NewId))

\* The rule and the description are right: at most the permission is to be changed.
KeepPermission(r) ==
  /\ AtBlock(r) /\ (Matched(r) \/ (Listed(r, Block(r).id) /\ ~Mismatched(r)))
  /\ LET id == Chosen(r).id IN
     \/ Chosen(r).permission = Block(r).permission /\ Local(r, Manage(r, id))
     \/ /\ Chosen(r).permission # Block(r).permission
        /\ Call(r, id \notin Ids(role), Permitting(role, id, Block(r).permission), Manage(r, id))

\* What is left over, of the list or of the blocks before the change.
Managed(r) == ToSet(h[r].managed)

\* A variant: everything it does not manage.
AllOthers(r) == Ids(h[r].listed) \ (Managed(r) \cup h[r].deleted)

Leftover(r) ==
  (IF h[r].authoritative THEN Ids(h[r].listed) ELSE h[r].old \cap Ids(h[r].listed))
    \ (Managed(r) \cup h[r].deleted)

BlocksDone(r) == In(r, "blocks") /\ Len(h[r].managed) = Len(h[r].blocks)

\* In the order of the list, or of a Go map.
DeleteLeftover(r) ==
  /\ BlocksDone(r)
  /\ \E i \in DOMAIN h[r].listed :
       LET id == h[r].listed[i].id IN
       /\ id \in Leftover(r)
       /\ h[r].authoritative => \A j \in 1..(i - 1) : h[r].listed[j].id \notin Leftover(r)
       /\ Call(r, id \notin Ids(role), Dropped(role, id), [h[r] EXCEPT !.deleted = @ \cup {id}])

ListAgain(r) ==
  /\ BlocksDone(r) /\ Leftover(r) = {}
  /\ Call(r, FALSE, role, [h[r] EXCEPT !.phase = "order", !.listed = role])

Numbers(permissions) == [i \in DOMAIN permissions |-> permissions[i].id]
Rest(r) == Numbers(Without(h[r].listed, Managed(r)))

\* A variant: the rest first.
RestFirst(r) == Rest(r) \o h[r].managed

\* The blocks first, then the rest as it was.
RuleOrder(r) == h[r].managed \o Rest(r)

\* CloudStack takes an order of exactly the permissions there are.
OrderRefused(order) == ToSet(order) # Ids(role) \/ Len(order) # Len(role)

OrderPermissions(r) ==
  /\ In(r, "order")
  /\ LET order == RuleOrder(r)
         next == [h[r] EXCEPT !.phase = "read"] IN
     \/ order = <<>> /\ Local(r, next)
     \/ /\ order # <<>>
        /\ Call(r, OrderRefused(order), IF OrderRefused(order) THEN role ELSE [i \in DOMAIN order |-> ById(role, order[i])], next)

\* Create and Update end with a Read, under the mutex.  A resource that it finds to
\* be gone is an error of Terraform's.
ReturnRead(r) ==
  /\ In(r, "read")
  /\ \/ /\ NoFault
        /\ LET state == ReadState(PlannedState(r, FALSE), role)
           IN Stop(r, state, IF state.exists THEN "ok" ELSE "error")
     \/ Fault("apiError") /\ ReturnError(r)
  /\ UNCHANGED role /\ UNCHANGED Outside

-----------------------------------------------------------------------------
(* Delete.                                                                 *)

\* What Delete deletes next: everything, or what its blocks have.
DropsAll(r) == Numbers(h[r].listed)

IdToDrop(r, used, block) ==
  IF block.id = NoId /\ HasMatch(h[r].listed, block.rule, used)
  THEN FindMatching(h[r].listed, block.rule, used).id ELSE block.id

DropsBlocks(r) ==
  LET blocks == h[r].blocks
      ids[i \in DOMAIN blocks] == IdToDrop(r, {ids[j] : j \in 1..(i - 1)}, blocks[i])
  IN Select(ids, {i \in DOMAIN blocks : Listed(r, ids[i])})

Drops(r) == IF h[r].authoritative THEN DropsAll(r) ELSE DropsBlocks(r)

DropPermission(r) ==
  /\ In(r, "drop") /\ Len(h[r].managed) < Len(Drops(r))
  /\ LET id == Drops(r)[Len(h[r].managed) + 1]
     IN Call(r, id \notin Ids(role), Dropped(role, id), [h[r] EXCEPT !.managed = Append(@, id)])

ReturnDeleted(r) ==
  /\ In(r, "drop") /\ Len(h[r].managed) = Len(Drops(r))
  /\ Stop(r, Gone, "none")
  /\ UNCHANGED role /\ NoFault /\ UNCHANGED Outside

\* The provider dies: nothing of what its handlers did reaches the state.
Crash ==
  /\ ~AllIdle /\ Fault("crash")
  /\ h' = [r \in Resources |-> NoHandler] /\ lock' = Nobody /\ fresh' = {}
  /\ told' = [r \in Resources |-> IF Idle(r) THEN told[r] ELSE "error"]
  /\ UNCHANGED <<role, config, saved, changes>>

-----------------------------------------------------------------------------
(* The user, and whoever else edits the role.                              *)

Absent(r) == [present |-> FALSE, authoritative |-> FALSE, blocks |-> <<>>]
Configurations(r) == {Absent(r)} \cup {[present |-> TRUE, authoritative |-> c.authoritative, blocks |-> c.blocks] : c \in Configs[r]}

Edit(r) ==
  /\ AllIdle /\ changes < MaxChanges /\ changes' = changes + 1
  /\ config' \in {[config EXCEPT ![r] = c] : c \in Configurations(r) \ {config[r]}}
  /\ told' = [told EXCEPT ![r] = "none"] /\ fresh' = {}
  /\ UNCHANGED <<role, saved, lock, h, faults>>

\* A permission is deleted, changed, moved to the front, or created.
OutOfBand ==
  /\ Fault(IF AllIdle /\ fresh = {} THEN "outOfBand" ELSE "race")
  /\ \/ \E id \in Ids(role) :
          \/ role' = Dropped(role, id)
          \/ \E p \in Permissions \ {ById(role, id).permission} : role' = Permitting(role, id, p)
          \/ role' = <<ById(role, id)>> \o Dropped(role, id) /\ role' # role
     \/ \E rule \in Rules \ RulesIn(role) :
          Unused # {} /\ role' = Added([rule |-> rule, permission |-> "deny"])
  /\ told' = [r \in Resources |-> "none"]
  /\ UNCHANGED <<config, saved, fresh, lock, h, changes>>

-----------------------------------------------------------------------------
Init ==
  /\ role = <<>>
  /\ config \in [Resources -> UNION {Configurations(r) : r \in Resources}]
  /\ \A r \in Resources : config[r] \in Configurations(r)
  /\ saved = [r \in Resources |-> Gone] /\ fresh = {} /\ lock = Nobody
  /\ h = [r \in Resources |-> NoHandler] /\ told = [r \in Resources |-> "none"]
  /\ faults = [number |-> 0, kinds |-> {}] /\ changes = 0

Apply(r) == Create(r) \/ Update(r) \/ Delete(r)

Reconcile(r) ==
  \/ DeleteMismatched(r) \/ CreatePermission(r) \/ KeepPermission(r)
  \/ DeleteLeftover(r) \/ ListAgain(r) \/ OrderPermissions(r) \/ ReturnRead(r)

Handler(r) == ListPermissions(r) \/ Reconcile(r) \/ DropPermission(r) \/ ReturnDeleted(r)
Provider == \E r \in Resources : Handler(r)

Environment == (\E r \in Resources : Edit(r)) \/ OutOfBand \/ Crash

Next == Refresh \/ (\E r \in Resources : Apply(r)) \/ Provider \/ Environment

\* terraform apply takes on every resource, and waits for none for ever.
Fairness == WF_vars(Refresh) /\ \A r \in Resources : WF_vars(Apply(r)) /\ WF_vars(Handler(r))

Spec == Init /\ [][Next]_vars /\ Fairness

-----------------------------------------------------------------------------
(* Properties                                                              *)

RulesOf(r) == UNION {RulesIn(c.blocks) : c \in Configs[r]}
Returns(r) == ~Idle(r) /\ h'[r].op = "idle"

\* When Create or Update reports success, and nobody else changed the role meanwhile, the declared
\* permissions come first, in their order, and an authoritative resource has left no
\* others.
OkMeansApplied ==
  [][\A r \in Resources : Returns(r) /\ told'[r] = "ok" /\ "race" \notin faults.kinds =>
       LET n == Len(config[r].blocks) IN
       /\ IF config[r].authoritative THEN Len(role') = n ELSE Len(role') >= n
       /\ \A i \in 1..n : Plain(role')[i] = config[r].blocks[i]]_vars

\* A handler that has no authority leaves what its resource never declared as it
\* is, whatever the resource's state claims, and in the order it is in, unless that
\* changes meanwhile.
Undeclared(r, permissions) == {p \in ToSet(permissions) : p.rule \notin RulesOf(r)}
Before(permissions, p, q) ==
  \E i, j \in DOMAIN permissions : i < j /\ permissions[i] = p /\ permissions[j] = q
OthersUntouched ==
  [][\A r \in Resources : ~Idle(r) /\ h'[r] # h[r] /\ ~h[r].authoritative =>
       /\ Undeclared(r, role') = Undeclared(r, role)
       /\ "race" \notin faults.kinds =>
            \A p, q \in Undeclared(r, role) : Before(role', p, q) <=> Before(role, p, q)]_vars

\* A block would get the id of a permission that is configured in another place, or
\* already has that of another block.  Reconcile finds the right permission and may
\* delete it for the next block; Read goes by the id, and puts the old order back into the
\* state, gives one permission to two blocks, or misses a block and drops the resource.
Displaced(r) ==
  \/ \E i \in DOMAIN saved[r].blocks \cap DOMAIN config[r].blocks :
       /\ saved[r].blocks[i].rule # config[r].blocks[i].rule
       /\ saved[r].blocks[i].rule \in RulesIn(config[r].blocks)
  \/ ~IsInjective(saved[r].blocks)

\* No list of blocks declares a rule twice.  CloudStack has a rule once per role, and
\* the provider does not check the lists.
DeclaredOnce ==
  \A r \in Resources : \A c \in Configs[r] :
    \A i, j \in DOMAIN c.blocks : c.blocks[i].rule = c.blocks[j].rule => i = j

\* An error has a cause outside the provider, unless blocks change places.
NoErrorWithoutFault ==
  [][\A r \in Resources : Returns(r) /\ told'[r] = "error" => faults'.number > 0 \/ Displaced(r)]_vars

\* What an Update that reports success leaves in the state is the configured list.
OrderIsStored ==
  [][\A r \in Resources : Returns(r) /\ told'[r] = "ok" => Plain(saved'[r].blocks) = config[r].blocks]_vars

\* The plan is empty, and the mutex in other hands.
Settled(r) ==
  /\ Idle(r) /\ lock # r
  /\ IF config[r].present THEN saved[r].exists /\ ~saved[r].tainted /\ ~Changed(r) ELSE ~saved[r].exists

\* Plan and apply reach a fixed point for each resource, unless its blocks change
\* places.
Settles == <>[](\A r \in Resources : Settled(r) \/ Displaced(r))
=============================================================================
