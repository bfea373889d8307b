# A verification model of the CloudStack Terraform provider

The provider translates Terraform's create, read, update and delete calls into
CloudStack API calls. Each resource has four handlers (`resourceCloudStack…Create`,
`…Read`, `…Update`, `…Delete`) under `cloudstack/`. What makes them hard is that
three parties change what they work on:

- **Terraform** holds the only record (the *state*) of what a resource made. It
  refreshes the state with Read, computes a plan, calls a handler, and saves what the
  handler left in its `schema.ResourceData`, also when the handler fails.
- **the handler** makes many API calls for one operation, in several goroutines, any
  of which may fail, and decides what reaches the state.
- **CloudStack** keeps the real objects, gives them uuids, refuses conflicts, may
  carry out a call whose answer is lost, and is used by other people too.

The central question for each modelled resource is therefore: *is every object the
provider made still listed in the state, is what the state lists real, does "success"
mean that the configuration was applied, and does the resource settle?*

## 1. Inventory

| part | state | operations | what is hard |
|---|---|---|---|
| fan-out of goroutines (in six resources) | channel `sem`, `WaitGroup`, a shared `schema.Set` | acquire, call, collect, release, wait | a slot that is not given back; unguarded `Add` on the set |
| `cloudstack_firewall` | set of rules, one uuid per port | CRUD | partial failure within a rule; delete then create in Update; lost answers; drift |
| `cloudstack_egress_firewall` | the same | CRUD | as the firewall; a Read that panics |
| `cloudstack_port_forward` | set of forwards, one uuid each | CRUD, import | Create returns before `d.Set`; the address disappears |
| `cloudstack_security_group_rule` | set of rules, a uuid per source and port | CRUD | a leaked slot; a partial failure that the next source hides; Read saves nothing |
| `cloudstack_network_acl_ruleset` | set of numbered rules | CRUD, plan customisation | change in place or replace; retries; a rule number can be taken |
| `cloudstack_network_acl_rule` | *list* of rules, computed uuid maps | CRUD, import, migration | uuids travel by position; Create sets the id last; the list call that gives up |
| `cloudstack_instance` | a virtual machine | CRUD | Update stops, changes, starts; it may fail in between |
| `cloudstack_disk`, `…_volume`, `…_attach_volume` | a volume and its machine | CRUD, attach, detach, resize | a detach that stops the machine; a Read by name |
| load balancer rules, autoscaling | groups that must be disabled to be changed | CRUD, polling | disable, update, enable; an id that is set late |
| `cloudstack_kubernetes_cluster` and its registrations | a cluster | CRUD | scale, upgrade and stop in one Update; a failed Create that looks for a cluster of the name |
| `cloudstack_network`, `…_ipaddress`, VPC, VPN, NICs | one object | CRUD | tags that are deleted and created; attributes that Read does not look at |
| templates, hosts, snapshot policies, keys | one object | CRUD, polling | what is left when a step after the first fails |
| zones, pods, clusters, storage, physical networks | one object | CRUD | Reads that fail when the object is gone |
| offerings, tariffs, accounts, users, domains, roles, settings | one object | CRUD | Reads by name; Reads that do nothing; errors that are dropped |
| `cloudstack_project` | a project | CRUD | adoption by name; eventual consistency |
| `cloudstack_network_service_provider` | the state of a provider that may exist before | CRUD | created without the configured state; removed services |
| offerings of the second provider (terraform-plugin-framework) | one object | CRUD | attributes Update never sends; Reads that fail |
| `cloudstack_role_permission` | an ordered list of permissions | CRUD | reconciliation call by call, a mutex per role |
| `cloudstack_limits` | a number | CRUD | 0 and -1; identifiers made of parts |
| tags, name resolution, `Retry` | none | helpers | delete then create; a last failure |
| data sources | none | lookups | none that a model reaches |
| provider configuration | two providers, one server | configure | two readings of the same environment |

`PROJECT.json` lists each with the files it stands in and whether it is modelled. What
makes them correct, and is stated below as properties:

1. **Tracked**, **ForgetsOnlyGone**: no rule or object the resource created is forgotten, in the middle of an
   operation or after one that failed half way.
2. **OkMeansApplied**: a handler that reports success has applied the configuration.
3. **StateIsReal**: after a refresh or a success the state lists what exists.
4. **Reconciles**, **UuidsPreserved**, **KeptRulesSurvive**: an update creates what is
   missing, deletes what is not wanted, and leaves the rest alone.
   **OthersUntouched**, **OnlyNamed**: and what others own.
5. **MembersChangedWhileDisabled**, **ResizedDetached**: a change that needs something
   switched off first happens while it is off. **OffOnlyAfterFault**,
   **MachinesRunAgain**: and what was switched off is switched on again.
6. **NoErrorWithoutFault**: handlers that run at the same time do not make each other fail.
7. **HandlerReturns**, **NeverStuck**: every handler comes to an end, or hangs for a known reason.
8. **Settles**: plan and apply reach a fixed point.

## 2. Modules

| module | models | built on |
|---|---|---|
| `WorkerPool` | one goroutine's way through semaphore, call, collection | |
| `FanOut` | one fan-out alone, with careless goroutines | `WorkerPool` |
| `Firewall` | `resource_cloudstack_firewall.go` | `WorkerPool` |
| `EgressFirewall` | `resource_cloudstack_egress_firewall.go` | `Firewall` |
| `PortForward` | `resource_cloudstack_port_forward.go` | `WorkerPool` |
| `SecurityGroupRule` | `resource_cloudstack_security_group_rule.go` | `WorkerPool` |
| `NetworkACLRuleset` | `resource_cloudstack_network_acl_ruleset.go`, `Retry` | `WorkerPool` |
| `NetworkACLRule` | `resource_cloudstack_network_acl_rule.go`, `Retry` | `WorkerPool` |
| `Steps` | the calls a handler is made of, and what a Read looks at | |
| `Lifecycle` | a resource with one object: the SDK around the handlers, and the steps of the handlers | `Steps` |
| `Carrying` | what the programs of a catalogue have in common that makes success mean applied: a check of the programs, not of behaviours | `Lifecycle` |
| `Compute`, `Networking`, `Scaling`, `Infrastructure`, `Administration` | catalogues: the four handlers of 60 resources, as programs of steps (a snapshot policy counts twice: CloudStack may answer its creation with an id or without) | `Steps` |
| `Disk` | `resource_cloudstack_disk.go`: several disks of several machines | |
| `Terraform` | the configuration, the state, the handlers and the faults: what the next three share, whose proofs stand in one module | |
| `Autoscale` | a load balancer rule, a profile and the group that uses both, updated in one run | `Terraform` |
| `Limits` | `resource_cloudstack_limits.go` | `Terraform` |
| `RolePermission` | `resource_cloudstack_role_permission.go`: several resources of one role | `Terraform` |
| `Reconciler` | what a collection promises: an abstract specification | |
| `Firewall_proofs` (also for the egress firewall), `PortForward_proofs` (also its refinement of `Reconciler`), `SecurityGroupRule_proofs`, `NetworkACLRuleset_proofs`, `NetworkACLRule_proofs`, `Lifecycle_proofs`, `Disk_proofs`, `FanOutLimitsAutoscaleRole_proofs` | theorems | the module they are named after |
| `MC…` | instances for TLC | |

### State

The modules of the six rule collections have the same shape.

| variable | in the code |
|---|---|
| `cloud` | the objects CloudStack has (external) |
| `config` | the user's configuration: `present`, `managed`, the rules |
| `saved` | Terraform's state of the resource: `id` (is there one), `tainted`, `managed`, the blocks with their computed uuids |
| `fresh` | a refresh preceded the plan (Terraform never plans Update or Delete without) |
| `op` | which handler runs, and its phase: `create`; `delete` and `update` are the two halves of Update; `destroy` |
| `rules` / `forwards` | the local `schema.Set` the goroutines fill, which becomes the state |
| `later` | what Update creates once its deletions are done |
| `work` | the map each goroutine holds: goroutines mutate the very maps that Terraform saves |
| `stage` | where each goroutine is (`WorkerPool`) |
| `failed` | `errs.ErrorOrNil() != nil` |
| `told` | how the last operation ended: `ok`, `error`, `read` after a refresh, `none` |
| `faults`, `changes` | what the environment did so far; bounds |

In `NetworkACLRuleset` a rule is its number, its protocol, its `port` and its `body`: what an update sends
only when it is there and can be parsed, and what it always sends. `Amended` is what CloudStack makes of an update in
place. `NetworkACLRule` keeps the planned list (`news`) and the calls Update has not made yet
(`todo`) instead of the set.

### Actions

- **Terraform**: `Refresh` (Read), `Create`, `Update`, `Delete` are the handlers up to
  their first fan-out. A tainted resource is deleted and created again.
- **Provider**: `Acquire`, `CreatePort`/`CreateForward`/`CreateRule`,
  `DeletePort`/…, `Reject…` (a failed verification), `…Fails` (a failed call), `Add`
  are the steps of a goroutine, one per API call; `ReturnError`, `CreateTheRest`,
  `ReturnRead`, `ReturnDeleted` are what the handler does after `wg.Wait()`. A
  handler that succeeds ends with a Read; it is part of the same action, since no
  goroutine is left.
- **Environment**: `Edit` (the user), `DeleteOutOfBand`, `CreateForeign`, `ReleaseIp`
  (others), `Crash` (the provider or the machine it runs on).

A failed call is nondeterministic: `apiError` had no effect, `lostReply` had its effect
and the provider does not learn of it. `race` is two overlapping `Add`s on an unguarded
Go map (an undefined outcome): both elements are there, one is lost, or the runtime
stops the provider. These goroutines' loops iterate a set, so the order of ports
within a rule is nondeterministic.

What the SDK does is modelled from how the handlers rely on it and marked external:
a failing handler's `ResourceData` is saved all the same (a Create whose id is set
becomes tainted); before the first `d.Set` of a collection it yields the planned
blocks, as mutated in place; a provider that dies leaves the state as it was; the plan
of a *list* carries computed values along by position, of a *set* it does not.

### Resources with one object

The other resources keep one object each, and their handlers are straight sequences of
API calls with an early return at every error. A module for each would say 60 times the
same; instead a handler is written down as a *program*, a sequence of steps, and
`Lifecycle` runs it. `VPCUpdate`, for example, reads in `Networking`:

    <<Write({"name"}), Write({"display_text"})>> \o Replace("tags") \o <<Reread>>

and stands for `resourceCloudStackVPCUpdate`: if the name changed, a call that sends the
name; if the display text changed, another; the tags that are gone are deleted, the new
ones created; Read is called. The order is that of the code, and between any two
steps a call may fail, the answer may be lost or the provider may die. A step is the
function's condition (`on`, `from`, `to`), the arguments it sends (`sets`), those it
sends only when `GetOk` finds them (`keeps`) or their lookup succeeds (`guesses`), whether it sends the unchanged
ones as well (`all`), its retries, and what it does with an error: return it, drop it, log it and go on, look for an
object by name, or take it for "already gone" (`dropped`, `ignored`, `rescued`, `lenient`). `Rename` is for
the one call that sends an attribute under another one's name.

A Read is a record: whether it looks the object up by id or by name, what it does when
there is none (forget it, fail, keep a state without attributes), and which attributes it
refreshes: always; only if the state has them (`ifSet`); only if CloudStack has
them (`ifAny`). Attributes that every handler treats alike are represented by one
of them: the comment above a resource names the others. An attribute is not
configured, or has one of two values.

`First` finds the next step whose condition holds (`Matters`): the conditions compare the
state with the configuration, neither of which changes while a handler runs. What the
60 programs have in common is written down as `CatalogueAssumption`, which TLC evaluates for all
of them on each run, and on which the proofs rest (section 4).

| variable | in the code |
|---|---|
| `kind` | which resource of the catalogues this behaviour is about |
| `cloud` | the objects: whether the provider made them, whether they run, their attributes |
| `config`, `saved`, `fresh`, `told`, `faults`, `changes` | as above; `saved` has the id and the attributes |
| `op`, `program`, `at`, `failures` | the running handler, the steps it is made of, which of them comes next, and how often that one has failed |
| `d` | its `schema.ResourceData`: the attributes; the id once `SetId` was called (`made` before that) |

What some handlers find out on their way decides which steps they take: `IfKnown` and
`IfUnknown` guard a step by whether the object was found (a Create that takes over a
project of its name), `FindNamed` looks for one of the name, `Refind` looks the
object up as Read does, by its id or its name, `AdoptUnknown` adopts what was always there, and
`Answering` stores what the answer of a call says. `MakeUnknown` and `FindByName` are a creation
that is answered without an id, and the list call that looks for it. The offerings of the second provider use the other SDK
(`Framework`): there an error leaves the state as it was, and a result that differs
from the plan is an error (`Unexpected`).

`Refresh`, `Create`, `Update` and `Delete` start a handler (a changed attribute of `renew`,
ForceNew in the schema, replaces the object: destroy, then create). `MakeObject`,
`WriteObject`, `DropObject` and so on take one step, `Return` and `Crash` end the
handler. What the SDK saves is the heart of it: after an error the *planned* values are in the
state, so whatever Read does not refresh is believed for ever.

### Several handlers at a time

Terraform walks its graph of resources in parallel. Three modules are about resources
whose handlers run side by side and touch the same thing.

`RolePermission`: `role` is the list of permissions CloudStack keeps, `lock` the holder of
the mutex per role, `h[r]` the handler of resource `r`: its step, the blocks it works on,
and `listed`, the one list it took at the beginning. Every API call is an action: `List`,
then a call per block (create, change the permission, delete and create), then one per
leftover, then the order, which CloudStack refuses unless it names exactly the permissions
there are. A resource with authority deletes whatever nobody declared, one without leaves it.

`Disk`: `volume[k]` is the volume of disk `k` (machine, device, size, protection), `running`
the machines that run, `h[k]` the handler of `k` with the steps it has still to take. The
code's early returns make a handler a straight program (`CreateSteps`, `UpdateSteps`,
`Recovery`), one step per call. A refused detach puts stop, detach and start in
front of what is left. `misled` is a history variable: machines last stopped for a volume another
machine held.

`Autoscale`: `real` is what CloudStack has (members of the rule, version of the profile,
parameters of the group and whether it is enabled), `plan` the configuration this run of
Terraform applies. Rule and profile look at the group until it is disabled (`tries`), then
make their calls; the group's handler disables, updates, enables. It starts after the
two others when it refers to them, and beside them when it has their ids literally.

`Limits` has one handler; its difficulty is in the values: a limit of 0 that the API may
report as -1, and `configured_max`, which is to remember the difference.

### The abstract specification

`Reconciler` says in five actions what a collection of objects is to its user: the
configuration changes (`Edit`); something wanted and missing is created, with a new uuid
(`Add`); something unwanted, or of a tainted resource, is removed (`Remove`); the
books are kept (`Book`); something fails or is removed by others (`Mishap`). In all of them
what exists is known. `PortForward` instantiates it (`Abstract`): `objects` are the
resource's forwards in the cloud, `known` the uuids in the state or, while a handler runs,
in its set and its goroutines' hands. Once an answer is lost, the provider died or two `Add`s
met, nothing is promised and the mapping shows no objects.

## 3. Runs

Every passing run checks what could go wrong in one part, with every kind of fault the
module knows. The modules state `TypeOK` as documentation of their state; for firewalls, port forwards, security
group rules, rulesets, the lifecycle, role permissions, disks, autoscaling and limits it is proved (section 4).

| run | instance | states | shows |
|---|---|---|---|
| `fan_out` | five goroutines, one careless, two slots | 10² | SlotsBounded, NeverStuck |
| `firewall` | three rules (two ports, one port, invalid), both firewall resources, six configurations, two faults, two edits | 797,000 | Tracked, OkMeansApplied, StateIsReal, EachSettles |
| `port_forward` | three forwards (one invalid), imports, two faults, two edits | 125,000 | Tracked, OkMeansApplied, StateIsReal, Reconciles, Settles |
| `security_group` | three valid rules (two sources and two ports, or one of each) and two invalid ones, of which up to three are written together; two slots, of which one or both leak; one fault, two edits | 644,000 | Tracked, OkMeansApplied, HandlerReturns, Settles |
| `ruleset` | seven configurations over three numbers, a port that is removed or invalid, two attempts, two faults, three edits | 1,335,000 | Tracked, OkMeansApplied, UuidsPreserved, Settles |
| `acl_rule` | ten configurations of nine lists, changed at either end and in place, two blocks of a kind; one fault, three edits | 624,000 | Tracked, OkMeansApplied, KeptRulesSurvive, Settles |
| `lifecycle` | 60 resources; attributes with two values; one fault of six kinds, two edits | 737,000 | Tracked, OkMeansApplied, OffOnlyAfterFault, ForgetsOnlyGone, Settles |
| `role_permission` | two resources of one role, four lists of up to three blocks, one with authority, one fault | 369,000 | OkMeansApplied, OthersUntouched, NoErrorWithoutFault, Settles |
| `disk` | two disks, two machines, one of which lets no volume go while it runs; eight configurations, one fault | 1,617,000 | MachinesRunAgain, OkMeansApplied, ResizedDetached, Settles |
| `autoscale` | 40 configurations by reference and by id, one fault, one act of the autoscaler | 930,000 | MembersChangedWhileDisabled, AutoscaleSettles |
| `limits` | three scopes, 0, -1 and positive maxima, imports, one fault | 816,000 | OnlyNamed, LimitSettles |

One run shows a promise of the documentation that the code does not keep (`findings` in
`PROJECT.json` quotes the line), although nothing fails:

| run | violated | why |
|---|---|---|
| `role_permission_order` | `OrderIsStored` | after a block was removed from the front each block has its neighbour's id; the update orders the permissions rightly, and its Read stores one of them in two blocks |

The others are in section 5, excluded by name from the properties above.

### Why the properties have conditions

A property of a passing run is stated for exactly the situations in which the code
keeps it; its condition is the documented exception, and never more than a disjunct:

- `Blinded`: an answer was lost, the provider died, (where there is no mutex) two
  `Add`s met, or a refused Update emptied the state (section 5). Nobody can know the uuid then. Everything else (failed calls, failed
  verification, refused calls, any interleaving, people who delete rules) is covered.
- `Overlooked` (firewall, egress firewall, ruleset): Read of a managed resource calls
  `d.Set` only when it found something, so the disappearance of *all* rules goes
  unnoticed. `OkMeansApplied` therefore excludes the fault `overlooked`, which is no doing of the
  environment: `Refresh` records that such a Read happened. An Update planned from what it left in
  the state takes rules for given that are gone. `outOfBand` is excluded as well: someone deleted a rule,
  perhaps while a handler ran. No other fault is.
- `Believed` (security group): the state lists a rule that does not exist any more, because a
  revocation failed after it had its effect, or an answer was lost, and Read saves nothing.
- `Agrees` (ruleset): a port that an Update does not send, because it was removed or nothing can be made of
  it (`Unsent`), may be another one in CloudStack. Everything else of the rule is as configured.
- `Hung` (security group): invalid rules hold every slot and another goroutine waits for one. `HandlerReturns` says
  that a handler comes to an end or to this; the run reaches it.
- `Masked` (security group): a block looks complete although a call for one of its
  sources failed, because `ports` is reset per source.
- `Shifted` (ACL rule): the uuids of the list moved to other blocks. Also a failed
  Create is not `Tracked` there when a call other than a creation failed, see below.
- `Displaced` (role permission): blocks changed places, so the ids in the state are those of
  other permissions.
- `Moved`, `Aimless`, `misled` (disk): the disk is configured for another machine than the one that has
  it, which no Update notices, or for none; and the machine it is to go to was stopped in its stead.
- `Stuck` (autoscale): a change waits for the group to be disabled, and nobody
  disables it, or only a handler that comes later.
- `Masked` (limits): the API says -1, and the state knows of a configured maximum and
  believes that.
- `Hopeless`: the configuration has a rule that fails its verification, or none at all
  where there must be one, or a rule exists that nobody knows and that conflicts with a configured one: each apply is
  refused, for ever.

In `Lifecycle` the exceptions are lists of resources and attributes, none of which can be
left out (without it TLC finds the trace), and each of which is a peculiarity of the code:

- `LateId`, for `Tracked`: `loadbalancer` and `cni_configuration` set their id after a second
  call, and so does a snapshot policy whose creation was answered without an id; when that call fails
  the object is forgotten.
- `Unreliable`, for `OkMeansApplied`: `configuration` drops the error of the update its Create
  makes, `cni_configuration`, the projects and the snapshot policy without an id look for their object by
  name, a network service provider is created without its configured state. They, and resources that
  read by name, are checked without faults only.
- `Misnames`, for `OkMeansApplied`: a handler that gives the object a name nobody configured, as the Update of
  a service offering does. Nothing is promised of it; for `Settles`, it may end with a second object of its own
  name in the way.
- `Guessed`, for `OkMeansApplied`: the `os_type` of a template and the account of a project, whose lookup may fail
  and which then are not sent. They are promised in runs without faults.
- `Trusted`, for `OkMeansApplied`: after any fault, also a crash, success is only claimed for what Read
  always refreshes, since a failed Update saved the rest as if it had been done, and one that
  died is planned again from a state that says nothing of what it had done; and never
  for what changed behind the back of the running handler. `Handled`: nor for an attribute
  that no call of Update sends.
- `Strict`, for `Settles`: fifteen resources whose Read fails, or finds nothing wrong, when
  the object is gone, so that nothing can be planned any more.
- `Stubborn`, for `Settles`: attributes that come out of every apply as they went in. The worst is
  `instance.userdata_id`, which is not sent when it was removed: every apply stops and
  starts the machine.
- Deletion protection, a taken unique name, and the handlers' own refusals (a host with
  `prevent_destroy`) also end in a state that does not match.

`Settles` says that the system ends, for good, in a state that matches the
configuration, or in one of these.

### Bounds

`MaxFaults` faults of any kind, `MaxChanges` edits, and `MaxUuid` uuids that may be known
or in use at a time (it is never reached: a larger value gives the same states). One
edit creates, the second updates or destroys, so two edits and two faults reach a
fault in each half of Update, a fault in the recovery from another, a race after a
failed call, and drift next to either. A third edit updates what a second left in doubt: the
ruleset's run has it, and with it `OkMeansApplied` needed the exception of `overlooked`. For the firewall
(three edits, two faults: 3.2 million states, four minutes) and the security group (three edits, one
fault: 1.8 million, three minutes) such a run was made by hand, without an error; the
theorems of section 4 do away with the bound. The lifecycle run has one fault, and then covers
every place in every handler where it can strike; with two faults and one edit (a million
states) the same properties hold. Four uuids are never used up. In the security group a block that waits for a slot is
there in every order, with one slot left to take turns at (where the handler must come to an end) and with none (where it
may hang). A resource of `Twice`,
here the project in a domain, may meet one fault more: a project somebody else made, and
a failing call. Two slots and two or three rules are enough for
every order of two goroutines at work and one that waits; a rule with two ports (two sources) is enough for a
partial failure inside one. The security group and the ACL rule run have one fault,
because their goroutines make more calls. Two resources are enough for every order of two
handlers of one role or one machine; three would only repeat a pair. `MaxScalings` bounds
what the autoscaler does by itself, and the number of looks at a group is two (60 and
30 in the code): a first look that finds it enabled, and the last one. `Attempts` is 2 (4 in the code): a call that
fails, is retried, and fails for good; the deadline of 30 seconds in `Retry` and in the
list call is a step of the environment. A uuid that exists nowhere any more, and that
no part of the provider remembers, is used again, which keeps the models finite.

### Fairness

`WF(Terraform)`: the user runs `terraform apply` as long as it has something to do.
`WF(Provider)`: a goroutine or handler that can run does; the Go scheduler is fair and
every API call returns or times out; a lifecycle program is a finite sequence, and so are its
retries. One condition on all goroutines together is
enough, because none of them loops. Nothing is assumed of the environment.
`FanOut` has one condition per goroutine; the modules with several handlers have one for the
user and one for each handler, so that none is starved by another. Deadlock is not checked: all of these systems
stop when the configuration is applied and the bounds are used up; `Settles`,
`HandlerReturns` and `NeverStuck` say that they do not stop anywhere else (but `Hung`).

## 4. Proofs

`FanOutLimitsAutoscaleRole_proofs`, of the fan-out (for every finite set of goroutines and every parallelism):

- `Semaphore`: at most `parallelism` goroutines are past `sem <-`. The inductive
  invariant adds to it that a slot is only leaked by a careless goroutine.
- `DeadlockFree`: with fewer careless goroutines than slots, some goroutine can move
  until all have returned. `createSecurityGroupRules` violates the hypothesis as soon
  as there are as many invalid rules as slots, and so does a parallelism of 0.

`PortForward_proofs` (for every set of forwards, every configuration and all bounds, so
any number of goroutines, faults and edits):

- `TypeCorrect`, `ForwardsTracked` (`Tracked`), `RealState` (`StateIsReal`), `SuccessApplied`
  (`OkMeansApplied`), `Implements` (`Reconciles`) and `NothingLostOrDoubled`.

`Tracked` is not inductive: it says nothing of *where* a uuid is, and `Remembered`
counts the old state, which the handler is about to replace. The invariant `IInv`
therefore says, while a handler runs, that the uuid of every existing forward is in the
set or in the hands of a goroutine that has not finished (`Held`), and between
operations that the saved state has it (`Kept`). To carry that through, it needs that a
forward about to be created has no uuid that would be overwritten (`Fresh`), that what
Create collected is still in the maps the SDK saves when Create fails before `d.Set`
(`Created`), that a destroy without an error collected nothing (`Destroyed`), that an
address that is gone has no forwards (`Released`, or Read would forget them), and which
states may list forwards without a uuid (`Taint`). There is one lemma per action, and
`ReadFacts`, `FinishFacts`, `ReturnedFacts` and `StopFacts` say once what several
handlers share. The assumptions are those of the modules: `PortForwardAssumption` and
`PoolAssumption`; the former says that no configured forward is a uuid, as a dummy block has one in
the place of its forward.

`SuccessApplied` is about what a handler has still to do, which `AInv` adds to `IInv`. As long as
no error is noted, each configured forward is in place and no goroutine is about to delete it
(`InPlace`), some goroutine has yet to ask for it (`InProgress`), or it waits until the old ones are
deleted (`Promised`). An Update leaves what it finds unchanged in the state alone, so this rests on the
state of the plan: after a refresh and until the plan is carried out, what it lists exists
and has a uuid of its own (`FreshReal`). An operation that ends with success has no goroutine
left and nothing put aside, so only the first case remains.


`Firewall_proofs` (for every set of rules, with any ports each, and all bounds):

- `TypeCorrect`, `RulesTracked` (`Tracked`), `RealState` (`StateIsReal`), `SuccessApplied`
  (`OkMeansApplied`), and `EgressAlike`: all four for the egress firewall.

The argument is that of the port forwards (`Held`, `Kept`, `Destroyed`), but a block has a uuid per
port and a goroutine makes several calls, any of which may end it. `Names(e, u)` says
that the block `e` has `u` at a port it lists: only those does Read look for, so a uuid under
another key would be as good as lost. `CreatePort` adds a name and keeps the others
(`WithUuidFacts`), `DeletePort` takes one away and keeps the others (`LessFacts`), and what a goroutine
drops when it returns without collecting names nothing (`GoesOn`). `FirewallAssumption` says,
among the bounds, that no configured rule is a uuid: a dummy block has one in the place of
its rule.

For `SuccessApplied` the promise is one per port. A set has one block of each rule (`Alone`,
`OneEach`), and where a block has the uuid of an existing rule it is at the port that rule opens
(`Right`): so the ports a goroutine skips because they have a uuid are open, those it closes are not
configured, and neither is undone by another goroutine. A step of a goroutine may only add to what its
block says (`PartOf`). The egress firewall has the steps of the firewall and one more way a
refresh may end, which touches nothing; `EgressAlike` follows from the same invariant.

`Implements` (in `PortForward_proofs`): `Spec => Reconciles`. The initial states map to the reconciler's, and every
step to one of its actions or a stutter. Most steps are `Harmless` (they create nothing,
and remove nothing but by a fault), and are the reconciler's `Book` or `Mishap`
because `IInv` says that what exists is known. The two that matter need three more
invariants: no uuid stands for two forwards (`Distinct`); where a uuid is listed it is beside the
forward it belongs to (`Agree`, which a dummy block only keeps because everything of
the resource's own is listed already); and a goroutine that creates was started for a configured forward, one that
deletes for one that is not, or whose resource is tainted (`Purpose`). So `CreateForward`
is an `Add` and `DeleteForward` a `Remove`. `NothingLostOrDoubled`, a reconciler knows what it has
made and has nothing twice, is then a property of the port forwards.

`SecurityGroupRule_proofs` (for every set of rules with any sources and ports, and all bounds):

- `TypeCorrect`, `RulesTracked` (`Tracked`) and `SuccessApplied` (`OkMeansApplied`).

A goroutine runs two nested loops here and resets the list of ports between two sources, while
the uuids of the sources before stay in its block. `Making` says what it has not got yet, so
that no answer overwrites a uuid that is still needed. For `SuccessApplied`, what a goroutine has still
to ask for (`Asks`) is the ports left at its present source and *all* ports at the
sources to come; that these are all ports of the rule (`Whole`) is what a failed call breaks, and is
the origin of `Masked`. Since Read saves nothing there is no `FreshReal`: a block that an Update keeps
(`Stays`) is only worth something if what it lists exists, the exception `Believed`.

`NetworkACLRuleset_proofs` (for all rule contents and numbers, and all bounds):

- `TypeCorrect`, `RulesTracked` (`Tracked`), `SuccessApplied` (`OkMeansApplied`) and
  `UuidsStay` (`UuidsPreserved`).

A goroutine creates, deletes, changes a rule in place, or deletes and creates inside one
job, under a mutex and with retries. `Jobs` says that each fan-out works on exactly what was put aside for it;
`Turn` that a goroutine holds the rule it was given until its calls are over, and that only one is
at the set at a time; `Current` that the rule which exists under a uuid is the one listed beside it,
for the state of a plan and for what is still to be deleted or changed. `Unborn` is the one thing peculiar to
Create: until it returns nothing lists its rules but its goroutines. `OnePerNumber` is an assumption on what the
user writes (`RulesetAssumption`). `SuccessApplied` has the promise of
the other collections, with a third way to come true: a rule with a new content is made of an old
one. Such a rule need not be there word for word: `Agrees`, in the property as in the promise, is as much as
`Amended` gives, and `AmendedFacts` says so. A rule that is created is verified and whole. `UuidsStay` needs no promise: a goroutine that deletes was given a rule whose number is
configured no more, or whose protocol changes.

`NetworkACLRule_proofs` (for every set of rules, every list of blocks and all bounds):

- `RulesTracked` (`Tracked`), `OkRulesApplied` (`OkMeansApplied`) and `KeptRulesStay` (`KeptRulesSurvive`).

Here the blocks are a list, and their uuids belong to positions. The invariant is `~Shifted => Calm`: once something
made the uuids shift (see below) nothing is claimed any more, and as long as nothing did,
the uuid of every rule of the resource is *wanted* by some block, under the key Read looks for, and not one that is
still to be made (`Listed`), and wherever the uuid of an existing rule is kept, it is under that rule's
key (`KeysFit`). Together they say that deleting all uuids of an unmatched block deletes its own rule.
`UpdatesOK` says that an update in place goes to one block and keeps the kind of the rule, so that the key still fits.
`Synced` is what Update relies on: after a refresh each block shows the rule it wants, and no two want the same.
For `OkRulesApplied`, each configured rule is to be made (`Pending`), about to become what it should
(`Changing`), or there and not on the list of what is to be deleted or changed (`Present`): that is `Progress`, and
it needs that no port is skipped for a uuid it took over (`NothingSkipped`). `Spares` is `KeptRulesStay` before the
calls are made.

Read, the matching and the collection of results used to be folds over the lists. They are now
written as what they compute, by position: the blocks Read keeps are those whose rule no earlier block took
(`Found`), and the n-th old block of a kind is matched with the n-th new one (`Pairs`), because
`rulesMatch` is an equivalence on what passes the schema (a rule that is neither tcp nor udp has no port).
`InOrder` lists a set of positions in order; that such a list exists, and has each of them once,
is proved from the cardinalities (`InOrderFacts`), without induction.

`Disk_proofs` (for any disks, machines and configurations):

- `StoppedRunAgain` (`MachinesRunAgain`), `DetachedWhenResized` (`ResizedDetached`) and
  `SuccessApplied` (`OkMeansApplied`). The invariant speaks about programs: in what a handler has still to do, stop, detach and
  start of a recovery come in this order and nothing follows them (`Orderly`), an update
  resizes at once or right after it detached (`DetachedFirst`), what a recovery is to detach stays attached
  until then (`Holding`), and for every machine that is off some handler is about to start it, past
  every call that may fail (`Awaited`), unless the machine is `misled` or a call did fail.

`SuccessApplied` reads programs as well. A handler can only report success past its last step, a Read;
so `Working` says of every program that leads to a Read what it is going to do about each attribute that
is not as planned (`Promise`): it will make the volume, protect or unprotect it, resize it, detach it, attach
it, in an order in which no later step undoes an earlier one (`Ahead`, `LastRead`).
Each call keeps the promise of what is left (`PromiseStep`), and a recovery, which ends with the error of
the first detach, makes none. What a handler took from the refresh is still so when it
starts (`Looked`), because no other handler touches its volume; the volume of a disk that was deleted
is gone (`Forgotten`), and an empty program has kept its promises (`Applied`). What remains are
exactly `Moved` and a change behind the handler's back (`race`). `DiskAssumption` says of what a user may
write that it is a record of the attributes.

`Lifecycle_proofs` (for every catalogue that `CatalogueAssumption` describes, and all bounds):

- `TypeCorrect`, `ObjectTracked` (`Tracked`), `ForgottenIsGone` (`ForgetsOnlyGone`), `OnAgain`
  (`OffOnlyAfterFault`) and `OkObjectApplied` (`OkMeansApplied`).

No proof can run the programs of 60 resources, so none does: `CatalogueAssumption` says in a
few lines what they have in common, TLC evaluates it for each of them, and the theorems hold of any other
program like it, of any length. It says that an object gets its id by one step of Create, before any
that looks for it (`NamesOnce`); that the id is set late only in `LateId` (which has, besides two resources, the snapshot policy
that is answered without an id: `Tracked` is proved of the one answered with an id); that no Update or Delete makes or
names anything, and Create deletes and turns off nothing; that Delete, where the id
decides, always deletes (`Deletes`) and drops no error; and that each step that turns
something off is followed by one that turns it on under every condition that led to the first, with
nothing in between that refuses by itself (`RestoredIn`). Each is read off the handlers, and a
handler that broke one would be reported by TLC before any behaviour is examined.

`Identity` is the inductive part of the first three theorems: a Create works on an empty
state, and knows an id only after the step that names one (`Named`); an Update or Delete whose state names
an object of the provider's works on that very object, though a Read on the way may look it up
again; past the step that deletes it (`Deleted`) the object is gone, so that `Return`, which clears the
state, forgets nothing; and as long as no answer was lost, the only object is the one
known (`Sighted`). `OnAgain` adds `PowerInv`: a handler is at a step that matters, and for an object
that is off the step that mends it is ahead, with only steps before it that do not fail by
themselves (`Pending`). Since the conditions compare the same state and configuration all along, a
step that mattered when the object was turned off has not ceased to when its turn comes (`MendsAhead`).

`OkObjectApplied` is about which attributes the steps that were taken have sent, together. What has to be so of a
program for that is in `Carrying`, another assumption on catalogues, which TLC evaluates for the 60 resources and which
a program may be checked against by reading it, one attribute at a time and with no state or fault in sight:

- `Applies`: for each attribute that can be sent (`Sendable`), and each old and new value, some step of Create and, unless the
  attribute is ForceNew, of Update sends the new value under a condition that this change
  fulfils (`Fixes`), and no later step sends something else (`Spares`): first clear the old tags, then
  add the new ones, and not the other way round. What is to be removed counts if removal can be sent at all (`Handles`).
- `InOrder`: nothing is sent after the handler has looked at the object, or has taken over what a reply says, since
  from then on its data is not the configuration any more.
- `CreatesOne`, `UpdatesOnly`, `DeletesLast`: Create has exactly one step that chooses its object, always taken, with every
  refusal before it; Update chooses, deletes and refuses nothing; Delete ends with the deletion (but
  of what was always there), and one that changes the object first has nothing in it that may refuse.
- `Names`, `Reliable`: an object that is found by its name is given that name; outside `Unreliable`, Create and Update
  drop no error and pass over no step.

The inductive invariant `AInv` adds three things to `PowerInv`. `Handling`, while Create or Update can be trusted: each trusted
attribute is still going to be sent by a step ahead (`Coming`), or is in the object as configured (`There`), and
nothing ahead undoes it. A failed call either leaves the step ahead, or ends the handler with an error, so it needs no
exception; what goes wrong is a later handler that believes the state the failed one left. Therefore `Seen`: a state
that was just refreshed agrees with the object in what Read always refreshes, which is all that is trusted after a
fault. What Read does not look at is trusted as long as nothing failed at all, and then the state needs no refresh to be
right: `Alone` says that without faults there is at most one object, that it is the state's,
and that both agree in all that is sent (`Agrees`), through Create, Update and Delete. The one exception
are attributes whose removal is never sent (`Exempt`), which is why `Handled` excludes them. A call that goes on although
a lookup failed (`CallWithout`) or an error was logged (`CallLogged`) leaves less sent than the step says; it counts
as a fault, and after it nothing is trusted that is `Guessed`, so that a step has to be sound only for what can be
trusted after it (`SoundFor`, `ProceedTrusts`). The invariant is about resources that give their object no name but the
configured one (`[](Misnames \/ AInv)`); of the others `Trusted` is empty.
`Told` closes the circle: success is reported only when no step is ahead, where `Coming` is impossible.

The handler's steps were once a sequence from which each step took the head off, and what has
been taken off can no longer be spoken about. `Lifecycle` now keeps the program and a place in it.

`FanOutLimitsAutoscaleRole_proofs`, of the autoscaler: `MembersSafe` (`MembersChangedWhileDisabled`). The group is off from the
moment the rule's handler saw it off (`Waited`) because the only handler that enables it starts
after the rule's is done (`GroupLast`), or, with literal ids, only enables it if
that is planned (`EnabledAsPlanned`), which the property excludes.

`FanOutLimitsAutoscaleRole_proofs`, of the limits: `OthersLimitsStay` (`OnlyNamed`). The invariant (`KnownScopes`) says where the
scope in the state and in the running handler can come from: it was configured once, or it is the
caller's own, after an import.

`FanOutLimitsAutoscaleRole_proofs`, of the role permissions (for any resources, rules, lists of blocks and bounds):

- `UndeclaredUntouched` (`OthersUntouched`), `OkRoleApplied` (`OkMeansApplied`) and
  `ErrorsHaveCauses` (`NoErrorWithoutFault`).

Ids travel by position here, so what a block claims to be may be another permission, even of another
resource's. What saves the others is that an id stays with its rule (`Agrees`): every id in a state or a plan was
once that of a permission the same user declared (`DeclaredIn`), so whatever a handler deletes, changes or
moves by id is its own. CloudStack's side of it is `Sound`: each step leaves permissions that were there or are new,
and a new one has an id that nobody remembers. The order of the others is kept because the order that
is sent has the rest as it was listed (`Leaves`), and is refused unless it names exactly what exists.

For `OkRoleApplied` the mutex counts (`Working`): while a handler holds it and nobody else interferes, what it has not
touched is as it was listed (`Untouched`), whatever is there was listed or made by it (`Covered`), and what each
finished block was given is as that block says (`Done`), unless the same permission was given to
two blocks. That does happen, with ids out of place, and no step of the handler notices; but then the order names a
permission twice, so that by counting it cannot name all that exist, and is refused (`OrderFacts`). An accepted order puts
the blocks first (`Applied`).

`Select` lists the positions of a set in order, as in the ACL rules; `ReadBlocks` and `DropsBlocks` are functions by
recursion along the list, of which it has to be shown that they exist (`ReadsExist`): there is no first
position for which they do not.

`ErrorsHaveCauses` is about everything that could be refused: a deletion or an update by an id that is gone, the creation
of a rule that the role has, an order that does not name exactly what there is, a Read that finds a block without a
permission. Its invariant (`ErrorIInv`) has a part for the state and one for the handler. `Steady`: the blocks of
a refreshed state, and of a handler that works on them, have ids that still name the same rules, and no two different
blocks have the same id. `Faithful`, as long as nothing failed and no block is `Displaced`: each block done has a permission
that the role has and no other block got, what was listed and not deleted is still there, and the id of a
mismatched block ahead was not deleted with another (`Matching`); Delete deletes each id it listed once (`Dropping`).
Then the order names each of the role's permissions once (`OrderAccepted`), and Read finds one for every block
(`ReadFindsAll`). The theorem has one hypothesis: no list declares a rule twice (`DeclaredOnce`). The schema does not check
that, and CloudStack refuses the second creation, which is an error the user wrote; the run's lists satisfy it, as TLC
evaluates (`ConfigsDeclareOnce`).

Only model-checked is liveness (`HandlerReturns` and every `Settles`): the prover has no support for fairness or
`ENABLED`. Every other property of a passing run is stated by a theorem.

### What the proofs found

- `OkMeansApplied` of the firewall, the security group and the ruleset was not true beyond two edits: its
  invariant could not be carried through an Update that is planned from a state which lists rules that are gone, and
  with a third edit TLC shows the trace. It is the code that behaves so, and
  the exceptions `overlooked` and `Believed` name it.
- Of the ruleset nothing else had to be excepted: the property used to say nothing after a lost answer or
  a crash. Under its mutex, and with a rule's number checked by CloudStack, success means
  applied after these too.
- `OkMeansApplied` of the lifecycle claimed too much after a crash: with a third edit, and so out of the
  reach of the run, an Update that died is planned again from the old state, an edit takes its
  change back, and the next success leaves in CloudStack what Read does not look at. `Trusted` now treats
  a crash like any other fault.
- The invariants of the ACL rules could not be carried through three things that the resource does to
  itself, and TLC shows that each of them breaks a property in a few edits without any
  fault of the API: a Create or a migration of which one rule is rejected forgets those it made (`abandoned`); a
  matched block with several uuids has one of them updated, and which one the iteration of a Go map decides
  (`misdirected`); and a uuid taken over by position keeps a port from being made, or has a rule deleted that stays in the
  list (`confused`). The model notes each where it happens, `Blinding` and `Clear` name them, and
  the run now has lists that change at the front and blocks of a kind, where all three occur; before, its lists
  avoided the matter. That an Update spares what stays is moreover only true of lists without two blocks of a kind
  (`OneOfAKind`).
- The port forward needs that no forward is named like a uuid, and the disk that configurations are
  records; TLC evaluates both assumptions.

## 5. What the model shows besides the runs

### Promises the code does not keep

Each was met as a counterexample; the condition that excludes it is in brackets.

- Two goroutines `Add` to one `schema.Set` that nothing guards (`firewall.go:158`, and its
  siblings): a uuid is lost, or the runtime stops the provider, although the set is there "to make
  sure we end up in a consistent state" (`firewall.go:412`). [`Blinded`: race]
- Read of a managed egress firewall makes a dummy block with a string where the schema has
  a set (`egress_firewall.go:424`): the hash panics, and a rule nobody configured is never
  deleted, although `managed` is to "delete all firewall rules that are not in your config"
  (`website/docs/r/egress_firewall.html.markdown:37`). [`Panics`]
- An invalid security group rule returns between `sem <-` and `<-sem`
  (`security_group_rule.go:171`): with two of them, the default parallelism of 2
  (`website/docs/r/security_group_rule.html.markdown:48`) leaves the other goroutines
  waiting for ever, and what is wrong with the rules is never said. [`Hung`; `DeadlockFree` says in
  general how many it takes]
- An ACL rule that is changed in place is not verified (`network_acl_ruleset.go:855`): a port that was removed, or cannot be
  parsed, is left out of the request, CloudStack keeps the old one, and success is reported. Read finds
  the old port again, so this is planned for ever. [`Agrees`]
- Read of an unmanaged ruleset whose state is empty takes every rule of the list for its own
  (`network_acl_ruleset.go:510`), "e.g., during import"; the next update deletes them, although only `managed`
  should (`website/docs/r/network_acl_ruleset.html.markdown:144`). [no property forbids it]
- After a change at the front of the list of an ACL rule, a block carries the uuid of another rule
  (`network_acl_rule.go:955`), and the port that has a uuid is skipped (`:392`): success is reported and the rule
  is not there, or the deletion of an unmatched block deletes the rule of another. [`confused`]
- A matched block with two uuids has either of them changed (`network_acl_rule.go:977`): `<<all tcp>>`, `<<ping,
  all tcp>>`, `<<ping 2>>`, `<<all udp, ping 2, all tcp>>`, `<<ping 2, all tcp>>` leaves a rule in the ACL that no block
  knows. [`misdirected`]
- A Create of which one rule is rejected sets no id, and those it made are forgotten
  (`network_acl_rule.go:221`); so does a migration. [`abandoned`]

### Role permissions

- After the first of three blocks is removed, one permission is in two blocks; a
  destroy then fails on the second, and leaks the third.
- Two blocks that change places never settle: each apply finds the ids exchanged again.
- A block that takes over the permission of the next block has it deleted when that block
  is reconciled.
- A failed update that added a block leaves a block without an id in the state, and the
  next refresh drops the whole resource.
- Permissions that others add are never seen by a resource with authority: Read looks at the
  ids it has, so there is no plan.

### Disks

- A disk that is to move to another machine while its device or size changes is refused
  the detach by the machine that has it; the machine that is *stopped* is the one it is to go
  to (`disk.go:388`), the second detach is refused as well, and that machine stays off.
- When stop, detach and start succeed, the error of the first detach is returned
  all the same; the next apply continues.
- A changed `virtual_machine_id` is never applied: `HasChange("virtual_machine")` names no
  attribute (`disk.go:271`). `attach` without a machine never settles.
- A protected disk is detached before its deletion is refused. The computed device
  id goes stale once CloudStack chose another.

### Autoscaling

- One run that disables the group *and* changes the profile or the members times out
  always, if the group refers to them: the handlers that wait run before the
  one that disables. A second run does it.
- `min_members` of a group that stays enabled is refused for ever. A rule with
  explicit members under an enabled group that scaled fails each apply after two
  minutes.
- A failed `ListAutoScaleVmGroups` is logged only, and the nil answer dereferenced: a panic.
- Members are never taken away to leave none; with no old members and some real ones
  the change is skipped and success reported.
- The rule's handler compares the group's state with "disabled" and "disable" as they are written (`loadbalancer_rule.go:311`), the group's
  lowercases it first (`autoscale_vm_group.go:240`): a "Disabled" would never be taken for disabled by the former. In the
  model the state is a Boolean.
- With literal ids nothing orders the handlers: the group may be enabled between the
  last look and the change.

### Limits

- Update to 0 sends no limit at all: the limit is lifted. A created 0 that the API reports as
  -1 reads as unlimited (`GetOk` cannot see a 0, although `limits.go:361` wants "0 for
  zero limit"), and the next apply lifts it. 10, then 0, then 10 leaves no limit for
  ever.
- A limit that somebody lifted is never noticed.
- Import stores the type only: Read asks for the caller's own scope, and the replacement
  that follows lifts the caller's own limit. An id that is a type alone is refused, although
  the docs import `0`.

### Resources with one object

- A project in a domain takes over the existing project of its name, without applying the
  display text; and a project whose id is gone takes the one of its name.
- A new network service provider is not put in its configured state; the next apply
  does that. Services that are removed from its list stay.
- A new display text of a service offering is sent as its *name* (`service_offering.go:348`). Read looks
  for the configured name, so the offering is forgotten, or, if the display text is also the name, changed again by every
  apply. [`Misnames`, `Stubborn`]
- The custom id of a snapshot policy is not sent by Create (`snapshot_policy.go:99`), and Read does not look at it; a
  change of the tags sends it. [`Sendable`]
- A snapshot policy that is created and answered without an id is looked for among those of the volume: when
  that call fails it is forgotten, and the last one found may be another. [`LateId`, `Unreliable`]
- A customer gateway's `dpd` of false and lifetimes of 0 are never sent (`vpn_customer_gateway.go:188`, `:114`), and
  planned again by every apply. [`Stubborn`, `Keeps`]
- A template whose `os_type` could not be looked up is registered without it (`template.go:196`), and a
  project whose account could not be looked up is updated without it (`project.go:484`): both report success. [`Guessed`]
- `allocation_state` of a host is read and never sent. [`Stubborn`]
- Offerings of the second provider: changes of `network_rate`, `deployment_planner`,
  `disk_offering_id` and `storage_tags` are never sent; removing `host_tags` ends in
  "inconsistent result" each time; Read makes nothing of the disk blocks, and fails when the offering is gone.
- Read of the security group rule collects what still exists and never calls `d.Set`: a rule
  revoked by someone else stays in the state until its block is changed.
- A machine whose Update fails after it was stopped stays off: the planned values are
  saved, so the next plan finds nothing to do.
- A tag update that fails between its two calls loses the old and the new tags, but only
  until the next Read, because tags are refreshed. A `loadbalancer` whose members cannot be
  assigned is forgotten with its rule, because the id is set after that.
- A failed Create of a Kubernetes cluster takes the cluster of that name for its own, also
  when it is somebody else's: the next apply destroys it, since the resource is tainted.
- Resources that Read finds by name (volume, SSH key, service offering, tariff) take another
  object of the name for their own.
- `host`: changes of the configuration are saved and never sent.

### Collections

- A managed firewall, egress firewall or ruleset, all of whose rules somebody deleted: Read leaves the
  state as it was (`firewall.go:388`, `egress_firewall.go:434`, `network_acl_ruleset.go:538`). The plan is
  empty as long as the configuration stays; a later Update creates what is new in it, leaves what it
  believes to be there, and reports success.
- A security group rule that is gone but listed (an answer to its revocation was lost) stays listed; an
  Update that keeps its block reports success without it.
- An unmanaged firewall or ACL rule whose last rule is removed from the configuration is refused by
  Update before `d.Set` (`firewall.go:399`, `egress_firewall.go:445`, `network_acl_rule.go:722`), and
  the planned, empty collection is saved: with the next Read the resource is gone, its rules
  stay, and once it is configured again they are in the way. The runs have such a configuration; the
  fault `emptied` remembers it (`Blinded`).
- A protocol given by number passes the verification of the security group and the ACL
  rule, and nothing is created for it; nor is it for a tcp rule without ports in a
  firewall.
- A tainted, unmanaged ruleset only leaves the state when it is deleted; its numbers are
  taken for ever after.
- Create of the ACL rule sets the id last: when one rule fails, the others exist and no
  state lists them. A failed deletion in its Update saves the planned list, without the
  uuid of the rule that still exists. An outage of 30 seconds in Read takes the resource
  out of the state. In an update, a block that took over the uuid of its predecessor may
  be sent to a rule that does not exist any more.

## 6. Not modelled

- The deletion of a security group itself while its rules are in the state: Read then forgets them
  (`security_group_rule.go:350`). In the model groups stay.
- The sleep of 500 ms between two launches: a late launch is a slow goroutine.
- Descriptions, projects and other arguments that are passed through.
- The private address of a port forward, found from the machine's NICs.
- In the ACL rule, the deprecated `ports` list other than as the start of a migration;
  in the ruleset, its importer and two blocks with the same number.
- In the lifecycle: importers; computed attributes; the states an object passes
  through while a handler polls (a poll is one call that may fail); machines that are not
  to be started; which tags differ (the tags are one value).
- Calls that only look something up and end the handler when they fail: such a failure
  is the same behaviour as a failure of the call that follows.
- For disks: tags, the disk offering (resized like the size), `shrink_ok`, and the importer,
  which passes the id through. A lost answer to the creation of a volume leaves one that nobody
  knows, and that no later step meets. Starting a machine that runs is accepted.
- For autoscaling: several groups on one rule. For limits: an account without its domain,
  which Create refuses.
- The refinement of `Reconciler` by the other collections. A firewall deletes and creates a
  block as a whole when one of its ports is gone, and so deletes wanted ports; the ACL
  lists change rules in place. Their properties say what they keep.
- The parts that `PROJECT.json` lists as `not_modelled`: lookups without state (data sources,
  name resolution) and the provider's own configuration, which is read once and kept.

## 7. Plan

Done: the pool, the six collections, the lifecycle of 60 resources, role permissions, disks,
autoscaling, limits; proofs for the pool, both firewalls, the port forwards and their refinement,
the security group rules, the ruleset, the ACL rules, the lifecycle, role permissions, disks, autoscaling and limits. Worth doing
next: a variant of `Reconciler` with objects that change in place, for the ACL lists.
