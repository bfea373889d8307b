--------------------------------- MODULE Disk ---------------------------------
(***************************************************************************)
(* cloudstack_disk: volumes that are created, resized, attached to and     *)
(* detached from machines.  Terraform runs the handlers of several disks   *)
(* at the same time.  A volume that a running machine does not let go is   *)
(* detached after stopping the machine, which is then started again; the   *)
(* machine may have another disk whose handler does the same.              *)
(***************************************************************************)
EXTENDS Naturals, Sequences

CONSTANTS Disks,        \* the resources
          Machines,     \* the machines there are
          Sticky,       \* those that, while they run, let no volume go
          Devices,      \* device ids, 1 .. n
          Configs,      \* [Disks -> what the user may write for it]
          Attempts,     \* how often an attach is tried (10 in the code)
          Faults,       \* which faults the environment may inject
          MaxFaults,    \* bound: how many of them
          MaxChanges    \* bound: how often the user edits the configuration

FaultKinds == {"apiError", "lostReply", "crash", "outOfBand", "race"}
NoMachine == "none"
NoDevice == 0

Configurations ==
  [present : BOOLEAN, attach : BOOLEAN, vm : Machines \cup {NoMachine}, device : Devices \cup {NoDevice},
   size : Nat, protected : BOOLEAN, reattach : BOOLEAN]

ASSUME DiskAssumption ==
  /\ Sticky \subseteq Machines /\ NoMachine \notin Machines
  /\ Configs \in [Disks -> SUBSET Configurations]
  /\ Faults \subseteq FaultKinds
  /\ Attempts \in Nat \ {0} /\ MaxFaults \in Nat /\ MaxChanges \in Nat

VARIABLES volume,    \* [disk -> its volume: exists, vm, device, size, protected]
          running,   \* the machines that run
          misled,    \* those last stopped for a volume that another machine had
          config,    \* [disk -> what the user wants; vm and device may be left out]
          saved,     \* [disk -> the Terraform state]
          fresh,     \* the disks that were refreshed and not applied since
          h,         \* [disk -> the running handler: op, the steps to take, its data]
          told,      \* [disk -> how its last operation ended]
          faults,    \* the faults injected so far: [number, kinds]
          changes    \* edits made so far

vars == <<volume, running, misled, config, saved, fresh, h, told, faults, changes>>

-----------------------------------------------------------------------------
(* The API.                                                                *)

Fault(k) ==
  /\ k \in Faults /\ faults.number < MaxFaults
  /\ faults' = [number |-> faults.number + 1, kinds |-> faults.kinds \cup {k}]
NoFault == UNCHANGED faults

NoVolume == [exists |-> FALSE, vm |-> NoMachine, device |-> NoDevice, size |-> 0, protected |-> FALSE]

Attached(k) == volume[k].vm # NoMachine
Taken(vm) == {volume[k].device : k \in {j \in Disks : volume[j].vm = vm}}
FreeDevices(vm) == Devices \ Taken(vm)

\* CloudStack attaches a volume that is free, at a device that is; without a wish, at
\* the first.
DeviceFor(vm, wish) == IF wish # NoDevice THEN wish ELSE CHOOSE x \in FreeDevices(vm) : \A y \in FreeDevices(vm) : x <= y
AttachRefused(k, vm, wish) ==
  \/ ~volume[k].exists \/ Attached(k)
  \/ IF wish # NoDevice THEN wish \in Taken(vm) ELSE FreeDevices(vm) = {}
DetachRefused(k) == ~Attached(k) \/ volume[k].vm \in Sticky \cap running
DeleteRefused(k) == Attached(k) \/ volume[k].protected

Loose(k) == [volume EXCEPT ![k].vm = NoMachine, ![k].device = NoDevice]

-----------------------------------------------------------------------------
(* Terraform: refresh, plan, and the start of a handler.                   *)

NoDisk == [exists |-> FALSE, tainted |-> FALSE, attach |-> FALSE, vm |-> NoMachine, device |-> NoDevice,
           size |-> 0, protected |-> FALSE]

Idle(k) == h[k].op = "idle"
AllIdle == \A k \in Disks : Idle(k)
NoHandler == [op |-> "idle", todo |-> <<>>, tries |-> 0, reattach |-> FALSE, d |-> NoDisk]

\* A variant: Read does not notice that the volume is gone.
ReadAttachedDisk(d, k) == [d EXCEPT !.attach = Attached(k), !.vm = IF Attached(k) THEN volume[k].vm ELSE @]

\* Read: where the volume is attached is only looked at if it is.
ReadDisk(d, k) ==
  IF ~volume[k].exists THEN NoDisk
  ELSE [d EXCEPT !.attach = Attached(k), !.size = volume[k].size, !.protected = volume[k].protected,
                 !.vm = IF Attached(k) THEN volume[k].vm ELSE @,
                 !.device = IF Attached(k) THEN volume[k].device ELSE @]

\* A run of Terraform begins with a Read of every disk it knows.
Refresh ==
  /\ AllIdle /\ \E k \in Disks : saved[k].exists
  /\ saved' = [k \in Disks |-> IF saved[k].exists THEN ReadDisk(saved[k], k) ELSE saved[k]]
  /\ fresh' = {k \in Disks : saved[k].exists}
  /\ told' = [k \in Disks |-> "none"]
  /\ UNCHANGED <<volume, running, misled, config, h, faults, changes>>

\* The plan: what is not configured stays what it was.
Planned(k) ==
  [saved[k] EXCEPT !.exists = TRUE, !.attach = config[k].attach, !.size = config[k].size, !.protected = config[k].protected,
                   !.vm = IF config[k].vm = NoMachine THEN @ ELSE config[k].vm,
                   !.device = IF config[k].device = NoDevice THEN @ ELSE config[k].device]

Changed(k) == Planned(k) # saved[k]
SizeChanges(k) == saved[k].size # Planned(k).size
DeviceChanges(k) == saved[k].device # Planned(k).device
ProtectionChanges(k) == saved[k].protected # Planned(k).protected

If(condition, steps) == IF condition THEN steps ELSE <<>>

\* A variant: Update resizes first.
UpdateResizingFirst(k) ==
  If(SizeChanges(k), <<"resize">> \o If(config[k].reattach, <<"detach">>))
  \o If(DeviceChanges(k), <<"detach">>)
  \o (IF config[k].attach THEN <<"attach">> ELSE <<"detach">>)
  \o If(ProtectionChanges(k), <<"protect">>) \o <<"read">>

UpdateSteps(k) ==
  If(SizeChanges(k), If(config[k].reattach, <<"detach">>) \o <<"resize">>)
  \o If(DeviceChanges(k), <<"detach">>)
  \o (IF config[k].attach THEN <<"attach">> ELSE <<"detach">>)
  \o If(ProtectionChanges(k), <<"protect">>) \o <<"read">>

CreateSteps(k) ==
  <<"make">> \o If(config[k].protected, <<"protect">>) \o If(config[k].attach, <<"attach">>) \o <<"read">>

Launch(k, op, steps, d) ==
  /\ h' = [h EXCEPT ![k] = [op |-> op, todo |-> steps, tries |-> Attempts, reattach |-> config[k].reattach, d |-> d]]
  /\ fresh' = fresh \ {k}
  /\ UNCHANGED <<volume, running, misled, config, saved, told, faults, changes>>

Create(k) ==
  /\ Idle(k) /\ config[k].present /\ ~saved[k].exists
  /\ Launch(k, "create", CreateSteps(k), Planned(k))

Update(k) ==
  /\ Idle(k) /\ config[k].present /\ saved[k].exists /\ ~saved[k].tainted /\ k \in fresh /\ Changed(k)
  /\ Launch(k, "update", UpdateSteps(k), Planned(k))

Delete(k) ==
  /\ Idle(k) /\ saved[k].exists /\ k \in fresh /\ (~config[k].present \/ saved[k].tainted)
  /\ Launch(k, "destroy", <<"detach", "drop">>, saved[k])

-----------------------------------------------------------------------------
(* The handler returns.                                                    *)

Stop(k, state, result) ==
  /\ h' = [h EXCEPT ![k] = NoHandler]
  /\ saved' = [saved EXCEPT ![k] = state] /\ told' = [told EXCEPT ![k] = result]
  /\ UNCHANGED fresh

Now(k) == Head(h[k].todo)
At(k, step) == ~Idle(k) /\ h[k].todo # <<>> /\ Now(k) = step

\* The SDK saves the planned values, but those of a Create only once it has an id.
ReturnError(k) ==
  Stop(k, CASE h[k].op = "destroy" \/ At(k, "make") -> saved[k]
            [] h[k].op = "create" /\ ~At(k, "make") -> [h[k].d EXCEPT !.tainted = TRUE]
            [] OTHER -> h[k].d, "error")

Goto(k, steps) == h' = [h EXCEPT ![k].todo = steps] /\ UNCHANGED <<saved, told, fresh>>
Rest(k) == Tail(h[k].todo)
Proceed(k) == Goto(k, Rest(k))
Outside == <<misled, config, changes>>

\* A call that would turn volumes and machines into those given; if it fails, the
\* handler does `GiveUp'.
Try(refused, volumes, machines, GoOn, GiveUp) ==
  \/ ~refused /\ volume' = volumes /\ running' = machines /\ GoOn /\ NoFault
  \/ refused /\ UNCHANGED <<volume, running>> /\ GiveUp /\ NoFault
  \/ Fault("apiError") /\ UNCHANGED <<volume, running>> /\ GiveUp
  \/ /\ ~refused /\ <<volumes, machines>> # <<volume, running>> /\ Fault("lostReply")
     /\ volume' = volumes /\ running' = machines /\ GiveUp

CallOr(refused, volumes, machines, GoOn, GiveUp) ==
  Try(refused, volumes, machines, GoOn, GiveUp) /\ UNCHANGED Outside

Call(k, refused, volumes, machines) == CallOr(refused, volumes, machines, Proceed(k), ReturnError(k))

\* A call that lists the volume.
Look(k, refused, GoOn) == CallOr(refused, volume, running, GoOn, ReturnError(k))

-----------------------------------------------------------------------------
(* The steps.                                                              *)

\* When the answer is lost there is a volume that nobody will ever know.
MakeVolume(k) ==
  /\ At(k, "make")
  /\ \/ NoFault /\ volume' = [volume EXCEPT ![k] = [NoVolume EXCEPT !.exists = TRUE, !.size = h[k].d.size]] /\ Proceed(k)
     \/ (Fault("apiError") \/ Fault("lostReply")) /\ ReturnError(k) /\ UNCHANGED volume
  /\ UNCHANGED running /\ UNCHANGED Outside

ProtectVolume(k) ==
  /\ At(k, "protect")
  /\ Call(k, ~volume[k].exists, [volume EXCEPT ![k].protected = h[k].d.protected], running)

ResizeVolume(k) ==
  /\ At(k, "resize")
  /\ Call(k, ~volume[k].exists, [volume EXCEPT ![k].size = h[k].d.size], running)

\* Attach, if a machine is given: a volume that is attached stays where it is.
CheckAttached(k) ==
  /\ At(k, "attach")
  /\ \/ h[k].d.vm = NoMachine /\ Proceed(k) /\ NoFault /\ UNCHANGED <<volume, running>> /\ UNCHANGED Outside
     \/ /\ h[k].d.vm # NoMachine
        /\ Look(k, ~volume[k].exists, IF Attached(k) THEN Proceed(k) ELSE Goto(k, <<"attachIt">> \o Rest(k)))

\* A variant: the last error is dropped.
AttachNoMore(k) ==
  \/ h[k].tries > 1 /\ h' = [h EXCEPT ![k].tries = @ - 1] /\ UNCHANGED <<saved, told, fresh>>
  \/ h[k].tries = 1 /\ Proceed(k)

\* Retry.
AttachAgain(k) ==
  \/ h[k].tries > 1 /\ h' = [h EXCEPT ![k].tries = @ - 1] /\ UNCHANGED <<saved, told, fresh>>
  \/ h[k].tries = 1 /\ ReturnError(k)

AttachVolume(k) ==
  /\ At(k, "attachIt")
  /\ LET d == h[k].d
         refused == AttachRefused(k, d.vm, d.device)
     IN CallOr(refused,
               IF refused THEN volume ELSE [volume EXCEPT ![k].vm = d.vm, ![k].device = DeviceFor(d.vm, d.device)],
               running, Proceed(k), AttachAgain(k))

\* Detach, if it is attached.
CheckDetached(k) ==
  /\ At(k, "detach")
  /\ Look(k, ~volume[k].exists, IF Attached(k) THEN Goto(k, <<"detachIt">> \o Rest(k)) ELSE Proceed(k))

\* A variant: the machine stays off.
RecoveryWithoutStart == <<"stop", "detachAgain">>

\* If that fails, stop the machine, try again, and start the machine.
Recovery == <<"stop", "detachAgain", "start">>

DetachVolume(k) ==
  /\ At(k, "detachIt")
  /\ CallOr(DetachRefused(k), Loose(k), running, Proceed(k),
            IF h[k].d.vm = NoMachine THEN ReturnError(k) ELSE Goto(k, Recovery))

\* The machine is the one of the plan.  A volume that is to move is on another.
StopMachine(k) ==
  /\ At(k, "stop")
  /\ Try(FALSE, volume, running \ {h[k].d.vm}, Proceed(k), ReturnError(k))
  /\ misled' = IF volume[k].vm = h[k].d.vm THEN misled ELSE misled \cup {h[k].d.vm}
  /\ UNCHANGED <<config, changes>>

DetachVolumeAgain(k) == At(k, "detachAgain") /\ Call(k, DetachRefused(k), Loose(k), running)

StartMachine(k) ==
  /\ At(k, "start")
  /\ Try(FALSE, volume, running \cup {h[k].d.vm}, Proceed(k), ReturnError(k))
  /\ misled' = misled \ {h[k].d.vm}
  /\ UNCHANGED <<config, changes>>

\* The recovery returns the error it recovered from.
ReturnFirstError(k) ==
  /\ ~Idle(k) /\ h[k].todo = <<>>
  /\ ReturnError(k) /\ NoFault /\ UNCHANGED <<volume, running>> /\ UNCHANGED Outside

\* A volume that is gone counts as deleted.
DropVolume(k) ==
  /\ At(k, "drop")
  /\ CallOr(DeleteRefused(k), [volume EXCEPT ![k] = NoVolume], running, Stop(k, NoDisk, "none"), ReturnError(k))

\* Create and Update end with a Read.  A disk that is gone is an error of Terraform's.
ReturnRead(k) ==
  /\ At(k, "read")
  /\ Look(k, FALSE, Stop(k, ReadDisk([h[k].d EXCEPT !.tainted = FALSE], k), IF volume[k].exists THEN "ok" ELSE "error"))

\* The provider dies: nothing of what its handlers did reaches the state.
Crash ==
  /\ ~AllIdle /\ Fault("crash")
  /\ h' = [k \in Disks |-> NoHandler] /\ fresh' = {}
  /\ told' = [k \in Disks |-> IF Idle(k) THEN told[k] ELSE "error"]
  /\ UNCHANGED <<volume, running, misled, config, saved, changes>>

-----------------------------------------------------------------------------
(* The user, and whoever else uses the cloud account.                      *)

Absent == [present |-> FALSE, attach |-> FALSE, vm |-> NoMachine, device |-> NoDevice, size |-> 0, protected |-> FALSE, reattach |-> FALSE]

Edit(k) ==
  /\ AllIdle /\ changes < MaxChanges /\ changes' = changes + 1
  /\ config' \in {[config EXCEPT ![k] = c] : c \in (Configs[k] \cup {Absent}) \ {config[k]}}
  /\ told' = [told EXCEPT ![k] = "none"] /\ fresh' = {}
  /\ UNCHANGED <<volume, running, misled, saved, h, faults>>

\* A volume is deleted, detached, or attached somewhere else.
OutOfBand ==
  /\ Fault(IF AllIdle /\ fresh = {} THEN "outOfBand" ELSE "race")
  /\ \E k \in Disks :
       \/ volume[k].exists /\ volume' = [volume EXCEPT ![k] = NoVolume]
       \/ Attached(k) /\ volume' = Loose(k)
       \/ \E vm \in Machines :
            /\ ~AttachRefused(k, vm, NoDevice)
            /\ volume' = [volume EXCEPT ![k].vm = vm, ![k].device = DeviceFor(vm, NoDevice)]
  /\ told' = [k \in Disks |-> "none"]
  /\ UNCHANGED <<running, misled, config, saved, fresh, h, changes>>

-----------------------------------------------------------------------------
Init ==
  /\ volume = [k \in Disks |-> NoVolume] /\ running = Machines /\ misled = {}
  /\ config \in [Disks -> UNION {Configs[k] : k \in Disks}] /\ \A k \in Disks : config[k] \in Configs[k]
  /\ saved = [k \in Disks |-> NoDisk] /\ fresh = {}
  /\ h = [k \in Disks |-> NoHandler] /\ told = [k \in Disks |-> "none"]
  /\ faults = [number |-> 0, kinds |-> {}] /\ changes = 0

Apply(k) == Create(k) \/ Update(k) \/ Delete(k)

Handler(k) ==
  \/ MakeVolume(k) \/ ProtectVolume(k) \/ ResizeVolume(k)
  \/ CheckAttached(k) \/ AttachVolume(k) \/ CheckDetached(k) \/ DetachVolume(k)
  \/ StopMachine(k) \/ DetachVolumeAgain(k) \/ StartMachine(k) \/ ReturnFirstError(k)
  \/ DropVolume(k) \/ ReturnRead(k)

Terraform == Refresh \/ \E k \in Disks : Apply(k)

Provider == \E k \in Disks : Handler(k)

Environment == (\E k \in Disks : Edit(k)) \/ OutOfBand \/ Crash

Next == Terraform \/ Provider \/ Environment

\* terraform apply takes on every resource, and waits for none for ever.
Fairness == WF_vars(Refresh) /\ \A k \in Disks : WF_vars(Apply(k)) /\ WF_vars(Handler(k))

Spec == Init /\ [][Next]_vars /\ Fairness

-----------------------------------------------------------------------------
(* Properties                                                              *)

\* A machine that was stopped to detach its volume runs again, whatever the handlers of
\* its other disks did in between, unless a call of the recovery itself failed.  But a
\* disk that is to move has the machine stopped where it is to go, in vain.
MachinesRunAgain == AllIdle /\ faults.kinds \subseteq {"outOfBand"} => Machines \ running \subseteq misled

\* When Create or Update reports success the volume is as configured, but for the
\* machine it was already attached to.
Moved(k) == Attached(k) /\ config[k].attach /\ config[k].vm \notin {NoMachine, volume[k].vm}
Aimless(k) == config[k].attach /\ saved[k].vm = NoMachine

AsConfigured(k) ==
  /\ volume[k].size = config[k].size /\ volume[k].protected = config[k].protected
  /\ Attached(k) = (config[k].attach /\ ~Aimless(k))
  /\ Attached(k) => config[k].device \in {NoDevice, volume[k].device}
  /\ Attached(k) => config[k].vm \in {NoMachine, volume[k].vm}

OkMeansApplied ==
  \A k \in Disks : told[k] = "ok" /\ "race" \notin faults.kinds => AsConfigured(k) \/ Moved(k)

\* A disk that is to be detached for a change of its size is detached when that happens.
ResizedDetached ==
  [][\A k \in Disks : h[k].op = "update" /\ h[k].reattach /\ h'[k] # h[k] /\ volume'[k].size # volume[k].size =>
       ~Attached(k) \/ "race" \in faults.kinds]_vars

Settled(k) ==
  /\ Idle(k)
  /\ IF config[k].present THEN saved[k].exists /\ ~saved[k].tainted /\ ~Changed(k) ELSE ~saved[k].exists

\* It is protected and is to go; it is elsewhere; no machine is named; its device is
\* another disk's.
Hopeless(k) ==
  \/ volume[k].protected /\ (~config[k].present \/ saved[k].tainted)
  \/ Moved(k) \/ Aimless(k)
  \/ config[k].attach /\ ~Attached(k) /\ Planned(k).device \in Taken(Planned(k).vm)

\* Plan and apply reach a fixed point for each disk, whatever becomes of the others.
Settles == <>[](\A k \in Disks : Settled(k) \/ Hopeless(k))
=============================================================================
