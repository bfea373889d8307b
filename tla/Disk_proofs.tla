------------------------------ MODULE Disk_proofs ------------------------------
(***************************************************************************)
(* Machines that were stopped run again, and disks are detached when they  *)
(* must be, for any number of disks, machines, devices, faults and edits.  *)
(***************************************************************************)
EXTENDS Disk, TLAPS

Plain == {"make", "protect", "resize", "attach", "detach", "read", "drop"}
Steps == Plain \cup {"attachIt", "detachIt", "stop", "detachAgain", "start"}

\* The shape of what the handlers and the API work on.
TypeOK ==
  /\ DOMAIN h = Disks /\ DOMAIN volume = Disks
  /\ \A k \in Disks :
       /\ DOMAIN h[k] = {"op", "todo", "tries", "reattach", "d"} /\ h[k].todo \in Seq(Steps)
       /\ DOMAIN volume[k] = {"exists", "vm", "device", "size", "protected"}

\* A recovery is carried out from its beginning to its end, and nothing follows it.
Orderly(t) ==
  \A i \in DOMAIN t :
    /\ t[i] = "detachIt" => i = 1
    /\ t[i] = "stop" => i = 1 /\ 2 \in DOMAIN t /\ t[2] = "detachAgain"
    /\ t[i] = "detachAgain" => i + 1 \in DOMAIN t /\ t[i + 1] = "start" /\ (i = 1 \/ t[i - 1] = "stop")
    /\ t[i] = "start" => i = 1 \/ t[i - 1] = "detachAgain"

\* An update neither makes a volume nor drops one, and resizes it at once, or right
\* after it was detached.
DetachedFirst(t) ==
  \A i \in DOMAIN t :
    /\ t[i] \notin {"make", "drop"}
    /\ t[i] = "resize" => i = 1 \/ (i = 2 /\ t[1] \in {"detach", "detachIt"})

Reattaching(k) == h[k].op = "update" /\ h[k].reattach

Order ==
  \A k \in Disks : /\ Orderly(h[k].todo) /\ (Idle(k) => h[k].todo = <<>>)
                   /\ Reattaching(k) => DetachedFirst(h[k].todo)

Calm == faults.kinds \subseteq {"outOfBand"}
Undisturbed == "race" \notin faults.kinds

\* What a handler found attached stays so until it has detached it.  (When the answer
\* to that is lost, the recovery begins with a volume that is not attached.)
Holding == Calm => \A k \in Disks : At(k, "detachIt") \/ At(k, "stop") \/ At(k, "detachAgain") => Attached(k)

\* What has to be detached is, when its turn to be resized comes.
Ready == Undisturbed => \A k \in Disks : Reattaching(k) /\ At(k, "resize") => ~Attached(k)

\* A machine that does not run is going to be started by a handler that cannot fail
\* before it does, or was stopped for the volume of another.
Starting(k, m) ==
  /\ h[k].d.vm = m
  /\ (At(k, "detachAgain") /\ volume[k].vm = m) \/ At(k, "start")
Awaited == Calm => \A m \in Machines \ running : m \in misled \/ \E k \in Disks : Starting(k, m)

IInv == TypeOK /\ Order /\ Holding /\ Ready /\ Awaited

-----------------------------------------------------------------------------
(* Sequences of steps.                                                     *)

LEMMA PlainFacts ==
  ASSUME NEW t \in Seq(Plain) PROVE t \in Seq(Steps) /\ Orderly(t)
  BY DEF Plain, Steps, Orderly

LEMMA EmptyFacts == <<>> \in Seq(Steps) /\ Orderly(<<>>) /\ DetachedFirst(<<>>)
  BY DEF Orderly, DetachedFirst

LEMMA RecoveryFacts ==
  Recovery \in Seq(Steps) /\ Orderly(Recovery) /\ DetachedFirst(Recovery) /\ Recovery # <<>> /\ Head(Recovery) = "stop"
  BY DEF Recovery, Steps, Plain, Orderly, DetachedFirst

\* Taking a step leaves the rest in order.
LEMMA TailFacts ==
  ASSUME NEW t \in Seq(Steps), t # <<>>, Orderly(t)
  PROVE  /\ Tail(t) \in Seq(Steps) /\ Orderly(Tail(t))
         /\ DetachedFirst(t) => DetachedFirst(Tail(t))
         /\ Tail(t) # <<>> => /\ Head(Tail(t)) \notin {"detachIt", "stop"}
                              /\ Head(Tail(t)) = "detachAgain" <=> Head(t) = "stop"
                              /\ Head(Tail(t)) = "start" <=> Head(t) = "detachAgain"
                              /\ DetachedFirst(t) /\ Head(Tail(t)) = "resize" => Head(t) \in {"detach", "detachIt"}
         /\ Head(t) \in {"stop", "detachAgain"} => Tail(t) # <<>>
<1> DEFINE s == Tail(t)
<1>1. s \in Seq(Steps) /\ Len(s) = Len(t) - 1 /\ Len(t) \in Nat \ {0} /\ DOMAIN t = 1..Len(t) /\ DOMAIN s = 1..Len(s)
      /\ \A i \in DOMAIN s : s[i] = t[i + 1]
  OBVIOUS
<1>2. Head(t) = t[1] /\ (s # <<>> => Head(s) = t[2] /\ 2 \in DOMAIN t)
  BY <1>1
<1> HIDE DEF s
<1>3. Orderly(s)
  <2> SUFFICES ASSUME NEW i \in DOMAIN s
               PROVE  /\ s[i] = "detachIt" => i = 1
                      /\ s[i] = "stop" => i = 1 /\ 2 \in DOMAIN s /\ s[2] = "detachAgain"
                      /\ s[i] = "detachAgain" => i + 1 \in DOMAIN s /\ s[i + 1] = "start" /\ (i = 1 \/ s[i - 1] = "stop")
                      /\ s[i] = "start" => i = 1 \/ s[i - 1] = "detachAgain"
    BY DEF Orderly
  <2>1. i \in DOMAIN t /\ i + 1 \in DOMAIN t /\ i + 1 # 1 /\ (i + 1) - 1 = i /\ s[i] = t[i + 1]
        /\ i \in Nat /\ (i # 1 => i - 1 \in DOMAIN s /\ s[i - 1] = t[i])
    BY <1>1
  <2>2. s[i] \notin {"detachIt", "stop"}
    BY <2>1 DEF Orderly
  <2>3. CASE s[i] = "detachAgain"
    <3>1. (i + 1) + 1 \in DOMAIN t /\ t[(i + 1) + 1] = "start" /\ t[i] = "stop"
      BY <2>1, <2>3 DEF Orderly
    <3>2. i = 1
      BY <2>1, <3>1 DEF Orderly
    <3>3. i + 1 \in DOMAIN s /\ s[i + 1] = "start"
      BY <1>1, <2>1, <3>1
    <3> QED
      BY <2>3, <3>2, <3>3
  <2>4. CASE s[i] = "start"
    <3>1. t[i] = "detachAgain"
      BY <2>1, <2>4 DEF Orderly
    <3> QED
      BY <2>1, <2>4, <3>1
  <2> QED
    BY <2>2, <2>3, <2>4
<1>4. DetachedFirst(t) => DetachedFirst(s)
  BY <1>1 DEF DetachedFirst
<1>5. s # <<>> => /\ Head(s) \notin {"detachIt", "stop"}
                  /\ Head(s) = "detachAgain" <=> Head(t) = "stop"
                  /\ Head(s) = "start" <=> Head(t) = "detachAgain"
                  /\ DetachedFirst(t) /\ Head(s) = "resize" => Head(t) \in {"detach", "detachIt"}
  <2> SUFFICES ASSUME s # <<>> PROVE /\ Head(s) \notin {"detachIt", "stop"}
                                     /\ Head(s) = "detachAgain" <=> Head(t) = "stop"
                                     /\ Head(s) = "start" <=> Head(t) = "detachAgain"
                                     /\ DetachedFirst(t) /\ Head(s) = "resize" => Head(t) \in {"detach", "detachIt"}
    OBVIOUS
  <2>1. 1 \in DOMAIN t /\ 2 \in DOMAIN t /\ Head(t) = t[1] /\ Head(s) = t[2] /\ 2 # 1 /\ 2 - 1 = 1 /\ 1 + 1 = 2
    BY <1>1, <1>2
  <2>2. Head(s) \notin {"detachIt", "stop"} /\ (Head(s) = "detachAgain" => Head(t) = "stop")
        /\ (Head(s) = "start" => Head(t) = "detachAgain")
    BY <2>1 DEF Orderly
  <2>3. (Head(t) = "stop" => Head(s) = "detachAgain") /\ (Head(t) = "detachAgain" => Head(s) = "start")
    BY <2>1 DEF Orderly
  <2>4. DetachedFirst(t) /\ Head(s) = "resize" => Head(t) \in {"detach", "detachIt"}
    BY <2>1 DEF DetachedFirst
  <2> QED
    BY <2>2, <2>3, <2>4
<1>6. Head(t) \in {"stop", "detachAgain"} => s # <<>>
  <2>1. 1 \in DOMAIN t /\ 1 + 1 = 2 /\ Head(t) = t[1] /\ (2 \in DOMAIN t => Len(s) # 0)
    BY <1>1, <1>2
  <2>2. Head(t) \in {"stop", "detachAgain"} => 2 \in DOMAIN t
    BY <2>1 DEF Orderly
  <2> QED
    BY <1>1, <2>1, <2>2
<1> QED
  BY <1>1, <1>3, <1>4, <1>5, <1>6 DEF s

\* Looking, and then doing it: the step is replaced by another.
LEMMA ReplaceFacts ==
  ASSUME NEW t \in Seq(Steps), t # <<>>, Orderly(t), Head(t) \in {"attach", "detach"},
         NEW x \in {"attachIt", "detachIt"}, x = "detachIt" <=> Head(t) = "detach"
  PROVE  LET s == <<x>> \o Tail(t) IN
         s \in Seq(Steps) /\ Orderly(s) /\ (DetachedFirst(t) => DetachedFirst(s)) /\ s # <<>> /\ Head(s) = x
<1> DEFINE s == <<x>> \o Tail(t)
<1>1. Tail(t) \in Seq(Steps) /\ Len(t) \in Nat \ {0} /\ DOMAIN t = 1..Len(t) /\ Len(Tail(t)) = Len(t) - 1
      /\ \A i \in 1..(Len(t) - 1) : Tail(t)[i] = t[i + 1]
  OBVIOUS
<1>2. s \in Seq(Steps) /\ Len(s) = Len(t) /\ DOMAIN s = DOMAIN t /\ s[1] = x /\ \A i \in DOMAIN t : i # 1 => s[i] = t[i]
  BY <1>1 DEF Steps
<1> HIDE DEF s
<1>3. Head(t) = t[1] /\ s # <<>> /\ Head(s) = x
  BY <1>1, <1>2
<1>4. Orderly(s)
  BY <1>1, <1>2, <1>3 DEF Orderly
<1>5. DetachedFirst(t) => DetachedFirst(s)
  BY <1>1, <1>2, <1>3 DEF DetachedFirst
<1> QED
  BY <1>2, <1>3, <1>4, <1>5 DEF s

Later == {"protect", "attach", "detach", "read"}

\* What comes after the resizing is no resizing, so that a program that does not begin
\* with it has detached the disk before.
Guarded(t) == DetachedFirst(t) /\ (1 \in DOMAIN t => t[1] # "resize")

LEMMA AppendFacts ==
  ASSUME NEW s \in Seq(Plain), NEW t \in Seq(Later)
  PROVE  s \o t \in Seq(Plain) /\ (Guarded(s) => Guarded(s \o t))
<1> DEFINE u == s \o t
<1>0. t \in Seq(Plain)
  BY DEF Plain, Later
<1>1. u \in Seq(Plain) /\ DOMAIN s = 1..Len(s) /\ Len(s) \in Nat /\ \A i \in DOMAIN s : i \in DOMAIN u /\ u[i] = s[i]
  BY <1>0
<1>2. \A i \in DOMAIN u : i \notin DOMAIN s => u[i] \notin {"resize", "make", "drop"}
  BY DEF Later
<1> HIDE DEF u
<1>3. Guarded(s) => Guarded(u)
  <2> SUFFICES ASSUME Guarded(s), NEW i \in DOMAIN u, u[i] \in {"resize", "make", "drop"}
               PROVE  u[i] = "resize" /\ i = 2 /\ u[1] \in {"detach", "detachIt"}
    BY DEF DetachedFirst, Guarded
  <2>1. i \in DOMAIN s /\ s[i] = u[i] /\ 1 \in DOMAIN s /\ u[1] = s[1]
    BY <1>1, <1>2
  <2> QED
    BY <2>1 DEF DetachedFirst, Guarded
<1> QED
  BY <1>1, <1>3 DEF u

LEMMA IfFacts ==
  ASSUME NEW S, NEW t \in Seq(S), NEW c PROVE If(c, t) \in Seq(S)
  BY DEF If

LEMMA OneStep ==
  ASSUME NEW S, NEW x \in S PROVE <<x>> \in Seq(S)
  OBVIOUS

\* The programs of the handlers.
LEMMA CreateFacts == ASSUME NEW k PROVE CreateSteps(k) \in Seq(Plain)
<1>1. <<"make">> \in Seq(Plain) /\ <<"read">> \in Seq(Plain) /\ <<"protect">> \in Seq(Plain) /\ <<"attach">> \in Seq(Plain)
  BY OneStep DEF Plain
<1>2. If(config[k].protected, <<"protect">>) \in Seq(Plain) /\ If(config[k].attach, <<"attach">>) \in Seq(Plain)
  BY <1>1, IfFacts
<1> QED
  BY <1>1, <1>2 DEF CreateSteps

LEMMA DeleteFacts == <<"detach", "drop">> \in Seq(Plain)
  BY DEF Plain

LEMMA UpdateFacts ==
  ASSUME NEW k PROVE UpdateSteps(k) \in Seq(Plain) /\ (config[k].reattach => Guarded(UpdateSteps(k)))
<1> DEFINE A == If(SizeChanges(k), If(config[k].reattach, <<"detach">>) \o <<"resize">>)
           B == If(DeviceChanges(k), <<"detach">>)
           C == IF config[k].attach THEN <<"attach">> ELSE <<"detach">>
           D == If(ProtectionChanges(k), <<"protect">>)
           AB == A \o B
           ABC == AB \o C
           ABCD == ABC \o D
           ABCDE == ABCD \o <<"read">>
<1>1. A \in Seq(Plain)
  <2>1. <<"resize">> \in Seq(Plain) /\ <<"detach">> \in Seq(Plain)
    BY OneStep DEF Plain
  <2>2. If(config[k].reattach, <<"detach">>) \in Seq(Plain)
    BY <2>1, IfFacts
  <2>3. If(config[k].reattach, <<"detach">>) \o <<"resize">> \in Seq(Plain)
    BY <2>1, <2>2
  <2> QED
    BY <2>3, IfFacts
<1>2. config[k].reattach => Guarded(A)
  <2> DEFINE u == <<"detach">> \o <<"resize">>
  <2>1. DOMAIN u = 1..2 /\ u[1] = "detach" /\ u[2] = "resize"
    OBVIOUS
  <2> HIDE DEF u
  <2>2. Guarded(u)
    BY <2>1 DEF DetachedFirst, Guarded
  <2> QED
    BY <2>2, EmptyFacts DEF If, u, Guarded
<1>3. B \in Seq(Later) /\ C \in Seq(Later) /\ D \in Seq(Later)
      /\ <<"read">> \in Seq(Later)
  <2>1. <<"detach">> \in Seq(Later) /\ <<"attach">> \in Seq(Later)
        /\ <<"protect">> \in Seq(Later) /\ <<"read">> \in Seq(Later)
    BY OneStep DEF Later
  <2> QED
    BY <2>1, IfFacts
<1>4. UpdateSteps(k) = ABCDE
  BY DEF UpdateSteps
<1> HIDE DEF A, B, C, D
<1>5. AB \in Seq(Plain) /\ (config[k].reattach => Guarded(AB))
  BY <1>1, <1>2, <1>3, AppendFacts
<1> HIDE DEF AB
<1>6. ABC \in Seq(Plain) /\ (config[k].reattach => Guarded(ABC))
  BY <1>3, <1>5, AppendFacts
<1> HIDE DEF ABC
<1>7. ABCD \in Seq(Plain) /\ (config[k].reattach => Guarded(ABCD))
  BY <1>3, <1>6, AppendFacts
<1> HIDE DEF ABCD
<1>8. ABCDE \in Seq(Plain) /\ (config[k].reattach => Guarded(ABCDE))
  BY <1>3, <1>7, AppendFacts
<1> QED
  BY <1>4, <1>8

-----------------------------------------------------------------------------
(* What one step of a handler does to the invariant.                       *)

\* A handler works on its own volume.
OwnVolume(k) ==
  /\ DOMAIN volume' = Disks /\ DOMAIN volume'[k] = {"exists", "vm", "device", "size", "protected"}
  /\ \A j \in Disks \ {k} : volume'[j] = volume[j]

Remembered == faults.kinds \subseteq faults'.kinds

LEMMA FaultFacts ==
  ASSUME NEW kind, Fault(kind) PROVE Remembered /\ (kind \in {"apiError", "lostReply", "race", "crash"} => ~Calm')
  BY DEF Fault, Remembered, Calm

\* How handlers go on, and how they end.
GoesTo(k, steps) ==
  /\ DOMAIN h' = Disks /\ \A j \in Disks \ {k} : h'[j] = h[j]
  /\ DOMAIN h'[k] = DOMAIN h[k] /\ h'[k].todo = steps
  /\ h'[k].op = h[k].op /\ h'[k].reattach = h[k].reattach /\ h'[k].d = h[k].d

LEMMA GotoFacts ==
  ASSUME TypeOK, NEW k \in Disks, NEW steps, Goto(k, steps) PROVE GoesTo(k, steps)
  BY DEF TypeOK, Goto, GoesTo

LEMMA StopFacts ==
  ASSUME TypeOK, NEW k \in Disks, NEW state, NEW result, Stop(k, state, result)
  PROVE  /\ DOMAIN h' = Disks /\ \A j \in Disks \ {k} : h'[j] = h[j]
         /\ h'[k] = NoHandler
  BY DEF TypeOK, Stop

LEMMA NoHandlerFacts ==
  /\ DOMAIN NoHandler = {"op", "todo", "tries", "reattach", "d"} /\ NoHandler.op = "idle" /\ NoHandler.todo = <<>>
  BY DEF NoHandler

\* What the rest of the handlers, and of the machines, notice.
LEMMA AwaitedFacts ==
  ASSUME IInv, NEW k \in Disks, OwnVolume(k), Remembered, UNCHANGED <<running, misled>>,
         \A j \in Disks \ {k} : h'[j] = h[j],
         Calm' => \A m \in Machines \ running : Starting(k, m) => Starting(k, m)'
  PROVE  Awaited'
<1> SUFFICES ASSUME Calm', NEW m \in Machines \ running, m \notin misled PROVE \E j \in Disks : Starting(j, m)'
  BY DEF Awaited
<1>1. PICK j \in Disks : Starting(j, m)
  BY DEF IInv, Awaited, Calm, Remembered
<1>2. CASE j = k
  BY <1>1, <1>2
<1>3. CASE j # k
  BY <1>1, <1>3 DEF Starting, At, Now, Idle, OwnVolume
<1> QED
  BY <1>2, <1>3

LEMMA EndStep ==
  ASSUME IInv, NEW k \in Disks, NEW state, NEW result, Stop(k, state, result), OwnVolume(k), Remembered,
         UNCHANGED <<running, misled>>, Calm' => \A m \in Machines \ running : ~Starting(k, m)
  PROVE  IInv'
<1>0. TypeOK /\ DOMAIN h' = Disks /\ (\A j \in Disks \ {k} : h'[j] = h[j]) /\ h'[k].op = "idle" /\ h'[k].todo = <<>>
      /\ DOMAIN h'[k] = {"op", "todo", "tries", "reattach", "d"}
  BY StopFacts, NoHandlerFacts DEF IInv
<1>1. TypeOK'
  BY <1>0, EmptyFacts DEF TypeOK, OwnVolume
<1>2. Order'
  BY <1>0, EmptyFacts DEF IInv, Order, Idle, Reattaching
<1>3. Holding' /\ Ready'
  BY <1>0 DEF IInv, Holding, Ready, Calm, Undisturbed, Remembered, At, Now, Idle, Reattaching, Attached, OwnVolume
<1>4. Awaited'
  BY <1>0, AwaitedFacts
<1> QED
  BY <1>1, <1>2, <1>3, <1>4 DEF IInv

LEMMA GoStep ==
  ASSUME IInv, NEW k \in Disks, NEW steps \in Seq(Steps), GoesTo(k, steps), OwnVolume(k), Remembered, ~Idle(k),
         UNCHANGED <<running, misled>>, Orderly(steps), Reattaching(k) => DetachedFirst(steps),
         Calm' /\ steps # <<>> /\ Head(steps) \in {"detachIt", "stop", "detachAgain"} => Attached(k)',
         Undisturbed /\ steps # <<>> /\ Reattaching(k) /\ Head(steps) = "resize" => ~Attached(k)',
         Calm' => \A m \in Machines \ running : Starting(k, m) => Starting(k, m)'
  PROVE  IInv'
<1>0. /\ TypeOK /\ DOMAIN h' = Disks /\ (\A j \in Disks \ {k} : h'[j] = h[j])
      /\ h'[k].todo = steps /\ h'[k].op = h[k].op /\ h'[k].reattach = h[k].reattach
      /\ DOMAIN h'[k] = {"op", "todo", "tries", "reattach", "d"}
  BY DEF IInv, TypeOK, GoesTo
<1>1. TypeOK'
  BY <1>0 DEF TypeOK, OwnVolume
<1>2. Order'
  BY <1>0 DEF IInv, Order, Idle, Reattaching
<1>3. Holding'
  BY <1>0 DEF IInv, Holding, Calm, Remembered, At, Now, Idle, Attached, OwnVolume
<1>4. Ready'
  BY <1>0 DEF IInv, Ready, Undisturbed, Remembered, At, Now, Idle, Reattaching, Attached, OwnVolume
<1>5. Awaited'
  BY <1>0, AwaitedFacts
<1> QED
  BY <1>1, <1>2, <1>3, <1>4, <1>5 DEF IInv

-----------------------------------------------------------------------------
(* The steps.                                                              *)

LEMMA SameVolumes == ASSUME TypeOK, UNCHANGED volume, NEW k \in Disks PROVE OwnVolume(k)
  BY DEF TypeOK, OwnVolume

LEMMA NoFaultFacts == ASSUME NoFault PROVE Remembered
  BY DEF NoFault, Remembered

\* Between the steps of a recovery handlers do what does not concern the machines.
Ordinary == Steps \ {"stop", "detachAgain", "start"}

LEMMA ErrorStep ==
  ASSUME IInv, NEW k \in Disks, ReturnError(k), OwnVolume(k), Remembered, UNCHANGED <<running, misled>>,
         Calm' => \A m \in Machines \ running : ~Starting(k, m)
  PROVE  IInv'
<1>1. PICK state, result : Stop(k, state, result)
  BY DEF ReturnError
<1> QED
  BY <1>1, EndStep

LEMMA OrdinaryError ==
  ASSUME IInv, NEW k \in Disks, NEW x \in Ordinary, At(k, x), ReturnError(k), OwnVolume(k), Remembered,
         UNCHANGED <<running, misled>>
  PROVE  IInv'
<1>1. \A m : ~Starting(k, m)
  BY DEF Starting, At, Ordinary
<1> QED
  BY <1>1, ErrorStep

LEMMA OrdinaryProceed ==
  ASSUME IInv, NEW k \in Disks, NEW x \in Ordinary, At(k, x), Proceed(k), OwnVolume(k), Remembered,
         UNCHANGED <<running, misled>>,
         Undisturbed /\ x \in {"detach", "detachIt"} => ~Attached(k)'
  PROVE  IInv'
<1> DEFINE t == h[k].todo
<1>1. t \in Seq(Steps) /\ t # <<>> /\ Orderly(t) /\ Head(t) = x /\ (Reattaching(k) => DetachedFirst(t)) /\ ~Idle(k)
  BY DEF At, Now, IInv, TypeOK, Order
<1>2. \A m : ~Starting(k, m)
  BY DEF Starting, At, Ordinary
<1>3. GoesTo(k, Tail(t))
  BY GotoFacts DEF Proceed, Rest, IInv
<1> HIDE DEF t
<1>4. /\ Tail(t) \in Seq(Steps) /\ Orderly(Tail(t)) /\ (Reattaching(k) => DetachedFirst(Tail(t)))
      /\ Tail(t) # <<>> => /\ Head(Tail(t)) \notin {"detachIt", "stop", "detachAgain"}
                           /\ Reattaching(k) /\ Head(Tail(t)) = "resize" => x \in {"detach", "detachIt"}
  BY <1>1, TailFacts DEF Ordinary
<1> QED
  BY <1>1, <1>2, <1>3, <1>4, GoStep

\* A call that changes at most the disk's own volume.
LEMMA OrdinaryCall ==
  ASSUME IInv, NEW k \in Disks, NEW x \in Ordinary \ {"detach", "detachIt"}, At(k, x),
         NEW refused, NEW volumes, Call(k, refused, volumes, running), volume' = volumes => OwnVolume(k)
  PROVE  IInv'
<1>1. UNCHANGED <<running, misled>> /\ Remembered /\ OwnVolume(k)
  BY NoFaultFacts, FaultFacts, SameVolumes DEF Call, CallOr, Try, Outside, IInv
<1>2. Proceed(k) \/ ReturnError(k)
  BY DEF Call, CallOr, Try
<1> QED
  BY <1>1, <1>2, OrdinaryProceed, OrdinaryError

LEMMA MakeStep == ASSUME IInv, NEW k \in Disks, MakeVolume(k) PROVE IInv'
<1>1. "make" \in Ordinary /\ "make" \notin {"detach", "detachIt"} /\ At(k, "make") /\ UNCHANGED <<running, misled>> /\ Remembered /\ OwnVolume(k)
  BY NoFaultFacts, FaultFacts, SameVolumes
  DEF MakeVolume, Outside, IInv, TypeOK, OwnVolume, NoVolume, Ordinary, Steps, Plain
<1>2. Proceed(k) \/ ReturnError(k)
  BY DEF MakeVolume
<1> QED
  BY <1>1, <1>2, OrdinaryProceed, OrdinaryError

LEMMA ProtectStep == ASSUME IInv, NEW k \in Disks, ProtectVolume(k) PROVE IInv'
<1>1. "protect" \in Ordinary \ {"detach", "detachIt"} /\ At(k, "protect")
  BY DEF ProtectVolume, Ordinary, Steps, Plain
<1> DEFINE volumes == [volume EXCEPT ![k].protected = h[k].d.protected]
<1>2. volume' = volumes => OwnVolume(k)
  BY DEF IInv, TypeOK, OwnVolume
<1>3. Call(k, ~volume[k].exists, volumes, running)
  BY DEF ProtectVolume
<1> HIDE DEF volumes
<1> QED
  BY <1>1, <1>2, <1>3, OrdinaryCall

LEMMA ResizeStep == ASSUME IInv, NEW k \in Disks, ResizeVolume(k) PROVE IInv'
<1>1. "resize" \in Ordinary \ {"detach", "detachIt"} /\ At(k, "resize")
  BY DEF ResizeVolume, Ordinary, Steps, Plain
<1> DEFINE volumes == [volume EXCEPT ![k].size = h[k].d.size]
<1>2. volume' = volumes => OwnVolume(k)
  BY DEF IInv, TypeOK, OwnVolume
<1>3. Call(k, ~volume[k].exists, volumes, running)
  BY DEF ResizeVolume
<1> HIDE DEF volumes
<1> QED
  BY <1>1, <1>2, <1>3, OrdinaryCall

\* Looking whether a volume is attached, and then attaching or detaching it.
LEMMA LookStep ==
  ASSUME IInv, NEW k \in Disks, NEW x \in {"attach", "detach"}, At(k, x), NEW y \in {"attachIt", "detachIt"},
         y = "detachIt" <=> x = "detach", Goto(k, <<y>> \o Rest(k)), UNCHANGED <<volume, running, misled>>, Remembered,
         y = "detachIt" => Attached(k)
  PROVE  IInv'
<1> DEFINE t == h[k].todo
<1>1. t \in Seq(Steps) /\ t # <<>> /\ Orderly(t) /\ Head(t) = x /\ (Reattaching(k) => DetachedFirst(t)) /\ ~Idle(k)
  BY DEF At, Now, IInv, TypeOK, Order
<1>2. \A m : ~Starting(k, m)
  BY DEF Starting, At
<1> DEFINE s == <<y>> \o Tail(t)
<1>3. GoesTo(k, s)
  BY GotoFacts DEF Rest, IInv
<1> HIDE DEF t
<1>4. s \in Seq(Steps) /\ Orderly(s) /\ (Reattaching(k) => DetachedFirst(s)) /\ s # <<>> /\ Head(s) = y
  BY <1>1, ReplaceFacts
<1> HIDE DEF s
<1>5. OwnVolume(k) /\ (Attached(k) <=> Attached(k)')
  BY SameVolumes DEF IInv, Attached
<1> QED
  BY <1>1, <1>2, <1>3, <1>4, <1>5, GoStep

LEMMA CheckAttachedStep == ASSUME IInv, NEW k \in Disks, CheckAttached(k) PROVE IInv'
<1>1. "attach" \in Ordinary \ {"detach", "detachIt"} /\ At(k, "attach")
  BY DEF CheckAttached, Ordinary, Steps, Plain
<1>2. UNCHANGED <<volume, running, misled>> /\ Remembered /\ OwnVolume(k)
  BY NoFaultFacts, FaultFacts, SameVolumes DEF CheckAttached, Look, CallOr, Try, Outside, IInv
<1>3. Proceed(k) \/ ReturnError(k) \/ Goto(k, <<"attachIt">> \o Rest(k))
  BY DEF CheckAttached, Look, CallOr, Try
<1>4. CASE Goto(k, <<"attachIt">> \o Rest(k))
  BY <1>1, <1>2, <1>4, LookStep
<1> QED
  BY <1>1, <1>2, <1>3, <1>4, OrdinaryProceed, OrdinaryError

LEMMA CheckDetachedStep == ASSUME IInv, NEW k \in Disks, CheckDetached(k) PROVE IInv'
<1>1. "detach" \in Ordinary /\ At(k, "detach")
  BY DEF CheckDetached, Ordinary, Steps, Plain
<1>2. UNCHANGED <<volume, running, misled>> /\ Remembered /\ OwnVolume(k)
  BY NoFaultFacts, FaultFacts, SameVolumes DEF CheckDetached, Look, CallOr, Try, Outside, IInv
<1>3. \/ Attached(k) /\ Goto(k, <<"detachIt">> \o Rest(k))
      \/ ~Attached(k) /\ Proceed(k)
      \/ ReturnError(k)
  BY DEF CheckDetached, Look, CallOr, Try
<1>4. CASE Attached(k) /\ Goto(k, <<"detachIt">> \o Rest(k))
  BY <1>1, <1>2, <1>4, LookStep
<1>5. CASE ~Attached(k) /\ Proceed(k)
  BY <1>1, <1>2, <1>5, OrdinaryProceed DEF Attached
<1> QED
  BY <1>1, <1>2, <1>3, <1>4, <1>5, OrdinaryError

LEMMA AttachStep == ASSUME IInv, NEW k \in Disks, AttachVolume(k) PROVE IInv'
<1> DEFINE refused == AttachRefused(k, h[k].d.vm, h[k].d.device)
           attached == [volume EXCEPT ![k].vm = h[k].d.vm, ![k].device = DeviceFor(h[k].d.vm, h[k].d.device)]
           volumes == IF refused THEN volume ELSE attached
<1>1. "attachIt" \in Ordinary \ {"detach", "detachIt"} /\ At(k, "attachIt")
  BY DEF AttachVolume, Ordinary, Steps, Plain
<1>2. volume' = attached => OwnVolume(k)
  BY DEF IInv, TypeOK, OwnVolume
<1> HIDE DEF attached
<1>3. CallOr(refused, volumes, running, Proceed(k), AttachAgain(k))
  BY DEF AttachVolume, attached
<1> HIDE DEF refused
<1>4. UNCHANGED <<running, misled>> /\ Remembered /\ OwnVolume(k)
  BY <1>2, <1>3, NoFaultFacts, FaultFacts, SameVolumes DEF CallOr, Try, Outside, IInv
<1>5. Proceed(k) \/ AttachAgain(k)
  BY <1>3 DEF CallOr, Try
<1>6. CASE h' = [h EXCEPT ![k].tries = @ - 1]
  <2>1. GoesTo(k, h[k].todo) /\ ~Idle(k) /\ h[k].todo \in Seq(Steps) /\ Orderly(h[k].todo) /\ Head(h[k].todo) = "attachIt"
        /\ (Reattaching(k) => DetachedFirst(h[k].todo))
    BY <1>1, <1>6 DEF IInv, TypeOK, Order, GoesTo, At, Now
  <2>2. \A m : ~Starting(k, m)
    BY <1>1 DEF Starting, At
  <2> QED
    BY <1>4, <2>1, <2>2, GoStep
<1> QED
  BY <1>1, <1>4, <1>5, <1>6, OrdinaryProceed, OrdinaryError DEF AttachAgain

LEMMA DropStep == ASSUME IInv, NEW k \in Disks, DropVolume(k) PROVE IInv'
<1> DEFINE volumes == [volume EXCEPT ![k] = NoVolume]
<1>1. "drop" \in Ordinary /\ At(k, "drop") /\ \A m : ~Starting(k, m)
  BY DEF DropVolume, Ordinary, Steps, Plain, Starting, At
<1>2. volume' = volumes => OwnVolume(k)
  BY DEF IInv, TypeOK, OwnVolume, NoVolume
<1>3. CallOr(DeleteRefused(k), volumes, running, Stop(k, NoDisk, "none"), ReturnError(k))
  BY DEF DropVolume
<1> HIDE DEF volumes
<1>4. UNCHANGED <<running, misled>> /\ Remembered /\ OwnVolume(k)
  BY <1>2, <1>3, NoFaultFacts, FaultFacts, SameVolumes DEF CallOr, Try, Outside, IInv
<1>5. Stop(k, NoDisk, "none") \/ ReturnError(k)
  BY <1>3 DEF CallOr, Try
<1> QED
  BY <1>1, <1>4, <1>5, EndStep, OrdinaryError

LEMMA ReadStep == ASSUME IInv, NEW k \in Disks, ReturnRead(k) PROVE IInv'
<1>1. "read" \in Ordinary /\ At(k, "read") /\ \A m : ~Starting(k, m)
  BY DEF ReturnRead, Ordinary, Steps, Plain, Starting, At
<1>2. UNCHANGED <<running, misled>> /\ Remembered /\ OwnVolume(k)
  BY NoFaultFacts, FaultFacts, SameVolumes DEF ReturnRead, Look, CallOr, Try, Outside, IInv
<1>3. \/ ReturnError(k)
      \/ \E state, result : Stop(k, state, result)
  BY DEF ReturnRead, Look, CallOr, Try
<1> QED
  BY <1>1, <1>2, <1>3, EndStep, OrdinaryError

LEMMA LastStep == ASSUME IInv, NEW k \in Disks, ReturnFirstError(k) PROVE IInv'
<1>1. UNCHANGED <<running, misled>> /\ Remembered /\ OwnVolume(k) /\ ReturnError(k)
  BY NoFaultFacts, SameVolumes DEF ReturnFirstError, Outside, IInv
<1>2. \A m : ~Starting(k, m)
  BY DEF ReturnFirstError, Starting, At
<1> QED
  BY <1>1, <1>2, ErrorStep

-----------------------------------------------------------------------------
(* Detaching, and the recovery.                                            *)

\* A volume that was detached is attached nowhere.
LEMMA LooseFacts ==
  ASSUME TypeOK, NEW k \in Disks, volume' = Loose(k) PROVE OwnVolume(k) /\ ~Attached(k)'
  BY DEF TypeOK, Loose, OwnVolume, Attached

LEMMA DetachStep == ASSUME IInv, NEW k \in Disks, DetachVolume(k) PROVE IInv'
<1>1. "detachIt" \in Ordinary /\ At(k, "detachIt") /\ \A m : ~Starting(k, m)
  BY DEF DetachVolume, Ordinary, Steps, Plain, Starting, At
<1>2. UNCHANGED <<running, misled>> /\ Remembered /\ OwnVolume(k)
  BY NoFaultFacts, FaultFacts, SameVolumes, LooseFacts DEF DetachVolume, CallOr, Try, Outside, IInv
<1>3. \/ Proceed(k) /\ ~Attached(k)'
      \/ ReturnError(k)
      \/ Goto(k, Recovery) /\ (UNCHANGED volume \/ Fault("lostReply"))
  BY LooseFacts DEF DetachVolume, CallOr, Try, IInv
<1>4. CASE Goto(k, Recovery) /\ (UNCHANGED volume \/ Fault("lostReply"))
  <2>1. Calm' => Attached(k)'
    BY <1>1, <1>2, <1>4, FaultFacts DEF IInv, Holding, Attached, Calm, Remembered
  <2>2. GoesTo(k, Recovery) /\ ~Idle(k)
    BY <1>1, <1>4, GotoFacts DEF IInv, At
  <2> QED
    BY <1>1, <1>2, <2>1, <2>2, RecoveryFacts, GoStep
<1> QED
  BY <1>1, <1>2, <1>3, <1>4, OrdinaryProceed, OrdinaryError

\* Within a recovery: what the next step is.
LEMMA RecoveryTail ==
  ASSUME IInv, NEW k \in Disks, NEW x \in {"stop", "detachAgain", "start"}, At(k, x)
  PROVE  /\ ~Idle(k) /\ Rest(k) \in Seq(Steps) /\ Orderly(Rest(k)) /\ (Reattaching(k) => DetachedFirst(Rest(k)))
         /\ Rest(k) # <<>> => Head(Rest(k)) \notin {"detachIt", "stop"} /\ (Reattaching(k) => Head(Rest(k)) # "resize")
         /\ x = "stop" => Rest(k) # <<>> /\ Head(Rest(k)) = "detachAgain"
         /\ x = "detachAgain" => Rest(k) # <<>> /\ Head(Rest(k)) = "start"
         /\ x = "start" /\ Rest(k) # <<>> => Head(Rest(k)) # "detachAgain"
<1> DEFINE t == h[k].todo
<1>1. t \in Seq(Steps) /\ t # <<>> /\ Orderly(t) /\ Head(t) = x /\ (Reattaching(k) => DetachedFirst(t)) /\ ~Idle(k)
  BY DEF At, Now, IInv, TypeOK, Order
<1>2. Rest(k) = Tail(t)
  BY DEF Rest
<1> HIDE DEF t
<1>3. /\ Tail(t) \in Seq(Steps) /\ Orderly(Tail(t)) /\ (DetachedFirst(t) => DetachedFirst(Tail(t)))
      /\ Tail(t) # <<>> => /\ Head(Tail(t)) \notin {"detachIt", "stop"}
                           /\ Head(Tail(t)) = "detachAgain" <=> Head(t) = "stop"
                           /\ Head(Tail(t)) = "start" <=> Head(t) = "detachAgain"
                           /\ DetachedFirst(t) /\ Head(Tail(t)) = "resize" => Head(t) \in {"detach", "detachIt"}
      /\ Head(t) \in {"stop", "detachAgain"} => Tail(t) # <<>>
  BY <1>1, TailFacts
<1> QED
  BY <1>1, <1>2, <1>3

LEMMA StopStep == ASSUME IInv, NEW k \in Disks, StopMachine(k) PROVE IInv'
<1> DEFINE m0 == h[k].d.vm
<1>1. At(k, "stop") /\ ~Idle(k) /\ UNCHANGED volume /\ Remembered /\ OwnVolume(k)
  BY NoFaultFacts, FaultFacts, SameVolumes DEF StopMachine, Try, IInv, At
<1>2. \/ NoFault /\ Proceed(k) /\ running' = running \ {m0}
      \/ ReturnError(k) /\ ~Calm'
  BY FaultFacts DEF StopMachine, Try
<1>3. misled' = IF volume[k].vm = m0 THEN misled ELSE misled \cup {m0}
  BY DEF StopMachine
<1> HIDE DEF m0
<1>4. CASE NoFault /\ Proceed(k) /\ running' = running \ {m0}
  <2>1. GoesTo(k, Rest(k))
    BY <1>4, GotoFacts DEF Proceed, IInv
  <2>2. /\ TypeOK /\ DOMAIN h' = Disks /\ (\A j \in Disks \ {k} : h'[j] = h[j])
        /\ h'[k].todo = Rest(k) /\ h'[k].op = h[k].op /\ h'[k].reattach = h[k].reattach /\ h'[k].d = h[k].d
        /\ DOMAIN h'[k] = {"op", "todo", "tries", "reattach", "d"}
    BY <2>1 DEF IInv, TypeOK, GoesTo
  <2>3. Rest(k) \in Seq(Steps) /\ Orderly(Rest(k)) /\ (Reattaching(k) => DetachedFirst(Rest(k)))
        /\ Rest(k) # <<>> /\ Head(Rest(k)) = "detachAgain"
    BY <1>1, RecoveryTail
  <2>4. TypeOK' /\ Order'
    BY <1>1, <2>2, <2>3 DEF IInv, TypeOK, Order, Idle, Reattaching, OwnVolume
  <2>5. Holding' /\ Ready'
    BY <1>1, <2>2, <2>3 DEF IInv, Holding, Ready, Calm, Undisturbed, Remembered, At, Now, Idle, Reattaching, Attached
  <2>6. Awaited'
    <3> SUFFICES ASSUME Calm', NEW m \in Machines \ running', m \notin misled' PROVE \E j \in Disks : Starting(j, m)'
      BY DEF Awaited
    <3>1. CASE m = m0
      <4>1. volume[k].vm = m0
        BY <1>3, <3>1
      <4> QED
        BY <1>1, <2>2, <2>3, <3>1, <4>1 DEF Starting, At, Now, Idle, m0
    <3>2. CASE m # m0
      <4>1. PICK j \in Disks : Starting(j, m)
        BY <1>1, <1>3, <1>4, <3>2 DEF IInv, Awaited, Calm, Remembered
      <4>2. j # k
        BY <1>1, <4>1 DEF Starting, At
      <4> QED
        BY <1>1, <2>2, <4>1, <4>2 DEF Starting, At, Now, Idle
    <3> QED
      BY <3>1, <3>2
  <2> QED
    BY <2>4, <2>5, <2>6 DEF IInv
<1>5. CASE ReturnError(k) /\ ~Calm'
  <2>1. PICK state, result : Stop(k, state, result)
    BY <1>5 DEF ReturnError
  <2>2. TypeOK /\ DOMAIN h' = Disks /\ (\A j \in Disks \ {k} : h'[j] = h[j]) /\ h'[k].op = "idle" /\ h'[k].todo = <<>>
        /\ DOMAIN h'[k] = {"op", "todo", "tries", "reattach", "d"}
    BY <2>1, StopFacts, NoHandlerFacts DEF IInv
  <2>3. TypeOK'
    BY <1>1, <2>2, EmptyFacts DEF TypeOK, OwnVolume
  <2>4. Order'
    <3>1. \A j \in Disks \ {k} : h[j].todo = h'[j].todo /\ (Idle(j) <=> Idle(j)') /\ (Reattaching(j) <=> Reattaching(j)')
      BY <2>2 DEF Idle, Reattaching
    <3>2. Idle(k)' /\ h'[k].todo = <<>> /\ ~Reattaching(k)'
      BY <2>2 DEF Idle, Reattaching
    <3> QED
      BY <3>1, <3>2, EmptyFacts DEF IInv, Order
  <2>5. Holding' /\ Ready' /\ Awaited'
    BY <1>1, <1>5, <2>2 DEF IInv, Holding, Ready, Awaited, Undisturbed, Remembered, At, Now, Idle, Reattaching, Attached
  <2> QED
    BY <2>3, <2>4, <2>5 DEF IInv
<1> QED
  BY <1>2, <1>4, <1>5

LEMMA DetachAgainStep == ASSUME IInv, NEW k \in Disks, DetachVolumeAgain(k) PROVE IInv'
<1> DEFINE m0 == h[k].d.vm
<1>1. At(k, "detachAgain") /\ ~Idle(k) /\ UNCHANGED <<running, misled>> /\ Remembered /\ OwnVolume(k)
  BY NoFaultFacts, FaultFacts, SameVolumes, LooseFacts DEF DetachVolumeAgain, Call, CallOr, Try, Outside, IInv, At
<1>2. \/ Proceed(k) /\ volume' = Loose(k)
      \/ ReturnError(k) /\ (DetachRefused(k) \/ ~Calm')
  BY FaultFacts DEF DetachVolumeAgain, Call, CallOr, Try
<1>3. \A m : Starting(k, m) => m = m0 /\ volume[k].vm = m0
  BY <1>1 DEF Starting, At
<1> HIDE DEF m0
<1>4. CASE Proceed(k) /\ volume' = Loose(k)
  <2>1. GoesTo(k, Rest(k))
    BY <1>4, GotoFacts DEF Proceed, IInv
  <2>2. Rest(k) \in Seq(Steps) /\ Orderly(Rest(k)) /\ (Reattaching(k) => DetachedFirst(Rest(k)))
        /\ Rest(k) # <<>> /\ Head(Rest(k)) = "start"
    BY <1>1, RecoveryTail
  <2>3. \A m : Starting(k, m) => Starting(k, m)'
    BY <1>1, <2>1, <2>2 DEF Starting, GoesTo, At, Now, Idle
  <2> QED
    BY <1>1, <2>1, <2>2, <2>3, GoStep
<1>5. CASE ReturnError(k) /\ (DetachRefused(k) \/ ~Calm')
  <2>1. Calm' => \A m \in Machines \ running : ~Starting(k, m)
    <3> SUFFICES ASSUME Calm', NEW m \in Machines \ running, Starting(k, m) PROVE FALSE
      OBVIOUS
    <3>1. Attached(k)
      BY <1>1 DEF IInv, Holding, Calm, Remembered
    <3>2. volume[k].vm \in running
      BY <1>5, <3>1 DEF DetachRefused
    <3> QED
      BY <1>3, <3>2
  <2> QED
    BY <1>1, <1>5, <2>1, ErrorStep
<1> QED
  BY <1>2, <1>4, <1>5

LEMMA StartStep == ASSUME IInv, NEW k \in Disks, StartMachine(k) PROVE IInv'
<1> DEFINE m0 == h[k].d.vm
<1>1. At(k, "start") /\ ~Idle(k) /\ UNCHANGED volume /\ Remembered /\ OwnVolume(k)
  BY NoFaultFacts, FaultFacts, SameVolumes DEF StartMachine, Try, IInv, At
<1>2. \/ NoFault /\ Proceed(k) /\ running' = running \cup {m0}
      \/ ReturnError(k) /\ ~Calm'
  BY FaultFacts DEF StartMachine, Try
<1>3. misled' = misled \ {m0}
  BY DEF StartMachine
<1>4. \A m : Starting(k, m) => m = m0
  BY DEF Starting
<1> HIDE DEF m0
<1>5. CASE NoFault /\ Proceed(k) /\ running' = running \cup {m0}
  <2>1. GoesTo(k, Rest(k))
    BY <1>5, GotoFacts DEF Proceed, IInv
  <2>2. /\ TypeOK /\ DOMAIN h' = Disks /\ (\A j \in Disks \ {k} : h'[j] = h[j])
        /\ h'[k].todo = Rest(k) /\ h'[k].op = h[k].op /\ h'[k].reattach = h[k].reattach
        /\ DOMAIN h'[k] = {"op", "todo", "tries", "reattach", "d"}
    BY <2>1 DEF IInv, TypeOK, GoesTo
  <2>3. /\ Rest(k) \in Seq(Steps) /\ Orderly(Rest(k)) /\ (Reattaching(k) => DetachedFirst(Rest(k)))
        /\ Rest(k) # <<>> => /\ Head(Rest(k)) \notin {"detachIt", "stop", "detachAgain"}
                             /\ Reattaching(k) => Head(Rest(k)) # "resize"
    BY <1>1, RecoveryTail
  <2>4. TypeOK' /\ Order'
    BY <1>1, <2>2, <2>3 DEF IInv, TypeOK, Order, Idle, Reattaching, OwnVolume
  <2>5. Holding' /\ Ready'
    BY <1>1, <2>2, <2>3 DEF IInv, Holding, Ready, Calm, Undisturbed, Remembered, At, Now, Idle, Reattaching, Attached
  <2>6. Awaited'
    <3> SUFFICES ASSUME Calm', NEW m \in Machines \ running', m \notin misled' PROVE \E j \in Disks : Starting(j, m)'
      BY DEF Awaited
    <3>1. m # m0
      BY <1>5
    <3>2. PICK j \in Disks : Starting(j, m)
      BY <1>1, <1>3, <1>5, <3>1 DEF IInv, Awaited, Calm, Remembered
    <3>3. j # k
      BY <1>4, <3>1, <3>2
    <3> QED
      BY <1>1, <2>2, <3>2, <3>3 DEF Starting, At, Now, Idle
  <2> QED
    BY <2>4, <2>5, <2>6 DEF IInv
<1>6. CASE ReturnError(k) /\ ~Calm'
  <2>1. PICK state, result : Stop(k, state, result)
    BY <1>6 DEF ReturnError
  <2>2. TypeOK /\ DOMAIN h' = Disks /\ (\A j \in Disks \ {k} : h'[j] = h[j]) /\ h'[k].op = "idle" /\ h'[k].todo = <<>>
        /\ DOMAIN h'[k] = {"op", "todo", "tries", "reattach", "d"}
    BY <2>1, StopFacts, NoHandlerFacts DEF IInv
  <2>3. TypeOK'
    BY <1>1, <2>2, EmptyFacts DEF TypeOK, OwnVolume
  <2>4. Order'
    <3>1. \A j \in Disks \ {k} : h[j].todo = h'[j].todo /\ (Idle(j) <=> Idle(j)') /\ (Reattaching(j) <=> Reattaching(j)')
      BY <2>2 DEF Idle, Reattaching
    <3>2. Idle(k)' /\ h'[k].todo = <<>> /\ ~Reattaching(k)'
      BY <2>2 DEF Idle, Reattaching
    <3> QED
      BY <3>1, <3>2, EmptyFacts DEF IInv, Order
  <2>5. Holding' /\ Ready' /\ Awaited'
    BY <1>1, <1>6, <2>2 DEF IInv, Holding, Ready, Awaited, Undisturbed, Remembered, At, Now, Idle, Reattaching, Attached
  <2> QED
    BY <2>3, <2>4, <2>5 DEF IInv
<1> QED
  BY <1>2, <1>5, <1>6

LEMMA HandlerInvariant == ASSUME IInv, NEW k \in Disks, Handler(k) PROVE IInv'
  BY MakeStep, ProtectStep, ResizeStep, CheckAttachedStep, AttachStep, CheckDetachedStep, DetachStep, StopStep,
     DetachAgainStep, StartStep, LastStep, DropStep, ReadStep
  DEF Handler

-----------------------------------------------------------------------------
(* Terraform and the environment.                                          *)

\* Nobody starts a machine but handlers that run.
LEMMA IdleFacts ==
  ASSUME IInv, AllIdle PROVE \A k \in Disks : \A m : ~Starting(k, m)
  BY DEF AllIdle, Starting, At

LEMMA LaunchStep ==
  ASSUME IInv, NEW k \in Disks, NEW op \in {"create", "update", "destroy"}, NEW steps \in Seq(Plain), NEW d,
         Idle(k), Launch(k, op, steps, d), op = "update" /\ config[k].reattach => Guarded(steps)
  PROVE  IInv'
<1>1. steps \in Seq(Steps) /\ Orderly(steps)
  BY PlainFacts
<1>2. /\ DOMAIN h' = Disks /\ (\A j \in Disks \ {k} : h'[j] = h[j])
      /\ DOMAIN h'[k] = {"op", "todo", "tries", "reattach", "d"} /\ h'[k].todo = steps /\ h'[k].op = op
      /\ h'[k].reattach = config[k].reattach
  BY DEF Launch, IInv, TypeOK
<1>3. UNCHANGED <<volume, running, misled, faults>> /\ op # "idle"
  BY DEF Launch
<1>4. TypeOK'
  BY <1>1, <1>2, <1>3 DEF IInv, TypeOK
<1>5. Order'
  BY <1>1, <1>2, <1>3 DEF IInv, Order, Idle, Reattaching, Guarded
<1>6. Holding'
  <2>1. steps # <<>> => Head(steps) \notin {"detachIt", "stop", "detachAgain"}
    BY DEF Plain
  <2> QED
    BY <1>2, <1>3, <2>1 DEF IInv, Holding, Calm, At, Now, Idle, Attached
<1>7. Ready'
  <2>1. steps # <<>> => Head(steps) = steps[1] /\ 1 \in DOMAIN steps
    OBVIOUS
  <2> QED
    BY <1>2, <1>3, <2>1 DEF IInv, Ready, Undisturbed, At, Now, Idle, Reattaching, Attached, Guarded
<1>8. Awaited'
  <2>1. OwnVolume(k) /\ Remembered /\ \A m : ~Starting(k, m)
    BY <1>3, SameVolumes DEF IInv, Remembered, Starting, At
  <2> QED
    BY <1>2, <1>3, <2>1, AwaitedFacts
<1> QED
  BY <1>4, <1>5, <1>6, <1>7, <1>8 DEF IInv

LEMMA ApplyInvariant == ASSUME IInv, NEW k \in Disks, Apply(k) PROVE IInv'
<1>1. CASE Create(k)
  BY <1>1, CreateFacts, LaunchStep DEF Create
<1>2. CASE Update(k)
  BY <1>2, UpdateFacts, LaunchStep DEF Update
<1>3. CASE Delete(k)
  BY <1>3, DeleteFacts, LaunchStep DEF Delete
<1> QED
  BY <1>1, <1>2, <1>3 DEF Apply

\* The provider dies, and takes the recoveries with it.
LEMMA CrashInvariant == ASSUME IInv, Crash PROVE IInv'
<1>1. /\ DOMAIN h' = Disks /\ \A k \in Disks : h'[k] = NoHandler
      /\ UNCHANGED <<volume, running, misled>> /\ ~Calm' /\ Remembered
  BY FaultFacts DEF Crash
<1>2. TypeOK' /\ Order'
  BY <1>1, NoHandlerFacts, EmptyFacts DEF IInv, TypeOK, Order, Idle, Reattaching
<1>3. Holding' /\ Ready' /\ Awaited'
  BY <1>1, NoHandlerFacts DEF Holding, Ready, Awaited, At, Idle
<1> QED
  BY <1>2, <1>3 DEF IInv

\* Others change volumes under a running handler only in a race.
LEMMA OutOfBandInvariant == ASSUME IInv, OutOfBand PROVE IInv'
<1>1. UNCHANGED <<running, misled, h>> /\ Remembered /\ (AllIdle \/ (~Undisturbed' /\ ~Calm'))
  BY FaultFacts DEF OutOfBand, Fault, Undisturbed, Calm
<1>2. DOMAIN volume' = Disks /\ \A k \in Disks : DOMAIN volume'[k] = {"exists", "vm", "device", "size", "protected"}
  BY DEF IInv, TypeOK, OutOfBand, NoVolume, Loose
<1>3. TypeOK' /\ Order'
  BY <1>1, <1>2 DEF IInv, TypeOK, Order, Idle, Reattaching
<1>4. CASE AllIdle
  <2>1. Holding' /\ Ready'
    BY <1>1, <1>4 DEF Holding, Ready, At, Idle, AllIdle
  <2>2. Awaited'
    BY <1>1, <1>4, IdleFacts DEF IInv, Awaited, Calm, Remembered
  <2> QED
    BY <1>3, <2>1, <2>2 DEF IInv
<1>5. CASE ~Undisturbed' /\ ~Calm'
  BY <1>3, <1>5 DEF IInv, Holding, Ready, Awaited
<1> QED
  BY <1>1, <1>4, <1>5

\* A step that leaves handlers, volumes and machines alone.
LEMMA QuietStep ==
  ASSUME IInv, UNCHANGED <<volume, running, misled, h, faults>> PROVE IInv'
  BY DEF IInv, TypeOK, Order, Holding, Ready, Awaited, Calm, Undisturbed, Starting, At, Now, Idle, Reattaching, Attached

LEMMA InitInvariant == Init => IInv
<1> SUFFICES ASSUME Init PROVE IInv
  OBVIOUS
<1>1. /\ DOMAIN h = Disks /\ DOMAIN volume = Disks /\ running = Machines
      /\ \A k \in Disks : h[k] = NoHandler /\ volume[k] = NoVolume
  BY DEF Init
<1>2. TypeOK /\ Order
  BY <1>1, NoHandlerFacts, EmptyFacts DEF TypeOK, Order, Idle, Reattaching, NoVolume
<1>3. Holding /\ Ready /\ Awaited
  BY <1>1, NoHandlerFacts DEF Holding, Ready, Awaited, At, Idle
<1> QED
  BY <1>2, <1>3 DEF IInv

LEMMA StepInvariant == IInv /\ [Next]_vars => IInv'
<1> SUFFICES ASSUME IInv, [Next]_vars PROVE IInv'
  OBVIOUS
<1>1. CASE Refresh
  BY <1>1, QuietStep DEF Refresh
<1>2. ASSUME NEW k \in Disks, Edit(k) PROVE IInv'
  BY <1>2, QuietStep DEF Edit
<1>3. CASE UNCHANGED vars
  BY <1>3, QuietStep DEF vars
<1> QED
  BY <1>1, <1>2, <1>3, ApplyInvariant, HandlerInvariant, OutOfBandInvariant, CrashInvariant
  DEF Next, Terraform, Provider, Environment

\* What a handler does to the volumes: it changes its own, and its size only in the
\* steps that are for that.
LEMMA HandlerVolumes ==
  ASSUME TypeOK, NEW k \in Disks, Handler(k)
  PROVE  /\ \A j \in Disks \ {k} : volume'[j] = volume[j]
         /\ volume'[k].size # volume[k].size => At(k, "resize") \/ At(k, "make") \/ At(k, "drop")
<1> USE DEF Call, CallOr, Try, TypeOK
<1>1. CASE MakeVolume(k)
  BY <1>1 DEF MakeVolume
<1>2. CASE ProtectVolume(k)
  BY <1>2 DEF ProtectVolume
<1>3. CASE ResizeVolume(k)
  BY <1>3 DEF ResizeVolume
<1>4. CASE CheckAttached(k)
  BY <1>4 DEF CheckAttached, Look
<1>5. CASE AttachVolume(k)
  BY <1>5 DEF AttachVolume
<1>6. CASE CheckDetached(k)
  BY <1>6 DEF CheckDetached, Look
<1>7. CASE DetachVolume(k)
  BY <1>7 DEF DetachVolume, Loose
<1>8. CASE StopMachine(k)
  BY <1>8 DEF StopMachine
<1>9. CASE DetachVolumeAgain(k)
  BY <1>9 DEF DetachVolumeAgain, Loose
<1>10. CASE StartMachine(k)
  BY <1>10 DEF StartMachine
<1>11. CASE ReturnFirstError(k)
  BY <1>11 DEF ReturnFirstError
<1>12. CASE DropVolume(k)
  BY <1>12 DEF DropVolume
<1>13. CASE ReturnRead(k)
  BY <1>13 DEF ReturnRead, Look
<1> QED
  BY <1>1, <1>2, <1>3, <1>4, <1>5, <1>6, <1>7, <1>8, <1>9, <1>10, <1>11, <1>12, <1>13 DEF Handler

-----------------------------------------------------------------------------
(* The theorems.                                                           *)

\* The invariant holds of every behaviour.
THEOREM RecoveriesFinish == Spec => []IInv
<1>1. Init => IInv
  BY InitInvariant
<1>2. IInv /\ [Next]_vars => IInv'
  BY StepInvariant
<1> QED
  BY <1>1, <1>2, PTL DEF Spec

\* Once the handlers are done, every machine that one of them stopped to detach its
\* volume runs again, however many disks were detached at the same time.
THEOREM StoppedRunAgain == Spec => []MachinesRunAgain
<1>1. IInv => MachinesRunAgain
  BY IdleFacts DEF IInv, Awaited, Calm, MachinesRunAgain
<1> QED
  BY <1>1, RecoveriesFinish, PTL

\* A disk that is to be detached while it is resized is, in whatever order the handlers
\* of several disks take their steps.
THEOREM DetachedWhenResized == Spec => ResizedDetached
<1>1. IInv /\ [Next]_vars
      => [\A k \in Disks : h[k].op = "update" /\ h[k].reattach /\ h'[k] # h[k] /\ volume'[k].size # volume[k].size =>
            ~Attached(k) \/ "race" \in faults.kinds]_vars
  <2> SUFFICES ASSUME IInv, Next, NEW k \in Disks, Reattaching(k), h'[k] # h[k], volume'[k].size # volume[k].size, Undisturbed
               PROVE  ~Attached(k)
    BY DEF vars, Reattaching, Undisturbed
  <2>1. TypeOK /\ ~Idle(k) /\ ~AllIdle /\ h[k].todo \in Seq(Steps) /\ DetachedFirst(h[k].todo)
    BY DEF IInv, TypeOK, Order, Reattaching, Idle, AllIdle
  <2>2. PICK j \in Disks : Handler(j)
    <3>1. UNCHANGED volume \/ UNCHANGED h \/ \E j \in Disks : Handler(j)
      BY DEF Next, Terraform, Provider, Environment, Refresh, Apply, Create, Update, Delete, Launch, Edit, OutOfBand, Crash
    <3> QED
      BY <3>1
  <2>3. At(k, "resize") \/ At(k, "make") \/ At(k, "drop")
    BY <2>1, <2>2, HandlerVolumes
  <2>4. At(k, "resize")
    <3>1. h[k].todo # <<>> /\ Head(h[k].todo) = h[k].todo[1] /\ 1 \in DOMAIN h[k].todo
      BY <2>1, <2>3 DEF At
    <3> QED
      BY <2>1, <2>3, <3>1 DEF At, Now, DetachedFirst
  <2> QED
    BY <2>4 DEF IInv, Ready
<1> QED
  BY <1>1, RecoveriesFinish, PTL DEF Spec, ResizedDetached

-----------------------------------------------------------------------------
(* What a handler still has to do, and what it has done.  The invariant of *)
(* OkMeansApplied: as long as a handler is going to end with a Read, what  *)
(* is not yet as planned is among the steps that it has left.              *)

Attaching == {"attach", "attachIt"}
Building == Attaching \cup {"protect"}
Recovering == {"stop", "detachAgain", "start"}
Loosening == {"make", "detach", "detachIt"}

Has(t, X) == \E i \in DOMAIN t : t[i] \in X

\* Disks are made, and detached, before they are protected or attached.  Nothing
\* follows the Read, and no recovery leads to one.
Ahead(t) == \A i, j \in DOMAIN t : t[i] \in Building /\ t[j] \in Loosening => j < i
LastRead(t) == \A i \in DOMAIN t : t[i] = "read" => i = Len(t) /\ ~Has(t, Recovering)

\* The steps t make what is planned, d, of the volume v.
Promise(t, v, d) ==
  /\ Has(t, {"make", "resize"}) \/ v.size = d.size
  /\ Has(t, {"protect"}) \/ (IF Has(t, {"make"}) THEN ~d.protected ELSE v.protected = d.protected)
  /\ Ahead(t) /\ (~d.attach => ~Has(t, Attaching))
  /\ d.attach /\ d.vm # NoMachine => Has(t, Attaching) \/ (~Has(t, Loosening) /\ v.vm # NoMachine)
  /\ ~d.attach \/ d.vm = NoMachine => Has(t, Loosening) \/ v.vm = NoMachine
  /\ v.vm # NoMachine => Has(t, Loosening) \/ d.device \in {NoDevice, v.device}

Intends(d, c) ==
  /\ d.exists /\ d.size = c.size /\ d.protected = c.protected /\ d.attach = c.attach
  /\ d.vm = c.vm \/ c.vm = NoMachine
  /\ d.device = c.device \/ c.device = NoDevice

\* What Read has seen is still so.
Seen(k) ==
  /\ volume[k].exists /\ saved[k].size = volume[k].size /\ saved[k].protected = volume[k].protected
  /\ Attached(k) => saved[k].vm = volume[k].vm /\ saved[k].device = volume[k].device

DiskFields == {"exists", "tainted", "attach", "vm", "device", "size", "protected"}

Shape ==
  /\ config \in [Disks -> Configurations] /\ DOMAIN saved = Disks /\ DOMAIN told = Disks
  /\ \A k \in Disks : /\ DOMAIN saved[k] = DiskFields /\ DOMAIN h[k].d = DiskFields
                     /\ h[k].op \in {"idle", "create", "update", "destroy"}

Looked == \A k \in fresh : k \in Disks /\ Idle(k) /\ (Undisturbed /\ saved[k].exists => Seen(k))

Applied ==
  \A k \in Disks : told[k] = "ok" => /\ Idle(k) /\ saved[k].exists /\ k \notin fresh
                                     /\ Undisturbed => AsConfigured(k) \/ Moved(k)

Forgotten == \A k \in Disks : ~saved[k].exists => saved[k] = NoDisk

Working(k) ==
  /\ LastRead(h[k].todo)
  /\ Has(h[k].todo, {"read"}) => h[k].op \in {"create", "update"}
  /\ h[k].op \in {"create", "update"} => Intends(h[k].d, config[k])
  /\ Undisturbed /\ Has(h[k].todo, {"read"}) => Promise(h[k].todo, volume[k], h[k].d)

OInv == Shape /\ Looked /\ Applied /\ Forgotten /\ \A k \in Disks : Working(k)

(* Lemmas about the steps that are left. *)

LEMMA HasOne == ASSUME NEW x, NEW X PROVE Has(<<x>>, X) <=> x \in X
  BY DEF Has

LEMMA HasNone == ASSUME NEW X PROVE ~Has(<<>>, X)
  BY DEF Has

LEMMA HasConcat ==
  ASSUME NEW s \in Seq(Steps), NEW t \in Seq(Steps), NEW X PROVE Has(s \o t, X) <=> Has(s, X) \/ Has(t, X)
<1> DEFINE u == s \o t
<1>1. /\ DOMAIN s = 1..Len(s) /\ DOMAIN t = 1..Len(t) /\ DOMAIN u = 1..(Len(s) + Len(t)) /\ Len(s) \in Nat /\ Len(t) \in Nat
      /\ \A i \in DOMAIN u : u[i] = IF i <= Len(s) THEN s[i] ELSE t[i - Len(s)]
  OBVIOUS
<1> HIDE DEF u
<1>2. ASSUME NEW i \in DOMAIN s, s[i] \in X PROVE Has(u, X)
  BY <1>1, <1>2 DEF Has
<1>3. ASSUME NEW i \in DOMAIN t, t[i] \in X PROVE Has(u, X)
  <2>1. Len(s) + i \in DOMAIN u /\ u[Len(s) + i] = t[i]
    BY <1>1
  <2> QED
    BY <1>3, <2>1 DEF Has
<1>4. ASSUME NEW i \in DOMAIN u, u[i] \in X PROVE Has(s, X) \/ Has(t, X)
  BY <1>1, <1>4 DEF Has
<1> QED
  BY <1>2, <1>3, <1>4 DEF Has, u

LEMMA HasIf ==
  ASSUME NEW c, NEW t, NEW X PROVE Has(If(c, t), X) <=> c /\ Has(t, X)
  BY HasNone DEF If

\* A program is in order if what comes first attaches nothing, or what follows detaches nothing.
LEMMA AheadConcat ==
  ASSUME NEW s \in Seq(Steps), NEW t \in Seq(Steps), Ahead(s), Ahead(t), ~Has(s, Building) \/ ~Has(t, Loosening)
  PROVE  Ahead(s \o t)
<1> DEFINE u == s \o t
<1>1. /\ DOMAIN s = 1..Len(s) /\ DOMAIN t = 1..Len(t) /\ DOMAIN u = 1..(Len(s) + Len(t)) /\ Len(s) \in Nat /\ Len(t) \in Nat
      /\ \A i \in DOMAIN u : u[i] = IF i <= Len(s) THEN s[i] ELSE t[i - Len(s)]
  OBVIOUS
<1> HIDE DEF u
<1>2. SUFFICES ASSUME NEW i \in DOMAIN u, NEW j \in DOMAIN u, u[i] \in Building, u[j] \in Loosening PROVE j < i
  BY DEF Ahead, u
<1>3. CASE i <= Len(s) /\ j <= Len(s)
  <2>1. i \in DOMAIN s /\ j \in DOMAIN s /\ s[i] = u[i] /\ s[j] = u[j]
    BY <1>1, <1>3
  <2> QED
    BY <1>2, <2>1 DEF Ahead
<1>4. CASE i > Len(s) /\ j > Len(s)
  <2>1. i - Len(s) \in DOMAIN t /\ j - Len(s) \in DOMAIN t /\ t[i - Len(s)] = u[i] /\ t[j - Len(s)] = u[j]
    BY <1>1, <1>4
  <2>2. j - Len(s) < i - Len(s)
    BY <1>2, <2>1 DEF Ahead
  <2> QED
    BY <1>1, <2>2
<1>5. CASE i <= Len(s) /\ j > Len(s)
  <2>1. i \in DOMAIN s /\ s[i] = u[i] /\ j - Len(s) \in DOMAIN t /\ t[j - Len(s)] = u[j]
    BY <1>1, <1>5
  <2> QED
    BY <1>2, <2>1 DEF Has
<1>6. CASE i > Len(s) /\ j <= Len(s)
  BY <1>1, <1>6
<1> QED
  BY <1>1, <1>3, <1>4, <1>5, <1>6

LEMMA AheadShort == Ahead(<<>>) /\ \A x : ~(x \in Building /\ x \in Loosening) => Ahead(<<x>>)
  BY DEF Ahead

LEMMA AheadIf == ASSUME NEW c, NEW t, Ahead(t) PROVE Ahead(If(c, t))
  BY AheadShort DEF If

LEMMA LastReadConcat ==
  ASSUME NEW s \in Seq(Steps), ~Has(s, {"read"} \cup Recovering) PROVE LastRead(s \o <<"read">>)
<1> DEFINE u == s \o <<"read">>
<1>1. /\ DOMAIN s = 1..Len(s) /\ Len(u) = Len(s) + 1 /\ DOMAIN u = 1..(Len(s) + 1) /\ Len(s) \in Nat
      /\ \A i \in DOMAIN u : i # Len(s) + 1 => i \in DOMAIN s /\ u[i] = s[i]
      /\ u[Len(s) + 1] = "read"
  OBVIOUS
<1> HIDE DEF u
<1>2. ~Has(u, Recovering)
  BY <1>1 DEF Has, Recovering
<1>3. LastRead(u)
  BY <1>1, <1>2 DEF LastRead, Has
<1> QED
  BY <1>3 DEF u

\* What is left when a step is taken.
LEMMA TailLeft ==
  ASSUME NEW t \in Seq(Steps), t # <<>>
  PROVE  /\ \A X : Has(t, X) <=> Head(t) \in X \/ Has(Tail(t), X)
         /\ Ahead(t) => Ahead(Tail(t)) /\ (Head(t) \in Building => ~Has(Tail(t), Loosening))
         /\ LastRead(t) => LastRead(Tail(t)) /\ (Head(t) = "read" => \A X : ~Has(Tail(t), X))
<1> DEFINE s == Tail(t)
<1>1. Len(s) = Len(t) - 1 /\ Len(t) \in Nat \ {0} /\ DOMAIN t = 1..Len(t) /\ DOMAIN s = 1..Len(s) /\ Head(t) = t[1]
      /\ \A i \in DOMAIN s : i + 1 \in DOMAIN t /\ s[i] = t[i + 1]
  OBVIOUS
<1> HIDE DEF s
<1>2. ASSUME NEW X PROVE Has(t, X) <=> Head(t) \in X \/ Has(s, X)
  <2>1. ASSUME NEW i \in DOMAIN t, t[i] \in X PROVE Head(t) \in X \/ Has(s, X)
    <3>1. CASE i = 1
      BY <1>1, <2>1, <3>1
    <3>2. CASE i # 1
      <4>1. i - 1 \in DOMAIN s /\ s[i - 1] = t[i]
        BY <1>1, <3>2
      <4> QED
        BY <2>1, <4>1 DEF Has
    <3> QED
      BY <3>1, <3>2
  <2>2. 1 \in DOMAIN t
    BY <1>1
  <2> QED
    BY <1>1, <2>1, <2>2 DEF Has
<1>3. ASSUME Ahead(t) PROVE Ahead(s) /\ (Head(t) \in Building => ~Has(s, Loosening))
  <2>1. ASSUME NEW i \in DOMAIN s, NEW j \in DOMAIN s, s[i] \in Building, s[j] \in Loosening PROVE j < i
    <3>1. j + 1 < i + 1
      BY <1>1, <1>3, <2>1 DEF Ahead
    <3> QED
      BY <1>1, <3>1
  <2>2. ASSUME Head(t) \in Building, NEW j \in DOMAIN s, s[j] \in Loosening PROVE FALSE
    <3>1. 1 \in DOMAIN t /\ j + 1 \in DOMAIN t /\ t[1] \in Building /\ t[j + 1] \in Loosening
      BY <1>1, <2>2
    <3>2. j + 1 < 1
      BY <1>3, <3>1 DEF Ahead
    <3> QED
      BY <1>1, <3>2
  <2> QED
    BY <2>1, <2>2 DEF Ahead, Has
<1>4. ASSUME LastRead(t) PROVE LastRead(s) /\ (Head(t) = "read" => \A X : ~Has(s, X))
  <2>1. ASSUME NEW i \in DOMAIN s, s[i] = "read" PROVE i = Len(s) /\ ~Has(s, Recovering)
    <3>1. i + 1 = Len(t) /\ ~Has(t, Recovering)
      BY <1>1, <1>4, <2>1 DEF LastRead
    <3> QED
      BY <1>1, <1>2, <3>1
  <2>2. Head(t) = "read" => DOMAIN s = {}
    <3>1. 1 \in DOMAIN t
      BY <1>1
    <3>2. Head(t) = "read" => Len(t) = 1
      BY <1>1, <1>4, <3>1 DEF LastRead
    <3> QED
      BY <1>1, <3>2
  <2> QED
    BY <2>1, <2>2 DEF LastRead, Has
<1> QED
  BY <1>2, <1>3, <1>4 DEF s

\* Looking, and then doing it.
LEMMA ReplaceLeft ==
  ASSUME NEW t \in Seq(Steps), t # <<>>, NEW y \in {"attachIt", "detachIt"}, Head(t) = IF y = "attachIt" THEN "attach" ELSE "detach"
  PROVE  LET s == <<y>> \o Tail(t) IN
         /\ \A X : Has(s, X) <=> y \in X \/ Has(Tail(t), X)
         /\ Ahead(t) => Ahead(s)
         /\ LastRead(t) => LastRead(s)
<1> DEFINE s == <<y>> \o Tail(t)
<1>1. Tail(t) \in Seq(Steps) /\ Len(t) \in Nat \ {0} /\ DOMAIN t = 1..Len(t) /\ Len(Tail(t)) = Len(t) - 1
      /\ \A i \in 1..(Len(t) - 1) : Tail(t)[i] = t[i + 1]
  OBVIOUS
<1>2. Len(s) = Len(t) /\ DOMAIN s = DOMAIN t /\ s[1] = y /\ t[1] = Head(t) /\ \A i \in DOMAIN t : i # 1 => s[i] = t[i]
  BY <1>1
<1>3. <<y>> \in Seq(Steps)
  BY DEF Steps
<1>4. ASSUME NEW X PROVE Has(s, X) <=> y \in X \/ Has(Tail(t), X)
  BY <1>1, <1>3, HasConcat, HasOne
<1> HIDE DEF s
<1>5. ASSUME Ahead(t) PROVE Ahead(s)
  <2>1. \A i \in DOMAIN t : (s[i] \in Building <=> t[i] \in Building) /\ (s[i] \in Loosening <=> t[i] \in Loosening)
    BY <1>2 DEF Building, Attaching, Loosening
  <2> QED
    BY <1>2, <1>5, <2>1 DEF Ahead
<1>6. LastRead(t) => LastRead(s)
  <2>1. Has(s, Recovering) => Has(t, Recovering)
    BY <1>2 DEF Has, Recovering
  <2> QED
    BY <1>2, <2>1 DEF LastRead
<1> QED
  BY <1>4, <1>5, <1>6 DEF s

\* A step that does what it is for keeps the promise.
LEMMA PromiseStep ==
  ASSUME NEW t \in Seq(Steps), t # <<>>, NEW v, NEW w, NEW d, {d.attach, d.protected} \subseteq BOOLEAN, Promise(t, v, d),
         NEW x, x = Head(t),
         w.size = IF x \in {"make", "resize"} THEN d.size ELSE v.size,
         w.protected = IF x = "make" THEN FALSE ELSE IF x = "protect" THEN d.protected ELSE v.protected,
         x \in Loosening => w.vm = NoMachine,
         x \in Attaching => \/ w.vm = v.vm /\ w.device = v.device /\ (d.vm # NoMachine => v.vm # NoMachine)
                            \/ w.vm = d.vm /\ d.device \in {NoDevice, w.device},
         x \notin Loosening \cup Attaching => w.vm = v.vm /\ w.device = v.device
  PROVE  Promise(Tail(t), w, d)
<1> DEFINE s == Tail(t)
<1>1. /\ \A X : Has(t, X) <=> x \in X \/ Has(s, X)
      /\ Ahead(t) /\ Ahead(s) /\ (x \in Building => ~Has(s, Loosening))
  BY TailLeft DEF Promise
<1> HIDE DEF s
<1>2. Has(s, {"make", "resize"}) \/ w.size = d.size
  BY <1>1 DEF Promise
<1>3. Has(s, {"protect"}) \/ (IF Has(s, {"make"}) THEN ~d.protected ELSE w.protected = d.protected)
  <2>1. /\ Has(t, {"protect"}) <=> x = "protect" \/ Has(s, {"protect"})
        /\ Has(t, {"make"}) <=> x = "make" \/ Has(s, {"make"})
    BY <1>1
  <2>2. Has(t, {"protect"}) \/ (IF Has(t, {"make"}) THEN ~d.protected ELSE v.protected = d.protected)
    BY DEF Promise
  <2>3. CASE x = "make"
    BY <2>1, <2>2, <2>3
  <2>4. CASE x = "protect"
    <3>1. ~Has(s, {"make"})
      BY <1>1, <2>4 DEF Building, Has, Loosening
    <3> QED
      BY <2>4, <3>1
  <2>5. CASE x \notin {"make", "protect"}
    BY <2>1, <2>2, <2>5
  <2> QED
    BY <2>3, <2>4, <2>5
<1>4. ~d.attach => ~Has(s, Attaching)
  BY <1>1 DEF Promise
<1>5. d.attach /\ d.vm # NoMachine => Has(s, Attaching) \/ (~Has(s, Loosening) /\ w.vm # NoMachine)
  BY <1>1 DEF Promise, Building, Attaching, Loosening
<1>6. ~d.attach \/ d.vm = NoMachine => Has(s, Loosening) \/ w.vm = NoMachine
  BY <1>1 DEF Promise, Building, Attaching, Loosening
<1>7. w.vm # NoMachine => Has(s, Loosening) \/ d.device \in {NoDevice, w.device}
  BY <1>1 DEF Promise, Building, Attaching, Loosening
<1> QED
  BY <1>1, <1>2, <1>3, <1>4, <1>5, <1>6, <1>7 DEF Promise, s

LEMMA PromiseReplaced ==
  ASSUME NEW t \in Seq(Steps), t # <<>>, NEW y \in {"attachIt", "detachIt"}, Head(t) = IF y = "attachIt" THEN "attach" ELSE "detach",
         NEW v, NEW d, Promise(t, v, d)
  PROVE  Promise(<<y>> \o Tail(t), v, d)
<1> DEFINE s == <<y>> \o Tail(t)
<1>1. /\ \A X : Has(s, X) <=> y \in X \/ Has(Tail(t), X)
      /\ \A X : Has(t, X) <=> Head(t) \in X \/ Has(Tail(t), X)
      /\ Ahead(s)
  BY TailLeft, ReplaceLeft DEF Promise
<1> HIDE DEF s
<1>2. /\ Has(s, {"make", "resize"}) <=> Has(t, {"make", "resize"})
      /\ Has(s, {"protect"}) <=> Has(t, {"protect"})
      /\ Has(s, {"make"}) <=> Has(t, {"make"})
      /\ Has(s, Attaching) <=> Has(t, Attaching)
      /\ Has(s, Loosening) <=> Has(t, Loosening)
  BY <1>1 DEF Attaching, Loosening
<1> QED
  BY <1>1, <1>2 DEF Promise, s

LEMMA Joined ==
  ASSUME NEW s \in Seq(Steps), NEW t \in Seq(Steps), Ahead(s), Ahead(t), ~Has(s, Building) \/ ~Has(t, Loosening)
  PROVE  s \o t \in Seq(Steps) /\ Ahead(s \o t) /\ \A X : Has(s \o t, X) <=> Has(s, X) \/ Has(t, X)
  BY HasConcat, AheadConcat

(* The programs of the handlers, and what they promise. *)

LEMMA PlannedFacts ==
  ASSUME Shape, NEW k \in Disks
  PROVE  /\ DOMAIN Planned(k) = DiskFields /\ Intends(Planned(k), config[k])
         /\ Planned(k).vm = IF config[k].vm = NoMachine THEN saved[k].vm ELSE config[k].vm
         /\ Planned(k).device = IF config[k].device = NoDevice THEN saved[k].device ELSE config[k].device
  BY DEF Shape, Planned, Intends, DiskFields

LEMMA ConfigFacts ==
  ASSUME Shape, NEW k \in Disks
  PROVE  {config[k].attach, config[k].protected, config[k].present} \subseteq BOOLEAN
  BY DEF Shape, Configurations

LEMMA SinglesFacts ==
  ASSUME NEW x \in Plain PROVE <<x>> \in Seq(Steps) /\ (x # "read" => \A X : Has(<<x>>, X) <=> x \in X) /\ Ahead(<<x>>)
  BY OneStep, HasOne, AheadShort DEF Plain, Steps, Building, Attaching, Loosening

LEMMA CreatePromise ==
  ASSUME Shape, NEW k \in Disks
  PROVE  LastRead(CreateSteps(k)) /\ Promise(CreateSteps(k), volume[k], Planned(k))
<1> DEFINE B == If(config[k].protected, <<"protect">>)
           C == If(config[k].attach, <<"attach">>)
           AB == <<"make">> \o B
           ABC == AB \o C
           ABCD == ABC \o <<"read">>
<1>1. <<"make">> \in Seq(Steps) /\ <<"read">> \in Seq(Steps) /\ B \in Seq(Steps) /\ C \in Seq(Steps)
  <2>1. <<"make">> \in Seq(Steps) /\ <<"read">> \in Seq(Steps) /\ <<"protect">> \in Seq(Steps) /\ <<"attach">> \in Seq(Steps)
    BY OneStep DEF Steps, Plain
  <2> QED
    BY <2>1, IfFacts
<1>2. /\ \A X : Has(<<"make">>, X) <=> "make" \in X
      /\ \A X : Has(<<"read">>, X) <=> "read" \in X
      /\ \A X : Has(B, X) <=> config[k].protected /\ "protect" \in X
      /\ \A X : Has(C, X) <=> config[k].attach /\ "attach" \in X
  BY HasOne, HasIf
<1>3. Ahead(<<"make">>) /\ Ahead(<<"read">>) /\ Ahead(B) /\ Ahead(C)
  BY AheadShort, AheadIf DEF Building, Attaching, Loosening
<1>4. CreateSteps(k) = ABCD
  BY DEF CreateSteps
<1> HIDE DEF B, C
<1>5. AB \in Seq(Steps) /\ Ahead(AB) /\ \A X : Has(AB, X) <=> "make" \in X \/ (config[k].protected /\ "protect" \in X)
  <2>1. ~Has(<<"make">>, Building)
    BY <1>1, <1>2, <1>3 DEF Building, Attaching, Loosening
  <2> QED
    BY <1>1, <1>2, <1>3, <2>1, Joined
<1> HIDE DEF AB
<1>6. /\ ABC \in Seq(Steps) /\ Ahead(ABC)
      /\ \A X : Has(ABC, X) <=> "make" \in X \/ (config[k].protected /\ "protect" \in X) \/ (config[k].attach /\ "attach" \in X)
  <2>1. ~Has(C, Loosening)
    BY <1>1, <1>2, <1>3, <1>5 DEF Building, Attaching, Loosening
  <2> QED
    BY <1>1, <1>2, <1>3, <1>5, <2>1, Joined
<1> HIDE DEF ABC
<1>7. /\ LastRead(ABCD) /\ Ahead(ABCD)
      /\ \A X : Has(ABCD, X) <=> \/ "make" \in X \/ (config[k].protected /\ "protect" \in X)
                                 \/ (config[k].attach /\ "attach" \in X) \/ "read" \in X
  <2>1. ~Has(<<"read">>, Loosening)
    BY <1>1, <1>2, <1>3, <1>6 DEF Building, Attaching, Loosening
  <2>2. ~Has(ABC, {"read"} \cup Recovering)
    BY <1>1, <1>2, <1>3, <1>6 DEF Recovering
  <2> QED
    BY <1>1, <1>2, <1>3, <1>6, <2>1, <2>2, Joined, LastReadConcat
<1> HIDE DEF ABCD
<1>8. Promise(ABCD, volume[k], Planned(k))
  <2>1. /\ Has(ABCD, {"make"}) /\ Has(ABCD, {"make", "resize"}) /\ Has(ABCD, Loosening)
        /\ Has(ABCD, {"protect"}) <=> config[k].protected
        /\ Has(ABCD, Attaching) <=> config[k].attach
    BY <1>7 DEF Loosening, Attaching
  <2>2. Planned(k).protected = config[k].protected /\ Planned(k).attach = config[k].attach
    BY PlannedFacts DEF Intends
  <2> QED
    BY <1>7, <2>1, <2>2 DEF Promise
<1> QED
  BY <1>4, <1>7, <1>8

LEMMA UpdatePromise ==
  ASSUME Shape, NEW k \in Disks
  PROVE  LastRead(UpdateSteps(k)) /\ (Seen(k) => Promise(UpdateSteps(k), volume[k], Planned(k)))
<1> DEFINE a == config[k].attach
           R == If(config[k].reattach, <<"detach">>)
           S == R \o <<"resize">>
           A == If(SizeChanges(k), S)
           B == If(DeviceChanges(k), <<"detach">>)
           C == IF a THEN <<"attach">> ELSE <<"detach">>
           D == If(ProtectionChanges(k), <<"protect">>)
           AB == A \o B
           ABC == AB \o C
           ABCD == ABC \o D
           U == ABCD \o <<"read">>
<1>1. /\ {<<"read">>, <<"resize">>, <<"detach">>, <<"attach">>, <<"protect">>} \subseteq Seq(Steps)
      /\ R \in Seq(Steps) /\ B \in Seq(Steps) /\ C \in Seq(Steps) /\ D \in Seq(Steps)
  <2>1. <<"read">> \in Seq(Steps) /\ <<"resize">> \in Seq(Steps) /\ <<"detach">> \in Seq(Steps)
        /\ <<"attach">> \in Seq(Steps) /\ <<"protect">> \in Seq(Steps)
    BY OneStep DEF Steps, Plain
  <2> QED
    BY <2>1, IfFacts
<1>2. /\ \A X : Has(<<"read">>, X) <=> "read" \in X
      /\ \A X : Has(<<"resize">>, X) <=> "resize" \in X
      /\ \A X : Has(R, X) <=> config[k].reattach /\ "detach" \in X
      /\ \A X : Has(B, X) <=> DeviceChanges(k) /\ "detach" \in X
      /\ \A X : Has(C, X) <=> IF a THEN "attach" \in X ELSE "detach" \in X
      /\ \A X : Has(D, X) <=> ProtectionChanges(k) /\ "protect" \in X
  BY HasOne, HasIf
<1>3. Ahead(<<"read">>) /\ Ahead(<<"resize">>) /\ Ahead(R) /\ Ahead(B) /\ Ahead(C) /\ Ahead(D)
  BY AheadShort, AheadIf DEF Building, Attaching, Loosening
<1>4. UpdateSteps(k) = U
  BY DEF UpdateSteps
<1> HIDE DEF R, B, C, D
<1>5. S \in Seq(Steps) /\ Ahead(S) /\ \A X : Has(S, X) <=> (config[k].reattach /\ "detach" \in X) \/ "resize" \in X
  <2>1. ~Has(R, Building)
    BY <1>1, <1>2, <1>3 DEF Building, Attaching, Loosening
  <2> QED
    BY <1>1, <1>2, <1>3, <2>1, Joined
<1> HIDE DEF S
<1>6. /\ A \in Seq(Steps) /\ Ahead(A)
      /\ \A X : Has(A, X) <=> SizeChanges(k) /\ ((config[k].reattach /\ "detach" \in X) \/ "resize" \in X)
  BY <1>5, HasIf, IfFacts, AheadIf
<1> DEFINE InA(X) == SizeChanges(k) /\ ((config[k].reattach /\ "detach" \in X) \/ "resize" \in X)
           InB(X) == DeviceChanges(k) /\ "detach" \in X
           InC(X) == IF a THEN "attach" \in X ELSE "detach" \in X
           InD(X) == ProtectionChanges(k) /\ "protect" \in X
<1> HIDE DEF A
<1>7. AB \in Seq(Steps) /\ Ahead(AB) /\ \A X : Has(AB, X) <=> InA(X) \/ InB(X)
  <2>1. ~Has(A, Building)
    BY <1>1, <1>2, <1>3, <1>6 DEF Building, Attaching, Loosening
  <2> QED
    BY <1>1, <1>2, <1>3, <1>6, <2>1, Joined
<1> HIDE DEF AB
<1>8. ABC \in Seq(Steps) /\ Ahead(ABC) /\ \A X : Has(ABC, X) <=> InA(X) \/ InB(X) \/ InC(X)
  <2>1. ~Has(AB, Building)
    BY <1>1, <1>2, <1>3, <1>7 DEF Building, Attaching, Loosening
  <2> QED
    BY <1>1, <1>2, <1>3, <1>7, <2>1, Joined
<1> HIDE DEF ABC
<1>9. ABCD \in Seq(Steps) /\ Ahead(ABCD) /\ \A X : Has(ABCD, X) <=> InA(X) \/ InB(X) \/ InC(X) \/ InD(X)
  <2>1. ~Has(D, Loosening)
    BY <1>1, <1>2, <1>3, <1>8 DEF Building, Attaching, Loosening
  <2> QED
    BY <1>1, <1>2, <1>3, <1>8, <2>1, Joined
<1> HIDE DEF ABCD
<1>10. LastRead(U) /\ Ahead(U) /\ \A X : Has(U, X) <=> InA(X) \/ InB(X) \/ InC(X) \/ InD(X) \/ "read" \in X
  <2>1. ~Has(<<"read">>, Loosening)
    BY <1>1, <1>2, <1>3, <1>9 DEF Building, Attaching, Loosening
  <2>2. ~Has(ABCD, {"read"} \cup Recovering)
    BY <1>1, <1>2, <1>3, <1>9 DEF Recovering
  <2> QED
    BY <1>1, <1>2, <1>3, <1>9, <2>1, <2>2, Joined, LastReadConcat
<1> HIDE DEF U
<1>11. ASSUME Seen(k) PROVE Promise(U, volume[k], Planned(k))
  <2>1. /\ Has(U, {"make", "resize"}) <=> SizeChanges(k)
        /\ ~Has(U, {"make"})
        /\ Has(U, {"protect"}) <=> ProtectionChanges(k)
        /\ Has(U, Attaching) <=> a
        /\ ~a \/ DeviceChanges(k) => Has(U, Loosening)
    BY <1>10, ConfigFacts DEF Loosening, Attaching
  <2>2. /\ Planned(k).attach = a
        /\ Planned(k).vm = IF config[k].vm = NoMachine THEN saved[k].vm ELSE config[k].vm
    BY PlannedFacts DEF Intends
  <2>3. /\ SizeChanges(k) \/ volume[k].size = Planned(k).size
        /\ ProtectionChanges(k) \/ volume[k].protected = Planned(k).protected
        /\ volume[k].vm # NoMachine => saved[k].vm = volume[k].vm /\ (DeviceChanges(k) \/ volume[k].device = Planned(k).device)
    BY <1>11 DEF Seen, SizeChanges, ProtectionChanges, DeviceChanges, Attached
  <2>4. a /\ Planned(k).vm = NoMachine => volume[k].vm = NoMachine
    BY <2>2, <2>3
  <2> QED
    BY <1>10, <2>1, <2>2, <2>3, <2>4 DEF Promise
<1> QED
  BY <1>4, <1>10, <1>11

LEMMA DeleteLeft == LastRead(<<"detach", "drop">>) /\ ~Has(<<"detach", "drop">>, {"read"})
  BY DEF LastRead, Has

(* What one step of a handler does to it. *)

\* The handlers of the others, their volumes and their state are left alone.
LEMMA OthersWork ==
  ASSUME OInv, NEW k \in Disks, NEW j \in Disks \ {k}, OwnVolume(k), Remembered, UNCHANGED config,
         h'[j] = h[j], saved'[j] = saved[j], told'[j] = told[j], fresh' \subseteq fresh
  PROVE  /\ Working(j)' /\ (j \in fresh' => Idle(j)' /\ (Undisturbed' /\ saved'[j].exists => Seen(j)'))
         /\ (~saved'[j].exists => saved'[j] = NoDisk)
         /\ told'[j] = "ok" => /\ Idle(j)' /\ saved'[j].exists /\ j \notin fresh'
                               /\ Undisturbed' => AsConfigured(j)' \/ Moved(j)'
<1>1. volume'[j] = volume[j] /\ (Undisturbed' => Undisturbed)
  BY DEF OwnVolume, Undisturbed, Remembered
<1>2. Working(j)'
  BY <1>1 DEF OInv, Working
<1>3. j \in fresh' => Idle(j)' /\ (Undisturbed' /\ saved'[j].exists => Seen(j)')
  BY <1>1 DEF OInv, Looked, Idle, Seen, Attached
<1>4. told'[j] = "ok" => /\ Idle(j)' /\ saved'[j].exists /\ j \notin fresh'
                         /\ Undisturbed' => AsConfigured(j)' \/ Moved(j)'
  BY <1>1 DEF OInv, Applied, Idle, AsConfigured, Moved, Attached, Aimless
<1> QED
  BY <1>2, <1>3, <1>4 DEF OInv, Forgotten

LEMMA GoOnwards ==
  ASSUME IInv, OInv, NEW k \in Disks, NEW steps, ~Idle(k), GoesTo(k, steps), OwnVolume(k), Remembered,
         UNCHANGED <<saved, told, fresh, config>>, LastRead(steps), Has(steps, {"read"}) => Has(h[k].todo, {"read"}),
         Undisturbed /\ Has(steps, {"read"}) => Promise(steps, volume'[k], h[k].d)
  PROVE  OInv'
<1>1. /\ DOMAIN h' = Disks /\ (\A j \in Disks \ {k} : h'[j] = h[j])
      /\ h'[k].todo = steps /\ h'[k].op = h[k].op /\ h'[k].d = h[k].d
  BY DEF IInv, TypeOK, GoesTo
<1>2. Shape'
  BY <1>1 DEF OInv, Shape
<1>3. k \notin fresh /\ told[k] # "ok"
  BY DEF OInv, Looked, Applied
<1>4. Working(k)'
  BY <1>1 DEF OInv, Working, Undisturbed, Remembered
<1>5. (\A j \in Disks : Working(j)') /\ Looked' /\ Applied' /\ Forgotten'
  <2>1. \A j \in Disks \ {k} :
          /\ Working(j)' /\ (j \in fresh' => Idle(j)' /\ (Undisturbed' /\ saved'[j].exists => Seen(j)'))
          /\ (~saved'[j].exists => saved'[j] = NoDisk)
          /\ told'[j] = "ok" => /\ Idle(j)' /\ saved'[j].exists /\ j \notin fresh'
                                /\ Undisturbed' => AsConfigured(j)' \/ Moved(j)'
    BY <1>1, OthersWork
  <2>2. \A j \in fresh' : j \in Disks
    BY <1>1 DEF OInv, Looked
  <2> QED
    BY <1>1, <1>3, <1>4, <2>1, <2>2 DEF Looked, Applied, Forgotten, OInv
<1> QED
  BY <1>2, <1>5 DEF OInv

LEMMA Ends ==
  ASSUME IInv, OInv, NEW k \in Disks, NEW state, NEW result, ~Idle(k), Stop(k, state, result), OwnVolume(k), Remembered,
         UNCHANGED config, DOMAIN state = DiskFields, ~state.exists => state = NoDisk,
         result = "ok" => state.exists /\ (Undisturbed' => AsConfigured(k)' \/ Moved(k)')
  PROVE  OInv'
<1>1. /\ DOMAIN h' = Disks /\ (\A j \in Disks \ {k} : h'[j] = h[j]) /\ h'[k] = NoHandler
      /\ DOMAIN saved' = Disks /\ (\A j \in Disks \ {k} : saved'[j] = saved[j]) /\ saved'[k] = state
      /\ DOMAIN told' = Disks /\ (\A j \in Disks \ {k} : told'[j] = told[j]) /\ told'[k] = result
      /\ fresh' = fresh
  BY StopFacts DEF IInv, Stop, OInv, Shape
<1>2. NoHandler.todo = <<>> /\ NoHandler.op = "idle" /\ DOMAIN NoHandler.d = DiskFields
  BY DEF NoHandler, NoDisk, DiskFields
<1>3. Shape'
  BY <1>1, <1>2 DEF OInv, Shape
<1>4. Working(k)' /\ Idle(k)' /\ k \notin fresh'
  BY <1>1, <1>2 DEF OInv, Looked, Working, Idle, LastRead, Has
<1>5. \A j \in Disks \ {k} :
        /\ Working(j)' /\ (j \in fresh' => Idle(j)' /\ (Undisturbed' /\ saved'[j].exists => Seen(j)'))
        /\ (~saved'[j].exists => saved'[j] = NoDisk)
        /\ told'[j] = "ok" => /\ Idle(j)' /\ saved'[j].exists /\ j \notin fresh'
                              /\ Undisturbed' => AsConfigured(j)' \/ Moved(j)'
  BY <1>1, OthersWork
<1>6. Looked' /\ Applied' /\ Forgotten'
  <2>1. \A j \in fresh' : j \in Disks
    BY <1>1 DEF OInv, Looked
  <2> QED
    BY <1>1, <1>4, <1>5, <2>1 DEF Looked, Applied, Forgotten
<1> QED
  BY <1>3, <1>4, <1>5, <1>6 DEF OInv

\* A handler that fails keeps what it planned, unless it made nothing.
LEMMA FailFacts ==
  ASSUME IInv, OInv, NEW k \in Disks, ~Idle(k), ReturnError(k), OwnVolume(k), Remembered, UNCHANGED config
  PROVE  OInv'
<1> DEFINE state == CASE h[k].op = "destroy" \/ At(k, "make") -> saved[k]
                      [] h[k].op = "create" /\ ~At(k, "make") -> [h[k].d EXCEPT !.tainted = TRUE]
                      [] OTHER -> h[k].d
<1>1. Stop(k, state, "error")
  BY DEF ReturnError
<1>2. DOMAIN state = DiskFields /\ (~state.exists => state = NoDisk)
  <2>1. state = saved[k] \/ (h[k].op # "destroy" /\ state \in {[h[k].d EXCEPT !.tainted = TRUE], h[k].d})
    OBVIOUS
  <2>2. h[k].op \in {"create", "update", "destroy"}
    BY DEF OInv, Shape, Idle
  <2>3. h[k].op # "destroy" => h[k].d.exists
    BY <2>2 DEF OInv, Working, Intends
  <2> HIDE DEF state
  <2> QED
    BY <2>1, <2>3 DEF OInv, Shape, Forgotten, DiskFields
<1> HIDE DEF state
<1> QED
  BY <1>1, <1>2, Ends

LEMMA Proceeds ==
  ASSUME IInv, OInv, NEW k \in Disks, NEW x, At(k, x), x # "read", Proceed(k), OwnVolume(k), Remembered, UNCHANGED config,
         Undisturbed /\ Has(h[k].todo, {"read"}) /\ Promise(h[k].todo, volume[k], h[k].d)
           => Promise(Tail(h[k].todo), volume'[k], h[k].d)
  PROVE  OInv'
<1> DEFINE t == h[k].todo
<1>1. t \in Seq(Steps) /\ t # <<>> /\ ~Idle(k) /\ Working(k)
  BY DEF At, IInv, TypeOK, OInv
<1>2. LastRead(Tail(t)) /\ (Has(Tail(t), {"read"}) => Has(t, {"read"}))
  BY <1>1, TailLeft DEF Working
<1>3. GoesTo(k, Tail(t)) /\ UNCHANGED <<saved, told, fresh>>
  BY GotoFacts DEF Proceed, Rest, IInv, Goto
<1>4. Undisturbed /\ Has(Tail(t), {"read"}) => Promise(Tail(t), volume'[k], h[k].d)
  BY <1>1, <1>2 DEF Working
<1> HIDE DEF t
<1> QED
  BY <1>1, <1>2, <1>3, <1>4, GoOnwards DEF t

LEMMA AtFacts ==
  ASSUME IInv, OInv, NEW k \in Disks, NEW x, At(k, x)
  PROVE  /\ h[k].todo \in Seq(Steps) /\ h[k].todo # <<>> /\ Head(h[k].todo) = x /\ ~Idle(k)
         /\ h[k].op \in {"create", "update"} => {h[k].d.attach, h[k].d.protected} \subseteq BOOLEAN
<1>1. h[k].todo \in Seq(Steps) /\ h[k].todo # <<>> /\ Head(h[k].todo) = x /\ ~Idle(k)
  BY DEF At, Now, IInv, TypeOK
<1>2. h[k].op \in {"create", "update"} => {h[k].d.attach, h[k].d.protected} \subseteq BOOLEAN
  BY ConfigFacts DEF OInv, Working, Intends
<1> QED
  BY <1>1, <1>2

\* What a call did to the handler's volume, as PromiseStep wants it.
Fits(x, v, w, d) ==
  /\ w.size = IF x \in {"make", "resize"} THEN d.size ELSE v.size
  /\ w.protected = IF x = "make" THEN FALSE ELSE IF x = "protect" THEN d.protected ELSE v.protected
  /\ x \in Loosening => w.vm = NoMachine
  /\ x \in Attaching => \/ w.vm = v.vm /\ w.device = v.device /\ (d.vm # NoMachine => v.vm # NoMachine)
                        \/ w.vm = d.vm /\ d.device \in {NoDevice, w.device}
  /\ x \notin Loosening \cup Attaching => w.vm = v.vm /\ w.device = v.device

LEMMA FittingStep ==
  ASSUME IInv, OInv, NEW k \in Disks, NEW x, At(k, x), x # "read", Proceed(k), OwnVolume(k), Remembered, UNCHANGED config,
         Has(h[k].todo, {"read"}) => Fits(x, volume[k], volume'[k], h[k].d)
  PROVE  OInv'
<1>1. h[k].todo \in Seq(Steps) /\ h[k].todo # <<>> /\ Head(h[k].todo) = x
      /\ (h[k].op \in {"create", "update"} => {h[k].d.attach, h[k].d.protected} \subseteq BOOLEAN)
  BY AtFacts
<1>2. Has(h[k].todo, {"read"}) => h[k].op \in {"create", "update"}
  BY DEF OInv, Working
<1>3. Has(h[k].todo, {"read"}) /\ Promise(h[k].todo, volume[k], h[k].d) => Promise(Tail(h[k].todo), volume'[k], h[k].d)
  <2> DEFINE t == h[k].todo
             v == volume[k]
             w == volume'[k]
             d == h[k].d
  <2>1. /\ t \in Seq(Steps) /\ t # <<>> /\ Head(t) = x
        /\ Has(t, {"read"}) => Fits(x, v, w, d) /\ {d.attach, d.protected} \subseteq BOOLEAN
    BY <1>1, <1>2
  <2> HIDE DEF t, v, w, d
  <2>2. Has(t, {"read"}) /\ Promise(t, v, d) => Promise(Tail(t), w, d)
    BY <2>1, PromiseStep DEF Fits
  <2> QED
    BY <2>2 DEF t, v, w, d
<1> QED
  BY <1>3, Proceeds

LEMMA MakeKeeps == ASSUME IInv, OInv, NEW k \in Disks, MakeVolume(k) PROVE OInv'
<1>1. At(k, "make") /\ ~Idle(k) /\ UNCHANGED config /\ Remembered /\ OwnVolume(k)
  BY NoFaultFacts, FaultFacts, SameVolumes DEF MakeVolume, Outside, IInv, TypeOK, OwnVolume, NoVolume, At
<1>2. \/ ReturnError(k)
      \/ Proceed(k) /\ volume' = [volume EXCEPT ![k] = [NoVolume EXCEPT !.exists = TRUE, !.size = h[k].d.size]]
  BY DEF MakeVolume
<1>3. CASE Proceed(k) /\ volume' = [volume EXCEPT ![k] = [NoVolume EXCEPT !.exists = TRUE, !.size = h[k].d.size]]
  <2>1. Fits("make", volume[k], volume'[k], h[k].d)
    BY <1>3 DEF IInv, TypeOK, Fits, NoVolume, Loosening, Attaching
  <2> QED
    BY <1>1, <1>3, <2>1, FittingStep
<1> QED
  BY <1>1, <1>2, <1>3, FailFacts

LEMMA ProtectKeeps == ASSUME IInv, OInv, NEW k \in Disks, ProtectVolume(k) PROVE OInv'
<1> DEFINE volumes == [volume EXCEPT ![k].protected = h[k].d.protected]
<1>0. volume' = volumes => OwnVolume(k) /\ Fits("protect", volume[k], volume'[k], h[k].d)
  BY DEF IInv, TypeOK, OwnVolume, Fits, Loosening, Attaching
<1>1. At(k, "protect") /\ Call(k, ~volume[k].exists, volumes, running)
  BY DEF ProtectVolume
<1> HIDE DEF volumes
<1>2. ~Idle(k) /\ UNCHANGED config /\ Remembered /\ OwnVolume(k)
  BY <1>0, <1>1, NoFaultFacts, FaultFacts, SameVolumes DEF Call, CallOr, Try, Outside, IInv, At
<1>3. (Proceed(k) /\ volume' = volumes) \/ ReturnError(k)
  BY <1>1 DEF Call, CallOr, Try
<1> QED
  BY <1>0, <1>1, <1>2, <1>3, FittingStep, FailFacts

LEMMA ResizeKeeps == ASSUME IInv, OInv, NEW k \in Disks, ResizeVolume(k) PROVE OInv'
<1> DEFINE volumes == [volume EXCEPT ![k].size = h[k].d.size]
<1>0. volume' = volumes => OwnVolume(k) /\ Fits("resize", volume[k], volume'[k], h[k].d)
  BY DEF IInv, TypeOK, OwnVolume, Fits, Loosening, Attaching
<1>1. At(k, "resize") /\ Call(k, ~volume[k].exists, volumes, running)
  BY DEF ResizeVolume
<1> HIDE DEF volumes
<1>2. ~Idle(k) /\ UNCHANGED config /\ Remembered /\ OwnVolume(k)
  BY <1>0, <1>1, NoFaultFacts, FaultFacts, SameVolumes DEF Call, CallOr, Try, Outside, IInv, At
<1>3. (Proceed(k) /\ volume' = volumes) \/ ReturnError(k)
  BY <1>1 DEF Call, CallOr, Try
<1> QED
  BY <1>0, <1>1, <1>2, <1>3, FittingStep, FailFacts

\* The step is replaced by the one that does it.
LEMMA LooksAndDoes ==
  ASSUME IInv, OInv, NEW k \in Disks, NEW y \in {"attachIt", "detachIt"}, At(k, IF y = "attachIt" THEN "attach" ELSE "detach"),
         Goto(k, <<y>> \o Rest(k)), UNCHANGED <<volume, config>>, Remembered
  PROVE  OInv'
<1> DEFINE t == h[k].todo
           s == <<y>> \o Tail(t)
<1>1. t \in Seq(Steps) /\ t # <<>> /\ ~Idle(k) /\ Working(k) /\ Head(t) = IF y = "attachIt" THEN "attach" ELSE "detach"
  BY AtFacts DEF OInv
<1>2. GoesTo(k, s) /\ UNCHANGED <<saved, told, fresh>>
  BY GotoFacts DEF Rest, IInv, Goto
<1> HIDE DEF t
<1>3. LastRead(s) /\ (Has(s, {"read"}) => Has(t, {"read"}))
  BY <1>1, ReplaceLeft, TailLeft DEF Working, t
<1>4. Undisturbed /\ Has(s, {"read"}) => Promise(s, volume'[k], h[k].d)
  <2>1. Undisturbed /\ Has(t, {"read"}) => Promise(t, volume[k], h[k].d)
    BY <1>1 DEF Working, t
  <2> QED
    BY <1>1, <1>3, <2>1, PromiseReplaced
<1>5. OwnVolume(k)
  BY SameVolumes DEF IInv
<1> HIDE DEF s
<1> QED
  BY <1>1, <1>2, <1>3, <1>4, <1>5, GoOnwards DEF t

LEMMA CheckAttachedKeeps == ASSUME IInv, OInv, NEW k \in Disks, CheckAttached(k) PROVE OInv'
<1>1. At(k, "attach") /\ ~Idle(k) /\ UNCHANGED <<volume, config>> /\ Remembered /\ OwnVolume(k)
  BY NoFaultFacts, FaultFacts, SameVolumes DEF CheckAttached, Look, CallOr, Try, Outside, IInv, At
<1>2. \/ Proceed(k) /\ (h[k].d.vm # NoMachine => Attached(k))
      \/ ReturnError(k)
      \/ Goto(k, <<"attachIt">> \o Rest(k))
  BY DEF CheckAttached, Look, CallOr, Try
<1>3. CASE Proceed(k) /\ (h[k].d.vm # NoMachine => Attached(k))
  <2>1. Fits("attach", volume[k], volume'[k], h[k].d)
    BY <1>1, <1>3 DEF Fits, Attached, Loosening, Attaching
  <2> QED
    BY <1>1, <1>3, <2>1, FittingStep
<1> QED
  BY <1>1, <1>2, <1>3, FailFacts, LooksAndDoes

LEMMA CheckDetachedKeeps == ASSUME IInv, OInv, NEW k \in Disks, CheckDetached(k) PROVE OInv'
<1>1. At(k, "detach") /\ ~Idle(k) /\ UNCHANGED <<volume, config>> /\ Remembered /\ OwnVolume(k)
  BY NoFaultFacts, FaultFacts, SameVolumes DEF CheckDetached, Look, CallOr, Try, Outside, IInv, At
<1>2. \/ Proceed(k) /\ ~Attached(k)
      \/ ReturnError(k)
      \/ Goto(k, <<"detachIt">> \o Rest(k))
  BY DEF CheckDetached, Look, CallOr, Try
<1>3. CASE Proceed(k) /\ ~Attached(k)
  <2>1. Fits("detach", volume[k], volume'[k], h[k].d)
    BY <1>1, <1>3 DEF Fits, Attached, Loosening, Attaching
  <2> QED
    BY <1>1, <1>3, <2>1, FittingStep
<1> QED
  BY <1>1, <1>2, <1>3, FailFacts, LooksAndDoes

LEMMA AttachKeeps == ASSUME IInv, OInv, NEW k \in Disks, AttachVolume(k) PROVE OInv'
<1> DEFINE refused == AttachRefused(k, h[k].d.vm, h[k].d.device)
           attached == [volume EXCEPT ![k].vm = h[k].d.vm, ![k].device = DeviceFor(h[k].d.vm, h[k].d.device)]
           volumes == IF refused THEN volume ELSE attached
<1>0. volume' = attached => OwnVolume(k) /\ Fits("attachIt", volume[k], volume'[k], h[k].d)
  BY DEF IInv, TypeOK, OwnVolume, Fits, Loosening, Attaching, DeviceFor
<1> HIDE DEF attached
<1>1. At(k, "attachIt") /\ CallOr(refused, volumes, running, Proceed(k), AttachAgain(k))
  BY DEF AttachVolume, attached
<1> HIDE DEF refused
<1>2. ~Idle(k) /\ UNCHANGED config /\ Remembered /\ OwnVolume(k)
  BY <1>0, <1>1, NoFaultFacts, FaultFacts, SameVolumes DEF CallOr, Try, Outside, IInv, At
<1>3. \/ Proceed(k) /\ volume' = attached
      \/ AttachAgain(k) /\ volume' \in {volume, attached}
  BY <1>1 DEF CallOr, Try
<1>4. CASE AttachAgain(k) /\ volume' \in {volume, attached} /\ ~ReturnError(k)
  \* The answer was lost: whatever was promised still is, as the step is still there.
  <2> DEFINE t == h[k].todo
             d == h[k].d
  <2>1. /\ h' = [h EXCEPT ![k].tries = @ - 1] /\ UNCHANGED <<saved, told, fresh>>
        /\ t \in Seq(Steps) /\ t # <<>> /\ Head(t) = "attachIt" /\ Working(k)
        /\ Has(t, {"read"}) => {d.attach, d.protected} \subseteq BOOLEAN
    BY <1>1, <1>4, AtFacts DEF AttachAgain, OInv, Working
  <2>2. GoesTo(k, t)
    BY <2>1 DEF IInv, TypeOK, GoesTo
  <2>3. Undisturbed /\ Has(t, {"read"}) => Promise(t, volume'[k], d)
    <3> DEFINE v == volume[k]
               w == volume'[k]
    <3> SUFFICES ASSUME Undisturbed, Has(t, {"read"}) PROVE Promise(t, w, d)
      OBVIOUS
    <3>1. Promise(t, v, d) /\ {d.attach, d.protected} \subseteq BOOLEAN
      BY <2>1 DEF Working
    <3>2. volume' = volume => Promise(t, w, d)
      BY <3>1
    <3>3. volume' = attached => w.size = v.size /\ w.protected = v.protected /\ w.vm = d.vm /\ d.device \in {NoDevice, w.device}
      BY DEF attached, IInv, TypeOK, DeviceFor
    <3> HIDE DEF t, d, v, w
    <3>4. /\ \A X : Has(t, X) <=> "attachIt" \in X \/ Has(Tail(t), X)
          /\ ~Has(Tail(t), Loosening)
      BY <2>1, <3>1, TailLeft DEF Promise, t, Building, Attaching
    <3>5. Has(t, Attaching) /\ ~Has(t, Loosening) /\ d.attach
      BY <3>1, <3>4 DEF Promise, Attaching, Loosening
    <3>6. w.size = v.size /\ w.protected = v.protected /\ w.vm = d.vm /\ d.device \in {NoDevice, w.device} => Promise(t, w, d)
      BY <3>1, <3>5 DEF Promise
    <3> QED
      BY <1>4, <3>2, <3>3, <3>6
  <2>4. LastRead(t)
    BY <2>1 DEF Working
  <2> HIDE DEF t, d
  <2> QED
    BY <1>2, <2>1, <2>2, <2>3, <2>4, GoOnwards DEF t, d
<1> QED
  BY <1>0, <1>1, <1>2, <1>3, <1>4, FittingStep, FailFacts

\* A recovery ends with the error it recovered from, and so promises nothing.
LEMMA RecoveryLeft == LastRead(Recovery) /\ ~Has(Recovery, {"read"})
  BY DEF Recovery, LastRead, Has

LEMMA DetachKeeps == ASSUME IInv, OInv, NEW k \in Disks, DetachVolume(k) PROVE OInv'
<1>1. At(k, "detachIt") /\ ~Idle(k) /\ UNCHANGED config /\ Remembered /\ OwnVolume(k)
  BY NoFaultFacts, FaultFacts, SameVolumes, LooseFacts DEF DetachVolume, CallOr, Try, Outside, IInv, At
<1>2. \/ Proceed(k) /\ volume' = Loose(k)
      \/ ReturnError(k)
      \/ Goto(k, Recovery)
  BY DEF DetachVolume, CallOr, Try
<1>3. CASE Proceed(k) /\ volume' = Loose(k)
  <2>1. Fits("detachIt", volume[k], volume'[k], h[k].d)
    BY <1>3 DEF IInv, TypeOK, Loose, Fits, Loosening, Attaching
  <2> QED
    BY <1>1, <1>3, <2>1, FittingStep
<1>4. CASE Goto(k, Recovery)
  <2>1. GoesTo(k, Recovery) /\ UNCHANGED <<saved, told, fresh>>
    BY <1>4, GotoFacts DEF IInv, Goto
  <2> QED
    BY <1>1, <2>1, RecoveryLeft, GoOnwards
<1> QED
  BY <1>1, <1>2, <1>3, <1>4, FailFacts

\* Nor does what is left of it.
LEMMA RecoverKeeps ==
  ASSUME IInv, OInv, NEW k \in Disks, NEW x \in {"stop", "detachAgain", "start"}, At(k, x), Proceed(k) \/ ReturnError(k),
         OwnVolume(k), Remembered, UNCHANGED config
  PROVE  OInv'
<1>1. ~Idle(k) /\ h[k].todo \in Seq(Steps) /\ h[k].todo # <<>> /\ Head(h[k].todo) = x
  BY AtFacts
<1>2. ~Has(h[k].todo, {"read"})
  <2>1. Has(h[k].todo, Recovering)
    BY <1>1, TailLeft DEF Recovering
  <2> QED
    BY <2>1 DEF OInv, Working, LastRead, Has
<1>3. CASE Proceed(k)
  BY <1>2, <1>3, Proceeds
<1> QED
  BY <1>1, <1>3, FailFacts

LEMMA StopKeeps == ASSUME IInv, OInv, NEW k \in Disks, StopMachine(k) PROVE OInv'
<1>1. At(k, "stop") /\ UNCHANGED <<volume, config>> /\ Remembered /\ OwnVolume(k) /\ (Proceed(k) \/ ReturnError(k))
  BY NoFaultFacts, FaultFacts, SameVolumes DEF StopMachine, Try, IInv
<1> QED
  BY <1>1, RecoverKeeps

LEMMA DetachAgainKeeps == ASSUME IInv, OInv, NEW k \in Disks, DetachVolumeAgain(k) PROVE OInv'
<1>1. At(k, "detachAgain") /\ UNCHANGED config /\ Remembered /\ OwnVolume(k) /\ (Proceed(k) \/ ReturnError(k))
  BY NoFaultFacts, FaultFacts, SameVolumes, LooseFacts DEF DetachVolumeAgain, Call, CallOr, Try, Outside, IInv
<1> QED
  BY <1>1, RecoverKeeps

LEMMA StartKeeps == ASSUME IInv, OInv, NEW k \in Disks, StartMachine(k) PROVE OInv'
<1>1. At(k, "start") /\ UNCHANGED <<volume, config>> /\ Remembered /\ OwnVolume(k) /\ (Proceed(k) \/ ReturnError(k))
  BY NoFaultFacts, FaultFacts, SameVolumes DEF StartMachine, Try, IInv
<1> QED
  BY <1>1, RecoverKeeps

LEMMA LastKeeps == ASSUME IInv, OInv, NEW k \in Disks, ReturnFirstError(k) PROVE OInv'
<1>1. ~Idle(k) /\ ReturnError(k) /\ UNCHANGED <<volume, config>> /\ Remembered /\ OwnVolume(k)
  BY NoFaultFacts, SameVolumes DEF ReturnFirstError, Outside, IInv
<1> QED
  BY <1>1, FailFacts

LEMMA DropKeeps == ASSUME IInv, OInv, NEW k \in Disks, DropVolume(k) PROVE OInv'
<1> DEFINE volumes == [volume EXCEPT ![k] = NoVolume]
<1>0. volume' = volumes => OwnVolume(k)
  BY DEF IInv, TypeOK, OwnVolume, NoVolume
<1>1. At(k, "drop") /\ CallOr(DeleteRefused(k), volumes, running, Stop(k, NoDisk, "none"), ReturnError(k))
  BY DEF DropVolume
<1> HIDE DEF volumes
<1>2. ~Idle(k) /\ UNCHANGED config /\ Remembered /\ OwnVolume(k)
  BY <1>0, <1>1, NoFaultFacts, FaultFacts, SameVolumes DEF CallOr, Try, Outside, IInv, At
<1>3. Stop(k, NoDisk, "none") \/ ReturnError(k)
  BY <1>1 DEF CallOr, Try
<1>4. DOMAIN NoDisk = DiskFields
  BY DEF NoDisk, DiskFields
<1> QED
  BY <1>2, <1>3, <1>4, Ends, FailFacts

\* The Read at the end finds what was promised.
LEMMA ReadKeeps == ASSUME IInv, OInv, NEW k \in Disks, ReturnRead(k) PROVE OInv'
<1> DEFINE d == h[k].d
           state == ReadDisk([d EXCEPT !.tainted = FALSE], k)
           result == IF volume[k].exists THEN "ok" ELSE "error"
           t == h[k].todo
<1>1. At(k, "read") /\ ~Idle(k) /\ UNCHANGED <<volume, config>> /\ Remembered /\ OwnVolume(k)
  BY NoFaultFacts, FaultFacts, SameVolumes DEF ReturnRead, Look, CallOr, Try, Outside, IInv, At
<1>2. Stop(k, state, result) \/ ReturnError(k)
  BY DEF ReturnRead, Look, CallOr, Try
<1>3. /\ t \in Seq(Steps) /\ t # <<>> /\ Head(t) = "read" /\ Working(k)
      /\ h[k].op \in {"create", "update"} /\ Has(t, {"read"}) /\ Intends(d, config[k]) /\ DOMAIN d = DiskFields
  <2>1. t \in Seq(Steps) /\ t # <<>> /\ Head(t) = "read" /\ Working(k) /\ DOMAIN d = DiskFields
    BY <1>1, AtFacts DEF OInv, Shape
  <2>2. Has(t, {"read"})
    BY <2>1, TailLeft
  <2> QED
    BY <2>1, <2>2 DEF Working
<1>4. CASE Stop(k, state, result)
  <2>1. DOMAIN state = DiskFields /\ (~state.exists => state = NoDisk) /\ (volume[k].exists => state.exists)
    BY <1>3 DEF ReadDisk, NoDisk, DiskFields, Intends
  <2>2. ASSUME volume[k].exists, Undisturbed' PROVE AsConfigured(k)' \/ Moved(k)'
    <3>1. \A X : Has(t, X) <=> "read" \in X
      BY <1>3, TailLeft DEF Working
    <3>2. ~Has(t, {"make", "resize"}) /\ ~Has(t, {"protect"}) /\ ~Has(t, {"make"}) /\ ~Has(t, Attaching) /\ ~Has(t, Loosening)
      BY <3>1 DEF Attaching, Loosening
    <3>3. Promise(t, volume[k], d)
      BY <1>1, <1>3, <2>2 DEF Working, Undisturbed, Remembered
    <3> DEFINE v == volume[k]
               c == config[k]
    <3>4. /\ v.size = d.size /\ v.protected = d.protected
          /\ d.attach /\ d.vm # NoMachine => v.vm # NoMachine
          /\ ~d.attach \/ d.vm = NoMachine => v.vm = NoMachine
          /\ v.vm # NoMachine => d.device \in {NoDevice, v.device}
      BY <3>2, <3>3 DEF Promise
    <3>5. saved'[k].vm = IF v.vm # NoMachine THEN v.vm ELSE d.vm
      BY <1>3, <1>4, <2>2 DEF Stop, ReadDisk, Attached, OInv, Shape, DiskFields
    <3>6. d.size = c.size /\ d.protected = c.protected /\ d.attach = c.attach /\ c.attach \in BOOLEAN
          /\ (d.device = c.device \/ c.device = NoDevice)
      BY <1>3, ConfigFacts DEF Intends, OInv
    <3>7. volume'[k] = v /\ config'[k] = c
      BY <1>1
    <3> HIDE DEF v, c, d
    <3>8. (v.vm # NoMachine) = (c.attach /\ ~(c.attach /\ saved'[k].vm = NoMachine))
      BY <3>4, <3>5, <3>6
    <3>9. v.vm # NoMachine => c.attach /\ c.device \in {NoDevice, v.device}
      BY <3>4, <3>6
    <3>10. CASE v.vm # NoMachine /\ c.vm \notin {NoMachine, v.vm}
      BY <3>7, <3>9, <3>10 DEF Moved, Attached
    <3>11. CASE ~(v.vm # NoMachine /\ c.vm \notin {NoMachine, v.vm})
      BY <3>4, <3>6, <3>7, <3>8, <3>9, <3>11 DEF AsConfigured, Attached, Aimless
    <3> QED
      BY <3>10, <3>11
  <2>3. result = "ok" => volume[k].exists
    OBVIOUS
  <2> HIDE DEF state, result
  <2> QED
    BY <1>1, <1>4, <2>1, <2>2, <2>3, Ends
<1> HIDE DEF state, result
<1> QED
  BY <1>1, <1>2, <1>4, FailFacts

LEMMA HandlerKeeps == ASSUME IInv, OInv, NEW k \in Disks, Handler(k) PROVE OInv'
  BY MakeKeeps, ProtectKeeps, ResizeKeeps, CheckAttachedKeeps, AttachKeeps, CheckDetachedKeeps, DetachKeeps, StopKeeps,
     DetachAgainKeeps, StartKeeps, LastKeeps, DropKeeps, ReadKeeps
  DEF Handler

(* Terraform and the environment. *)

LEMMA LaunchKeeps ==
  ASSUME IInv, OInv, NEW k \in Disks, NEW op \in {"create", "update", "destroy"}, NEW steps, NEW d,
         Idle(k), Launch(k, op, steps, d), told[k] # "ok", DOMAIN d = DiskFields, LastRead(steps),
         Has(steps, {"read"}) => op # "destroy", op # "destroy" => Intends(d, config[k]),
         Undisturbed /\ Has(steps, {"read"}) => Promise(steps, volume[k], d)
  PROVE  OInv'
<1>1. /\ DOMAIN h' = Disks /\ (\A j \in Disks \ {k} : h'[j] = h[j])
      /\ h'[k].todo = steps /\ h'[k].op = op /\ h'[k].d = d
      /\ UNCHANGED <<volume, config, saved, told, faults>> /\ fresh' = fresh \ {k}
  BY DEF Launch, IInv, TypeOK
<1>2. OwnVolume(k) /\ Remembered
  BY <1>1, SameVolumes DEF IInv, Remembered
<1>3. Shape'
  BY <1>1 DEF OInv, Shape
<1>4. Working(k)' /\ k \notin fresh'
  BY <1>1 DEF Working, Undisturbed
<1>5. \A j \in Disks \ {k} :
        /\ Working(j)' /\ (j \in fresh' => Idle(j)' /\ (Undisturbed' /\ saved'[j].exists => Seen(j)'))
        /\ (~saved'[j].exists => saved'[j] = NoDisk)
        /\ told'[j] = "ok" => /\ Idle(j)' /\ saved'[j].exists /\ j \notin fresh'
                              /\ Undisturbed' => AsConfigured(j)' \/ Moved(j)'
  BY <1>1, <1>2, OthersWork
<1>6. Looked' /\ Applied' /\ Forgotten'
  <2>1. \A j \in fresh' : j \in Disks
    BY <1>1 DEF OInv, Looked
  <2> QED
    BY <1>1, <1>4, <1>5, <2>1 DEF Looked, Applied, Forgotten, OInv
<1> QED
  BY <1>3, <1>4, <1>5, <1>6 DEF OInv

LEMMA ApplyKeeps == ASSUME IInv, OInv, NEW k \in Disks, Apply(k) PROVE OInv'
<1>1. Shape /\ DOMAIN saved[k] = DiskFields /\ DOMAIN Planned(k) = DiskFields /\ Intends(Planned(k), config[k])
  BY PlannedFacts DEF OInv, Shape
<1>2. CASE Create(k)
  <2>1. told[k] # "ok"
    BY <1>2 DEF Create, OInv, Applied
  <2> QED
    BY <1>1, <1>2, <2>1, CreatePromise, LaunchKeeps DEF Create
<1>3. CASE Update(k)
  <2>1. told[k] # "ok" /\ (Undisturbed => Seen(k))
    BY <1>3 DEF Update, OInv, Applied, Looked
  <2> QED
    BY <1>1, <1>3, <2>1, UpdatePromise, LaunchKeeps DEF Update
<1>4. CASE Delete(k)
  <2>1. told[k] # "ok"
    BY <1>4 DEF Delete, OInv, Applied
  <2> QED
    BY <1>1, <1>4, <2>1, DeleteLeft, LaunchKeeps DEF Delete
<1> QED
  BY <1>2, <1>3, <1>4 DEF Apply

\* A Read has seen what there is.
LEMMA RefreshKeeps == ASSUME IInv, OInv, Refresh PROVE OInv'
<1>1. /\ AllIdle /\ UNCHANGED <<volume, config, h, faults>>
      /\ DOMAIN saved' = Disks /\ \A k \in Disks : saved'[k] = IF saved[k].exists THEN ReadDisk(saved[k], k) ELSE saved[k]
      /\ fresh' = {k \in Disks : saved[k].exists}
      /\ DOMAIN told' = Disks /\ \A k \in Disks : told'[k] = "none"
  BY DEF Refresh
<1>2. ASSUME NEW k \in Disks
      PROVE  /\ DOMAIN saved'[k] = DiskFields /\ (~saved'[k].exists => saved'[k] = NoDisk)
             /\ k \in fresh' /\ saved'[k].exists => Seen(k)'
  <2>1. DOMAIN saved[k] = DiskFields /\ (~saved[k].exists => saved[k] = NoDisk)
    BY DEF OInv, Shape, Forgotten
  <2>2. CASE ~saved[k].exists
    BY <1>1, <2>1, <2>2
  <2>3. CASE saved[k].exists /\ ~volume[k].exists
    <3>1. saved'[k] = NoDisk
      BY <1>1, <2>3 DEF ReadDisk
    <3>2. DOMAIN NoDisk = DiskFields /\ ~NoDisk.exists
      BY DEF NoDisk, DiskFields
    <3> QED
      BY <3>1, <3>2
  <2>4. CASE saved[k].exists /\ volume[k].exists
    <3> DEFINE r == ReadDisk(saved[k], k)
    <3>1. /\ DOMAIN r = DiskFields /\ r.exists = saved[k].exists /\ r.size = volume[k].size /\ r.protected = volume[k].protected
          /\ volume[k].vm # NoMachine => r.vm = volume[k].vm /\ r.device = volume[k].device
      BY <2>1, <2>4 DEF ReadDisk, DiskFields, Attached
    <3>2. saved'[k] = r /\ saved'[k].exists
      BY <1>1, <2>4, <3>1
    <3> HIDE DEF r
    <3>3. UNCHANGED volume
      BY <1>1
    <3>4. Seen(k)'
      BY <2>4, <3>1, <3>2, <3>3 DEF Seen, Attached
    <3> QED
      BY <3>1, <3>2, <3>4
  <2> QED
    BY <2>2, <2>3, <2>4
<1>3. Shape' /\ Forgotten' /\ Looked' /\ Applied'
  BY <1>1, <1>2 DEF OInv, Shape, Forgotten, Looked, Applied, AllIdle, Idle
<1>4. \A k \in Disks : Working(k)'
  BY <1>1 DEF OInv, Working, Undisturbed
<1> QED
  BY <1>3, <1>4 DEF OInv

LEMMA IdleWork ==
  ASSUME IInv, OInv, NEW k \in Disks, Idle(k) PROVE ~Has(h[k].todo, {"read"}) /\ LastRead(h[k].todo)
  BY HasNone DEF IInv, Order, OInv, Working

LEMMA NobodyWorks == LastRead(NoHandler.todo) /\ ~Has(NoHandler.todo, {"read"}) /\ NoHandler.op = "idle" /\ DOMAIN NoHandler.d = DiskFields
  BY DEF NoHandler, NoDisk, DiskFields, LastRead, Has

LEMMA CrashKeeps == ASSUME IInv, OInv, Crash PROVE OInv'
<1>1. /\ DOMAIN h' = Disks /\ (\A k \in Disks : h'[k] = NoHandler) /\ Remembered
      /\ UNCHANGED <<volume, config, saved>> /\ fresh' = {}
      /\ DOMAIN told' = Disks /\ \A k \in Disks : told'[k] = "ok" => told[k] = "ok"
  BY FaultFacts DEF Crash
<1>2. Shape' /\ Forgotten' /\ Looked' /\ \A k \in Disks : Working(k)' /\ Idle(k)'
  BY <1>1, NobodyWorks DEF OInv, Shape, Forgotten, Looked, Working, Idle
<1>3. Applied'
  BY <1>1, <1>2 DEF OInv, Applied, Undisturbed, Remembered, AsConfigured, Moved, Attached, Aimless
<1> QED
  BY <1>2, <1>3 DEF OInv

LEMMA EditKeeps == ASSUME IInv, OInv, NEW k \in Disks, Edit(k) PROVE OInv'
<1>1. /\ AllIdle /\ UNCHANGED <<volume, saved, h, faults>> /\ fresh' = {}
      /\ DOMAIN told' = Disks /\ told'[k] = "none" /\ \A j \in Disks \ {k} : told'[j] = told[j]
  BY DEF Edit, OInv, Shape
<1>2. config' \in [Disks -> Configurations] /\ \A j \in Disks \ {k} : config'[j] = config[j]
  <2>1. PICK c \in Configs[k] \cup {Absent} : config' = [config EXCEPT ![k] = c]
    BY DEF Edit
  <2>2. c \in Configurations
    <3>1. c \in Configs[k] => c \in Configurations
      BY DiskAssumption
    <3>2. Absent \in Configurations
      BY DEF Absent, Configurations
    <3> QED
      BY <3>1, <3>2
  <2> QED
    BY <2>1, <2>2 DEF OInv, Shape
<1>3. Shape' /\ Forgotten' /\ Looked'
  BY <1>1, <1>2 DEF OInv, Shape, Forgotten, Looked
<1>4. \A j \in Disks : Working(j)'
  BY <1>1, IdleWork DEF OInv, AllIdle, Working, Idle
<1>5. Applied'
  BY <1>1, <1>2 DEF OInv, Applied, Idle, Undisturbed, AsConfigured, Moved, Attached, Aimless
<1> QED
  BY <1>3, <1>4, <1>5 DEF OInv

LEMMA OutOfBandKeeps == ASSUME IInv, OInv, OutOfBand PROVE OInv'
<1>1. /\ UNCHANGED <<config, saved, fresh, h>> /\ Remembered /\ ((AllIdle /\ fresh = {}) \/ ~Undisturbed')
      /\ DOMAIN told' = Disks /\ \A k \in Disks : told'[k] = "none"
  BY FaultFacts DEF OutOfBand, Fault, Undisturbed
<1>2. Shape' /\ Forgotten' /\ Applied' /\ Looked'
  BY <1>1 DEF OInv, Shape, Forgotten, Applied, Looked, Idle
<1>3. \A k \in Disks : Working(k)'
  <2>1. CASE AllIdle
    BY <1>1, <2>1, IdleWork DEF OInv, AllIdle, Working
  <2>2. CASE ~Undisturbed'
    BY <1>1, <2>2 DEF OInv, Working
  <2> QED
    BY <1>1, <2>1, <2>2
<1> QED
  BY <1>2, <1>3 DEF OInv

LEMMA StutterKeeps == ASSUME OInv, UNCHANGED vars PROVE OInv'
  BY DEF vars, OInv, Shape, Looked, Applied, Forgotten, Working, Idle, Undisturbed, Seen, Attached, AsConfigured, Moved, Aimless

LEMMA InitApplied == Init => OInv
<1> SUFFICES ASSUME Init PROVE OInv
  OBVIOUS
<1>1. config \in [Disks -> Configurations]
  <2>1. \A k \in Disks : config[k] \in Configurations
    BY DiskAssumption DEF Init
  <2> QED
    BY <2>1 DEF Init
<1>2. Shape /\ Forgotten /\ Looked /\ Applied
  BY <1>1, NobodyWorks DEF Init, Shape, Forgotten, Looked, Applied, NoDisk, DiskFields
<1>3. \A k \in Disks : Working(k)
  BY NobodyWorks DEF Init, Working
<1> QED
  BY <1>2, <1>3 DEF OInv

LEMMA StepApplied == IInv /\ OInv /\ [Next]_vars => OInv'
  BY RefreshKeeps, ApplyKeeps, HandlerKeeps, EditKeeps, OutOfBandKeeps, CrashKeeps, StutterKeeps
  DEF Next, Terraform, Provider, Environment

\* A disk whose Create or Update reports success is as configured, or attached where it
\* was: in whatever order the handlers of several disks take their steps, whichever of
\* their calls fail, and whoever changes the volumes between two runs.
THEOREM SuccessApplied == Spec => []OkMeansApplied
<1>1. Init => OInv
  BY InitApplied
<1>2. IInv /\ OInv /\ [Next]_vars => OInv'
  BY StepApplied
<1>3. OInv => OkMeansApplied
  BY DEF OInv, Applied, Undisturbed, OkMeansApplied
<1> QED
  BY <1>1, <1>2, <1>3, RecoveriesFinish, PTL DEF Spec
=============================================================================
