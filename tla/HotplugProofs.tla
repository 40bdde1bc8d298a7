---------------------------- MODULE HotplugProofs ----------------------------
(***************************************************************************)
(* Proofs about Hotplug, for any number of nodes and gadgets, queues of    *)
(* every length and every fault.                                           *)
(*                                                                         *)
(* ViewConverges is about the time when the socket is open; what makes it  *)
(* inductive is to say it from the scan on, when a camera that is          *)
(* connected may also still be one to probe (Follows).  Each step of the   *)
(* monitor moves a claim one place ahead, from the queue into the batch    *)
(* or from the batch into the list, and each event of the kernel adds the  *)
(* claim that is true after it or takes back those that no longer are.     *)
(***************************************************************************)
EXTENDS Hotplug, SequenceTheorems, TLAPS

IsAt(p, g) == p \in DOMAIN present /\ present[p] = g

\* Where the monitor can be with what.
Phases ==
    /\ ~SocketOpen => queue = <<>>
    /\ pc = "scan" => (listed = Nothing /\ batch = <<>>)
    /\ pc # "probe" => todo = {}
    /\ pc \in {"probe", "add"} => \A k \in DOMAIN batch : batch[k].action = "add"

Follows ==
    ~lost /\ pc # "scan" =>
        \A p \in Path, g \in Usable :
            /\ (Claimed(p, g) => IsAt(p, g))
            /\ (IsAt(p, g) => (p \in todo \/ Claimed(p, g)))

IInv == TypeOK /\ Phases /\ Follows

----------------------------------------------------------------------------
(* What Removes says of a sequence with one element more or less.          *)

LEMMA RemovesAppend ==
    ASSUME NEW S, NEW s \in Seq(S), NEW e, NEW p, NEW k \in 0..Len(s)
    PROVE  Removes(Append(s, e), p, k) <=>
              Removes(s, p, k) \/ (e.action = "remove" /\ e.path = p)
<1> DEFINE t == Append(s, e)
           n == Len(s)
<1>1. n \in Nat /\ DOMAIN s = 1..n /\ DOMAIN t = 1..(n + 1)
    OBVIOUS
<1>2. t[n + 1] = e /\ \A i \in 1..n : t[i] = s[i]
    OBVIOUS
<1> HIDE DEF t, n
<1>3. Removes(t, p, k) <=> Removes(s, p, k) \/ (e.action = "remove" /\ e.path = p)
    <2>1. ASSUME Removes(t, p, k) PROVE Removes(s, p, k) \/ (e.action = "remove" /\ e.path = p)
        <3>1. PICK j \in DOMAIN t : j > k /\ t[j].action = "remove" /\ t[j].path = p
            BY <2>1 DEF Removes
        <3>2. CASE j = n + 1
            BY <1>2, <3>1, <3>2
        <3>3. CASE j # n + 1
            <4>1. j \in 1..n
                BY <1>1, <3>3
            <4> QED
                BY <1>1, <1>2, <3>1, <4>1 DEF Removes
        <3> QED
            BY <3>2, <3>3
    <2>2. ASSUME Removes(s, p, k) PROVE Removes(t, p, k)
        <3>1. PICK j \in DOMAIN s : j > k /\ s[j].action = "remove" /\ s[j].path = p
            BY <2>2 DEF Removes
        <3>2. j \in DOMAIN t /\ t[j] = s[j]
            BY <1>1, <1>2
        <3> QED
            BY <3>1, <3>2 DEF Removes
    <2>3. ASSUME e.action = "remove", e.path = p PROVE Removes(t, p, k)
        <3>1. n + 1 \in DOMAIN t /\ n + 1 > k
            BY <1>1 DEF n
        <3> QED
            BY <1>2, <2>3, <3>1 DEF Removes
    <2> QED
        BY <2>1, <2>2, <2>3
<1> QED
    BY <1>3 DEF t

LEMMA RemovesTail ==
    ASSUME NEW S, NEW s \in Seq(S), s # <<>>, NEW p, NEW k \in 0..(Len(s) - 1)
    PROVE  Removes(Tail(s), p, k) <=> Removes(s, p, k + 1)
<1> DEFINE t == Tail(s)
           n == Len(s)
<1>1. n \in Nat /\ n > 0 /\ DOMAIN s = 1..n /\ DOMAIN t = 1..(n - 1)
    OBVIOUS
<1>2. \A i \in 1..(n - 1) : t[i] = s[i + 1]
    OBVIOUS
<1> HIDE DEF t, n
<1>3. Removes(t, p, k) <=> Removes(s, p, k + 1)
    <2>1. ASSUME Removes(t, p, k) PROVE Removes(s, p, k + 1)
        <3>1. PICK j \in DOMAIN t : j > k /\ t[j].action = "remove" /\ t[j].path = p
            BY <2>1 DEF Removes
        <3>2. j + 1 \in DOMAIN s /\ j + 1 > k + 1 /\ t[j] = s[j + 1]
            BY <1>1, <1>2, <3>1
        <3> QED
            BY <3>1, <3>2 DEF Removes
    <2>2. ASSUME Removes(s, p, k + 1) PROVE Removes(t, p, k)
        <3>1. PICK j \in DOMAIN s : j > k + 1 /\ s[j].action = "remove" /\ s[j].path = p
            BY <2>2 DEF Removes
        <3>2. j - 1 \in DOMAIN t /\ j - 1 > k /\ t[j - 1] = s[j]
            BY <1>1, <1>2, <3>1
        <3> QED
            BY <3>1, <3>2 DEF Removes
    <2> QED
        BY <2>1, <2>2
<1> QED
    BY <1>3 DEF t

LEMMA RemovesHead ==
    ASSUME NEW S, NEW s \in Seq(S), s # <<>>, NEW p
    PROVE  Removes(s, p, 0) <=> Removes(s, p, 1) \/ (Head(s).action = "remove" /\ Head(s).path = p)
<1> DEFINE n == Len(s)
<1>1. n \in Nat /\ n > 0 /\ DOMAIN s = 1..n /\ Head(s) = s[1]
    OBVIOUS
<1> HIDE DEF n
<1>2. ASSUME Removes(s, p, 0) PROVE Removes(s, p, 1) \/ (s[1].action = "remove" /\ s[1].path = p)
    <2>1. PICK j \in DOMAIN s : j > 0 /\ s[j].action = "remove" /\ s[j].path = p
        BY <1>2 DEF Removes
    <2>2. CASE j = 1
        BY <2>1, <2>2
    <2>3. CASE j # 1
        BY <1>1, <2>1, <2>3 DEF Removes
    <2> QED
        BY <2>2, <2>3
<1>3. ASSUME Removes(s, p, 1) PROVE Removes(s, p, 0)
    <2>1. PICK j \in DOMAIN s : j > 1 /\ s[j].action = "remove" /\ s[j].path = p
        BY <1>3 DEF Removes
    <2> QED
        BY <1>1, <2>1 DEF Removes
<1>4. ASSUME s[1].action = "remove", s[1].path = p PROVE Removes(s, p, 0)
    BY <1>1, <1>4 DEF Removes
<1> QED
    BY <1>1, <1>2, <1>3, <1>4

----------------------------------------------------------------------------
(* The types.                                                              *)

AddOf(p) == [action |-> "add", path |-> p, gadget |-> present[p]]

\* A probe of p adds p if it is a camera, and nothing else.
LEMMA EvaluateYields ==
    ASSUME TypeOK, NEW p \in Path, Evaluate(p, batch)
    PROVE  /\ batch' \in Seq(Action)
           /\ lost' \in BOOLEAN
           /\ ~lost' => /\ ~lost
                        /\ \/ /\ p \in DOMAIN present /\ present[p] \in Usable
                              /\ AddOf(p) \in Action
                              /\ batch' = Append(batch, AddOf(p))
                           \/ /\ ~(p \in DOMAIN present /\ present[p] \in Usable)
                              /\ batch' = batch
<1>1. batch \in Seq(Action) /\ lost \in BOOLEAN
    BY DEF TypeOK
<1>2. lost' \in BOOLEAN
    BY <1>1, Zenon DEF Evaluate
<1>3. CASE p \in DOMAIN present /\ present[p] \in Usable
    <2>1. Adds(p) = <<AddOf(p)>>
        BY <1>3 DEF Adds, AddOf
    <2>2. AddOf(p) \in Action
        BY <1>3 DEF AddOf, Action
    <2>3. batch \o <<AddOf(p)>> = Append(batch, AddOf(p)) /\ Append(batch, AddOf(p)) \in Seq(Action)
        BY <1>1, <2>2
    <2>4. (batch' = Append(batch, AddOf(p)) /\ lost' = lost) \/ (batch' = batch /\ lost' = TRUE)
        BY <2>1, <2>3 DEF Evaluate
    <2> QED
        BY <1>1, <1>2, <1>3, <2>2, <2>3, <2>4
<1>4. CASE ~(p \in DOMAIN present /\ present[p] \in Usable)
    <2>1. Adds(p) = <<>>
        BY <1>4 DEF Adds
    <2>2. batch' = batch \o <<>> /\ lost' = lost
        BY <2>1 DEF Evaluate
    <2>3. batch \o <<>> = batch
        BY <1>1
    <2> QED
        BY <1>1, <1>2, <1>4, <2>2, <2>3
<1> QED
    BY <1>3, <1>4

\* handle_add and handle_remove keep a list of nodes of the path and their gadgets.
LEMMA ApplyTypes ==
    ASSUME TypeOK, batch # <<>>, Apply(Head(batch)), batch' = Tail(batch)
    PROVE  IsNodes(listed, Usable)' /\ batch' \in Seq(Action)
<1>1. batch \in Seq(Action) /\ Head(batch) \in Action /\ Tail(batch) \in Seq(Action)
    BY DEF TypeOK
<1>2. IsNodes(listed, Usable)
    BY DEF TypeOK
<1>3. CASE Head(batch).action = "add"
    <2>1. Head(batch).path \in Path /\ Head(batch).gadget \in Usable
        BY <1>1, <1>3 DEF Action
    <2>2. HandleAdd(Head(batch).path, Head(batch).gadget)
        BY <1>3 DEF Apply
    <2> QED
        BY <1>1, <1>2, <2>1, <2>2 DEF HandleAdd, IsNodes
<1>4. CASE Head(batch).action # "add"
    BY <1>1, <1>2, <1>4 DEF Apply, HandleRemove, Restrict, IsNodes
<1> QED
    BY <1>3, <1>4

\* An event leaves a place free, or is dropped.
LEMMA BroadcastTypes ==
    ASSUME TypeOK, NEW p \in Path, NEW action \in {"add", "remove", "other"}, Broadcast(action, p)
    PROVE  /\ queue' \in Seq(Event) /\ Len(queue') <= QueueCap
           /\ congested' \in BOOLEAN /\ enobufs' \in BOOLEAN /\ ready' \in BOOLEAN
           /\ lost' \in BOOLEAN
           /\ left' \in 0..Budget
           /\ UNCHANGED task
<1> DEFINE e == [action |-> action, path |-> p]
<1>1. left' \in 0..Budget /\ UNCHANGED task
    BY BudgetAssumption DEF Broadcast, TypeOK
<1>2. queue \in Seq(Event) /\ Len(queue) <= QueueCap /\ e \in Event
    BY DEF TypeOK, Event
<1>3. (queue' = queue \/ (queue' = Append(queue, e) /\ Len(queue) < QueueCap))
    BY DEF Broadcast, socket
<1>4. queue' \in Seq(Event) /\ Len(queue') <= QueueCap
    <2>1. CASE queue' = queue
        BY <1>2, <2>1
    <2>2. CASE queue' = Append(queue, e) /\ Len(queue) < QueueCap
        <3> HIDE DEF e
        <3> QED
            BY <1>2, <2>2, QueueAssumption
    <2> QED
        BY <1>3, <2>1, <2>2
<1>5. /\ congested \in BOOLEAN /\ enobufs \in BOOLEAN /\ ready \in BOOLEAN /\ lost \in BOOLEAN
    BY DEF TypeOK
<1>6. congested' \in BOOLEAN /\ enobufs' \in BOOLEAN /\ ready' \in BOOLEAN /\ lost' \in BOOLEAN
    <2>1. CASE ~SocketOpen
        <3>1. lost' = (lost \/ (action # "other" /\ pc # "scan")) /\ UNCHANGED socket
            BY <2>1 DEF Broadcast
        <3>2. lost' \in BOOLEAN
            BY <3>1
        <3> QED
            BY <1>5, <3>1, <3>2 DEF socket
    <2>2. CASE SocketOpen /\ ~congested /\ Len(queue) < QueueCap
        <3>1. ready' = TRUE /\ UNCHANGED <<congested, enobufs, lost>>
            BY <2>2 DEF Broadcast
        <3> QED
            BY <1>5, <3>1
    <2>3. CASE SocketOpen /\ ~(~congested /\ Len(queue) < QueueCap)
        <3>1. /\ congested' = TRUE
              /\ enobufs' = (enobufs \/ ~congested)
              /\ ready' = (ready \/ ~congested)
              /\ lost' = (lost \/ action # "other")
            BY <2>3 DEF Broadcast
        <3>2. congested' \in BOOLEAN
            BY <3>1
        <3>3. enobufs' \in BOOLEAN
            BY <3>1
        <3>4. ready' \in BOOLEAN
            BY <3>1
        <3>5. lost' \in BOOLEAN
            BY <3>1
        <3> QED
            BY <3>2, <3>3, <3>4, <3>5
    <2> QED
        BY <2>1, <2>2, <2>3
<1> QED
    BY <1>1, <1>4, <1>6

LEMMA KernelTypes == TypeOK /\ Phases /\ Kernel => TypeOK' /\ Phases'
<1> SUFFICES ASSUME TypeOK, Phases, NEW p \in Path,
                    (\E g \in Gadget : Plug(p, g)) \/ Unplug(p) \/ Retrigger(p) \/ Other(p)
             PROVE  TypeOK' /\ Phases'
    BY DEF Kernel
<1>1. PICK action \in {"add", "remove", "other"} : Broadcast(action, p)
    BY DEF Plug, Unplug, Retrigger, Other
<1>2. IsNodes(present, Gadget)'
    <2>1. IsNodes(present, Gadget)
        BY DEF TypeOK
    <2>2. ASSUME NEW g \in Gadget, Plug(p, g) PROVE IsNodes(present, Gadget)'
        BY <2>1, <2>2 DEF Plug, IsNodes
    <2>3. CASE Unplug(p)
        BY <2>1, <2>3 DEF Unplug, IsNodes, Restrict
    <2>4. CASE Retrigger(p) \/ Other(p)
        BY <2>1, <2>4 DEF Retrigger, Other, IsNodes
    <2> QED
        BY <2>2, <2>3, <2>4
<1>3. UNCHANGED task
    BY <1>1, BroadcastTypes
<1>4. TypeOK'
    <2>1. /\ queue' \in Seq(Event) /\ Len(queue') <= QueueCap
          /\ congested' \in BOOLEAN /\ enobufs' \in BOOLEAN /\ ready' \in BOOLEAN
          /\ lost' \in BOOLEAN /\ left' \in 0..Budget
        BY <1>1, BroadcastTypes
    <2>2. /\ IsNodes(listed, Usable)'
          /\ (pc \in {"scan", "probe", "add", "open", "wait", "drain", "apply", "ended"})'
          /\ (todo \subseteq Path)' /\ (batch \in Seq(Action))'
        BY <1>3 DEF TypeOK, task, IsNodes
    <2> QED
        BY <1>2, <2>1, <2>2 DEF TypeOK
<1>5. Phases'
    <2>1. ~SocketOpen => queue' = queue
        BY <1>1 DEF Broadcast, socket
    <2> QED
        BY <1>3, <2>1 DEF Phases, SocketOpen, task
<1> QED
    BY <1>4, <1>5

LEMMA MonitorTypes == TypeOK /\ Phases /\ Monitor => TypeOK' /\ Phases'
<1> SUFFICES ASSUME TypeOK, Phases, Monitor PROVE TypeOK' /\ Phases'
    OBVIOUS
<1>1. CASE ReadDir
    <2>1. lost' \in BOOLEAN
        BY <1>1 DEF ReadDir, TypeOK
    <2>2. pc' \in {"probe", "open"} /\ todo' \subseteq Path /\ (pc' # "probe" => todo' = {})
        BY <1>1 DEF ReadDir, TypeOK, IsNodes
    <2>3. UNCHANGED <<kernel, socket, listed, batch>> /\ pc = "scan" /\ batch = <<>>
        BY <1>1 DEF ReadDir, Phases
    <2>4. TypeOK'
        BY <2>1, <2>2, <2>3 DEF TypeOK, IsNodes, kernel, socket
    <2>5. Phases'
        BY <2>2, <2>3 DEF Phases, SocketOpen, socket
    <2> QED
        BY <2>4, <2>5
<1>2. CASE Probe
    <2>1. PICK p \in todo : todo' = todo \ {p} /\ Evaluate(p, batch)
        BY <1>2 DEF Probe
    <2>2. p \in Path /\ UNCHANGED <<kernel, socket, listed, pc>> /\ pc = "probe"
        BY <1>2 DEF Probe, TypeOK
    <2>3. batch' \in Seq(Action) /\ lost' \in BOOLEAN
        BY <2>1, <2>2, EvaluateYields
    <2>4. TypeOK'
        BY <2>1, <2>2, <2>3 DEF TypeOK, IsNodes, kernel, socket
    <2>5. \A k \in DOMAIN batch' : batch'[k].action = "add"
        <3>1. \A k \in DOMAIN batch : batch[k].action = "add"
            BY <2>2 DEF Phases
        <3>2. batch' = batch \/ batch' = batch \o <<>> \/ batch' = batch \o <<AddOf(p)>>
            BY <2>1 DEF Evaluate, Adds, AddOf
        <3>3. AddOf(p).action = "add"
            BY DEF AddOf
        <3>4. batch \in Seq(Action)
            BY DEF TypeOK
        <3> QED
            BY <3>1, <3>2, <3>3, <3>4
    <2>6. Phases'
        BY <2>2, <2>5 DEF Phases, SocketOpen, socket
    <2> QED
        BY <2>4, <2>6
<1>3. CASE Sort
    <2>1. /\ pc' = "add" /\ pc = "probe" /\ todo = {}
          /\ batch' \in [DOMAIN batch -> ToSet(batch)]
          /\ UNCHANGED <<kernel, socket, listed, todo, lost>>
        BY <1>3 DEF Sort
    <2>2. batch \in Seq(Action)
        BY DEF TypeOK
    <2>3. batch' \in Seq(Action)
        BY <2>1, <2>2 DEF ToSet
    <2>4. TypeOK'
        BY <2>1, <2>3 DEF TypeOK, IsNodes, kernel, socket
    <2>5. \A k \in DOMAIN batch' : batch'[k].action = "add"
        BY <2>1 DEF ToSet, Phases
    <2>6. Phases'
        BY <2>1, <2>5 DEF Phases, SocketOpen, socket
    <2> QED
        BY <2>4, <2>6
<1>4. ASSUME NEW here, NEW there,
             \/ here = "add" /\ there = "open"
             \/ here = "apply" /\ there = "wait",
             pc = here,
             IF batch = <<>> THEN pc' = there /\ UNCHANGED <<listed, batch>>
                             ELSE Apply(Head(batch)) /\ batch' = Tail(batch) /\ UNCHANGED pc,
             UNCHANGED <<kernel, socket, todo, lost>>
      PROVE  TypeOK' /\ Phases'
    <2>1. CASE batch = <<>>
        <3>1. pc' = there /\ UNCHANGED <<listed, batch>>
            BY <1>4, <2>1
        <3>2. TypeOK'
            BY <1>4, <3>1 DEF TypeOK, IsNodes, kernel, socket
        <3>3. Phases'
            BY <1>4, <3>1 DEF Phases, SocketOpen, socket
        <3> QED
            BY <3>2, <3>3
    <2>2. CASE batch # <<>>
        <3>1. Apply(Head(batch)) /\ batch' = Tail(batch) /\ UNCHANGED pc
            BY <1>4, <2>2
        <3>2. IsNodes(listed, Usable)' /\ batch' \in Seq(Action)
            BY <2>2, <3>1, ApplyTypes
        <3>3. TypeOK'
            BY <1>4, <3>1, <3>2 DEF TypeOK, IsNodes, kernel, socket
        <3>4. ASSUME pc = "add" PROVE \A k \in DOMAIN batch' : batch'[k].action = "add"
            <4>1. \A k \in DOMAIN batch : batch[k].action = "add"
                BY <3>4 DEF Phases
            <4>2. batch \in Seq(Action)
                BY DEF TypeOK
            <4> QED
                BY <2>2, <3>1, <4>1, <4>2
        <3>5. Phases'
            BY <1>4, <3>1, <3>4 DEF Phases, SocketOpen, socket
        <3> QED
            BY <3>3, <3>5
    <2> QED
        BY <2>1, <2>2
<1>5. CASE ScanAdd
    BY <1>4, <1>5 DEF ScanAdd
<1>6. CASE Open
    <2>1. pc' \in {"wait", "ended"} /\ lost' \in BOOLEAN
        BY <1>6, Zenon DEF Open, TypeOK
    <2>2. UNCHANGED <<kernel, socket, listed, todo, batch>> /\ pc = "open"
        BY <1>6 DEF Open
    <2>3. TypeOK'
        BY <2>1, <2>2 DEF TypeOK, IsNodes, kernel, socket
    <2>4. Phases'
        BY <2>1, <2>2 DEF Phases, SocketOpen, socket
    <2> QED
        BY <2>3, <2>4
<1>7. CASE Wake
    BY <1>7 DEF Wake, TypeOK, IsNodes, Phases, SocketOpen, kernel
<1>8. CASE RecvError
    BY <1>8 DEF RecvError, TypeOK, IsNodes, Phases, SocketOpen, kernel
<1>9. CASE Recv
    <2>1. queue \in Seq(Event) /\ queue # <<>> /\ queue' = Tail(queue) /\ pc = "drain"
        BY <1>9 DEF Recv, TypeOK
    <2>2. queue' \in Seq(Event) /\ Len(queue') <= QueueCap /\ Head(queue) \in Event
        <3>1. Len(queue) <= QueueCap /\ QueueCap \in Nat
            BY QueueAssumption DEF TypeOK
        <3>2. Len(Tail(queue)) = Len(queue) - 1 /\ Len(queue) \in Nat
            BY <2>1
        <3> QED
            BY <2>1, <3>1, <3>2
    <2>3. batch' \in Seq(Action) /\ lost' \in BOOLEAN
        <3>1. Parse(Head(queue))
            BY <1>9 DEF Recv
        <3>2. Head(queue).path \in Path /\ Head(queue).action \in {"add", "remove", "other"}
            BY <2>2 DEF Event
        <3>3. CASE Head(queue).action = "add"
            BY <3>1, <3>2, <3>3, EvaluateYields DEF Parse
        <3>4. CASE Head(queue).action = "remove"
            <4>1. [action |-> "remove", path |-> Head(queue).path] \in Action
                BY <3>2 DEF Action
            <4>2. batch' = Append(batch, [action |-> "remove", path |-> Head(queue).path])
                BY <3>1, <3>4 DEF Parse
            <4>3. lost' = lost
                BY <3>1, <3>4 DEF Parse
            <4> QED
                BY <4>1, <4>2, <4>3 DEF TypeOK
        <3>5. CASE Head(queue).action = "other"
            BY <3>1, <3>5 DEF Parse, TypeOK
        <3> QED
            BY <3>2, <3>3, <3>4, <3>5
    <2>4. congested' \in BOOLEAN
        <3>1. congested' = (congested /\ queue' # <<>>)
            BY <1>9 DEF Recv
        <3> QED
            BY <3>1
    <2>5. UNCHANGED <<kernel, enobufs, ready, listed, pc, todo>>
        BY <1>9 DEF Recv
    <2>6. TypeOK'
        BY <2>2, <2>3, <2>4, <2>5 DEF TypeOK, IsNodes, kernel
    <2>7. Phases'
        BY <2>1, <2>5 DEF Phases, SocketOpen
    <2> QED
        BY <2>6, <2>7
<1>10. CASE WouldBlock
    BY <1>10 DEF WouldBlock, TypeOK, IsNodes, Phases, SocketOpen, kernel, socket
<1>11. CASE ApplyNext
    BY <1>4, <1>11 DEF ApplyNext
<1> QED
    BY <1>1, <1>2, <1>3, <1>5, <1>6, <1>7, <1>8, <1>9, <1>10, <1>11 DEF Monitor

----------------------------------------------------------------------------
(* What each step does to the claims.                                      *)

\* One more event: a remove takes back all that was claimed of its node, and an add claims what is
\* there by now; an event of another node changes nothing.
LEMMA QueuedClaims ==
    ASSUME TypeOK, NEW e \in Event, queue' = Append(queue, e), UNCHANGED task,
           NEW p \in Path, NEW g \in Usable
    PROVE  /\ e.action = "remove" /\ e.path = p => ~Claimed(p, g)'
           /\ Claimed(p, g)' => Claimed(p, g) \/ IsAt(p, g)'
           /\ ~(e.action = "remove" /\ e.path = p) /\ Claimed(p, g) /\ IsAt(p, g)' => Claimed(p, g)'
           /\ e.action = "add" /\ e.path = p /\ IsAt(p, g)' => Claimed(p, g)'
<1> DEFINE R == e.action = "remove" /\ e.path = p
<1>0. PICK n \in Nat : n = Len(queue)
    BY DEF TypeOK
<1>1. queue \in Seq(Event) /\ n = Len(queue)
    BY <1>0 DEF TypeOK
<1>2. DOMAIN queue = 1..n /\ DOMAIN queue' = 1..(n + 1)
    BY <1>1
<1>3. queue'[n + 1] = e /\ \A k \in 1..n : queue'[k] = queue[k]
    BY <1>1
<1>4. \A k \in 0..n : Removes(queue', p, k) <=> Removes(queue, p, k) \/ R
    BY <1>1, RemovesAppend
<1>5. Removes(queue, p, 0)' <=> Removes(queue, p, 0) \/ R
    BY <1>4, <1>1
<1>6. \A k \in 1..n : Removes(queue, p, k)' <=> Removes(queue, p, k) \/ R
    BY <1>4, <1>1
<1>7. ~Removes(queue', p, n + 1)
    BY <1>2 DEF Removes
<1>8. listed' = listed /\ batch' = batch /\ Removes(batch, p, 0)' = Removes(batch, p, 0)
    BY DEF task
<1>9. \A k \in DOMAIN batch : Removes(batch, p, k)' = Removes(batch, p, k)
    BY <1>8
<1> HIDE DEF R
<1>10. ASSUME R PROVE ~Claimed(p, g)'
    <2>1. \A k \in 1..n : Removes(queue, p, k)'
        BY <1>6, <1>10
    <2>2. e.action # "add"
        BY <1>10 DEF R
    <2> QED
        BY <1>2, <1>3, <1>5, <1>10, <2>1, <2>2 DEF Claimed
<1>11. ASSUME Claimed(p, g)' PROVE Claimed(p, g) \/ IsAt(p, g)'
    <2>1. CASE p \in DOMAIN listed' /\ listed'[p] = g /\ ~Removes(batch', p, 0) /\ ~Removes(queue', p, 0)
        BY <1>5, <1>8, <2>1 DEF Claimed
    <2>2. CASE \E k \in DOMAIN batch' :
                  /\ batch'[k].action = "add" /\ batch'[k].path = p /\ batch'[k].gadget = g
                  /\ ~Removes(batch', p, k) /\ ~Removes(queue', p, 0)
        BY <1>5, <1>8, <2>2 DEF Claimed
    <2> QED
        BY <1>11, <2>1, <2>2 DEF Claimed, IsAt
<1>12. ASSUME ~R, Claimed(p, g), IsAt(p, g)' PROVE Claimed(p, g)'
    <2>1. CASE p \in DOMAIN listed /\ listed[p] = g /\ ~Removes(batch, p, 0) /\ ~Removes(queue, p, 0)
        BY <1>5, <1>8, <1>12, <2>1 DEF Claimed
    <2>2. CASE \E k \in DOMAIN batch :
                  /\ batch[k].action = "add" /\ batch[k].path = p /\ batch[k].gadget = g
                  /\ ~Removes(batch, p, k) /\ ~Removes(queue, p, 0)
        BY <1>5, <1>8, <1>12, <2>2 DEF Claimed
    <2>3. CASE \E k \in DOMAIN queue :
                  /\ queue[k].action = "add" /\ queue[k].path = p /\ ~Removes(queue, p, k)
        <3>1. PICK k \in 1..n : queue[k].action = "add" /\ queue[k].path = p /\ ~Removes(queue, p, k)
            BY <1>2, <2>3
        <3>2. k \in DOMAIN queue' /\ queue'[k] = queue[k] /\ ~Removes(queue, p, k)'
            BY <1>1, <1>2, <1>3, <1>6, <1>12, <3>1
        <3> QED
            BY <1>12, <3>1, <3>2 DEF Claimed, IsAt
    <2> QED
        BY <1>12, <2>1, <2>2, <2>3 DEF Claimed
<1>13. ASSUME e.action = "add", e.path = p, IsAt(p, g)' PROVE Claimed(p, g)'
    <2>1. n + 1 \in DOMAIN queue' /\ ~Removes(queue, p, n + 1)'
        BY <1>1, <1>2, <1>7
    <2> QED
        BY <1>3, <1>13, <2>1 DEF Claimed, IsAt
<1> QED
    BY <1>10, <1>11, <1>12, <1>13 DEF R

\* Whatever the kernel says, or drops, what is claimed stays what is connected.
LEMMA KernelFollows == IInv /\ Kernel => Follows'
<1> SUFFICES ASSUME IInv, NEW o \in Path,
                    (\E h \in Gadget : Plug(o, h)) \/ Unplug(o) \/ Retrigger(o) \/ Other(o),
                    ~lost', pc' # "scan", NEW p \in Path, NEW g \in Usable
             PROVE  /\ (Claimed(p, g) => IsAt(p, g))'
                    /\ (IsAt(p, g) => (p \in todo \/ Claimed(p, g)))'
    BY DEF Kernel, Follows
<1>1. PICK action \in {"add", "remove", "other"} :
          /\ Broadcast(action, o)
          /\ \/ action = "add" /\ o \notin DOMAIN present
                /\ DOMAIN present' = DOMAIN present \cup {o}
                /\ \A q \in DOMAIN present : present'[q] = present[q]
             \/ action = "add" /\ UNCHANGED present
             \/ action = "remove"
                /\ DOMAIN present' = DOMAIN present \ {o}
                /\ \A q \in DOMAIN present' : present'[q] = present[q]
             \/ action = "other" /\ UNCHANGED present
    <2>1. ASSUME NEW h \in Gadget, Plug(o, h)
          PROVE  /\ o \notin DOMAIN present /\ DOMAIN present' = DOMAIN present \cup {o}
                 /\ \A q \in DOMAIN present : present'[q] = present[q]
        BY <2>1 DEF Plug
    <2>2. ASSUME Unplug(o)
          PROVE  /\ DOMAIN present' = DOMAIN present \ {o}
                 /\ \A q \in DOMAIN present' : present'[q] = present[q]
        BY <2>2 DEF Unplug, Restrict
    <2>3. (\E h \in Gadget : Plug(o, h)) => Broadcast("add", o)
        BY DEF Plug
    <2> QED
        BY <2>1, <2>2, <2>3 DEF Unplug, Retrigger, Other
<1>2. UNCHANGED task
    BY <1>1, BroadcastTypes DEF IInv
<1>3. pc' = pc /\ todo' = todo /\ listed' = listed /\ batch' = batch
    BY <1>2 DEF task
<1>4. ASSUME ~lost
      PROVE  (Claimed(p, g) => IsAt(p, g)) /\ (IsAt(p, g) => (p \in todo \/ Claimed(p, g)))
    BY <1>3, <1>4 DEF IInv, Follows
<1>5. CASE SocketOpen /\ ~congested /\ Len(queue) < QueueCap
    <2> DEFINE e == [action |-> action, path |-> o]
    <2>1. queue' = Append(queue, e) /\ ~lost
        BY <1>1, <1>5 DEF Broadcast
    <2>2. e \in Event /\ e.action = action /\ e.path = o
        BY DEF Event
    <2> HIDE DEF e
    <2>3. /\ action = "remove" /\ o = p => ~Claimed(p, g)'
          /\ Claimed(p, g)' => Claimed(p, g) \/ IsAt(p, g)'
          /\ ~(action = "remove" /\ o = p) /\ Claimed(p, g) /\ IsAt(p, g)' => Claimed(p, g)'
          /\ action = "add" /\ o = p /\ IsAt(p, g)' => Claimed(p, g)'
        BY <1>2, <2>1, <2>2, QueuedClaims DEF IInv
    <2>4. IsAt(p, g)' => IsAt(p, g) \/ (action = "add" /\ o = p)
        BY <1>1 DEF IsAt
    <2>5. IsAt(p, g) => IsAt(p, g)' \/ (action = "remove" /\ o = p)
        BY <1>1 DEF IsAt
    <2>6. pc # "probe"
        BY <1>5 DEF SocketOpen
    <2>7. todo = {}
        BY <2>6 DEF IInv, Phases
    <2>8. action = "remove" /\ o = p => ~IsAt(p, g)'
        BY <1>1 DEF IsAt
    <2> QED
        BY <1>3, <1>4, <2>1, <2>3, <2>4, <2>5, <2>7, <2>8
<1>6. CASE ~SocketOpen
    <2>1. action = "other" /\ ~lost /\ UNCHANGED socket
        BY <1>1, <1>3, <1>6 DEF Broadcast
    <2>2. UNCHANGED <<present, queue>>
        BY <1>1, <2>1 DEF socket
    <2> QED
        BY <1>3, <1>4, <2>1, <2>2 DEF Claimed, IsAt
<1>7. CASE SocketOpen /\ ~(~congested /\ Len(queue) < QueueCap)
    <2>1. action = "other" /\ ~lost /\ UNCHANGED queue
        BY <1>1, <1>7 DEF Broadcast
    <2>2. UNCHANGED <<present, queue>>
        BY <1>1, <2>1
    <2> QED
        BY <1>3, <1>4, <2>1, <2>2 DEF Claimed, IsAt
<1> QED
    BY <1>5, <1>6, <1>7

\* The scan begins with an empty list: every camera there is has still to be probed.
LEMMA ReadDirFollows == IInv /\ ReadDir => Follows'
<1> SUFFICES ASSUME IInv, ReadDir, ~lost', NEW p \in Path, NEW g \in Usable
             PROVE  /\ (Claimed(p, g) => IsAt(p, g))'
                    /\ (IsAt(p, g) => (p \in todo \/ Claimed(p, g)))'
    BY DEF Follows
<1>1. listed' = Nothing /\ batch' = <<>> /\ queue' = <<>> /\ present' = present
    BY DEF IInv, Phases, ReadDir, SocketOpen, kernel, socket
<1>2. todo' = DOMAIN present
    BY DEF ReadDir
<1>3. ~Claimed(p, g)'
    BY <1>1 DEF Claimed, Nothing
<1> QED
    BY <1>1, <1>2, <1>3 DEF IsAt

\* A node that was probed is claimed as it was then, which is as it is while none was lost.
LEMMA ProbeFollows == IInv /\ Probe => Follows'
<1> SUFFICES ASSUME IInv, Probe, ~lost', NEW p \in Path, NEW g \in Usable
             PROVE  /\ (Claimed(p, g) => IsAt(p, g))'
                    /\ (IsAt(p, g) => (p \in todo \/ Claimed(p, g)))'
    BY DEF Follows
<1>1. PICK o \in todo : todo' = todo \ {o} /\ Evaluate(o, batch)
    BY DEF Probe
<1>2. o \in Path /\ UNCHANGED <<kernel, socket, listed, pc>> /\ pc = "probe"
    BY DEF Probe, IInv, TypeOK
<1>3. present' = present /\ listed' = listed /\ queue' = <<>> /\ queue = <<>>
    BY <1>2 DEF kernel, socket, IInv, Phases, SocketOpen
<1>4. /\ ~lost
      /\ \/ /\ o \in DOMAIN present /\ present[o] \in Usable
            /\ batch' = Append(batch, AddOf(o))
         \/ /\ ~(o \in DOMAIN present /\ present[o] \in Usable)
            /\ batch' = batch
    BY <1>1, <1>2, EvaluateYields DEF IInv
<1>5. (Claimed(p, g) => IsAt(p, g)) /\ (IsAt(p, g) => (p \in todo \/ Claimed(p, g)))
    BY <1>2, <1>4 DEF IInv, Follows
<1>6. CASE batch' = batch /\ ~(o \in DOMAIN present /\ present[o] \in Usable)
    <2>1. Claimed(p, g)' <=> Claimed(p, g)
        BY <1>3, <1>6 DEF Claimed
    <2>2. IsAt(p, g)' <=> IsAt(p, g)
        BY <1>3 DEF IsAt
    <2>3. IsAt(p, g) => p # o
        BY <1>6 DEF IsAt
    <2> QED
        BY <1>1, <1>5, <2>1, <2>2, <2>3
<1>7. CASE batch' = Append(batch, AddOf(o))
    <2>1. PICK n \in Nat : n = Len(batch)
        BY DEF IInv, TypeOK
    <2>2. batch \in Seq(Action) /\ DOMAIN batch = 1..n /\ DOMAIN batch' = 1..(n + 1)
        BY <1>7, <2>1 DEF IInv, TypeOK
    <2>3. batch'[n + 1] = AddOf(o) /\ \A k \in 1..n : batch'[k] = batch[k]
        BY <1>7, <2>1, <2>2
    <2>4. AddOf(o).action = "add" /\ AddOf(o).path = o /\ AddOf(o).gadget = present[o]
        BY DEF AddOf
    <2>5. \A k \in 0..n : Removes(batch', p, k) <=> Removes(batch, p, k)
        BY <1>7, <2>1, <2>2, <2>4, RemovesAppend
    <2>6. ~Removes(batch', p, n + 1)
        BY <2>2 DEF Removes
    <2>7. ~Removes(queue, p, 0)' /\ ~Removes(queue, p, 0)
        BY <1>3 DEF Removes
    <2>8. IsAt(p, g)' <=> IsAt(p, g)
        BY <1>3 DEF IsAt
    <2>9. ASSUME Claimed(p, g)' PROVE IsAt(p, g)
        <3>1. CASE p \in DOMAIN listed /\ listed[p] = g /\ ~Removes(batch', p, 0)
            BY <1>5, <2>5, <2>7, <3>1 DEF Claimed
        <3>2. CASE \E k \in DOMAIN batch' :
                      /\ batch'[k].action = "add" /\ batch'[k].path = p /\ batch'[k].gadget = g
                      /\ ~Removes(batch', p, k)
            <4>1. PICK k \in 1..(n + 1) :
                      /\ batch'[k].action = "add" /\ batch'[k].path = p /\ batch'[k].gadget = g
                      /\ ~Removes(batch', p, k)
                BY <2>2, <3>2
            <4>2. CASE k = n + 1
                BY <1>4, <1>7, <2>2, <2>3, <2>4, <4>1, <4>2 DEF IsAt
            <4>3. CASE k # n + 1
                <5>1. k \in DOMAIN batch /\ batch'[k] = batch[k] /\ ~Removes(batch, p, k)
                    BY <2>2, <2>3, <2>5, <4>1, <4>3
                <5> QED
                    BY <1>5, <2>7, <4>1, <5>1 DEF Claimed
            <4> QED
                BY <4>2, <4>3
        <3> QED
            BY <1>3, <2>9, <3>1, <3>2 DEF Claimed
    <2>10. ASSUME IsAt(p, g), p \notin todo' PROVE Claimed(p, g)'
        <3>1. CASE p = o
            <4>1. n + 1 \in DOMAIN batch'
                BY <2>2
            <4> QED
                BY <2>3, <2>4, <2>6, <2>7, <2>10, <3>1, <4>1 DEF Claimed, IsAt
        <3>2. CASE p # o
            <4>1. Claimed(p, g)
                BY <1>1, <1>5, <2>10, <3>2
            <4>2. CASE p \in DOMAIN listed /\ listed[p] = g /\ ~Removes(batch, p, 0)
                BY <1>3, <2>5, <2>7, <4>2 DEF Claimed
            <4>3. CASE \E k \in DOMAIN batch :
                          /\ batch[k].action = "add" /\ batch[k].path = p /\ batch[k].gadget = g
                          /\ ~Removes(batch, p, k)
                <5>1. PICK k \in 1..n :
                          /\ batch[k].action = "add" /\ batch[k].path = p /\ batch[k].gadget = g
                          /\ ~Removes(batch, p, k)
                    BY <2>2, <4>3
                <5>2. k \in DOMAIN batch' /\ batch'[k] = batch[k] /\ ~Removes(batch', p, k)
                    BY <2>2, <2>3, <2>5, <5>1
                <5> QED
                    BY <2>7, <5>1, <5>2 DEF Claimed
            <4> QED
                BY <1>3, <4>1, <4>2, <4>3 DEF Claimed
        <3> QED
            BY <3>1, <3>2
    <2> QED
        BY <2>8, <2>9, <2>10
<1> QED
    BY <1>4, <1>6, <1>7

\* Sorting what is added changes none of it.
LEMMA SortFollows == IInv /\ Sort => Follows'
<1> SUFFICES ASSUME IInv, Sort, ~lost', NEW p \in Path, NEW g \in Usable
             PROVE  /\ (Claimed(p, g) => IsAt(p, g))'
                    /\ (IsAt(p, g) => (p \in todo \/ Claimed(p, g)))'
    BY DEF Follows
<1>1. /\ pc = "probe" /\ ToSet(batch') = ToSet(batch)
      /\ UNCHANGED <<kernel, socket, listed, todo, lost>>
    BY DEF Sort
<1>2. /\ \A k \in DOMAIN batch : batch[k].action = "add"
      /\ \A k \in DOMAIN batch' : batch'[k].action = "add"
    BY <1>1 DEF IInv, Phases, ToSet
<1>3. \A k : ~Removes(batch, p, k) /\ ~Removes(batch', p, k)
    BY <1>2 DEF Removes
<1>4. /\ (\E k \in DOMAIN batch : batch[k].action = "add" /\ batch[k].path = p /\ batch[k].gadget = g)
         <=> \E a \in ToSet(batch) : a.action = "add" /\ a.path = p /\ a.gadget = g
      /\ (\E k \in DOMAIN batch' : batch'[k].action = "add" /\ batch'[k].path = p /\ batch'[k].gadget = g)
         <=> \E a \in ToSet(batch') : a.action = "add" /\ a.path = p /\ a.gadget = g
    BY DEF ToSet
<1>5. (Claimed(p, g) => IsAt(p, g)) /\ (IsAt(p, g) => (p \in todo \/ Claimed(p, g)))
    BY <1>1 DEF IInv, Follows
<1>6. Claimed(p, g)' <=> Claimed(p, g)
    BY <1>1, <1>3, <1>4 DEF Claimed, kernel, socket
<1> QED
    BY <1>1, <1>5, <1>6 DEF IsAt, kernel

\* What was claimed by the first of the batch is claimed by the list, or by nothing if it was
\* taken back: an add of a node that is listed already says what the list says.
LEMMA ApplyFollows ==
    ASSUME IInv, batch # <<>>, Apply(Head(batch)), batch' = Tail(batch),
           UNCHANGED <<present, queue, todo>>, todo = {}, ~lost, pc # "scan",
           NEW p \in Path, NEW g \in Usable
    PROVE  (Claimed(p, g) <=> IsAt(p, g))'
<1>1. PICK n \in Nat : n = Len(batch)
    BY DEF IInv, TypeOK
<1>2. /\ batch \in Seq(Action) /\ n > 0 /\ DOMAIN batch = 1..n /\ DOMAIN batch' = 1..(n - 1)
      /\ batch[1] = Head(batch) /\ batch[1] \in Action
    BY <1>1 DEF IInv, TypeOK
<1>3. \A k \in 1..(n - 1) : batch'[k] = batch[k + 1]
    BY <1>1, <1>2
<1>4. \A k \in 0..(n - 1) : Removes(batch', p, k) <=> Removes(batch, p, k + 1)
    BY <1>1, <1>2, RemovesTail
<1>5. Removes(batch, p, 0) <=> Removes(batch, p, 1) \/ (batch[1].action = "remove" /\ batch[1].path = p)
    BY <1>2, RemovesHead
<1>6. Removes(batch', p, 0) <=> Removes(batch, p, 1)
    BY <1>2, <1>4
<1>7. \A h \in Usable : Claimed(p, h) <=> IsAt(p, h)
    BY DEF IInv, Follows
<1>8. IsAt(p, g)' <=> IsAt(p, g)
    BY DEF IsAt
<1>9. batch[1].action \in {"add", "remove"} /\ batch[1].path \in Path
    BY <1>2 DEF Action
\* The rest of the batch, and the queue, claim what they did.
<1>10. ASSUME NEW k \in 1..(n - 1)
       PROVE  batch'[k] = batch[k + 1] /\ (Removes(batch', p, k) <=> Removes(batch, p, k + 1))
    <2>1. k \in 0..(n - 1)
        BY <1>2
    <2> QED
        BY <1>3, <1>4, <2>1, Zenon
<1>11. (\E k \in DOMAIN batch' :
           /\ batch'[k].action = "add" /\ batch'[k].path = p /\ batch'[k].gadget = g
           /\ ~Removes(batch', p, k) /\ ~Removes(queue, p, 0))
       <=> \E k \in 2..n :
           /\ batch[k].action = "add" /\ batch[k].path = p /\ batch[k].gadget = g
           /\ ~Removes(batch, p, k) /\ ~Removes(queue, p, 0)
    <2>1. ASSUME NEW k \in DOMAIN batch',
                 batch'[k].action = "add", batch'[k].path = p, batch'[k].gadget = g,
                 ~Removes(batch', p, k)
          PROVE  \E i \in 2..n : /\ batch[i].action = "add" /\ batch[i].path = p
                                 /\ batch[i].gadget = g /\ ~Removes(batch, p, i)
        <3>1. k + 1 \in 2..n /\ batch'[k] = batch[k + 1] /\ ~Removes(batch, p, k + 1)
            BY <1>2, <1>10, <2>1
        <3> QED
            BY <2>1, <3>1
    <2>2. ASSUME NEW k \in 2..n,
                 batch[k].action = "add", batch[k].path = p, batch[k].gadget = g,
                 ~Removes(batch, p, k)
          PROVE  \E i \in DOMAIN batch' : /\ batch'[i].action = "add" /\ batch'[i].path = p
                                          /\ batch'[i].gadget = g /\ ~Removes(batch', p, i)
        <3>1. k - 1 \in 1..(n - 1) /\ (k - 1) + 1 = k
            OBVIOUS
        <3>2. batch'[k - 1] = batch[k] /\ ~Removes(batch', p, k - 1)
            BY <1>10, <2>2, <3>1
        <3> QED
            BY <1>2, <2>2, <3>1, <3>2
    <2> QED
        BY <2>1, <2>2
<1> DEFINE Rest == \/ \E k \in 2..n :
                         /\ batch[k].action = "add" /\ batch[k].path = p /\ batch[k].gadget = g
                         /\ ~Removes(batch, p, k) /\ ~Removes(queue, p, 0)
                   \/ \E k \in DOMAIN queue :
                         /\ queue[k].action = "add" /\ queue[k].path = p
                         /\ p \in DOMAIN present /\ present[p] = g
                         /\ ~Removes(queue, p, k)
           InList  == /\ p \in DOMAIN listed /\ listed[p] = g
                      /\ ~Removes(batch, p, 0) /\ ~Removes(queue, p, 0)
           First == /\ batch[1].action = "add" /\ batch[1].path = p /\ batch[1].gadget = g
                    /\ ~Removes(batch, p, 1) /\ ~Removes(queue, p, 0)
<1>12. Claimed(p, g) <=> InList \/ First \/ Rest
    <2>1. (\E k \in 1..n :
              /\ batch[k].action = "add" /\ batch[k].path = p /\ batch[k].gadget = g
              /\ ~Removes(batch, p, k) /\ ~Removes(queue, p, 0))
          <=> First \/ \E k \in 2..n :
              /\ batch[k].action = "add" /\ batch[k].path = p /\ batch[k].gadget = g
              /\ ~Removes(batch, p, k) /\ ~Removes(queue, p, 0)
        BY <1>2
    <2> QED
        BY <1>2, <2>1 DEF Claimed
<1>13. Claimed(p, g)' <=>
          \/ /\ p \in DOMAIN listed' /\ listed'[p] = g
             /\ ~Removes(batch, p, 1) /\ ~Removes(queue, p, 0)
          \/ Rest
    BY <1>6, <1>11 DEF Claimed
<1> HIDE DEF Rest
<1>14. CASE batch[1].action = "add"
    <2> DEFINE o == batch[1].path
               h == batch[1].gadget
    <2>1. h \in Usable
        BY <1>2, <1>14 DEF Action
    <2>2. listed' = IF o \in DOMAIN listed THEN listed
                    ELSE [q \in DOMAIN listed \cup {o} |-> IF q = o THEN h ELSE listed[q]]
        BY <1>2, <1>14 DEF Apply, HandleAdd
    <2>3. Removes(batch, p, 0) <=> Removes(batch, p, 1)
        BY <1>5, <1>14
    <2>4. CASE p \in DOMAIN listed
        <3>1. p \in DOMAIN listed' /\ listed'[p] = listed[p]
            BY <2>2, <2>4
        <3>2. listed[p] \in Usable
            BY <2>4 DEF IInv, TypeOK, IsNodes
        <3>3. First => InList
            <4>1. ASSUME First PROVE InList
                <5>1. Claimed(p, listed[p])
                    BY <2>3, <2>4, <4>1 DEF Claimed
                <5>2. IsAt(p, listed[p]) /\ IsAt(p, g)
                    BY <1>7, <1>12, <3>2, <4>1, <5>1
                <5> QED
                    BY <2>3, <2>4, <4>1, <5>2 DEF IsAt
            <4> QED
                BY <4>1
        <3> QED
            BY <1>7, <1>8, <1>12, <1>13, <2>3, <2>4, <3>1, <3>3
    <2>5. CASE p \notin DOMAIN listed
        <3>1. (p \in DOMAIN listed' /\ listed'[p] = g) <=> (o = p /\ h = g)
            BY <2>2, <2>5
        <3> QED
            BY <1>7, <1>8, <1>12, <1>13, <1>14, <2>5, <3>1
    <2> QED
        BY <2>4, <2>5
<1>15. CASE batch[1].action = "remove"
    <2>1. listed' = Restrict(listed, DOMAIN listed \ {batch[1].path})
        BY <1>2, <1>15 DEF Apply, HandleRemove
    <2>2. (p \in DOMAIN listed' /\ listed'[p] = g)
             <=> (p \in DOMAIN listed /\ listed[p] = g /\ p # batch[1].path)
        BY <2>1 DEF Restrict
    <2> QED
        BY <1>5, <1>7, <1>8, <1>12, <1>13, <1>15, <2>2
<1> QED
    BY <1>9, <1>14, <1>15

\* An event that is read claims in the batch what it claimed in the queue, and a remove takes back
\* there what it took back before.
LEMMA RecvKeepsClaims ==
    ASSUME IInv, Recv, ~lost', NEW p \in Path, NEW g \in Usable
    PROVE  ~lost /\ (Claimed(p, g)' <=> Claimed(p, g))
<1> DEFINE e == Head(queue)
<1>1. PICK n \in Nat : n = Len(queue)
    BY DEF IInv, TypeOK
<1>2. /\ queue \in Seq(Event) /\ queue # <<>> /\ queue' = Tail(queue) /\ n > 0
      /\ DOMAIN queue = 1..n /\ DOMAIN queue' = 1..(n - 1)
      /\ queue[1] = e /\ e \in Event
    BY <1>1 DEF IInv, TypeOK, Recv
<1>3. \A k \in 1..(n - 1) : queue'[k] = queue[k + 1]
    BY <1>1, <1>2
<1>4. \A k \in 0..(n - 1) : Removes(queue', p, k) <=> Removes(queue, p, k + 1)
    BY <1>1, <1>2, RemovesTail
<1>5. Removes(queue, p, 0) <=> Removes(queue, p, 1) \/ (e.action = "remove" /\ e.path = p)
    BY <1>2, RemovesHead
<1>6. Removes(queue', p, 0) <=> Removes(queue, p, 1)
    BY <1>2, <1>4
<1>7. listed' = listed /\ present' = present
    BY DEF Recv, kernel
<1>8. e.action \in {"add", "remove", "other"} /\ e.path \in Path
    BY <1>2 DEF Event
<1>9. PICK m \in Nat : m = Len(batch)
    BY DEF IInv, TypeOK
<1>10. batch \in Seq(Action) /\ DOMAIN batch = 1..m
    BY <1>9 DEF IInv, TypeOK
<1> DEFINE Later == \E k \in 2..n :
                        /\ queue[k].action = "add" /\ queue[k].path = p
                        /\ p \in DOMAIN present /\ present[p] = g
                        /\ ~Removes(queue, p, k)
           First == /\ e.action = "add" /\ e.path = p
                    /\ p \in DOMAIN present /\ present[p] = g
                    /\ ~Removes(queue, p, 1)
           Old(k) == batch[k].action = "add" /\ batch[k].path = p /\ batch[k].gadget = g
           New(k) == batch'[k].action = "add" /\ batch'[k].path = p /\ batch'[k].gadget = g
           OnList == p \in DOMAIN listed /\ listed[p] = g
<1>11. (\E k \in DOMAIN queue' :
           /\ queue'[k].action = "add" /\ queue'[k].path = p
           /\ p \in DOMAIN present' /\ present'[p] = g
           /\ ~Removes(queue', p, k))
       <=> Later
    <2>1. ASSUME NEW k \in DOMAIN queue', queue'[k].action = "add", queue'[k].path = p,
                 p \in DOMAIN present, present[p] = g, ~Removes(queue', p, k)
          PROVE  Later
        <3>1. k \in 1..(n - 1) /\ k \in 0..(n - 1) /\ k + 1 \in 2..n
            BY <1>2
        <3>2. queue'[k] = queue[k + 1] /\ ~Removes(queue, p, k + 1)
            BY <1>3, <1>4, <2>1, <3>1
        <3> QED
            BY <2>1, <3>1, <3>2
    <2>2. ASSUME NEW k \in 2..n, queue[k].action = "add", queue[k].path = p, ~Removes(queue, p, k)
          PROVE  \E i \in DOMAIN queue' : /\ queue'[i].action = "add" /\ queue'[i].path = p
                                          /\ ~Removes(queue', p, i)
        <3>1. k - 1 \in 1..(n - 1) /\ k - 1 \in 0..(n - 1) /\ (k - 1) + 1 = k
            OBVIOUS
        <3>2. queue'[k - 1] = queue[(k - 1) + 1] /\ (Removes(queue', p, k - 1) <=> Removes(queue, p, (k - 1) + 1))
            BY <1>3, <1>4, <3>1
        <3> QED
            BY <1>2, <2>2, <3>1, <3>2
    <2> QED
        BY <1>7, <2>1, <2>2
<1>12. Claimed(p, g) <=> \/ OnList /\ ~Removes(batch, p, 0) /\ ~Removes(queue, p, 0)
                         \/ \E k \in 1..m : Old(k) /\ ~Removes(batch, p, k) /\ ~Removes(queue, p, 0)
                         \/ First
                         \/ Later
    <2>1. (\E k \in 1..n : /\ queue[k].action = "add" /\ queue[k].path = p
                           /\ p \in DOMAIN present /\ present[p] = g
                           /\ ~Removes(queue, p, k))
          <=> First \/ Later
        BY <1>2
    <2> HIDE DEF First, Later
    <2> QED
        BY <1>2, <1>10, <2>1 DEF Claimed
<1>13. Claimed(p, g)' <=> \/ OnList /\ ~Removes(batch', p, 0) /\ ~Removes(queue, p, 1)
                          \/ \E k \in DOMAIN batch' : New(k) /\ ~Removes(batch', p, k) /\ ~Removes(queue, p, 1)
                          \/ Later
    BY <1>6, <1>7, <1>11 DEF Claimed
<1> HIDE DEF Later
<1>14. CASE e.action = "other" \/ (e.action = "add" /\ batch' = batch /\ ~lost
                                  /\ ~(e.path \in DOMAIN present /\ present[e.path] \in Usable))
    <2>1. batch' = batch /\ ~lost
        <3>1. CASE e.action = "other"
            BY <3>1 DEF Recv, Parse
        <3> QED
            BY <1>14, <3>1
    <2>2. ~First /\ (Removes(queue, p, 0) <=> Removes(queue, p, 1))
        BY <1>5, <1>14
    <2> QED
        BY <1>10, <1>12, <1>13, <2>1, <2>2
<1>15. ASSUME NEW a, batch' = Append(batch, a)
       PROVE  /\ DOMAIN batch' = 1..(m + 1)
              /\ batch'[m + 1] = a /\ \A k \in 1..m : batch'[k] = batch[k]
              /\ \A k \in 0..m : Removes(batch', p, k) <=>
                                    Removes(batch, p, k) \/ (a.action = "remove" /\ a.path = p)
              /\ ~Removes(batch', p, m + 1)
    <2>1. DOMAIN batch' = 1..(m + 1)
        BY <1>9, <1>10, <1>15
    <2>2. batch'[m + 1] = a /\ \A k \in 1..m : batch'[k] = batch[k]
        BY <1>9, <1>10, <1>15
    <2>3. \A k \in 0..m : Removes(batch', p, k) <=>
                             Removes(batch, p, k) \/ (a.action = "remove" /\ a.path = p)
        BY <1>9, <1>10, <1>15, RemovesAppend
    <2>4. ~Removes(batch', p, m + 1)
        BY <2>1 DEF Removes
    <2> QED
        BY <2>1, <2>2, <2>3, <2>4
<1>16. CASE /\ e.action = "add" /\ ~lost
            /\ e.path \in DOMAIN present /\ present[e.path] \in Usable
            /\ batch' = Append(batch, AddOf(e.path))
    <2> DEFINE a == AddOf(e.path)
    <2>1. a.action = "add" /\ a.path = e.path /\ a.gadget = present[e.path]
        BY DEF AddOf
    <2> HIDE DEF a
    <2>2. /\ DOMAIN batch' = 1..(m + 1)
          /\ batch'[m + 1] = a /\ \A k \in 1..m : batch'[k] = batch[k]
          /\ \A k \in 0..m : Removes(batch', p, k) <=> Removes(batch, p, k)
          /\ ~Removes(batch', p, m + 1)
        BY <1>15, <1>16, <2>1 DEF a
    <2>3. Removes(queue, p, 0) <=> Removes(queue, p, 1)
        BY <1>5, <1>16
    <2>4. (\E k \in DOMAIN batch' : New(k) /\ ~Removes(batch', p, k) /\ ~Removes(queue, p, 1))
          <=> \/ \E k \in 1..m : Old(k) /\ ~Removes(batch, p, k) /\ ~Removes(queue, p, 0)
              \/ First
        <3>1. New(m + 1) /\ ~Removes(queue, p, 1) <=> First
            BY <1>16, <2>1, <2>2
        <3>2. \A k \in 1..m : New(k) /\ ~Removes(batch', p, k) <=> Old(k) /\ ~Removes(batch, p, k)
            BY <2>2
        <3> QED
            BY <2>2, <2>3, <3>1, <3>2
    <2>5. Removes(batch', p, 0) <=> Removes(batch, p, 0)
        BY <2>2
    <2> QED
        BY <1>12, <1>13, <1>16, <2>3, <2>4, <2>5
<1>17. CASE e.action = "remove"
    <2> DEFINE a == [action |-> "remove", path |-> e.path]
    <2>1. batch' = Append(batch, a) /\ ~lost
        BY <1>17 DEF Recv, Parse
    <2>2. a.action = "remove" /\ a.path = e.path
        OBVIOUS
    <2> HIDE DEF a
    <2>3. /\ DOMAIN batch' = 1..(m + 1)
          /\ batch'[m + 1] = a /\ \A k \in 1..m : batch'[k] = batch[k]
          /\ \A k \in 0..m : Removes(batch', p, k) <=> Removes(batch, p, k) \/ e.path = p
        BY <1>15, <2>1, <2>2
    <2>4. Removes(queue, p, 0) <=> Removes(queue, p, 1) \/ e.path = p
        BY <1>5, <1>17
    <2>5. (\E k \in DOMAIN batch' : New(k) /\ ~Removes(batch', p, k) /\ ~Removes(queue, p, 1))
          <=> \E k \in 1..m : Old(k) /\ ~Removes(batch, p, k) /\ ~Removes(queue, p, 0)
        <3>1. ~New(m + 1)
            BY <2>2, <2>3
        <3>2. \A k \in 1..m : New(k) /\ ~Removes(batch', p, k) /\ ~Removes(queue, p, 1)
                              <=> Old(k) /\ ~Removes(batch, p, k) /\ ~Removes(queue, p, 0)
            BY <2>3, <2>4
        <3> QED
            BY <2>3, <3>1, <3>2
    <2>6. Removes(batch', p, 0) <=> Removes(batch, p, 0) \/ e.path = p
        BY <2>3
    <2>7. ~First
        BY <1>17
    <2> QED
        BY <1>12, <1>13, <2>1, <2>4, <2>5, <2>6, <2>7
<1>18. CASE e.action = "add"
    <2>1. Evaluate(e.path, batch)
        BY <1>18 DEF Recv, Parse
    <2> QED
        BY <1>8, <1>14, <1>16, <1>18, <2>1, EvaluateYields DEF IInv
<1> QED
    BY <1>8, <1>14, <1>17, <1>18

LEMMA MonitorFollows == IInv /\ Monitor => Follows'
<1> SUFFICES ASSUME IInv, Monitor, ~lost', pc' # "scan" PROVE Follows'
    BY DEF Follows
\* Nothing is left to probe but while probing.
<1>1. pc # "probe" => todo = {}
    BY DEF IInv, Phases
<1>2. ASSUME NEW here \in {"add", "apply"}, pc = here,
             IF batch = <<>> THEN UNCHANGED <<listed, batch>>
                             ELSE Apply(Head(batch)) /\ batch' = Tail(batch),
             UNCHANGED <<kernel, socket, todo, lost>>
      PROVE  Follows'
    <2>1. ~lost /\ pc # "scan" /\ todo = {} /\ todo' = {} /\ UNCHANGED <<present, queue, todo>>
        BY <1>1, <1>2 DEF kernel, socket
    <2>2. CASE batch = <<>>
        BY <1>2, <2>1, <2>2 DEF IInv, Follows, Claimed, IsAt
    <2>3. CASE batch # <<>>
        <3>1. Apply(Head(batch)) /\ batch' = Tail(batch)
            BY <1>2, <2>3
        <3>2. ASSUME NEW p \in Path, NEW g \in Usable PROVE (Claimed(p, g) <=> IsAt(p, g))'
            BY <2>1, <2>3, <3>1, ApplyFollows
        <3> QED
            BY <3>2 DEF Follows
    <2> QED
        BY <2>2, <2>3
<1>3. CASE Open \/ Wake \/ RecvError \/ WouldBlock
    <2>1. UNCHANGED <<present, listed, batch, queue, todo>> /\ ~lost /\ pc # "scan"
        <3>1. CASE Open
            <4>1. lost' = (lost \/ pc' = "ended") /\ pc = "open"
                BY <3>1 DEF Open
            <4>2. ~lost
                BY <4>1, Zenon
            <4> QED
                BY <3>1, <4>1, <4>2 DEF Open, kernel, socket
        <3>2. CASE Wake \/ RecvError \/ WouldBlock
            BY <3>2 DEF Wake, RecvError, WouldBlock, kernel, socket
        <3> QED
            BY <1>3, <3>1, <3>2
    <2> QED
        BY <2>1 DEF IInv, Follows, Claimed, IsAt
<1>4. CASE Recv
    <2>1. UNCHANGED <<present, todo>> /\ pc # "scan" /\ todo' = todo
        BY <1>4 DEF Recv, kernel
    <2>2. ASSUME NEW p \in Path, NEW g \in Usable
          PROVE  /\ (Claimed(p, g) => IsAt(p, g))'
                 /\ (IsAt(p, g) => (p \in todo \/ Claimed(p, g)))'
        <3>1. ~lost /\ (Claimed(p, g)' <=> Claimed(p, g))
            BY <1>4, RecvKeepsClaims
        <3> QED
            BY <2>1, <3>1 DEF IInv, Follows, IsAt
    <2> QED
        BY <2>2 DEF Follows
<1>5. CASE ScanAdd
    BY <1>2, <1>5 DEF ScanAdd
<1>6. CASE ApplyNext
    BY <1>2, <1>6 DEF ApplyNext
<1> QED
    BY <1>3, <1>4, <1>5, <1>6, ReadDirFollows, ProbeFollows, SortFollows DEF Monitor

----------------------------------------------------------------------------
\* The inductive invariant: from the scan on, what is listed, to be added and announced claims
\* every camera that is connected, but those still to be probed, and no other.
THEOREM HotplugInvariance == Spec => []IInv
<1>1. Init => IInv
    <2> SUFFICES ASSUME Init PROVE IInv
        OBVIOUS
    <2>1. IsNodes(present, Gadget)
        <3>1. PICK D \in SUBSET Path : present \in [D -> Gadget]
            BY DEF Init
        <3> QED
            BY <3>1 DEF IsNodes
    <2>2. IsNodes(listed, Usable)
        BY DEF Init, Nothing, IsNodes
    <2>3. batch \in Seq(Action) /\ queue \in Seq(Event) /\ Len(queue) <= QueueCap
        BY QueueAssumption DEF Init
    <2>4. /\ pc = "scan" /\ todo = {} /\ left \in 0..Budget
          /\ congested = FALSE /\ enobufs = FALSE /\ ready = FALSE /\ lost = FALSE
        BY BudgetAssumption DEF Init
    <2>5. TypeOK
        BY <2>1, <2>2, <2>3, <2>4 DEF TypeOK
    <2>6. Phases /\ Follows
        BY DEF Init, Phases, Follows, SocketOpen
    <2> QED
        BY <2>5, <2>6 DEF IInv
<1>2. IInv /\ [Next]_vars => IInv'
    <2>1. CASE UNCHANGED vars
        BY <2>1 DEF vars, kernel, socket, task, IInv, TypeOK, IsNodes, Phases, SocketOpen, Follows,
                    Claimed, IsAt
    <2>2. IInv /\ Kernel => IInv'
        BY KernelTypes, KernelFollows DEF IInv
    <2>3. IInv /\ Monitor => IInv'
        BY MonitorTypes, MonitorFollows DEF IInv
    <2> QED
        BY <2>1, <2>2, <2>3 DEF Next
<1> QED
    BY <1>1, <1>2, PTL DEF Spec

\* The types of the kernel's queue, of the monitor and of the list.
THEOREM HotplugTypes == Spec => []TypeOK
<1>1. IInv => TypeOK
    BY DEF IInv
<1> QED
    BY <1>1, HotplugInvariance, PTL

\* Following events misses nothing: while none was lost, the list and what is pending claim exactly
\* the cameras that are connected, for every number of nodes and every length of the queue, and
\* whenever they are plugged, unplugged and probed.
THEOREM ViewAlwaysConverges == Spec => []ViewConverges
<1>1. IInv => ViewConverges
    <2> SUFFICES ASSUME IInv, SocketOpen, ~lost, NEW p \in Path, NEW g \in Usable
                 PROVE  Claimed(p, g) <=> p \in DOMAIN present /\ present[p] = g
        BY DEF ViewConverges
    <2>1. pc \notin {"scan", "probe"}
        BY DEF SocketOpen
    <2>2. todo = {}
        BY <2>1 DEF IInv, Phases
    <2> QED
        BY <2>1, <2>2 DEF IInv, Follows, IsAt
<1> QED
    BY <1>1, HotplugInvariance, PTL

=============================================================================
