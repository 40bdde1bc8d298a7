------------------------------- MODULE Hotplug -------------------------------
(***************************************************************************)
(* How the daemon learns which cameras are connected (src/src/camera.rs):  *)
(* initial_scan lists what /dev holds, then monitor_loop opens a netlink   *)
(* socket and follows the kernel's uevents.  Of the registry only the list *)
(* of cameras is kept; module Registry has the rest of it.                 *)
(*                                                                         *)
(* The kernel's side is external: the receive queue holds QueueCap events; *)
(* one that does not fit is dropped, and from then on all are until the    *)
(* queue was emptied, but only the first of them reports ENOBUFS and wakes *)
(* the task.  recv returns that error before the events still queued.      *)
(***************************************************************************)
EXTENDS Integers, FiniteSets, FiniteSetsExt, Functions, SequencesExt

CONSTANTS
    Path,      \* the n of the /dev/videoN nodes
    Gadget,    \* what a node may belong to
    Usable,    \* the gadgets that are USB capture devices
    QueueCap,  \* events the socket can hold
    Budget,    \* events in a behavior
    Faults     \* see FaultKinds

FaultKinds == {"early",        \* hotplug before the socket is open
               "scan_error",   \* /dev cannot be read
               "probe_error",  \* a node that exists cannot be probed
               "open_error"}   \* the socket cannot be opened

ASSUME PathAssumption   == Path \subseteq Nat /\ IsFiniteSet(Path)
ASSUME UsableAssumption == Usable \subseteq Gadget
ASSUME QueueAssumption  == QueueCap \in Nat \ {0}
ASSUME BudgetAssumption == Budget \in Nat
ASSUME FaultsAssumption == Faults \subseteq FaultKinds

VARIABLES
    present,    \* the nodes in /dev, and the gadget behind each
    listed,     \* AppState.cameras: the nodes listed, and the gadget behind each
    pc,         \* what the monitor task is at
    todo,       \* nodes initial_scan has still to probe
    batch,      \* actions not applied yet
    queue,      \* the events in the socket
    congested,  \* the kernel drops events until the queue was emptied
    enobufs,    \* the error recv returns next
    ready,      \* the task will be woken
    lost,       \* an event or a probe was lost
    left        \* events still to come

kernel == <<present, left>>
socket == <<queue, congested, enobufs, ready>>
task   == <<listed, pc, todo, batch>>
vars   == <<kernel, socket, task, lost>>

Event  == [action : {"add", "remove", "other"}, path : Path]
Action == [action : {"add"}, path : Path, gadget : Usable]
          \cup [action : {"remove"}, path : Path]

IsNodes(f, S) == DOMAIN f \subseteq Path /\ f \in [DOMAIN f -> S]

TypeOK ==
    /\ IsNodes(present, Gadget)
    /\ IsNodes(listed, Usable)
    /\ pc \in {"scan", "probe", "add", "open", "wait", "drain", "apply", "ended"}
    /\ todo \subseteq Path
    /\ batch \in Seq(Action)
    /\ queue \in Seq(Event) /\ Len(queue) <= QueueCap
    /\ congested \in BOOLEAN /\ enobufs \in BOOLEAN /\ ready \in BOOLEAN
    /\ lost \in BOOLEAN
    /\ left \in 0..Budget

Nothing == [p \in {} |-> p]

Init ==
    /\ present \in {f \in UNION {[D -> Gadget] : D \in SUBSET Path} : IsInjective(f)}
    /\ listed = Nothing
    /\ pc = "scan"
    /\ todo = {} /\ batch = <<>>
    /\ queue = <<>>
    /\ congested = FALSE /\ enobufs = FALSE /\ ready = FALSE
    /\ lost = FALSE
    /\ left = Budget

-----------------------------------------------------------------------------
\* The kernel.

SocketOpen == pc \in {"wait", "drain", "apply"}

\* An event is broadcast.  What happens without a socket is lost, unless the
\* scan is still to come.
Broadcast(action, p) ==
    /\ left > 0 /\ left' = left - 1
    /\ CASE ~SocketOpen ->
              /\ action # "other" => "early" \in Faults
              /\ lost' = (lost \/ (action # "other" /\ pc # "scan"))
              /\ UNCHANGED socket
         [] SocketOpen /\ ~congested /\ Len(queue) < QueueCap ->
              /\ queue' = Append(queue, [action |-> action, path |-> p])
              /\ ready' = TRUE
              /\ UNCHANGED <<congested, enobufs, lost>>
         [] OTHER ->
              /\ congested' = TRUE
              /\ enobufs' = (enobufs \/ ~congested)
              /\ ready' = (ready \/ ~congested)
              /\ lost' = (lost \/ action # "other")
              /\ UNCHANGED queue
    /\ UNCHANGED task

Plug(p, g) ==
    /\ p \notin DOMAIN present /\ g \notin Range(present)
    /\ present' = [q \in DOMAIN present \cup {p} |-> IF q = p THEN g ELSE present[q]]
    /\ Broadcast("add", p)

Unplug(p) ==
    /\ p \in DOMAIN present
    /\ present' = Restrict(present, DOMAIN present \ {p})
    /\ Broadcast("remove", p)

\* An add event for a node that exists (udevadm trigger), or an event that is
\* none of the monitor's business: they take room in the queue as well.
Retrigger(p) ==
    /\ p \in DOMAIN present
    /\ Broadcast("add", p)
    /\ UNCHANGED present
Other(p) == Broadcast("other", p) /\ UNCHANGED present

-----------------------------------------------------------------------------
\* evaluate_path: what a probe of node p yields, none or one Add.  found is what
\* had been found before, and result what is known now.

\* Mutant: metadata nodes and on-board codecs are cameras.
AddsAny(p) == IF p \in DOMAIN present
              THEN <<[action |-> "add", path |-> p, gadget |-> present[p]]>>
              ELSE <<>>

Adds(p) == IF p \in DOMAIN present /\ present[p] \in Usable
           THEN <<[action |-> "add", path |-> p, gadget |-> present[p]]>>
           ELSE <<>>

Evaluate(p, found) ==
    \/ batch' = found \o Adds(p) /\ UNCHANGED lost
    \/ /\ "probe_error" \in Faults /\ Adds(p) # <<>>
       /\ batch' = found /\ lost' = TRUE

\* handle_add, which ignores a node that is listed, and handle_remove.
HandleAdd(p, g) ==
    listed' = IF p \in DOMAIN listed THEN listed
              ELSE [q \in DOMAIN listed \cup {p} |-> IF q = p THEN g ELSE listed[q]]
HandleRemove(p) == listed' = Restrict(listed, DOMAIN listed \ {p})

Apply(a) == IF a.action = "add" THEN HandleAdd(a.path, a.gadget)
                                ELSE HandleRemove(a.path)

-----------------------------------------------------------------------------
\* initial_scan.

ReadDir ==
    /\ pc = "scan"
    /\ \/ pc' = "probe" /\ todo' = DOMAIN present /\ UNCHANGED lost
       \/ /\ "scan_error" \in Faults
          /\ pc' = "open" /\ todo' = {}
          /\ lost' = TRUE
    /\ UNCHANGED <<kernel, socket, listed, batch>>

\* The directory's order is arbitrary; the result is sorted when it is complete.
Probe ==
    /\ pc = "probe"
    /\ \E p \in todo :
        /\ todo' = todo \ {p}
        /\ Evaluate(p, batch)
    /\ UNCHANGED <<kernel, socket, listed, pc>>

Sort ==
    /\ pc = "probe" /\ todo = {}
    /\ pc' = "add"
    /\ batch' \in {s \in [DOMAIN batch -> ToSet(batch)] :
                     ToSet(s) = ToSet(batch) /\ \A i, j \in DOMAIN s : i < j => s[i].path <= s[j].path}
    /\ UNCHANGED <<kernel, socket, listed, todo, lost>>

ScanAdd ==
    /\ pc = "add"
    /\ IF batch = <<>>
       THEN pc' = "open" /\ UNCHANGED <<listed, batch>>
       ELSE Apply(Head(batch)) /\ batch' = Tail(batch) /\ UNCHANGED pc
    /\ UNCHANGED <<kernel, socket, todo, lost>>

-----------------------------------------------------------------------------
\* monitor_loop.

Open ==
    /\ pc = "open"
    /\ pc' \in IF "open_error" \in Faults THEN {"wait", "ended"} ELSE {"wait"}
    /\ lost' = (lost \/ pc' = "ended")
    /\ UNCHANGED <<kernel, socket, listed, todo, batch>>

\* readable().await.  clear_ready clears only the readiness seen here, so an
\* event that comes while the queue is drained wakes the task again.
Wake ==
    /\ pc = "wait" /\ ready
    /\ pc' = "drain"
    /\ ready' = FALSE
    /\ UNCHANGED <<kernel, queue, congested, enobufs, listed, todo, batch, lost>>

\* Mutant: the queued events are thrown away with the error.
RecvErrorFlushing ==
    /\ pc = "drain" /\ enobufs
    /\ enobufs' = FALSE
    /\ pc' = "apply"
    /\ queue' = <<>>
    /\ UNCHANGED <<kernel, congested, ready, listed, todo, batch, lost>>

\* recv returns the error: the loop breaks, what is queued stays there.
RecvError ==
    /\ pc = "drain" /\ enobufs
    /\ enobufs' = FALSE
    /\ pc' = "apply"
    /\ UNCHANGED <<kernel, queue, congested, ready, listed, todo, batch, lost>>

\* parse_uevent.  The node is probed when its event is read, not when it was sent.
Parse(e) ==
    CASE e.action = "add"    -> Evaluate(e.path, batch)
      [] e.action = "remove" -> /\ batch' = Append(batch, [action |-> "remove", path |-> e.path])
                                /\ UNCHANGED lost
      [] OTHER               -> UNCHANGED <<batch, lost>>

\* Mutant: one event is read each time the task is woken.
RecvOne ==
    /\ pc = "drain" /\ ~enobufs /\ queue # <<>>
    /\ Parse(Head(queue))
    /\ queue' = Tail(queue)
    /\ congested' = (congested /\ queue' # <<>>)
    /\ pc' = "apply"
    /\ UNCHANGED <<kernel, enobufs, ready, listed, todo>>

Recv ==
    /\ pc = "drain" /\ ~enobufs /\ queue # <<>>
    /\ Parse(Head(queue))
    /\ queue' = Tail(queue)
    /\ congested' = (congested /\ queue' # <<>>)
    /\ UNCHANGED <<kernel, enobufs, ready, listed, pc, todo>>

WouldBlock ==
    /\ pc = "drain" /\ ~enobufs /\ queue = <<>>
    /\ pc' = "apply"
    /\ UNCHANGED <<kernel, socket, listed, todo, batch, lost>>

ApplyNext ==
    /\ pc = "apply"
    /\ IF batch = <<>>
       THEN pc' = "wait" /\ UNCHANGED <<listed, batch>>
       ELSE Apply(Head(batch)) /\ batch' = Tail(batch) /\ UNCHANGED pc
    /\ UNCHANGED <<kernel, socket, todo, lost>>

Kernel == \E p \in Path : \/ \E g \in Gadget : Plug(p, g)
                          \/ Unplug(p) \/ Retrigger(p) \/ Other(p)
Monitor == \/ ReadDir \/ Probe \/ Sort \/ ScanAdd
           \/ Open \/ Wake \/ RecvError \/ Recv \/ WouldBlock \/ ApplyNext

Next == Kernel \/ Monitor

\* The runtime polls a task that can go on.
Spec == Init /\ [][Next]_vars /\ WF_vars(Monitor)

-----------------------------------------------------------------------------
Connected == Restrict(present, {p \in DOMAIN present : present[p] \in Usable})

\* A remove after place k of s takes node p off the list again.
Removes(s, p, k) == \E j \in DOMAIN s : j > k /\ s[j].action = "remove" /\ s[j].path = p

\* Something says that p is to be listed with gadget g, and nothing pending takes it back: the
\* list, an add not applied yet, or an add event, which will probe the node as it is now.
Claimed(p, g) ==
    \/ /\ p \in DOMAIN listed /\ listed[p] = g
       /\ ~Removes(batch, p, 0) /\ ~Removes(queue, p, 0)
    \/ \E k \in DOMAIN batch :
          /\ batch[k].action = "add" /\ batch[k].path = p /\ batch[k].gadget = g
          /\ ~Removes(batch, p, k) /\ ~Removes(queue, p, 0)
    \/ \E k \in DOMAIN queue :
          /\ queue[k].action = "add" /\ queue[k].path = p
          /\ p \in DOMAIN present /\ present[p] = g
          /\ ~Removes(queue, p, k)

\* Nothing is missed by following events: while none was lost, the list and what
\* is pending always claim the cameras that are connected now and no others,
\* although a node is probed after its event was sent, added after it was probed,
\* and may have gone, or belong to another camera, by then.
ViewConverges ==
    SocketOpen /\ ~lost =>
        \A p \in Path, g \in Usable : Claimed(p, g) <=> p \in DOMAIN present /\ present[p] = g

\* Once the plugging is over the list is what is connected, unless an event or a
\* probe was lost, or the queue is jammed: after an overflow the loop leaves the
\* queued events unread, and no new event wakes it.
ListedUnlessLost == <>[](lost \/ congested \/ listed = Connected)
=============================================================================
