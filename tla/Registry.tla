------------------------------ MODULE Registry ------------------------------
(***************************************************************************)
(* The camera registry of the daemon (src/src/camera.rs), what it          *)
(* remembers in memory (AppState.persist), the file it mirrors that to     *)
(* (state.toml), and the tasks that change them: the hotplug monitor and   *)
(* the web requests, each running as a task of its own.                    *)
(*                                                                         *)
(* A handler changes the registry and takes a snapshot of it in one        *)
(* critical section (the write lock of AppState.cameras), releases the     *)
(* lock, and only then waits for the mutex of AppState.persist to insert   *)
(* the snapshot's rows and write the file.  So a handler is two steps: its *)
(* own action, which leaves the snapshot in pend, and InsertSnapshot,      *)
(* which takes the mutex (saver).  The write of the file, under the mutex, *)
(* is cut in two at the point where the file is truncated.                 *)
(*                                                                         *)
(* Streams are only ports here: module Streaming has their supervisors.    *)
(***************************************************************************)
EXTENDS CameraOps

CONSTANTS
    Request,         \* concurrent web requests
    Monitor,         \* the hotplug monitor task
    Nobody,          \* no task holds the persist mutex
    Cabling,         \* which camera may sit in which USB port
    NodesPerCamera,  \* capture nodes one camera may create
    Faults,          \* see FaultKinds
    Overlap          \* FALSE: handlers run one at a time, none in initial_scan

Proc == Request \cup {Monitor}

FaultKinds == {"crash",       \* the daemon stops at any point and boots again
               "rewire",      \* cables are changed while it is down
               "disconnect",  \* a client closes its connection mid-request
               "save_error"}  \* opening or writing state.toml fails

ASSUME ProcAssumption    == Monitor \notin Request /\ Nobody \notin Proc
ASSUME CablingAssumption == Cabling \subseteq Device
ASSUME NodesAssumption   == NodesPerCamera \in Nat \ {0}
ASSUME FaultsAssumption  == Faults \subseteq FaultKinds
ASSUME OverlapAssumption == Overlap \in BOOLEAN

VARIABLES
    up,       \* the daemon runs
    plugged,  \* the capture nodes that exist, and the device behind each
    scan,     \* nodes initial_scan found and has not added yet
    cams,     \* AppState.cameras
    persist,  \* AppState.persist
    disk,     \* state.toml: the rows last written to it, and whether all are there
    saver,    \* the task that holds the persist mutex to write the file
    pend      \* snapshots taken and not inserted yet, by task

vars == <<up, plugged, scan, cams, persist, disk, saver, pend>>

Without(f, x) == Restrict(f, DOMAIN f \ {x})

\* A camera sits in one USB port, a port holds one camera, and a camera makes
\* at most NodesPerCamera capture nodes.
LegalCabling(pl) ==
    /\ \A p, q \in DOMAIN pl : pl[p].cam = pl[q].cam <=> pl[p].id = pl[q].id
    /\ \A p \in DOMAIN pl :
         Cardinality({q \in DOMAIN pl : pl[q].cam = pl[p].cam}) <= NodesPerCamera

Cablings == {pl \in UNION {[D -> Cabling] : D \in SUBSET Path} : LegalCabling(pl)}

TypeOK ==
    /\ up \in BOOLEAN
    /\ IsPartial(plugged, Path, Cabling)
    /\ scan \subseteq DOMAIN plugged
    /\ IsRegistry(cams)
    /\ IsRows(persist)
    /\ disk.torn \in BOOLEAN /\ IsRows(disk.rows)
    /\ saver \in Proc \cup {Nobody}
    /\ DOMAIN pend \subseteq Proc /\ \A t \in DOMAIN pend : IsRows(pend[t])

\* A first boot: nothing was ever remembered.
Init ==
    /\ up = FALSE
    /\ plugged \in Cablings
    /\ scan = {}
    /\ cams = Empty /\ persist = Empty /\ pend = Empty
    /\ disk = [torn |-> FALSE, rows |-> Empty]
    /\ saver = Nobody

-----------------------------------------------------------------------------
\* Tasks.

MayStart(t) ==
    /\ up
    /\ t \notin DOMAIN pend /\ saver # t
    /\ ~Overlap => /\ DOMAIN pend = {} /\ saver = Nobody
                   /\ t = Monitor \/ scan = {}

\* Mutant: the snapshot is taken before the change.
LeaveEarly(t, new) ==
    /\ cams' = new
    /\ pend' = Put(pend, t, SnapshotPersist(cams))

\* The end of a handler's critical section: the new registry and its snapshot.
Leave(t, new) ==
    /\ cams' = new
    /\ pend' = Put(pend, t, SnapshotPersist(new))

\* handle_add reads the remembered row under the persist mutex.
HandleAdd(p, dev) ==
    /\ MayStart(Monitor) /\ saver = Nobody
    /\ p \notin DOMAIN cams
    /\ Leave(Monitor, AddCamera(cams, p, dev, persist))
    /\ UNCHANGED <<up, persist, disk, saver>>

\* initial_scan adds the nodes it found in ascending order.
ScanAdd ==
    \E p \in scan :
        /\ \A q \in scan : p <= q
        /\ HandleAdd(p, plugged[p])
        /\ scan' = scan \ {p}
        /\ UNCHANGED plugged

\* A capture node appears and its uevent is handled.
PlugIn(p, dev) ==
    /\ scan = {} /\ p \notin DOMAIN plugged
    /\ plugged' = Put(plugged, p, dev)
    /\ LegalCabling(plugged')
    /\ HandleAdd(p, dev)
    /\ UNCHANGED scan

\* A capture node goes and its uevent is handled.  handle_remove takes no
\* snapshot.
HandleRemove(p) ==
    /\ MayStart(Monitor)
    /\ scan = {} /\ p \in DOMAIN cams
    /\ plugged' = Without(plugged, p)
    /\ cams' = RemoveCamera(cams, p)
    /\ UNCHANGED <<up, scan, persist, disk, saver, pend>>

SetEnabled(r, id, on) ==
    /\ MayStart(r) /\ id \in Ids(cams)
    /\ Leave(r, EnableCamera(cams, id, on))
    /\ UNCHANGED <<up, plugged, scan, persist, disk, saver>>

\* The connection closes while set_enabled(.., false) waits for the runtime
\* lock: the handler is dropped before reconcile and before its snapshot.
DisableDropped(r, id) ==
    /\ "disconnect" \in Faults
    /\ MayStart(r) /\ id \in Ids(cams)
    /\ cams' = SwitchCamera(cams, id, FALSE)
    /\ UNCHANGED <<up, plugged, scan, persist, disk, saver, pend>>

SetMode(r, id, mode) ==
    /\ MayStart(r) /\ id \in Ids(cams)
    /\ Supports(cams[FirstNode(cams, id)].cam, mode)
    /\ Leave(r, ChangeMode(cams, id, mode))
    /\ UNCHANGED <<up, plugged, scan, persist, disk, saver>>

SetStreamAuth(r, id, auth) ==
    /\ MayStart(r) /\ id \in Ids(cams)
    /\ Leave(r, ChangeAuth(cams, id, auth))
    /\ UNCHANGED <<up, plugged, scan, persist, disk, saver>>

-----------------------------------------------------------------------------
\* persist_snapshot.

\* Mutant: the file gets the rows of the snapshot only.
InsertSnapshotOnly(t) ==
    /\ saver = Nobody /\ t \in DOMAIN pend
    /\ persist' = InsertRows(persist, pend[t])
    /\ pend' = Without(pend, t)
    /\ saver' = t
    /\ disk' = [torn |-> TRUE, rows |-> pend[t]]
    /\ UNCHANGED <<up, plugged, scan, cams>>

\* The mutex is taken, the rows are inserted, and save opens the file, which
\* truncates it.
InsertSnapshot(t) ==
    /\ saver = Nobody /\ t \in DOMAIN pend
    /\ persist' = InsertRows(persist, pend[t])
    /\ pend' = Without(pend, t)
    /\ saver' = t
    /\ disk' = [torn |-> TRUE, rows |-> persist']
    /\ UNCHANGED <<up, plugged, scan, cams>>

\* As InsertSnapshot, but the directory or the file cannot be opened.
InsertUnsaved(t) ==
    /\ "save_error" \in Faults
    /\ saver = Nobody /\ t \in DOMAIN pend
    /\ persist' = InsertRows(persist, pend[t])
    /\ pend' = Without(pend, t)
    /\ UNCHANGED <<up, plugged, scan, cams, disk, saver>>

FinishSave ==
    /\ saver # Nobody
    /\ saver' = Nobody
    /\ disk' = [disk EXCEPT !.torn = FALSE]
    /\ UNCHANGED <<up, plugged, scan, cams, persist, pend>>

\* The write fails after the truncation: the file stays as it is.
WriteFails ==
    /\ "save_error" \in Faults
    /\ saver # Nobody
    /\ saver' = Nobody
    /\ UNCHANGED <<up, plugged, scan, cams, persist, disk, pend>>

\* The connection closes while the request is queued for the persist mutex.
Disconnect(r) ==
    /\ "disconnect" \in Faults
    /\ r \in DOMAIN pend /\ saver # Nobody
    /\ pend' = Without(pend, r)
    /\ UNCHANGED <<up, plugged, scan, cams, persist, disk, saver>>

-----------------------------------------------------------------------------
\* Stopping and booting.

Crash ==
    /\ "crash" \in Faults
    /\ up
    /\ up' = FALSE
    /\ scan' = {}
    /\ cams' = Empty /\ persist' = Empty /\ pend' = Empty
    /\ saver' = Nobody
    /\ UNCHANGED <<plugged, disk>>

\* PersistState::load: a torn file may parse with some of its tables missing,
\* or not at all, and then nothing is remembered.
Loadable(d) == IF d.torn THEN {Restrict(d.rows, S) : S \in SUBSET DOMAIN d.rows}
                         ELSE {d.rows}

Boot ==
    /\ ~up
    /\ up' = TRUE
    /\ plugged' \in IF "rewire" \in Faults THEN Cablings ELSE {plugged}
    /\ scan' = DOMAIN plugged'
    /\ persist' \in Loadable(disk)
    /\ UNCHANGED <<cams, disk, saver, pend>>

HotplugStep == \/ ScanAdd
               \/ \E p \in Path, dev \in Cabling : PlugIn(p, dev)
               \/ \E p \in Path : HandleRemove(p)

RequestStep(r) ==
    \E id \in CamId :
        \/ \E on \in BOOLEAN : SetEnabled(r, id, on)
        \/ DisableDropped(r, id)
        \/ \E mode \in Mode : SetMode(r, id, mode)
        \/ \E auth \in Auth \cup {NoAuth, EmptyUser} : SetStreamAuth(r, id, auth)

PersistStep == \/ \E t \in Proc : InsertSnapshot(t) \/ InsertUnsaved(t)
               \/ FinishSave
               \/ WriteFails
               \/ \E r \in Request : Disconnect(r)

Next == \/ HotplugStep
        \/ \E r \in Request : RequestStep(r)
        \/ PersistStep
        \/ Crash
        \/ Boot

Spec == Init /\ [][Next]_vars

-----------------------------------------------------------------------------
\* What is right in every state.

\* No two streams are ever given the same port (reconcile, both passes).
PortsDistinct == DistinctPorts(cams)

\* A stream has a port, enabled cameras only have one, a remembered port is that
\* of the stream, and a disabled camera keeps no claim to a port (start_stream,
\* set_enabled, handle_add).
StreamStateConsistent == WellFormed(cams)

\* An enabled camera is left without a stream only when every port of the pool
\* is in use: each handler that frees a port or adds a waiter reconciles.
WaitOnlyWhenExhausted == Waiting(cams) # {} => FreePorts(cams) = {}

\* No row, wherever it is on its way to the file, remembers a port for a camera
\* that is off: a boot never resumes half of a choice.
RowsConsistent ==
    /\ RowsAgree(persist) /\ RowsAgree(disk.rows)
    /\ \A t \in DOMAIN pend : RowsAgree(pend[t])

\* A mode is checked when it is chosen (camera.rs:456) and resumed unchecked later
\* from the row of the USB port the camera sits in (camera.rs:345).  So it is a mode
\* of a camera that may sit in that port, not always of the one that now does: any
\* if that camera lists none, and else one it lists or its first size, which the
\* rate of config.toml is given when it has none of its own (camera.rs:640).
ModeFitsPort ==
    \A p \in DOMAIN cams : \E dev \in Cabling :
        /\ dev.id = cams[p].id
        /\ \/ cams[p].mode \in Advertised[dev.cam]
           \/ FirstMode[dev.cam] \in {cams[p].mode, NoMode}

\* "Choices persist across reboots" (README): once no handler is at work, a
\* boot would read back every listed camera as it is now.
ChoicesDurable ==
    (up /\ DOMAIN pend = {} /\ saver = Nobody) =>
        \A p \in DOMAIN cams :
            /\ ~disk.torn
            /\ cams[p].id \in DOMAIN disk.rows
            /\ disk.rows[cams[p].id] = RowOf(cams[p])

\* The file holds what the daemon remembers whenever nobody is writing it and
\* the last write succeeded: a boot reads what a running daemon would use.
DiskMirrorsMemory ==
    (up /\ ~disk.torn) => persist = disk.rows

-----------------------------------------------------------------------------
\* What a step may never do.

\* A stream never changes its port while it runs, whatever other cameras do.
NoPortMoved ==
    [][\A p \in DOMAIN cams \cap DOMAIN cams' :
         cams[p].streaming /\ cams'[p].streaming
            => cams'[p].port = cams[p].port]_vars

\* The registry implements PortLease: the cameras that are enabled want to
\* stream, and each of them that does has leased its port.
Lease == INSTANCE PortLease WITH
    Holder    <- Path,
    LeasePort <- Pool,
    wants     <- {p \in DOMAIN cams : cams[p].enabled},
    lease     <- [p \in {q \in DOMAIN cams : cams[q].streaming} |-> cams[p].port]

ImplementsPortLease == Lease!Spec
=============================================================================
