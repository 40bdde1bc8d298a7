----------------------------- MODULE CameraOps -----------------------------
(***************************************************************************)
(* The camera registry's operations as pure functions on its state:        *)
(* src/src/camera.rs, "Registry: add / remove / enable / disable / mode".  *)
(*                                                                         *)
(* The registry Vec<ManagedCamera>, kept sorted by video_index, is a       *)
(* partial function from device nodes (the n of /dev/videoN) to camera     *)
(* records: the order of the Vec is the order of the numbers.  What is     *)
(* remembered about cameras (PersistState.cameras) is a partial function   *)
(* from camera ids (V4L2 bus_info: the USB port a camera sits in) to rows. *)
(***************************************************************************)
EXTENDS Integers, FiniteSets, Functions

CONSTANTS
    Path,        \* the n of the /dev/videoN nodes
    Camera,      \* physical cameras
    CamId,       \* values of CameraDevice.id
    Mode,        \* resolution/fps pairs
    Advertised,  \* the sizes each physical camera enumerates, with each of their rates
    FirstMode,   \* its first size, with the first of its rates
    ConfigMode,  \* the resolution/fps of config.toml
    Auth,        \* stream credentials
    NoAuth,      \* an unprotected stream
    EmptyUser,   \* credentials with an empty user name, which ask for NoAuth
    BasePort     \* Config.base_stream_port

U16MAX == 65535
NoMode == "none"

ASSUME PathAssumption       == Path \subseteq Nat /\ IsFiniteSet(Path)
ASSUME ModeAssumption       == ConfigMode \in Mode
ASSUME AdvertisedAssumption == Advertised \in [Camera -> SUBSET Mode]
\* FirstMode is NoMode for a camera that enumerates no size.  A size may have no rate: if that is
\* the first one, FirstMode is it with the rate of config.toml, and is not advertised.
ASSUME FirstModeAssumption  ==
    /\ NoMode \notin Mode
    /\ FirstMode \in [Camera -> Mode \cup {NoMode}]
    /\ \A cam \in Camera : FirstMode[cam] = NoMode => Advertised[cam] = {}
ASSUME AuthAssumption       == EmptyUser \notin Auth \cup {NoAuth}
ASSUME BasePortAssumption   == BasePort \in 0..U16MAX

NoPort == -1
Port   == 0..U16MAX

\* in_pool has no upper bound; first_free_port searches base..u16::MAX, which
\* leaves port 65535 out.
InPool(port) == port >= BasePort
Pool         == BasePort..(U16MAX - 1)

Device == [cam : Camera, id : CamId]

CamRecord == [cam          : Camera,
              id           : CamId,
              enabled      : BOOLEAN,
              port         : Port \cup {NoPort},
              desired_port : Port \cup {NoPort},
              streaming    : BOOLEAN,        \* cancel.is_some()
              mode         : Mode,
              auth         : Auth \cup {NoAuth}]

Row == [enabled : BOOLEAN,
        mode    : Mode,
        auth    : Auth \cup {NoAuth},
        port    : Port \cup {NoPort}]

\* f is a partial function from S to T: the type of the registry, of
\* PersistState and of a snapshot.
IsPartial(f, S, T) == DOMAIN f \subseteq S /\ f \in [DOMAIN f -> T]

IsRegistry(cams) == IsPartial(cams, Path, CamRecord)
IsRows(rows)     == IsPartial(rows, CamId, Row)
Empty            == [x \in {} |-> x]

\* f with the entries of g in place of its own, and f with y at x (the provers
\* have no definition of the @@ and :> of module TLC).
Override(f, g) == [x \in DOMAIN f \cup DOMAIN g |->
                      IF x \in DOMAIN g THEN g[x] ELSE f[x]]
Put(f, x, y)   == [z \in DOMAIN f \cup {x} |-> IF z = x THEN y ELSE f[z]]

-----------------------------------------------------------------------------
\* reconcile.

Used(cams) == {cams[p].port : p \in DOMAIN cams} \ {NoPort}

\* Mutant: running streams are started again.
WaitingEvenIfStreaming(cams) == {p \in DOMAIN cams : cams[p].enabled}

Waiting(cams) == {p \in DOMAIN cams : cams[p].enabled /\ ~cams[p].streaming}

\* Mutant: the stream's port is only remembered.
StartStreamPortless(c, port) ==
    [c EXCEPT !.desired_port = port, !.streaming = TRUE]

StartStream(c, port) ==
    [c EXCEPT !.port = port, !.desired_port = port, !.streaming = TRUE]

\* Mutant: a sticky port is taken although another camera streams on it.
ReclaimsUsed(cams, p) ==
    LET want == cams[p].desired_port IN
    /\ p \in Waiting(cams)
    /\ want # NoPort /\ InPool(want)
    /\ \A q \in Waiting(cams) : q < p => cams[q].desired_port # want

\* Pass 1: p gets its sticky port back.  The loop visits lower nodes first, so
\* of several waiters that remember one port the lowest takes it.
Reclaims(cams, p) ==
    LET want == cams[p].desired_port IN
    /\ p \in Waiting(cams)
    /\ want # NoPort /\ InPool(want) /\ want \notin Used(cams)
    /\ \A q \in Waiting(cams) : q < p => cams[q].desired_port # want

ReclaimSticky(cams) ==
    [p \in DOMAIN cams |->
        IF Reclaims(cams, p) THEN StartStream(cams[p], cams[p].desired_port)
                             ELSE cams[p]]

\* Pass 2: each remaining waiter, in node order, gets the lowest port that is
\* still free: the waiter with k waiters below it gets the free port with k
\* free ports below it, if there is one.
Below(S, x)     == Cardinality({y \in S : y < x})
FreePorts(cams) == Pool \ Used(cams)

Offered(cams, p, port) ==
    /\ p \in Waiting(cams)
    /\ port \in FreePorts(cams)
    /\ Below(FreePorts(cams), port) = Below(Waiting(cams), p)

AssignLowest(cams) ==
    [p \in DOMAIN cams |->
        IF \E port \in Pool : Offered(cams, p, port)
        THEN StartStream(cams[p], CHOOSE port \in Pool : Offered(cams, p, port))
        ELSE cams[p]]

Reconcile(cams) == AssignLowest(ReclaimSticky(cams))

-----------------------------------------------------------------------------
\* Persistence rows.

RowOf(c) == [enabled |-> c.enabled, mode |-> c.mode, auth |-> c.auth,
             port |-> c.desired_port]

Ids(cams) == {cams[p].id : p \in DOMAIN cams}

\* Two capture nodes of one camera share its bus_info.  Handlers find the first
\* of them; inserting a snapshot's rows in order leaves the last one's row.
FirstNode(cams, id) == CHOOSE p \in DOMAIN cams :
    cams[p].id = id /\ \A q \in DOMAIN cams : cams[q].id = id => p <= q
LastNode(cams, id)  == CHOOSE p \in DOMAIN cams :
    cams[p].id = id /\ \A q \in DOMAIN cams : cams[q].id = id => q <= p

SnapshotPersist(cams) == [id \in Ids(cams) |-> RowOf(cams[LastNode(cams, id)])]

\* PersistState.cameras.insert of every row of a snapshot: rows of cameras that
\* are not in the snapshot stay.
InsertRows(persist, rows) == Override(persist, rows)

-----------------------------------------------------------------------------
\* The state change of each handler.

InitialSettings(cam) ==
    IF ConfigMode \in Advertised[cam] \/ FirstMode[cam] = NoMode
    THEN ConfigMode
    ELSE FirstMode[cam]

NewCamera(dev, persist) ==
    LET row == IF dev.id \in DOMAIN persist
               THEN persist[dev.id]
               ELSE [enabled |-> FALSE, mode |-> InitialSettings(dev.cam),
                     auth |-> NoAuth, port |-> NoPort]
    IN  [cam |-> dev.cam, id |-> dev.id, enabled |-> row.enabled,
         port |-> NoPort, desired_port |-> row.port, streaming |-> FALSE,
         mode |-> row.mode, auth |-> row.auth]

AddCamera(cams, p, dev, persist) ==
    Reconcile(Put(cams, p, NewCamera(dev, persist)))

\* Mutant: the freed port is not offered to those that wait.
RemoveWithoutReconcile(cams, p) == Restrict(cams, DOMAIN cams \ {p})

RemoveCamera(cams, p) ==
    Reconcile(Restrict(cams, DOMAIN cams \ {p}))

\* Mutant: disabling frees the port and keeps the sticky reservation.
SwitchedKeepsSticky(c, on) ==
    IF on THEN [c EXCEPT !.enabled = TRUE]
          ELSE [c EXCEPT !.enabled = FALSE, !.streaming = FALSE, !.port = NoPort]

Switched(c, on) ==
    IF on THEN [c EXCEPT !.enabled = TRUE]
          ELSE [c EXCEPT !.enabled = FALSE, !.streaming = FALSE,
                         !.port = NoPort, !.desired_port = NoPort]

\* The flag and the port are changed before set_enabled waits for the runtime
\* lock; reconcile comes after it.
SwitchCamera(cams, id, on) ==
    LET p == FirstNode(cams, id) IN [cams EXCEPT ![p] = Switched(@, on)]
EnableCamera(cams, id, on) == Reconcile(SwitchCamera(cams, id, on))

\* Mutant: the mode is stored unchecked.
SupportsAny(cam, mode) == mode \in Mode

\* A camera that enumerates no size accepts any mode; one whose sizes have no rates accepts none.
Supports(cam, mode) == mode \in Advertised[cam] \/ FirstMode[cam] = NoMode

\* Mutant: the stream is stopped and started through reconcile.
ChangeModeByRestart(cams, id, mode) ==
    LET p == FirstNode(cams, id) IN
    Reconcile([cams EXCEPT ![p] = [Switched(@, FALSE) EXCEPT
        !.mode = mode, !.enabled = cams[p].enabled]])

ChangeMode(cams, id, mode) ==
    LET p == FirstNode(cams, id) IN Reconcile([cams EXCEPT ![p].mode = mode])

\* Mutant: an empty user name is stored.
Unfiltered(auth) == auth

Filtered(auth) == IF auth = EmptyUser THEN NoAuth ELSE auth

\* set_stream_auth does not reconcile.
ChangeAuth(cams, id, auth) ==
    LET p == FirstNode(cams, id) IN [cams EXCEPT ![p].auth = Filtered(auth)]

-----------------------------------------------------------------------------
\* What a registry is like between two operations.

\* No two streams have one port.
DistinctPorts(cams) ==
    \A p, q \in DOMAIN cams :
        (p # q /\ cams[p].port # NoPort) => cams[p].port # cams[q].port

\* A stream has a port of the pool, which is the one that is remembered for it;
\* it belongs to an enabled camera; and a disabled camera keeps no claim to one.
WellFormed(cams) ==
    \A p \in DOMAIN cams :
        LET c == cams[p] IN
        /\ c.streaming <=> c.port # NoPort
        /\ c.streaming => c.enabled /\ c.port = c.desired_port
        /\ c.desired_port # NoPort => c.enabled /\ c.desired_port \in Pool

\* No row remembers a port for a camera that is off.
RowsAgree(rows) ==
    \A id \in DOMAIN rows :
        rows[id].port # NoPort => rows[id].enabled /\ rows[id].port \in Pool
=============================================================================
