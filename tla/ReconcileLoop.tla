---------------------------- MODULE ReconcileLoop ----------------------------
(***************************************************************************)
(* reconcile (src/src/camera.rs) as the two loops it is written as, one    *)
(* iteration a step, against Reconcile of CameraOps, which says what they  *)
(* compute without loops.                                                  *)
(***************************************************************************)
EXTENDS CameraOps, FiniteSetsExt

CONSTANTS Remembered  \* the ports a waiting camera may remember

ASSUME RememberedAssumption == Remembered \subseteq Port

VARIABLES
    given,  \* the registry reconcile was called with
    cams,   \* the registry so far
    used,   \* the Vec of ports in use
    pass,   \* 1, 2, or 3 when it is done
    todo    \* the cameras the pass has not visited

loop_vars == <<given, cams, used, pass, todo>>

TheCamera == CHOOSE c \in Camera : TRUE
TheId     == CHOOSE id \in CamId : TRUE

Streaming(port) ==
    [cam |-> TheCamera, id |-> TheId, enabled |-> TRUE, port |-> port,
     desired_port |-> port, streaming |-> TRUE, mode |-> ConfigMode, auth |-> NoAuth]
NotStreaming(on, want) ==
    [cam |-> TheCamera, id |-> TheId, enabled |-> on, port |-> NoPort,
     desired_port |-> want, streaming |-> FALSE, mode |-> ConfigMode, auth |-> NoAuth]

Records == {Streaming(port) : port \in Pool}
           \cup {NotStreaming(TRUE, want) : want \in Remembered \cup {NoPort}}
           \cup {NotStreaming(FALSE, NoPort)}

\* A registry reconcile may find: the ports of running streams are distinct.
Callable(reg) == \A p, q \in DOMAIN reg :
    p # q /\ reg[p].streaming => reg[p].port # reg[q].port

LoopInit ==
    /\ given \in {reg \in UNION {[D -> Records] : D \in SUBSET Path} : Callable(reg)}
    /\ cams = given
    /\ used = Used(given)
    /\ pass = 1
    /\ todo = DOMAIN given

\* The loops visit the Vec in node order.
Visit(p) == p \in todo /\ todo' = todo \ {p} /\ p = Min(todo)

\* Mutant: the port that is given stays free.
StartUncounted(p, port) ==
    /\ cams' = [cams EXCEPT ![p] = StartStream(@, port)]
    /\ UNCHANGED used

Start(p, port) ==
    /\ cams' = [cams EXCEPT ![p] = StartStream(@, port)]
    /\ used' = used \cup {port}

Waits(p) == cams[p].enabled /\ ~cams[p].streaming

\* Mutant: a port from before the base port was changed is taken again.
StickyPortUnused(p) ==
    /\ cams[p].desired_port # NoPort
    /\ cams[p].desired_port \notin used

StickyPortFree(p) ==
    /\ cams[p].desired_port # NoPort
    /\ InPool(cams[p].desired_port)
    /\ cams[p].desired_port \notin used

\* for cam in cams: reclaim the sticky port.
Pass1Step ==
    /\ pass = 1
    /\ \E p \in todo :
        /\ Visit(p)
        /\ IF Waits(p) /\ StickyPortFree(p)
           THEN Start(p, cams[p].desired_port)
           ELSE UNCHANGED <<cams, used>>
    /\ UNCHANGED <<given, pass>>

\* for cam in cams: take the lowest free port (first_free_port), if there is one.
Pass2Step ==
    /\ pass = 2
    /\ \E p \in todo :
        /\ Visit(p)
        /\ IF Waits(p) /\ Pool \ used # {}
           THEN Start(p, Min(Pool \ used))
           ELSE UNCHANGED <<cams, used>>
    /\ UNCHANGED <<given, pass>>

NextPass ==
    /\ pass < 3 /\ todo = {}
    /\ pass' = pass + 1
    /\ todo' = IF pass = 1 THEN DOMAIN cams ELSE {}
    /\ UNCHANGED <<given, cams, used>>

LoopNext == Pass1Step \/ Pass2Step \/ NextPass

LoopSpec == LoopInit /\ [][LoopNext]_loop_vars

\* The loops compute what Reconcile says, and the first pass what ReclaimSticky
\* says: also when several cameras remember one port, when a remembered port is
\* outside the pool, and when the pool runs out.
LoopComputesReconcile ==
    /\ pass = 1 /\ todo = {} => cams = ReclaimSticky(given)
    /\ pass = 3 => cams = Reconcile(given)

\* At no point of the loops do two streams have one port, and used is exactly
\* the set of ports in use.
UsedIsExact ==
    /\ used = Used(cams)
    /\ Callable(cams)
=============================================================================
