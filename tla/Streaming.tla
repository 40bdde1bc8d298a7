------------------------------ MODULE Streaming ------------------------------
(***************************************************************************)
(* The registry and the supervisors of its streams (src/src/stream.rs).    *)
(*                                                                         *)
(* start_stream spawns a supervisor task, which starts an ustreamer child, *)
(* restarts it when it exits or when it is notified of new settings, and   *)
(* stops it when it is cancelled.  Disabling or removing a camera cancels  *)
(* the supervisor and goes on: the old one may still be at work when the   *)
(* camera is enabled again, and then both share the settings, the Notify   *)
(* and the StreamRuntime of the ManagedCamera.  A removed and relisted     *)
(* camera gets new ones; a supervisor left over from before is detached.   *)
(*                                                                         *)
(* sups holds the live supervisors, oldest first.  Every disturbance (a    *)
(* request, a hotplug event, a child that dies) costs one of left: what is *)
(* checked is what the system does once the last of them is over.          *)
(***************************************************************************)
EXTENDS CameraOps, SequencesExt

CONSTANTS
    Cabling,  \* which camera sits in which USB port, one node each
    Known,    \* the rows remembered from earlier runs
    Budget    \* disturbances in a behavior

ASSUME BudgetAssumption  == Budget \in Nat
ASSUME CablingAssumption == Cabling \subseteq Device
ASSUME KnownAssumption   == IsRows(Known) /\ RowsAgree(Known)

VARIABLES
    cams,    \* AppState.cameras
    sups,    \* the supervisors that have not returned
    permit,  \* the permit stored in each camera's restart Notify
    running, \* StreamRuntime.running of each camera
    left,    \* disturbances still to come
    hasty    \* the cameras ever enabled before their old supervisor returned

vars == <<cams, sups, permit, running, left, hasty>>

Settings     == [mode : Mode, auth : Auth \cup {NoAuth}]
SettingsOf(c) == [mode |-> c.mode, auth |-> c.auth]

Supervisor == [path      : Path,
               attached  : BOOLEAN,  \* shares its cells with the listed camera
               port      : Port,
               cancelled : BOOLEAN,
               notified  : BOOLEAN,  \* its Notified future was chosen by notify_one
               conf      : Settings, \* what its last child was started with
               child     : {"none", "starting", "serving", "dying", "dead"},
               pc        : {"check", "read", "mark", "unmark", "enter", "wait",
                            "exited", "backoff", "reap_loop", "reap_end"}]

TypeOK ==
    /\ IsRegistry(cams)
    /\ sups \in Seq(Supervisor)
    /\ permit \in [Path -> BOOLEAN]
    /\ running \in [Path -> BOOLEAN]
    /\ left \in 0..Budget
    /\ hasty \subseteq Path

Init ==
    /\ cams = Empty
    /\ sups = <<>>
    /\ permit = [p \in Path |-> FALSE]
    /\ running = [p \in Path |-> FALSE]
    /\ left = Budget
    /\ hasty = {}

Disturb == left > 0 /\ left' = left - 1

-----------------------------------------------------------------------------
\* Registry handlers.

Streams(reg) == {p \in DOMAIN reg : reg[p].streaming}

NewSupervisor(c, p) ==
    [path |-> p, attached |-> TRUE, port |-> c.port, cancelled |-> FALSE,
     notified |-> FALSE, conf |-> SettingsOf(c), child |-> "none", pc |-> "check"]

\* The supervisors spawned when the registry becomes new: one for each stream that
\* starts.  Only the order of the supervisors of one camera matters.
Spawned(old, new) ==
    LET started == SetToSeq(Streams(new) \ Streams(old))
    IN  [i \in DOMAIN started |-> NewSupervisor(new[started[i]], started[i])]

CancelAll(ss, p) ==
    [i \in DOMAIN ss |-> IF ss[i].path = p THEN [ss[i] EXCEPT !.cancelled = TRUE] ELSE ss[i]]
Detach(ss, p) ==
    [i \in DOMAIN ss |-> IF ss[i].path = p THEN [ss[i] EXCEPT !.attached = FALSE] ELSE ss[i]]

\* notify_one: the oldest registered waiter is chosen, or the permit is stored.
Waiters(ss, p) ==
    {i \in DOMAIN ss : /\ ss[i].path = p /\ ss[i].attached
                       /\ ss[i].pc = "wait" /\ ~ss[i].notified}
NotifyOne(ss, p) ==
    IF Waiters(ss, p) = {}
    THEN /\ sups' = ss
         /\ permit' = [permit EXCEPT ![p] = TRUE]
    ELSE /\ sups' = [ss EXCEPT ![Min(Waiters(ss, p))].notified = TRUE]
         /\ UNCHANGED permit

HandleAdd(p, dev, rows) ==
    /\ Disturb
    /\ p \notin DOMAIN cams /\ dev.id \notin Ids(cams)
    /\ cams' = AddCamera(cams, p, dev, rows)
    /\ sups' = sups \o Spawned(cams, cams')
    /\ permit' = [permit EXCEPT ![p] = FALSE]
    /\ running' = [running EXCEPT ![p] = FALSE]
    /\ hasty' = hasty \ {p}

HandleRemove(p) ==
    /\ Disturb
    /\ p \in DOMAIN cams
    /\ cams' = RemoveCamera(cams, p)
    /\ sups' = Detach(CancelAll(sups, p), p) \o Spawned(Restrict(cams, DOMAIN cams \ {p}), cams')
    /\ UNCHANGED <<permit, running, hasty>>

\* A supervisor that was cancelled and still shares the cells of camera p.
Leaving(i, p) == sups[i].path = p /\ sups[i].attached /\ sups[i].cancelled

SetEnabled(p) ==
    /\ Disturb
    /\ p \in DOMAIN cams
    /\ cams' = EnableCamera(cams, cams[p].id, TRUE)
    /\ sups' = sups \o Spawned(cams, cams')
    /\ hasty' = IF \E i \in DOMAIN sups : Leaving(i, p) THEN hasty \cup {p} ELSE hasty
    /\ UNCHANGED <<permit, running>>

\* Mutant: the supervisor is forgotten instead of cancelled.
SetDisabledForgetting(p) ==
    /\ Disturb
    /\ p \in DOMAIN cams
    /\ cams' = EnableCamera(cams, cams[p].id, FALSE)
    /\ sups' = sups \o Spawned(cams, cams')
    /\ running' = [running EXCEPT ![p] = FALSE]
    /\ UNCHANGED <<permit, hasty>>

\* Disabling resets the StreamRuntime itself and does not wait for the child.
SetDisabled(p) ==
    /\ Disturb
    /\ p \in DOMAIN cams
    /\ cams' = EnableCamera(cams, cams[p].id, FALSE)
    /\ sups' = CancelAll(sups, p) \o Spawned(cams, cams')
    /\ running' = [running EXCEPT ![p] = FALSE]
    /\ UNCHANGED <<permit, hasty>>

\* Mutant: a running stream is not told of its new settings.
SetModeSilently(p, mode) ==
    /\ Disturb
    /\ p \in DOMAIN cams /\ Supports(cams[p].cam, mode)
    /\ cams' = ChangeMode(cams, cams[p].id, mode)
    /\ sups' = sups \o Spawned(cams, cams')
    /\ UNCHANGED <<permit, running, hasty>>

SetMode(p, mode) ==
    /\ Disturb
    /\ p \in DOMAIN cams /\ Supports(cams[p].cam, mode)
    /\ cams' = ChangeMode(cams, cams[p].id, mode)
    /\ LET ss == sups \o Spawned(cams, cams') IN
       IF cams[p].streaming THEN NotifyOne(ss, p)
                            ELSE sups' = ss /\ UNCHANGED permit
    /\ UNCHANGED <<running, hasty>>

SetStreamAuth(p, auth) ==
    /\ Disturb
    /\ p \in DOMAIN cams
    /\ cams' = ChangeAuth(cams, cams[p].id, auth)
    /\ IF cams[p].streaming THEN NotifyOne(sups, p)
                            ELSE UNCHANGED <<sups, permit>>
    /\ UNCHANGED <<running, hasty>>

-----------------------------------------------------------------------------
\* A supervisor's loop.  An action that leaves a state at which the task awaits
\* something is a step of its own; what a task does between two awaits is one.

\* Supervisor i goes from one of the states in from to to, with its child in a
\* new state; the cells it shares stay as they are.
Goto(i, from, to, child) ==
    /\ sups[i].pc \in from
    /\ sups' = [sups EXCEPT ![i].pc = to, ![i].child = child]
    /\ UNCHANGED permit

Return(i, from) ==
    /\ sups[i].pc \in from
    /\ sups' = RemoveAt(sups, i)
    /\ UNCHANGED permit

\* A write of StreamRuntime.running; a detached supervisor's is read by nobody.
SetRunning(i, on) ==
    running' = IF sups[i].attached THEN [running EXCEPT ![sups[i].path] = on]
                                   ELSE running

\* The head of the loop: if cancel.is_cancelled() { break; }
Check(i) ==
    /\ IF sups[i].cancelled THEN Return(i, {"check"})
                            ELSE Goto(i, {"check"}, "read", "none")
    /\ UNCHANGED running

\* Read the settings and start ustreamer with them.
Spawn(i) ==
    /\ sups[i].pc = "read"
    /\ sups' = [sups EXCEPT
         ![i].pc = "mark",
         ![i].child = "starting",
         ![i].conf = IF sups[i].attached THEN SettingsOf(cams[sups[i].path]) ELSE @]
    /\ UNCHANGED <<permit, running>>

SpawnFails(i) ==
    /\ Disturb
    /\ Goto(i, {"read"}, "unmark", "none")
    /\ UNCHANGED <<cams, running, hasty>>

Mark(i)   == Goto(i, {"mark"}, "enter", sups[i].child) /\ SetRunning(i, TRUE)
Unmark(i) == Goto(i, {"unmark"}, "backoff", "none") /\ SetRunning(i, FALSE)

\* The select! over the child, the token and the Notify.  It polls its branches
\* in a random order and takes the first that is ready.
InSelect == {"enter", "wait"}

Exited(i)    == sups[i].child = "dead"
Notified(i)  == \/ sups[i].pc = "wait" /\ sups[i].notified
                \/ sups[i].pc = "enter" /\ sups[i].attached /\ permit[sups[i].path]

\* Nothing is ready at the first poll: the Notified future is registered.
Register(i) ==
    /\ ~Exited(i) /\ ~sups[i].cancelled /\ ~Notified(i)
    /\ Goto(i, {"enter"}, "wait", sups[i].child)
    /\ UNCHANGED running

\* Another branch is taken: dropping a Notified future that was chosen passes
\* the notification on.
LeaveSelect(i, to, child) ==
    LET ss == [sups EXCEPT ![i].pc = to, ![i].child = child, ![i].notified = FALSE]
    IN  IF sups[i].notified /\ sups[i].attached
        THEN NotifyOne(ss, sups[i].path)
        ELSE sups' = ss /\ UNCHANGED permit

SelectExit(i) ==
    /\ sups[i].pc \in InSelect /\ Exited(i)
    /\ LeaveSelect(i, "exited", "none")
    /\ UNCHANGED running

\* SIGKILL: a child that serves keeps its port until it is gone.
Killed(child) == CASE child = "serving"  -> "dying"
                   [] child = "starting" -> "dead"
                   [] OTHER              -> child

SelectCancel(i) ==
    /\ sups[i].pc \in InSelect /\ sups[i].cancelled
    /\ LeaveSelect(i, "reap_end", Killed(sups[i].child))
    /\ UNCHANGED running

SelectRestart(i) ==
    /\ sups[i].pc \in InSelect /\ Notified(i)
    /\ sups' = [sups EXCEPT ![i].pc = "reap_loop", ![i].notified = FALSE,
                            ![i].child = Killed(@)]
    /\ permit' = [permit EXCEPT ![sups[i].path] = @ /\ sups[i].pc = "wait"]
    /\ UNCHANGED running

\* Mutant: a supervisor that was cancelled leaves its status behind.
MarkExitedQuietly(i) ==
    /\ IF sups[i].cancelled THEN Return(i, {"exited"})
                            ELSE Goto(i, {"exited"}, "backoff", "none")
    /\ UNCHANGED running

\* mark_exited, and back off unless cancelled.
MarkExited(i) ==
    /\ IF sups[i].cancelled THEN Return(i, {"exited"})
                            ELSE Goto(i, {"exited"}, "backoff", "none")
    /\ SetRunning(i, FALSE)

\* Mutant: only a cancellation ends the pause.
BackoffUnlessCancelled(i) ==
    /\ sups[i].cancelled /\ Return(i, {"backoff"})
    /\ UNCHANGED running

\* The pause after a child exited or could not be started.
Backoff(i) ==
    /\ \/ Goto(i, {"backoff"}, "check", "none")
       \/ sups[i].cancelled /\ Return(i, {"backoff"})
    /\ UNCHANGED running

\* The end of stop_child: the child has been waited for.
Reap(i) ==
    /\ sups[i].child = "dead"
    /\ \/ Goto(i, {"reap_loop"}, "check", "none")
       \/ Return(i, {"reap_end"})
    /\ SetRunning(i, FALSE)

SupervisorStep(i) ==
    /\ \/ Check(i) \/ Spawn(i) \/ Mark(i) \/ Unmark(i)
       \/ Register(i) \/ SelectExit(i) \/ SelectCancel(i) \/ SelectRestart(i)
       \/ MarkExited(i) \/ Backoff(i) \/ Reap(i)
    /\ UNCHANGED <<cams, left, hasty>>

-----------------------------------------------------------------------------
\* ustreamer.

\* It binds its port or, when another process holds it, gives up.
PortTaken(i) ==
    \E j \in DOMAIN sups \ {i} :
        sups[j].port = sups[i].port /\ sups[j].child \in {"serving", "dying"}

Bind(i) ==
    /\ sups[i].child = "starting"
    /\ sups' = [sups EXCEPT ![i].child = IF PortTaken(i) THEN "dead" ELSE "serving"]
    /\ UNCHANGED <<cams, permit, running, left, hasty>>

Die(i) ==
    /\ sups[i].child = "dying"
    /\ sups' = [sups EXCEPT ![i].child = "dead"]
    /\ UNCHANGED <<cams, permit, running, left, hasty>>

ChildCrashes(i) ==
    /\ Disturb
    /\ sups[i].child = "serving"
    /\ sups' = [sups EXCEPT ![i].child = "dead"]
    /\ UNCHANGED <<cams, permit, running, hasty>>

-----------------------------------------------------------------------------
HandlerStep ==
    \E p \in Path :
        \/ \E dev \in Cabling, rows \in {Empty, Known} : HandleAdd(p, dev, rows)
        \/ HandleRemove(p)
        \/ SetEnabled(p)
        \/ SetDisabled(p)
        \/ \E mode \in Mode : SetMode(p, mode)
        \/ \E auth \in Auth \cup {NoAuth} : SetStreamAuth(p, auth)

Next == \/ HandlerStep
        \/ \E i \in DOMAIN sups :
             \/ SupervisorStep(i) \/ SpawnFails(i)
             \/ Bind(i) \/ Die(i) \/ ChildCrashes(i)

\* The runtime polls a task that can go on, timers fire, and the kernel starts
\* and kills processes.  A disturbance starts at most one supervisor.
Fairness ==
    \A i \in 1..Budget :
        /\ WF_vars(i \in DOMAIN sups /\ SupervisorStep(i))
        /\ WF_vars(i \in DOMAIN sups /\ (Bind(i) \/ Die(i)))

Spec == Init /\ [][Next]_vars /\ Fairness

-----------------------------------------------------------------------------
Owners(p) == {i \in DOMAIN sups :
                sups[i].path = p /\ sups[i].attached /\ ~sups[i].cancelled}

\* Exactly the cameras that stream have a supervisor that is not being stopped,
\* one each, on the port the dashboard shows: no handler forgets to cancel one,
\* cancels the wrong one or spawns a second.
SupervisorsMatchRegistry ==
    /\ \A p \in DOMAIN cams :
         IF cams[p].streaming
         THEN \E i \in Owners(p) : Owners(p) = {i} /\ sups[i].port = cams[p].port
         ELSE Owners(p) = {}
    /\ \A i \in DOMAIN sups : sups[i].attached => sups[i].path \in DOMAIN cams
    /\ \A i \in DOMAIN sups : ~sups[i].attached => sups[i].cancelled

\* A camera's supervisor is settled: its child serves and nothing is pending.
Settled(i) ==
    /\ sups[i].pc = "wait" /\ sups[i].child = "serving"
    /\ ~sups[i].notified /\ ~permit[sups[i].path]

Alone(i) == \A j \in DOMAIN sups : sups[j].path = sups[i].path => j = i

\* Camera p's stream, if it has settled, runs with the settings the dashboard
\* shows, and the status the dashboard shows of p is true.
ModeAppliedTo(p) == \A i \in Owners(p) :
    Settled(i) /\ Alone(i) => sups[i].conf = SettingsOf(cams[p])
StatusTrueOf(p) ==
    /\ \A i \in Owners(p) : Settled(i) /\ Alone(i) => running[p]
    /\ (\A i \in DOMAIN sups : sups[i].path # p) => ~running[p]

\* "Change a camera's resolution/fps; restarts the stream if running" (set_mode):
\* no order of changes, restarts, exits and cancellations leaves a stream with
\* other settings than the last ones.
ModeApplied == \A p \in DOMAIN cams : ModeAppliedTo(p)

\* As ModeApplied, of the cameras that were never enabled in haste: a supervisor
\* loses no notification as long as it is the only one to wait for it.
ModeAppliedWithPatience == \A p \in DOMAIN cams \ hasty : ModeAppliedTo(p)

\* "Actual state (ustreamer process alive)" (CameraStatus.running), of the same
\* cameras: the writers of the status are done in the right order.
StatusTrueWithPatience == \A p \in DOMAIN cams \ hasty : StatusTrueOf(p)

\* Once the disturbances are over, every stream is served on its own port, and
\* what was cancelled is gone: a port conflict with a dying child or a failed
\* start only delays it.
EventuallyServed ==
    <>[](/\ \A p \in Streams(cams) :
              \E i \in Owners(p) : sups[i].pc = "wait" /\ sups[i].child = "serving"
         /\ \A i \in DOMAIN sups : ~sups[i].cancelled)
=============================================================================
