-------------------------- MODULE AccessPointProofs --------------------------
(***************************************************************************)
(* Proofs about AccessPoint, for any settings, dongles, networks, requests *)
(* and faults.                                                             *)
(*                                                                         *)
(* The hotspot agrees with the settings only between requests, so the      *)
(* invariant says for each request what its steps have done so far (Doing, *)
(* Starting, Connecting).  It says so of the requests that nothing         *)
(* disturbed: as long as nothing is muddled there is at most one on the    *)
(* built-in interface (Solitary), and a hotspot that starts alone ends     *)
(* with everything right, whatever was before it.                          *)
(***************************************************************************)
EXTENDS AccessPoint, TLAPS

Kind == {"idle", "save", "apply", "hotspot", "rename", "connect"}

TaskRec == [kind : Kind, pc : Nat, iface : Iface, set : Setting, name : Hostname \cup {Off},
            net : Net \cup {Off}, via : {"params", "save_as", "profile"}, alone : BOOLEAN,
            left : BOOLEAN]

\* Connecting the built-in interface takes two steps more, to stop the hotspot.
Extra(i) == IF i = Primary THEN 2 ELSE 0

Length(kind, i) ==
    CASE kind = "rename"  -> 3
      [] kind = "connect" -> 5 + Extra(i)
      [] OTHER            -> 6

TaskOK(r) ==
    /\ r.kind # "connect" => r.iface = Primary
    /\ r.kind = "connect" => r.net \in Net
    /\ r.kind = "rename" => r.name \in Hostname
    /\ r.kind = "save" => r.pc \in {0, 1}
    /\ r.kind \notin {"idle", "save"} => r.pc \in 1..Length(r.kind, r.iface)
    /\ r.left => ~r.alone /\ r.kind \notin {"idle", "save"} /\ (r.kind = "apply" => r.pc > 2)

TasksOK ==
    /\ tasks \in [Task -> TaskRec]
    /\ \A t \in Task : TaskOK(tasks[t])
    /\ ~up => \A t \in Task : ~Active(t)

\* A request that is alone is, and nothing else is at work while nothing is muddled.
Solitary ==
    /\ \A t, q \in Task : Active(t) /\ tasks[t].alone /\ On(q, tasks[t].iface) => q = t
    /\ \A t \in Task : ~muddled /\ On(t, Primary) => tasks[t].alone

----------------------------------------------------------------------------
(* What is right at rest.                                                  *)

Written == files = FilesOf(ap)
Tuned   == hostapd = ap /\ address = ap
Leasing == dnsmasq = [range |-> ap, map |-> files.map]
AsAsked ==
    IF want = "ap" THEN hostapd # Off /\ client[Primary] = Off
                   ELSE hostapd = Off /\ client[Primary] # Off /\ (dnsmasq = Off \/ renamed)

Right == Written /\ AsAsked /\ (want = "ap" => Tuned /\ Leasing)

Resting == ~muddled /\ QuietOn(Primary) => Right

----------------------------------------------------------------------------
(* What the steps of a request have done.                                  *)

Applying(r) ==
    /\ r.set = ap /\ AsAsked
    /\ r.pc > 1 => Written
    /\ r.pc > 2 => want = "ap"
    /\ r.pc > 4 => address = ap
    /\ r.pc > 5 => Leasing

Renaming(r) ==
    /\ r.set = ap /\ AsAsked
    /\ files.hostapd = ap /\ files.dnsmasq = ap /\ files.unit = ap
    /\ want = "ap" => Tuned
    /\ r.pc = 1 => Right
    /\ r.pc > 1 => hostname = r.name
    /\ r.pc > 2 => Written

Leaving(r) ==
    /\ Written
    /\ r.pc < 3 => Right
    /\ r.pc > 2 => hostapd = Off
    /\ r.pc > 3 => dnsmasq = Off
    /\ r.pc > 6 => client[Primary] # Off

\* Of the request on the built-in interface, as long as nothing is muddled.
Doing(r) ==
    /\ r.kind = "save" => Right
    /\ r.kind = "apply" => Applying(r)
    /\ r.kind = "rename" => Renaming(r)
    /\ r.kind = "connect" => Leaving(r)

\* Of a hotspot that starts alone, whatever was before.
Starting(r) ==
    r.kind = "hotspot" /\ r.alone =>
        /\ r.set = ap
        /\ r.pc > 1 => Written
        /\ r.pc > 2 => client[Primary] = Off
        /\ r.pc > 4 => address = ap
        /\ r.pc > 5 => Leasing

\* Of a client that connects alone on its interface.
Connecting(r) ==
    r.kind = "connect" /\ r.alone /\ r.via # "profile" =>
        /\ r.pc > 1 => runconf[r.iface] = r.net
        /\ r.pc = Length("connect", r.iface) => client[r.iface] = r.net

AtWork ==
    /\ \A t \in Task : ~muddled /\ On(t, Primary) => Doing(tasks[t])
    /\ \A t \in Task : Starting(tasks[t])

Connects == \A t \in Task : Connecting(tasks[t])

VarsOK ==
    /\ up \in BOOLEAN
    /\ muddled \in BOOLEAN
    /\ renamed \in BOOLEAN
    /\ ap \in Setting
    /\ saved \in Setting \cup {Off, Torn}
    /\ files \in Files
    /\ hostname \in Hostname
    /\ hostapd \in Setting \cup {Off}
    /\ dnsmasq = Off \/ dnsmasq \in [range : Setting, map : Mapping]
    /\ address \in Setting \cup {Off, Leased}
    /\ client \in [Iface -> Net \cup {Off}]
    /\ runconf \in [Iface -> Net \cup {Off}]
    /\ profile \in Net \cup {Off}
    /\ want \in {"ap", "client"}
    /\ ops \in 0..MaxOps

IInv == VarsOK /\ TasksOK /\ Solitary /\ Resting /\ AtWork /\ Connects

----------------------------------------------------------------------------
(* Programs.                                                               *)

LEMMA ApplySteps ==
    /\ Len(Apply) = 6
    /\ Apply[1] = "files" /\ Apply[2] = "if_ap" /\ Apply[3] = "flush" /\ Apply[4] = "address"
    /\ Apply[5] = "dnsmasq" /\ Apply[6] = "hostapd"
BY DEF Apply, ApFiles, Serve

LEMMA HotspotSteps ==
    /\ Len(Hotspot) = 6
    /\ Hotspot[1] = "files" /\ Hotspot[2] = "client_off" /\ Hotspot[3] = "flush"
    /\ Hotspot[4] = "address" /\ Hotspot[5] = "dnsmasq" /\ Hotspot[6] = "hostapd"
BY DEF Hotspot, ApFiles, Serve

LEMMA RenameSteps ==
    /\ Len(Rename) = 3
    /\ Rename[1] = "name" /\ Rename[2] = "mapping" /\ Rename[3] = "dnsmasq_ok"
BY DEF Rename

LEMMA LeaveSteps ==
    /\ Len(Connect(Primary)) = 7
    /\ Connect(Primary)[1] = "conf" /\ Connect(Primary)[2] = "hostapd_off"
    /\ Connect(Primary)[3] = "dnsmasq_off" /\ Connect(Primary)[4] = "client_off"
    /\ Connect(Primary)[5] = "flush" /\ Connect(Primary)[6] = "client"
    /\ Connect(Primary)[7] = "dhcp"
BY DEF Connect, Client

LEMMA DongleSteps ==
    ASSUME NEW i \in Iface, i # Primary
    PROVE  /\ Len(Connect(i)) = 5
           /\ Connect(i)[1] = "conf" /\ Connect(i)[2] = "client_off"
           /\ Connect(i)[3] = "flush" /\ Connect(i)[4] = "client" /\ Connect(i)[5] = "dhcp"
BY DEF Connect, Client

\* What a request is when it has reached a step.
Places(t) ==
    LET k == tasks[t].kind
        pc == tasks[t].pc
        x  == Extra(tasks[t].iface)
    IN  /\ Reached(t, "files") => k \in {"apply", "hotspot"} /\ pc = 1
        /\ Reached(t, "if_ap") => k = "apply" /\ pc = 2
        /\ Reached(t, "address") => k \in {"apply", "hotspot"} /\ pc = 4
        /\ Reached(t, "dnsmasq") => k \in {"apply", "hotspot"} /\ pc = 5
        /\ Reached(t, "hostapd") => k \in {"apply", "hotspot"} /\ pc = 6
        /\ Reached(t, "name") => k = "rename" /\ pc = 1
        /\ Reached(t, "mapping") => k = "rename" /\ pc = 2
        /\ Reached(t, "dnsmasq_ok") => k = "rename" /\ pc = 3
        /\ Reached(t, "conf") => k = "connect" /\ pc = 1
        /\ Reached(t, "hostapd_off") => k = "connect" /\ pc = 2 /\ x = 2
        /\ Reached(t, "dnsmasq_off") => k = "connect" /\ pc = 3 /\ x = 2
        /\ Reached(t, "client_off") => (k = "hotspot" /\ pc = 2) \/ (k = "connect" /\ pc = 2 + x)
        /\ Reached(t, "flush") => \/ k \in {"apply", "hotspot"} /\ pc = 3
                                  \/ k = "connect" /\ pc = 3 + x
        /\ Reached(t, "client") => k = "connect" /\ pc = 4 + x
        /\ Reached(t, "dhcp") => k = "connect" /\ pc = 5 + x

LEMMA PlacesHold ==
    ASSUME TasksOK, NEW t \in Task, tasks[t].kind \notin {"idle", "save"}
    PROVE  Places(t) /\ Len(Steps(t)) = Length(tasks[t].kind, tasks[t].iface)
<1> USE DEF Active
<1>0. tasks[t] \in TaskRec /\ TaskOK(tasks[t])
    BY DEF TasksOK
<1>1. CASE tasks[t].kind = "apply"
    <2>1. Steps(t) = Apply
        BY <1>1 DEF Steps, Program
    <2>2. tasks[t].pc \in 1..6
        BY <1>0, <1>1 DEF TaskOK, Length
    <2> QED
        BY <1>1, <2>1, <2>2, ApplySteps DEF Places, Reached, Length
<1>2. CASE tasks[t].kind = "hotspot"
    <2>1. Steps(t) = Hotspot
        BY <1>2 DEF Steps, Program
    <2>2. tasks[t].pc \in 1..6
        BY <1>0, <1>2 DEF TaskOK, Length
    <2> QED
        BY <1>2, <2>1, <2>2, HotspotSteps DEF Places, Reached, Length
<1>3. CASE tasks[t].kind = "rename"
    <2>1. Steps(t) = Rename
        BY <1>3 DEF Steps, Program
    <2>2. tasks[t].pc \in 1..3
        BY <1>0, <1>3 DEF TaskOK, Length
    <2> QED
        BY <1>3, <2>1, <2>2, RenameSteps DEF Places, Reached, Length
<1>4. CASE tasks[t].kind = "connect" /\ tasks[t].iface = Primary
    <2>1. Steps(t) = Connect(Primary)
        BY <1>4 DEF Steps, Program
    <2>2. tasks[t].pc \in 1..7 /\ Extra(tasks[t].iface) = 2
        BY <1>0, <1>4 DEF TaskOK, Length, Extra
    <2> QED
        BY <1>4, <2>1, <2>2, LeaveSteps DEF Places, Reached, Length
<1>5. CASE tasks[t].kind = "connect" /\ tasks[t].iface # Primary
    <2>1. Steps(t) = Connect(tasks[t].iface) /\ tasks[t].iface \in Iface
        <3>1. Steps(t) = Connect(tasks[t].iface)
            BY <1>5 DEF Steps, Program
        <3> QED
            BY <3>1, <1>0 DEF TaskRec
    <2>2. tasks[t].pc \in 1..5 /\ Extra(tasks[t].iface) = 0
        BY <1>0, <1>5 DEF TaskOK, Length, Extra
    <2> QED
        BY <1>5, <2>1, <2>2, DongleSteps DEF Places, Reached, Length
<1> QED
    BY <1>0, <1>1, <1>2, <1>3, <1>4, <1>5 DEF TaskRec, Kind

LEMMA TypesHold == VarsOK /\ TasksOK => TypeOK
<1> SUFFICES ASSUME VarsOK, TasksOK PROVE TypeOK
    OBVIOUS
<1>1. ASSUME NEW t \in Task, tasks[t].kind \notin {"idle", "save"}
      PROVE  tasks[t].pc \in 1..Len(Steps(t))
    <2>1. tasks[t].pc \in 1..Length(tasks[t].kind, tasks[t].iface)
        BY <1>1 DEF TasksOK, TaskOK
    <2> QED
        BY <1>1, <2>1, PlacesHold
<1> QED
    BY <1>1 DEF VarsOK, TypeOK

----------------------------------------------------------------------------
(* What an action does to the requests.                                    *)

Working(t) == tasks[t].kind \notin {"idle", "save"}

LEMMA IdleOK == Idle \in TaskRec /\ TaskOK(Idle)
<1>1. Idle \in TaskRec
    BY FactoryAssumption DEF Idle, TaskRec, Kind, Iface
<1>2. Idle.kind = "idle" /\ Idle.iface = Primary /\ ~Idle.left
    BY DEF Idle
<1> QED
    BY <1>1, <1>2 DEF TaskOK

Others(t) == \A q \in Task \ {t} : tasks'[q] = tasks[q]

\* The request is the same, with at most its place and alone changed.
SameTask(t) ==
    /\ tasks'[t].kind = tasks[t].kind /\ tasks'[t].iface = tasks[t].iface
    /\ tasks'[t].set = tasks[t].set /\ tasks'[t].name = tasks[t].name
    /\ tasks'[t].net = tasks[t].net /\ tasks'[t].via = tasks[t].via
    /\ tasks'[t].left = tasks[t].left

Ended(t)    == Others(t) /\ tasks'[t] = Idle
Advanced(t) == Others(t) /\ SameTask(t) /\ tasks'[t].pc = tasks[t].pc + 1

\* The request, or what is left of it, is there and not alone.
Disturbed(t) ==
    /\ Others(t) /\ ~tasks'[t].alone
    /\ tasks'[t].kind = tasks[t].kind /\ tasks'[t].iface = tasks[t].iface

LEMMA Ends ==
    ASSUME TasksOK, NEW t \in Task, tasks' = [tasks EXCEPT ![t] = Idle], up' = up
    PROVE  TasksOK' /\ Ended(t)
<1>1. Ended(t)
    BY DEF TasksOK, Ended, Others
<1>2. tasks' \in [Task -> TaskRec]
    BY IdleOK DEF TasksOK
<1>3. \A q \in Task : TaskOK(tasks'[q])
    BY <1>1, IdleOK DEF TasksOK, Ended, Others
<1>4. \A q \in Task : Active(q)' => Active(q)
    BY <1>1 DEF Active, Ended, Others, Idle
<1> QED
    BY <1>1, <1>2, <1>3, <1>4 DEF TasksOK

LEMMA GoesOn ==
    ASSUME TasksOK, NEW t \in Task, Working(t), ~Last(t), up' = up,
           \/ tasks' = [tasks EXCEPT ![t].pc = @ + 1]
           \/ tasks' = [tasks EXCEPT ![t].pc = @ + 1, ![t].alone = FALSE]
    PROVE  TasksOK' /\ Advanced(t)
<1>0. tasks \in [Task -> TaskRec] /\ tasks[t] \in TaskRec /\ TaskOK(tasks[t])
    BY DEF TasksOK
<1>1. Advanced(t)
    BY <1>0 DEF TaskRec, Advanced, Others, SameTask
<1>2. tasks' \in [Task -> TaskRec]
    BY <1>0 DEF TaskRec
<1>3. tasks[t].pc + 1 \in 1..Length(tasks[t].kind, tasks[t].iface)
    <2>1. Len(Steps(t)) = Length(tasks[t].kind, tasks[t].iface)
        BY PlacesHold DEF Working
    <2>2. Length(tasks[t].kind, tasks[t].iface) \in Nat
        BY DEF Length, Extra
    <2> QED
        BY <1>0, <2>1, <2>2 DEF Last, TaskOK, Working
<1>7. tasks'[t].alone => tasks[t].alone
    BY <1>0 DEF TaskRec
<1>4. TaskOK(tasks'[t])
    BY <1>0, <1>1, <1>3, <1>7 DEF TaskOK, TaskRec, Advanced, SameTask, Working
<1>5. \A q \in Task : TaskOK(tasks'[q])
    BY <1>1, <1>4 DEF TasksOK, Advanced, Others
<1>6. \A q \in Task : Active(q)' => Active(q)
    BY <1>1 DEF Active, Advanced, Others, SameTask
<1> QED
    BY <1>1, <1>2, <1>5, <1>6 DEF TasksOK

\* A step that works goes on, or ends the request and settles what was asked.
LEMMA StepEffect ==
    ASSUME VarsOK, TasksOK, NEW t \in Task, Working(t), Step(t), up' = up
    PROVE  /\ TasksOK'
           /\ want' \in {"ap", "client"} /\ muddled' \in BOOLEAN
           /\ \/ /\ ~Last(t) /\ Advanced(t) /\ tasks'[t].alone = tasks[t].alone
                 /\ want' = want /\ muddled' = muddled
              \/ Last(t) /\ Ended(t) /\ Done(t)
              \/ /\ tasks[t].left /\ Ended(t) /\ want' = want
                 /\ muddled' = (muddled \/ tasks[t].iface = Primary)
<1>0. CASE tasks[t].left
    <2>1. CutOff(t)
        BY <1>0 DEF Step
    <2>2. TasksOK' /\ Ended(t)
        BY <2>1, Ends DEF CutOff
    <2> QED
        BY <1>0, <2>1, <2>2 DEF CutOff, VarsOK
<1>1. CASE ~tasks[t].left /\ Last(t)
    <2>1. Done(t)
        BY <1>1 DEF Step
    <2>2. TasksOK' /\ Ended(t)
        BY <2>1, Ends DEF Done
    <2>3. want' \in {"ap", "client"} /\ muddled' \in BOOLEAN
        BY <2>1 DEF Done, VarsOK
    <2> QED
        BY <1>1, <2>1, <2>2, <2>3
<1>2. CASE ~tasks[t].left /\ ~Last(t)
    <2>1. tasks' = [tasks EXCEPT ![t].pc = @ + 1] /\ want' = want /\ muddled' = muddled
        BY <1>2 DEF Step
    <2>2. TasksOK' /\ Advanced(t)
        BY <1>2, <2>1, GoesOn
    <2>3. tasks'[t].alone = tasks[t].alone
        BY <2>1 DEF TasksOK, TaskRec
    <2> QED
        BY <1>2, <2>1, <2>2, <2>3 DEF VarsOK
<1> QED
    BY <1>0, <1>1, <1>2

LEMMA CutOffEffect ==
    ASSUME VarsOK, TasksOK, NEW t \in Task, CutOff(t), up' = up
    PROVE  /\ TasksOK' /\ Ended(t) /\ want' = want /\ muddled' \in BOOLEAN
           /\ ~muddled' => ~muddled /\ tasks[t].iface # Primary
BY Ends DEF CutOff, VarsOK

SameButLeft(t) ==
    /\ tasks'[t].kind = tasks[t].kind /\ tasks'[t].iface = tasks[t].iface
    /\ tasks'[t].set = tasks[t].set /\ tasks'[t].name = tasks[t].name
    /\ tasks'[t].net = tasks[t].net /\ tasks'[t].pc = tasks[t].pc

\* A request that begins, and the requests beside it.
LEMMA Begins ==
    ASSUME VarsOK, TasksOK, NEW t \in Task, NEW task \in TaskRec, TaskOK(task), task.kind # "idle",
           ~task.left, Begin(t, task), up' = up
    PROVE  /\ TasksOK' /\ muddled' \in BOOLEAN /\ ops' \in 0..MaxOps
           /\ muddled' = (muddled \/ (task.iface = Primary /\ ~QuietOn(task.iface)))
           /\ ~Active(t)
           /\ tasks'[t] = [task EXCEPT !.alone = QuietOn(task.iface)]
           /\ \A q \in Task \ {t} :
                 tasks'[q] = IF On(q, task.iface) THEN [tasks[q] EXCEPT !.alone = FALSE] ELSE tasks[q]
<1> DEFINE single == QuietOn(task.iface)
<1>0. single \in BOOLEAN
    BY DEF QuietOn
<1>1. /\ ops' \in 0..MaxOps /\ ~Active(t) /\ up
      /\ muddled' = (muddled \/ (task.iface = Primary /\ ~single))
      /\ tasks' = [q \in Task |->
                     IF q = t THEN [task EXCEPT !.alone = single]
                     ELSE IF On(q, task.iface) THEN [tasks[q] EXCEPT !.alone = FALSE] ELSE tasks[q]]
    BY MaxOpsAssumption DEF Begin, Op, VarsOK
<1> HIDE DEF single
<1>2. [task EXCEPT !.alone = single] \in TaskRec /\ TaskOK([task EXCEPT !.alone = single])
    BY <1>0 DEF TaskRec, TaskOK
<1>3. \A q \in Task : /\ [tasks[q] EXCEPT !.alone = FALSE] \in TaskRec
                      /\ TaskOK([tasks[q] EXCEPT !.alone = FALSE])
    BY DEF TasksOK, TaskRec, TaskOK
<1>4. \A q \in Task : tasks'[q] \in TaskRec /\ TaskOK(tasks'[q])
    BY <1>1, <1>2, <1>3 DEF TasksOK
<1>5. tasks' \in [Task -> TaskRec]
    BY <1>1, <1>4
<1>6. muddled' \in BOOLEAN
    BY <1>1 DEF VarsOK
<1> QED
    BY <1>1, <1>4, <1>5, <1>6 DEF TasksOK, single

\* The requests that begin.
Fresh(t, task) ==
    /\ task \in TaskRec /\ TaskOK(task) /\ task.kind # "idle" /\ task.alone /\ ~task.left
    /\ task.kind \in {"hotspot", "rename"} => task.set = ap /\ task.pc = 1
    /\ task.kind = "save" => task.pc = 0
    /\ task.kind = "connect" => task.pc = IF task.via = "profile" THEN 2 ELSE 1
    /\ task.kind # "apply"
    /\ Begin(t, task)

Beginning(t) ==
    \/ BeginSetAp(t)
    \/ BeginHotspot(t)
    \/ BeginRename(t)
    \/ BeginConnect(t)
    \/ BeginProfile(t)

LEMMA Lengths ==
    /\ \A i : Length("rename", i) = 3 /\ Length("hotspot", i) = 6 /\ Length("apply", i) = 6
    /\ Length("connect", Primary) = 7
    /\ \A i : i # Primary => Length("connect", i) = 5
BY DEF Length, Extra

LEMMA BeginsFresh ==
    ASSUME VarsOK, NEW t \in Task, Beginning(t)
    PROVE  /\ \E task \in TaskRec : Fresh(t, task)
           /\ UNCHANGED <<up, ap, saved, disk, live, want>>
<1> USE FactoryAssumption DEF TaskRec, Kind, Iface
<1>1. CASE BeginSetAp(t)
    <2>1. PICK s \in Setting : Begin(t, [Idle EXCEPT !.kind = "save", !.set = s])
        BY <1>1 DEF BeginSetAp
    <2>2. Fresh(t, [Idle EXCEPT !.kind = "save", !.set = s])
        BY <2>1 DEF Fresh, Idle, TaskOK
    <2> QED
        BY <1>1, <2>2 DEF BeginSetAp, Fresh
<1>2. CASE BeginHotspot(t)
    <2> DEFINE r == [Idle EXCEPT !.kind = "hotspot", !.pc = 1, !.set = ap]
    <2>1. /\ r \in TaskRec /\ r.kind = "hotspot" /\ r.pc = 1 /\ r.iface = Primary
          /\ r.set = ap /\ r.alone /\ ~r.left
        BY DEF Idle, VarsOK
    <2>2. Begin(t, r)
        BY <1>2 DEF BeginHotspot
    <2> HIDE DEF r
    <2>3. TaskOK(r)
        BY <2>1, Lengths DEF TaskOK
    <2> QED
        BY <1>2, <2>1, <2>2, <2>3 DEF BeginHotspot, Fresh
<1>3. CASE BeginRename(t)
    <2>1. PICK n \in Hostname :
              Begin(t, [Idle EXCEPT !.kind = "rename", !.pc = 1, !.set = ap, !.name = n])
        BY <1>3 DEF BeginRename
    <2> DEFINE r == [Idle EXCEPT !.kind = "rename", !.pc = 1, !.set = ap, !.name = n]
    <2>2. /\ r \in TaskRec /\ r.kind = "rename" /\ r.pc = 1 /\ r.iface = Primary
          /\ r.set = ap /\ r.name = n /\ r.alone /\ ~r.left
        BY DEF Idle, VarsOK
    <2>3. Begin(t, r)
        BY <2>1
    <2> HIDE DEF r
    <2>4. TaskOK(r)
        BY <2>2, Lengths DEF TaskOK
    <2> QED
        BY <1>3, <2>2, <2>3, <2>4 DEF BeginRename, Fresh
<1>4. CASE BeginConnect(t)
    <2>1. PICK i \in Iface, n \in Net, via \in {"params", "save_as"} :
              Begin(t, [Idle EXCEPT !.kind = "connect", !.pc = 1, !.iface = i, !.net = n, !.via = via])
        BY <1>4 DEF BeginConnect
    <2> DEFINE r == [Idle EXCEPT !.kind = "connect", !.pc = 1, !.iface = i, !.net = n, !.via = via]
    <2>2. /\ r \in TaskRec /\ r.kind = "connect" /\ r.pc = 1 /\ r.net = n /\ r.alone
          /\ r.via # "profile" /\ ~r.left
        BY DEF Idle
    <2>3. Begin(t, r)
        BY <2>1
    <2> HIDE DEF r
    <2>4. TaskOK(r)
        BY <2>2, Lengths DEF TaskOK
    <2> QED
        BY <1>4, <2>2, <2>3, <2>4 DEF BeginConnect, Fresh
<1>5. CASE BeginProfile(t)
    <2>1. PICK i \in Iface :
              Begin(t, [Idle EXCEPT !.kind = "connect", !.pc = 2, !.iface = i, !.net = profile,
                                    !.via = "profile"])
        BY <1>5 DEF BeginProfile
    <2> DEFINE r == [Idle EXCEPT !.kind = "connect", !.pc = 2, !.iface = i, !.net = profile,
                                 !.via = "profile"]
    <2>2. profile \in Net
        BY <1>5 DEF BeginProfile, VarsOK
    <2>3. /\ r \in TaskRec /\ r.kind = "connect" /\ r.pc = 2 /\ r.net = profile /\ r.alone
          /\ r.via = "profile" /\ ~r.left
        BY <2>2 DEF Idle
    <2>4. Begin(t, r)
        BY <2>1
    <2> HIDE DEF r
    <2>5. TaskOK(r)
        BY <2>2, <2>3, Lengths DEF TaskOK
    <2> QED
        BY <1>5, <2>3, <2>4, <2>5 DEF BeginProfile, Fresh
<1> QED
    BY <1>1, <1>2, <1>3, <1>4, <1>5 DEF Beginning

----------------------------------------------------------------------------
(* Types.                                                                  *)

LEMMA FilesOfOK == ASSUME hostname \in Hostname PROVE \A s \in Setting : FilesOf(s) \in Files
BY DEF FilesOf, Files, Mapping

LEMMA LoadedOK == VarsOK => Loaded \in Setting
BY FactoryAssumption DEF Loaded, VarsOK

\* The parts of Work, by what becomes of the request.
Saving(t)   == SaveOpen(t) \/ Save(t)
Breaking(t) == SaveFails(t) \/ WriteFilesPartly(t) \/ Fails(t) \/ Drop(t)
Stepping(t) ==
    \/ WriteFiles(t) \/ SetAddress(t) \/ RestartDnsmasq(t) \/ StopDnsmasq(t) \/ RestartHostapd(t)
    \/ StopClient(t) \/ WriteConf(t) \/ StartClient(t) \/ SetName(t) \/ WriteMapping(t)

LEMMA WorkSplits ==
    \A t \in Task : Work(t) <=> Saving(t) \/ Breaking(t) \/ Stepping(t) \/ IfAp(t)
BY DEF Work, Saving, Breaking, Stepping

LEMMA NextSplits ==
    Next <=> \/ \E t \in Task : \/ Beginning(t)
                                \/ Saving(t)
                                \/ Breaking(t)
                                \/ Stepping(t)
                                \/ IfAp(t)
             \/ SetProfile
             \/ Crash
             \/ Reboot
             \/ Sync
             \/ SyncFails
BY WorkSplits DEF Next, Beginning

\* A step that does its work has its request go on or end.
LEMMA StepsStep ==
    ASSUME NEW t \in Task, Stepping(t)
    PROVE  Working(t) /\ Step(t) /\ UNCHANGED <<up, ap, saved, ops>>
<1> USE DEF Reached, Active, Working
<1>1. CASE WriteFiles(t)
    BY <1>1 DEF WriteFiles
<1>2. CASE SetAddress(t)
    BY <1>2 DEF SetAddress
<1>3. CASE RestartDnsmasq(t)
    BY <1>3 DEF RestartDnsmasq
<1>4. CASE StopDnsmasq(t)
    BY <1>4 DEF StopDnsmasq
<1>5. CASE RestartHostapd(t)
    BY <1>5 DEF RestartHostapd
<1>6. CASE StopClient(t)
    BY <1>6 DEF StopClient
<1>7. CASE WriteConf(t)
    BY <1>7 DEF WriteConf
<1>8. CASE StartClient(t)
    BY <1>8 DEF StartClient
<1>9. CASE SetName(t)
    BY <1>9 DEF SetName
<1>10. CASE WriteMapping(t)
    BY <1>10 DEF WriteMapping
<1> QED
    BY <1>1, <1>2, <1>3, <1>4, <1>5, <1>6, <1>7, <1>8, <1>9, <1>10 DEF Stepping

\* A request that is dropped leaves a command, and never the check of apply_ap.
LEMMA LeavesOK ==
    ASSUME TasksOK, NEW t \in Task, Working(t), Steps(t)[tasks[t].pc] \in Command, up' = up,
           tasks' = [tasks EXCEPT ![t].left = TRUE, ![t].alone = FALSE]
    PROVE  TasksOK' /\ Disturbed(t)
<1>0. tasks \in [Task -> TaskRec] /\ tasks[t] \in TaskRec /\ TaskOK(tasks[t])
    BY DEF TasksOK
<1>1. /\ Others(t) /\ tasks' \in [Task -> TaskRec] /\ SameButLeft(t)
      /\ tasks'[t].left /\ ~tasks'[t].alone
    BY <1>0 DEF TaskRec, Others, SameButLeft
<1>2. tasks[t].kind = "apply" => tasks[t].pc > 2
    <2> SUFFICES ASSUME tasks[t].kind = "apply" PROVE tasks[t].pc > 2
        OBVIOUS
    <2>1. Steps(t) = Apply /\ tasks[t].pc \in 1..6
        BY <1>0, Lengths DEF Steps, Program, TaskOK
    <2>2. Apply[1] \notin Command /\ Apply[2] \notin Command
        BY ApplySteps DEF Command
    <2> QED
        BY <2>1, <2>2
<1>3. TaskOK(tasks'[t])
    BY <1>0, <1>1, <1>2 DEF TaskOK, SameButLeft, Working
<1>4. \A q \in Task : TaskOK(tasks'[q])
    BY <1>1, <1>3 DEF TasksOK, Others
<1>5. \A q \in Task : Active(q)' => Active(q)
    BY <1>1 DEF Active, Others, SameButLeft
<1> QED
    BY <1>1, <1>4, <1>5 DEF TasksOK, Disturbed, SameButLeft

LEMMA BreaksEffect ==
    ASSUME VarsOK, TasksOK, NEW t \in Task, Breaking(t)
    PROVE  /\ TasksOK' /\ want' = want /\ muddled' \in BOOLEAN /\ ops' \in 0..MaxOps
           /\ ~muddled' => ~muddled /\ tasks[t].iface # Primary
           /\ Ended(t) \/ Disturbed(t)
           /\ ops' # ops /\ UNCHANGED <<up, ap, saved, hostname, runconf, profile, live>>
           /\ files' = files \/ (WriteFilesPartly(t) /\ Working(t) /\ tasks[t].kind # "connect")
<1>0. Op => ops' \in 0..MaxOps /\ ops' # ops
    BY MaxOpsAssumption DEF Op, VarsOK
<1>1. CASE SaveFails(t)
    BY <1>0, <1>1, CutOffEffect DEF SaveFails, disk
<1>2. CASE WriteFilesPartly(t)
    <2>1. Reached(t, "files") /\ Working(t)
        BY <1>2 DEF WriteFilesPartly, Reached, Active, Working
    <2>2. tasks[t].kind # "connect"
        BY <2>1, PlacesHold DEF Places, Working
    <2> QED
        BY <1>0, <1>2, <2>1, <2>2, CutOffEffect DEF WriteFilesPartly
<1>3. CASE Fails(t)
    <2>1. Working(t)
        BY <1>3 DEF Fails, Active, Working
    <2>2. CASE CutOff(t)
        BY <1>0, <1>3, <2>2, CutOffEffect DEF Fails, disk
    <2>3. CASE ~CutOff(t)
        <3>1. /\ ~Last(t) /\ ~tasks[t].left /\ want' = want /\ muddled' = (muddled \/ tasks[t].iface = Primary)
              /\ tasks' = [tasks EXCEPT ![t].pc = @ + 1, ![t].alone = FALSE]
              /\ up' = up
            BY <1>3, <2>3 DEF Fails
        <3>2. TasksOK' /\ Advanced(t)
            BY <2>1, <3>1, GoesOn
        <3>3. ~tasks'[t].alone
            BY <3>1 DEF TasksOK, TaskRec
        <3> QED
            BY <1>0, <1>3, <3>1, <3>2, <3>3 DEF Fails, disk, VarsOK, Disturbed, Advanced, SameTask
    <2> QED
        BY <2>2, <2>3
<1>4. CASE Drop(t)
    <2>1. CASE CutOff(t)
        BY <1>0, <1>4, <2>1, CutOffEffect DEF Drop, disk
    <2>2. CASE ~CutOff(t)
        <3>1. /\ Steps(t)[tasks[t].pc] \in Command /\ Working(t)
              /\ tasks' = [tasks EXCEPT ![t].left = TRUE, ![t].alone = FALSE]
              /\ muddled' = (muddled \/ tasks[t].iface = Primary) /\ want' = want /\ up' = up
            BY <1>4, <2>2 DEF Drop, Active, Working
        <3>2. TasksOK' /\ Disturbed(t)
            BY <3>1, LeavesOK
        <3> QED
            BY <1>0, <1>4, <3>1, <3>2 DEF Drop, disk, VarsOK
    <2> QED
        BY <2>1, <2>2
<1> QED
    BY <1>1, <1>2, <1>3, <1>4 DEF Breaking

LEMMA StepTypes ==
    ASSUME VarsOK, TasksOK, NEW t \in Task, Stepping(t)
    PROVE  VarsOK' /\ TasksOK'
<1>0. /\ TasksOK' /\ want' \in {"ap", "client"} /\ muddled' \in BOOLEAN
      /\ UNCHANGED <<up, ap, saved, ops>> /\ Working(t)
    BY StepsStep, StepEffect
<1>1. tasks[t].iface \in Iface /\ tasks[t].set \in Setting
    BY DEF TasksOK, TaskRec
<1>2. /\ tasks[t].kind = "connect" => tasks[t].net \in Net
      /\ tasks[t].kind = "rename" => tasks[t].name \in Hostname
    BY DEF TasksOK, TaskOK
<1>3. Places(t)
    BY <1>0, PlacesHold DEF Working
<1> USE DEF VarsOK
<1>4. CASE WriteFiles(t)
    BY <1>0, <1>1, <1>4, FilesOfOK DEF WriteFiles, live
<1>5. CASE SetAddress(t)
    BY <1>0, <1>1, <1>5 DEF SetAddress, disk
<1>6. CASE RestartDnsmasq(t)
    <2>1. renamed' = Reached(t, "dnsmasq_ok")
        BY <1>6 DEF RestartDnsmasq
    <2>2. renamed' \in BOOLEAN
        BY <2>1 DEF Reached
    <2>3. dnsmasq' \in [range : Setting, map : Mapping]
        BY <1>6 DEF RestartDnsmasq, Files
    <2> QED
        BY <1>0, <1>6, <2>2, <2>3 DEF RestartDnsmasq, disk
<1>7. CASE StopDnsmasq(t)
    BY <1>0, <1>7 DEF StopDnsmasq, disk
<1>8. CASE RestartHostapd(t)
    BY <1>0, <1>8 DEF RestartHostapd, disk, Files
<1>9. CASE StopClient(t)
    BY <1>0, <1>9 DEF StopClient, disk
<1>10. CASE WriteConf(t)
    <2>1. tasks[t].net \in Net
        BY <1>2, <1>3, <1>10 DEF WriteConf, Places
    <2> QED
        BY <1>0, <1>10, <2>1 DEF WriteConf, live
<1>11. CASE StartClient(t)
    <2>1. PICK n \in Net : client' = [client EXCEPT ![tasks[t].iface] = n]
        BY <1>1, <1>11 DEF StartClient, ConfOf
    <2> QED
        BY <1>0, <1>11, <2>1 DEF StartClient, disk
<1>12. CASE SetName(t)
    BY <1>0, <1>2, <1>3, <1>12 DEF SetName, Places, live
<1>13. CASE WriteMapping(t)
    <2>1. tasks[t].name \in Hostname
        BY <1>2, <1>3, <1>13 DEF WriteMapping, Places
    <2>2. files' \in Files
        BY <1>1, <1>13, <2>1 DEF WriteMapping, Files, Mapping
    <2> QED
        BY <1>0, <1>13, <2>2 DEF WriteMapping, live
<1> QED
    BY <1>4, <1>5, <1>6, <1>7, <1>8, <1>9, <1>10, <1>11, <1>12, <1>13 DEF Stepping

LEMMA SaveEffect ==
    ASSUME VarsOK, TasksOK, NEW t \in Task, Saving(t)
    PROVE  /\ VarsOK' /\ TasksOK' /\ Others(t) /\ tasks[t].kind = "save"
           /\ tasks'[t].alone = tasks[t].alone /\ tasks'[t].set = tasks[t].set
           /\ tasks'[t].iface = tasks[t].iface /\ tasks'[t].pc = 1
           /\ UNCHANGED <<up, disk, live, want, muddled, ops>>
           /\ \/ tasks'[t].kind = "save" /\ ap' = ap
              \/ tasks'[t].kind = "apply" /\ ap' = tasks[t].set
<1>0. tasks \in [Task -> TaskRec] /\ tasks[t] \in TaskRec /\ TaskOK(tasks[t])
    BY DEF TasksOK
<1>1. CASE SaveOpen(t)
    <2>1. tasks' = [tasks EXCEPT ![t].pc = 1] /\ tasks[t].kind = "save"
        BY <1>1 DEF SaveOpen
    <2>2. tasks'[t] \in TaskRec /\ TaskOK(tasks'[t]) /\ Others(t) /\ tasks' \in [Task -> TaskRec]
        BY <1>0, <2>1 DEF TaskRec, TaskOK, Others
    <2>3. TasksOK'
        BY <1>0, <1>1, <2>1, <2>2 DEF TasksOK, Others, Active, SaveOpen
    <2>4. VarsOK'
        BY <1>1 DEF SaveOpen, VarsOK, disk, live
    <2> QED
        BY <1>0, <1>1, <2>1, <2>2, <2>3, <2>4 DEF SaveOpen, TaskRec
<1>2. CASE Save(t)
    <2>1. tasks' = [tasks EXCEPT ![t].kind = "apply"] /\ tasks[t].kind = "save" /\ tasks[t].pc = 1
        BY <1>2 DEF Save
    <2>2. /\ tasks'[t].kind = "apply" /\ tasks'[t].pc = 1 /\ tasks'[t].iface = tasks[t].iface
          /\ tasks'[t].set = tasks[t].set /\ tasks'[t].alone = tasks[t].alone
          /\ Others(t) /\ tasks' \in [Task -> TaskRec]
        BY <1>0, <2>1 DEF TaskRec, Kind, Others
    <2>3. TaskOK(tasks'[t])
        BY <1>0, <2>1, <2>2, Lengths DEF TaskOK
    <2>4. TasksOK'
        BY <1>0, <1>2, <2>1, <2>2, <2>3 DEF TasksOK, Others, Active, Save
    <2>5. VarsOK'
        BY <1>0, <1>2 DEF Save, VarsOK, disk, live, TaskRec
    <2> QED
        BY <1>0, <1>2, <2>1, <2>2, <2>4, <2>5 DEF Save
<1> QED
    BY <1>1, <1>2 DEF Saving

\* apply_ap ends where the hotspot is off.
LEMMA IfApEffect ==
    ASSUME VarsOK, TasksOK, NEW t \in Task, IfAp(t)
    PROVE  /\ VarsOK' /\ TasksOK' /\ tasks[t].kind = "apply" /\ tasks[t].pc = 2
           /\ UNCHANGED <<up, ap, disk, live, want, muddled, ops>>
           /\ \/ /\ hostapd # Off /\ Advanced(t) /\ tasks'[t].alone = tasks[t].alone
              \/ hostapd = Off /\ Ended(t)
<1>0. Working(t) /\ tasks[t].kind = "apply" /\ tasks[t].pc = 2 /\ ~tasks[t].left
    <2>1. Working(t) /\ tasks[t].kind = "apply" /\ tasks[t].pc = 2
        BY PlacesHold DEF IfAp, Reached, Working, Active, Places
    <2> QED
        BY <2>1 DEF TasksOK, TaskOK
<1>1. CASE hostapd # Off
    <2>1. Step(t) /\ up' = up
        BY <1>1 DEF IfAp
    <2>2. Len(Steps(t)) = 6
        BY <1>0, PlacesHold, Lengths DEF Working
    <2>3. ~Last(t)
        BY <1>0, <2>2 DEF Last
    <2> QED
        BY <1>0, <1>1, <2>1, <2>3, StepEffect DEF IfAp, VarsOK, disk, live
<1>2. CASE hostapd = Off
    <2>1. Done(t) /\ up' = up
        BY <1>2 DEF IfAp
    <2>2. want' = want /\ muddled' = muddled
        BY <1>0, <2>1 DEF Done, VarsOK
    <2>3. TasksOK' /\ Ended(t)
        BY <2>1, Ends DEF Done
    <2> QED
        BY <1>0, <1>2, <2>2, <2>3 DEF IfAp, VarsOK, disk, live
<1> QED
    BY <1>1, <1>2

\* A restart ends every request.
LEMMA DownEffect ==
    ASSUME VarsOK, Down
    PROVE  /\ TasksOK' /\ \A t \in Task : tasks'[t] = Idle
           /\ up' = FALSE /\ ap' \in Setting /\ ap' = Loaded
           /\ client' \in [Iface -> Net \cup {Off}] /\ client'[Primary] = Off
<1>1. \A t \in Task : tasks'[t] = Idle
    BY DEF Down
<1>2. tasks' \in [Task -> TaskRec]
    BY IdleOK DEF Down
<1>3. Idle.kind = "idle"
    BY DEF Idle
<1>4. TasksOK'
    BY <1>1, <1>2, <1>3, IdleOK DEF TasksOK, Active
<1> QED
    BY <1>1, <1>4, LoadedOK DEF Down, Iface

LEMMA TypeStep ==
    ASSUME VarsOK, TasksOK, [Next]_vars
    PROVE  VarsOK' /\ TasksOK'
<1>0. Op => ops' \in 0..MaxOps
    BY MaxOpsAssumption DEF Op, VarsOK
<1>1. ASSUME NEW t \in Task, Beginning(t) PROVE VarsOK' /\ TasksOK'
    <2>1. PICK task \in TaskRec : Fresh(t, task)
        BY <1>1, BeginsFresh
    <2>2. UNCHANGED <<up, ap, saved, disk, live, want>>
        BY <1>1, BeginsFresh
    <2>3. TasksOK' /\ muddled' \in BOOLEAN /\ ops' \in 0..MaxOps
        BY <2>1, <2>2, Begins DEF Fresh
    <2> QED
        BY <2>2, <2>3 DEF VarsOK, disk, live
<1>2. ASSUME NEW t \in Task, Saving(t) PROVE VarsOK' /\ TasksOK'
    BY <1>2, SaveEffect
<1>3. ASSUME NEW t \in Task, Breaking(t) PROVE VarsOK' /\ TasksOK'
    <2>1. files' \in Files
        <3>1. CASE WriteFilesPartly(t)
            <4>1. FilesOf(tasks[t].set) \in Files
                BY FilesOfOK DEF VarsOK, TasksOK, TaskRec
            <4> QED
                BY <3>1, <4>1 DEF WriteFilesPartly, Files, VarsOK
        <3>2. CASE files' = files
            BY <3>2 DEF VarsOK
        <3> QED
            BY <1>3, <3>1, <3>2, BreaksEffect
    <2> QED
        BY <1>3, <2>1, BreaksEffect DEF VarsOK, live
<1>4. ASSUME NEW t \in Task, Stepping(t) PROVE VarsOK' /\ TasksOK'
    BY <1>4, StepTypes
<1>5. ASSUME NEW t \in Task, IfAp(t) PROVE VarsOK' /\ TasksOK'
    BY <1>5, IfApEffect
<1>6. CASE SetProfile
    BY <1>0, <1>6 DEF SetProfile, VarsOK, TasksOK, Active, live
<1>7. CASE Crash
    <2>1. muddled' \in BOOLEAN
        BY <1>7 DEF Crash, VarsOK, QuietOn
    <2> QED
        BY <1>0, <1>7, <2>1, DownEffect DEF Crash, VarsOK, disk
<1>8. CASE Reboot
    <2>1. muddled' \in BOOLEAN
        BY <1>8 DEF Reboot, VarsOK, QuietOn
    <2>2. /\ hostapd' \in Setting /\ address' \in Setting
          /\ dnsmasq' \in [range : Setting, map : Mapping]
        BY <1>8 DEF Reboot, VarsOK, Files
    <2>3. runconf' \in [Iface -> Net \cup {Off}]
        BY <1>8 DEF Reboot
    <2> QED
        BY <1>0, <1>8, <2>1, <2>2, <2>3, DownEffect DEF Reboot, VarsOK
<1>9. CASE Sync
    BY <1>9, FilesOfOK DEF Sync, VarsOK, TasksOK, Active, live
<1>10. CASE SyncFails
    BY <1>0, <1>10 DEF SyncFails, VarsOK, TasksOK, Active, disk, live
<1>11. CASE UNCHANGED vars
    BY <1>11 DEF vars, disk, live, VarsOK, TasksOK, Active
<1> QED
    BY <1>1, <1>2, <1>3, <1>4, <1>5, <1>6, <1>7, <1>8, <1>9, <1>10, <1>11, NextSplits

----------------------------------------------------------------------------
(* Who is alone.                                                           *)

\* Requests that only end, or go on, stay as alone as they were.
LEMMA StaysSolitary ==
    ASSUME Solitary, NEW t \in Task, Others(t),
           \/ tasks'[t] = Idle
           \/ /\ tasks'[t].iface = tasks[t].iface /\ Active(t)
              /\ tasks'[t].alone => tasks[t].alone,
           ~muddled' => \/ ~muddled
                        \/ Active(t) /\ tasks[t].alone /\ tasks[t].iface = Primary,
           ~muddled' /\ On(t, Primary)' => tasks'[t].alone
    PROVE  Solitary'
<1>1. \A q \in Task : /\ Active(q)' => Active(q) /\ tasks'[q].iface = tasks[q].iface
                      /\ Active(q)' /\ tasks'[q].alone => tasks[q].alone
    <2>1. \A q \in Task \ {t} : tasks'[q] = tasks[q]
        BY DEF Others
    <2>2. Active(t)' => Active(t) /\ tasks'[t].iface = tasks[t].iface
        BY DEF Active, Idle
    <2>3. Active(t)' /\ tasks'[t].alone => tasks[t].alone
        BY DEF Active, Idle
    <2>4. \A q \in Task \ {t} : Active(q)' <=> Active(q)
        BY <2>1 DEF Active
    <2> QED
        BY <2>1, <2>2, <2>3, <2>4
<1>2. \A u, q \in Task :
          Active(u)' /\ tasks'[u].alone /\ On(q, tasks[u].iface)' => q = u
    <2> SUFFICES ASSUME NEW u \in Task, NEW q \in Task, Active(u)', tasks'[u].alone,
                        Active(q)', tasks'[q].iface = tasks'[u].iface
                 PROVE  q = u
        BY DEF On
    <2>1. Active(u) /\ Active(q) /\ tasks[q].iface = tasks[u].iface
        BY <1>1 DEF Active
    <2>2. tasks[u].alone
        BY <1>1 DEF Active
    <2> QED
        BY <2>1, <2>2 DEF Solitary, On
<1>3. ASSUME NEW u \in Task, ~muddled', On(u, Primary)' PROVE tasks'[u].alone
    <2>1. CASE u = t
        BY <1>3, <2>1
    <2>2. CASE u # t
        <3>1. tasks'[u] = tasks[u] /\ On(u, Primary)
            BY <1>3, <2>2 DEF Others, On, Active
        <3>2. CASE ~muddled
            BY <3>1, <3>2 DEF Solitary
        <3>3. CASE Active(t) /\ tasks[t].alone /\ tasks[t].iface = Primary
            BY <2>2, <3>1, <3>3 DEF Solitary
        <3> QED
            BY <1>3, <3>2, <3>3
    <2> QED
        BY <2>1, <2>2
<1> QED
    BY <1>1, <1>2, <1>3 DEF Solitary, On

\* A request that begins takes from those on its interface that they are alone.
LEMMA BeginsSolitary ==
    ASSUME VarsOK, TasksOK, Solitary, NEW t \in Task, NEW task \in TaskRec, Fresh(t, task), up' = up
    PROVE  Solitary'
<1> DEFINE i == task.iface
           single == QuietOn(i)
<1>1. /\ muddled' = (muddled \/ (i = Primary /\ ~single)) /\ ~Active(t)
      /\ tasks'[t] = [task EXCEPT !.alone = single]
      /\ \A q \in Task \ {t} :
            tasks'[q] = IF On(q, i) THEN [tasks[q] EXCEPT !.alone = FALSE] ELSE tasks[q]
    BY Begins DEF Fresh
<1>2. single \in BOOLEAN
    BY DEF QuietOn
<1>3. tasks'[t].iface = i /\ tasks'[t].alone = single
    BY <1>1, <1>2 DEF TaskRec
<1>4. \A q \in Task \ {t} :
        /\ Active(q)' => Active(q)
        /\ tasks'[q].iface = tasks[q].iface
        /\ On(q, i) => tasks'[q].alone = FALSE
        /\ ~On(q, i) => tasks'[q].alone = tasks[q].alone
    <2> TAKE q \in Task \ {t}
    <2>1. CASE On(q, i)
        <3>1. tasks'[q] = [tasks[q] EXCEPT !.alone = FALSE] /\ tasks[q] \in TaskRec
            BY <1>1, <2>1 DEF TasksOK
        <3> QED
            BY <2>1, <3>1 DEF TaskRec, Active
    <2>2. CASE ~On(q, i)
        <3>1. tasks'[q] = tasks[q]
            BY <1>1, <2>2
        <3> QED
            BY <2>2, <3>1 DEF Active
    <2> QED
        BY <2>1, <2>2
<1>5. single <=> \A q \in Task : ~On(q, i)
    BY DEF QuietOn
<1> HIDE DEF i, single
<1>6. ASSUME NEW u \in Task, NEW q \in Task, Active(u)', tasks'[u].alone,
             Active(q)', tasks'[q].iface = tasks'[u].iface
      PROVE  q = u
    <2>1. CASE u = t
        BY <1>3, <1>4, <1>5, <1>6, <2>1 DEF On, Active
    <2>2. CASE u # t /\ q = t
        BY <1>3, <1>4, <1>6, <2>2 DEF On, Active
    <2>3. CASE u # t /\ q # t
        <3>1. Active(u) /\ Active(q) /\ tasks[q].iface = tasks[u].iface
            BY <1>4, <1>6, <2>3 DEF Active
        <3>2. tasks[u].alone
            BY <1>4, <1>6, <2>3
        <3> QED
            BY <3>1, <3>2 DEF Solitary, On
    <2> QED
        BY <2>1, <2>2, <2>3
<1>7. ASSUME NEW u \in Task, ~muddled', Active(u)', tasks'[u].iface = Primary
      PROVE  tasks'[u].alone
    <2>1. CASE u = t
        BY <1>1, <1>3, <1>7, <2>1
    <2>2. CASE u # t
        <3>1. Active(u) /\ tasks[u].iface = Primary /\ ~muddled
            BY <1>1, <1>4, <1>7, <2>2 DEF Active
        <3>2. tasks[u].alone
            BY <3>1 DEF Solitary, On
        <3>3. ~On(u, i)
            BY <1>1, <1>5, <1>7, <3>1 DEF On
        <3> QED
            BY <1>4, <2>2, <3>2, <3>3
    <2> QED
        BY <2>1, <2>2
<1> QED
    BY <1>6, <1>7 DEF Solitary, On

LEMMA IdleInactive == \A t \in Task : tasks'[t] = Idle => ~Active(t)'
BY DEF Active, Idle

LEMMA SolitaryStep ==
    ASSUME VarsOK, TasksOK, Solitary, [Next]_vars
    PROVE  Solitary'
<1>1. ASSUME NEW t \in Task, Beginning(t) PROVE Solitary'
    <2>1. PICK task \in TaskRec : Fresh(t, task)
        BY <1>1, BeginsFresh
    <2> QED
        BY <1>1, <2>1, BeginsFresh, BeginsSolitary
<1>2. ASSUME NEW t \in Task, Saving(t) PROVE Solitary'
    <2>1. /\ Others(t) /\ tasks[t].kind = "save" /\ tasks'[t].alone = tasks[t].alone
          /\ tasks'[t].iface = tasks[t].iface /\ muddled' = muddled
        BY <1>2, SaveEffect
    <2>2. Active(t)
        BY <2>1 DEF Active
    <2>3. ~muddled' /\ On(t, Primary)' => tasks'[t].alone
        BY <2>1, <2>2 DEF Solitary, On
    <2> QED
        BY <2>1, <2>2, <2>3, StaysSolitary
<1>3. ASSUME NEW t \in Task, Breaking(t) PROVE Solitary'
    <2>1. /\ ~muddled' => ~muddled /\ tasks[t].iface # Primary
          /\ Ended(t) \/ Disturbed(t)
        BY <1>3, BreaksEffect
    <2>2. CASE Ended(t)
        BY <2>1, <2>2, IdleInactive, StaysSolitary DEF Ended, On
    <2>3. CASE Disturbed(t)
        <3>1. Active(t)
            BY <1>3, <2>3 DEF Breaking, SaveFails, WriteFilesPartly, Fails, Drop, Reached, Active
        <3>2. ~muddled' /\ On(t, Primary)' => tasks'[t].alone
            BY <2>1, <2>3 DEF On, Disturbed
        <3> QED
            BY <2>1, <2>3, <3>1, <3>2, StaysSolitary DEF Disturbed
    <2> QED
        BY <2>1, <2>2, <2>3
<1>4. ASSUME NEW t \in Task, Stepping(t) PROVE Solitary'
    <2>1. Working(t) /\ Active(t)
        BY <1>4, StepsStep DEF Working, Active
    <2>2. CASE /\ Advanced(t) /\ tasks'[t].alone = tasks[t].alone /\ muddled' = muddled
        <3>1. ~muddled' /\ On(t, Primary)' => tasks'[t].alone
            BY <2>1, <2>2 DEF Solitary, On, Advanced, SameTask
        <3> QED
            BY <2>1, <2>2, <3>1, StaysSolitary DEF Advanced, SameTask
    <2>3. CASE Ended(t) /\ Done(t)
        <3>1. ~muddled' => ~muddled \/ (tasks[t].alone /\ tasks[t].iface = Primary)
            BY <2>3 DEF Done
        <3> QED
            BY <2>1, <2>3, <3>1, IdleInactive, StaysSolitary DEF Ended, On
    <2>4. CASE Ended(t) /\ muddled' = (muddled \/ tasks[t].iface = Primary)
        BY <2>1, <2>4, IdleInactive, StaysSolitary DEF Ended, On
    <2> QED
        BY <1>4, <2>1, <2>2, <2>3, <2>4, StepsStep, StepEffect
<1>5. ASSUME NEW t \in Task, IfAp(t) PROVE Solitary'
    <2>1. Active(t) /\ muddled' = muddled
        BY <1>5, IfApEffect DEF Active
    <2>2. CASE Advanced(t) /\ tasks'[t].alone = tasks[t].alone
        <3>1. ~muddled' /\ On(t, Primary)' => tasks'[t].alone
            BY <2>1, <2>2 DEF Solitary, On, Advanced, SameTask
        <3> QED
            BY <2>1, <2>2, <3>1, StaysSolitary DEF Advanced, SameTask
    <2>3. CASE Ended(t)
        BY <2>1, <2>3, IdleInactive, StaysSolitary DEF Ended, On
    <2> QED
        BY <1>5, <2>2, <2>3, IfApEffect
<1>6. CASE SetProfile
    BY <1>6 DEF SetProfile, Solitary, On, Active
<1>7. CASE Crash \/ Reboot
    <2>1. \A t \in Task : ~Active(t)'
        BY <1>7, DownEffect, IdleInactive DEF Crash, Reboot
    <2> QED
        BY <2>1 DEF Solitary, On, Active
<1>8. CASE Sync
    BY <1>8 DEF Sync, Solitary, On, Active
<1>9. CASE SyncFails
    BY <1>9 DEF SyncFails, Solitary, On, Active
<1>10. CASE UNCHANGED vars
    BY <1>10 DEF vars, Solitary, On, Active
<1> QED
    BY <1>1, <1>2, <1>3, <1>4, <1>5, <1>6, <1>7, <1>8, <1>9, <1>10, NextSplits

----------------------------------------------------------------------------
(* The built-in interface.                                                 *)

\* All that Right, Doing and Starting speak of.
Scene == <<ap, files, hostname, hostapd, dnsmasq, address, renamed, want, client[Primary]>>

LEMMA SceneKeeps ==
    ASSUME UNCHANGED Scene
    PROVE  /\ Right' <=> Right
           /\ \A t \in Task : tasks'[t] = tasks[t] /\ Doing(tasks[t]) => Doing(tasks[t])'
           /\ \A t \in Task : tasks'[t] = tasks[t] /\ Starting(tasks[t]) => Starting(tasks[t])'
<1>1. (Written' <=> Written) /\ (Tuned' <=> Tuned) /\ (Leasing' <=> Leasing) /\ (AsAsked' <=> AsAsked)
    BY DEF Scene, Written, FilesOf, Tuned, Leasing, AsAsked
<1>2. Right' <=> Right
    BY <1>1 DEF Scene, Right
<1>3. ASSUME NEW t \in Task, tasks'[t] = tasks[t], Doing(tasks[t])
      PROVE  Doing(tasks[t])'
    <2>1. Applying(tasks[t]) => Applying(tasks[t])'
        BY <1>1, <1>3 DEF Applying, Scene
    <2>2. Renaming(tasks[t]) => Renaming(tasks[t])'
        BY <1>1, <1>2, <1>3 DEF Renaming, Scene
    <2>3. Leaving(tasks[t]) => Leaving(tasks[t])'
        BY <1>1, <1>2, <1>3 DEF Leaving, Scene
    <2> QED
        BY <1>2, <1>3, <2>1, <2>2, <2>3 DEF Doing
<1>4. ASSUME NEW t \in Task, tasks'[t] = tasks[t], Starting(tasks[t])
      PROVE  Starting(tasks[t])'
    BY <1>1, <1>4 DEF Starting, Scene
<1> QED
    BY <1>2, <1>3, <1>4

\* What happens elsewhere, or muddles, leaves the rest as it was.
LEMMA Elsewhere ==
    ASSUME AtWork, Resting, UNCHANGED Scene,
           ~muddled' => ~muddled /\ (QuietOn(Primary)' => QuietOn(Primary)),
           \A q \in Task : \/ tasks'[q] = tasks[q]
                           \/ tasks'[q].kind = "idle"
                           \/ tasks'[q].iface # Primary /\ tasks'[q].kind # "hotspot"
                           \/ ~tasks'[q].alone /\ muddled'
    PROVE  AtWork' /\ Resting'
<1>1. ASSUME NEW q \in Task PROVE Starting(tasks[q])'
    <2>1. CASE tasks'[q] = tasks[q]
        BY <2>1, SceneKeeps DEF AtWork
    <2>2. CASE tasks'[q] # tasks[q]
        BY <2>2 DEF Starting
    <2> QED
        BY <2>1, <2>2
<1>2. ASSUME NEW q \in Task, ~muddled', On(q, Primary)' PROVE Doing(tasks[q])'
    <2>1. tasks'[q] = tasks[q]
        BY <1>2 DEF On, Active
    <2>2. On(q, Primary)
        BY <1>2, <2>1 DEF On, Active
    <2> QED
        BY <1>2, <2>1, <2>2, SceneKeeps DEF AtWork
<1>3. Resting'
    BY SceneKeeps DEF Resting
<1> QED
    BY <1>1, <1>2, <1>3 DEF AtWork

\* Only request t matters on the built-in interface.
LEMMA OnlyOne ==
    ASSUME TasksOK', NEW t \in Task,
           \A q \in Task \ {t} : On(q, Primary)' => ~tasks'[q].alone /\ muddled',
           Starting(tasks[t])',
           ~muddled' => IF On(t, Primary)' THEN Doing(tasks[t])' ELSE Right'
    PROVE  AtWork' /\ Resting'
<1>1. ASSUME NEW q \in Task PROVE Starting(tasks[q])'
    <2>1. CASE q = t
        BY <2>1
    <2>2. CASE q # t /\ tasks'[q].kind = "hotspot"
        <3>1. On(q, Primary)'
            BY <2>2 DEF TasksOK, TaskOK, On, Active
        <3> QED
            BY <2>2, <3>1 DEF Starting
    <2>3. CASE tasks'[q].kind # "hotspot"
        BY <2>3 DEF Starting
    <2> QED
        BY <2>1, <2>2, <2>3
<1>2. ASSUME NEW q \in Task, ~muddled', On(q, Primary)' PROVE Doing(tasks[q])'
    <2>1. q = t
        BY <1>2 DEF On, Active
    <2> QED
        BY <1>2, <2>1
<1>3. Resting'
    <2> SUFFICES ASSUME ~muddled', QuietOn(Primary)' PROVE Right'
        BY DEF Resting
    <2>1. ~On(t, Primary)'
        BY DEF QuietOn, On, Active
    <2> QED
        BY <2>1
<1> QED
    BY <1>1, <1>2, <1>3 DEF AtWork

LEMMA OthersAside ==
    ASSUME Solitary, NEW t \in Task, On(t, Primary), Others(t),
           ~muddled' => ~muddled \/ tasks[t].alone
    PROVE  \A q \in Task \ {t} : On(q, Primary)' => ~tasks'[q].alone /\ muddled'
<1> SUFFICES ASSUME NEW q \in Task \ {t}, On(q, Primary)' PROVE ~tasks'[q].alone /\ muddled'
    BY DEF On, Active
<1>1. tasks'[q] = tasks[q] /\ On(q, Primary)
    BY DEF Others, On, Active
<1>2. ~tasks[q].alone
    BY <1>1 DEF Solitary, On
<1>3. ~tasks[t].alone
    BY <1>1 DEF Solitary, On
<1>4. muddled
    BY <1>2, <1>1 DEF Solitary
<1> QED
    BY <1>1, <1>2, <1>3, <1>4

\* A step on the built-in interface keeps what is said of its request.
LEMMA StepKeeps ==
    ASSUME VarsOK, TasksOK, Solitary, NEW t \in Task, Stepping(t), tasks[t].iface = Primary,
           ~Last(t) /\ Advanced(t) /\ tasks'[t].alone = tasks[t].alone /\ want' = want
             => Starting(tasks[t])' /\ (~muddled => Doing(tasks[t])'),
           Last(t) /\ Done(t) /\ ~muddled' => Right'
    PROVE  AtWork' /\ Resting'
<1>1. Working(t) /\ Step(t) /\ On(t, Primary) /\ TasksOK'
    BY StepsStep, StepEffect DEF Working, On, Active
<1>2. CASE /\ ~Last(t) /\ Advanced(t) /\ tasks'[t].alone = tasks[t].alone
           /\ want' = want /\ muddled' = muddled
    <2>1. On(t, Primary)'
        BY <1>1, <1>2 DEF On, Active, Advanced, SameTask
    <2>2. \A q \in Task \ {t} : On(q, Primary)' => ~tasks'[q].alone /\ muddled'
        BY <1>1, <1>2, OthersAside DEF Advanced
    <2> QED
        BY <1>1, <1>2, <2>1, <2>2, OnlyOne
<1>3. CASE Last(t) /\ Ended(t) /\ Done(t)
    <2>1. ~On(t, Primary)' /\ Starting(tasks[t])'
        BY <1>3 DEF Ended, On, Active, Idle, Starting
    <2>2. ~muddled' => ~muddled \/ tasks[t].alone
        BY <1>3 DEF Done
    <2>3. \A q \in Task \ {t} : On(q, Primary)' => ~tasks'[q].alone /\ muddled'
        BY <1>1, <1>3, <2>2, OthersAside DEF Ended
    <2> QED
        BY <1>1, <1>3, <2>1, <2>3, OnlyOne
<1>4. CASE Ended(t) /\ muddled' = (muddled \/ tasks[t].iface = Primary)
    <2>1. ~On(t, Primary)' /\ Starting(tasks[t])'
        BY <1>4 DEF Ended, On, Active, Idle, Starting
    <2>3. muddled'
        BY <1>4
    <2>2. \A q \in Task \ {t} : On(q, Primary)' => ~tasks'[q].alone /\ muddled'
        BY <1>1, <1>4, <2>3, OthersAside DEF Ended
    <2> QED
        BY <1>1, <2>1, <2>2, <2>3, OnlyOne
<1> QED
    BY <1>1, <1>2, <1>3, <1>4, StepsStep, StepEffect

LEMMA Facts ==
    ASSUME VarsOK, TasksOK, Solitary, AtWork, NEW t \in Task, tasks[t].iface = Primary, Stepping(t)
    PROVE  /\ Places(t) /\ Working(t) /\ Extra(tasks[t].iface) = 2
           /\ Starting(tasks[t])
           /\ ~muddled => Doing(tasks[t]) /\ tasks[t].alone
           /\ tasks[t].kind \in {"apply", "hotspot"} => (Last(t) <=> tasks[t].pc = 6)
           /\ tasks[t].kind = "rename" => (Last(t) <=> tasks[t].pc = 3)
           /\ tasks[t].kind = "connect" => (Last(t) <=> tasks[t].pc = 7)
           /\ ap' = ap
<1>1. Working(t) /\ ap' = ap
    BY StepsStep
<1>2. Places(t) /\ Len(Steps(t)) = Length(tasks[t].kind, Primary)
    BY <1>1, PlacesHold DEF Working
<1>3. On(t, Primary)
    BY <1>1 DEF Working, On, Active
<1> QED
    BY <1>1, <1>2, <1>3, Lengths DEF AtWork, Solitary, Last, Extra

\* What goes on with a request that advances.
LEMMA AdvancedFields ==
    ASSUME TasksOK, NEW t \in Task, Advanced(t), tasks'[t].alone = tasks[t].alone
    PROVE  /\ tasks'[t].kind = tasks[t].kind /\ tasks'[t].set = tasks[t].set
           /\ tasks'[t].name = tasks[t].name /\ tasks'[t].pc = tasks[t].pc + 1
           /\ tasks[t].pc \in Nat
BY DEF Advanced, SameTask, TasksOK, TaskRec

LEMMA WriteFilesKeeps ==
    ASSUME VarsOK, TasksOK, Solitary, AtWork, NEW t \in Task, tasks[t].iface = Primary, WriteFiles(t)
    PROVE  AtWork' /\ Resting'
<1>0. Stepping(t)
    BY DEF Stepping
<1>1. tasks[t].kind \in {"apply", "hotspot"} /\ tasks[t].pc = 1 /\ ~Last(t)
    BY <1>0, Facts DEF Places, WriteFiles
<1>2. /\ files' = FilesOf(tasks[t].set) /\ ap' = ap
      /\ UNCHANGED <<hostname, hostapd, dnsmasq, address, client, renamed>>
    BY DEF WriteFiles, live
<1>3. ASSUME Advanced(t), tasks'[t].alone = tasks[t].alone, want' = want
      PROVE  Starting(tasks[t])' /\ (~muddled => Doing(tasks[t])')
    <2>1. tasks[t].set = ap => Written'
        BY <1>2 DEF Written, FilesOf
    <2>2. AsAsked' <=> AsAsked
        BY <1>2, <1>3 DEF AsAsked
    <2>3. Starting(tasks[t])'
        <3>1. tasks'[t].pc = 2
            BY <1>1, <1>3, AdvancedFields
        <3>2. Starting(tasks[t])
            BY <1>0, Facts
        <3>3. tasks'[t].kind = tasks[t].kind /\ tasks'[t].set = tasks[t].set
            BY <1>3, AdvancedFields
        <3> QED
            BY <1>2, <1>3, <2>1, <3>1, <3>2, <3>3 DEF Starting
    <2>4. ~muddled => Doing(tasks[t])'
        BY <1>0, <1>1, <1>2, <1>3, <2>1, <2>2, Facts, AdvancedFields DEF Doing, Applying
    <2> QED
        BY <2>3, <2>4
<1> QED
    BY <1>0, <1>1, <1>3, StepKeeps

LEMMA SetNameKeeps ==
    ASSUME VarsOK, TasksOK, Solitary, AtWork, NEW t \in Task, tasks[t].iface = Primary, SetName(t)
    PROVE  AtWork' /\ Resting'
<1>0. Stepping(t)
    BY DEF Stepping
<1>1. tasks[t].kind = "rename" /\ tasks[t].pc = 1 /\ ~Last(t)
    BY <1>0, Facts DEF Places, SetName
<1>2. /\ hostname' = tasks[t].name /\ ap' = ap
      /\ UNCHANGED <<files, hostapd, dnsmasq, address, client, renamed>>
    BY DEF SetName, live
<1>3. ASSUME Advanced(t), tasks'[t].alone = tasks[t].alone, want' = want
      PROVE  Starting(tasks[t])' /\ (~muddled => Doing(tasks[t])')
    <2>1. (AsAsked' <=> AsAsked) /\ (Tuned' <=> Tuned)
        BY <1>2, <1>3 DEF AsAsked, Tuned
    <2>2. ~muddled => Right /\ tasks[t].set = ap
        BY <1>0, <1>1, Facts DEF Doing, Renaming
    <2>3. Right => files.hostapd = ap /\ files.dnsmasq = ap /\ files.unit = ap
        BY DEF Right, Written, FilesOf
    <2>4. ~muddled => Renaming(tasks[t])'
        BY <1>1, <1>2, <1>3, <2>1, <2>2, <2>3, AdvancedFields DEF Renaming, Right
    <2> QED
        BY <1>1, <1>3, <2>4, AdvancedFields DEF Doing, Starting
<1> QED
    BY <1>0, <1>1, <1>3, StepKeeps

LEMMA WriteMappingKeeps ==
    ASSUME VarsOK, TasksOK, Solitary, AtWork, NEW t \in Task, tasks[t].iface = Primary, WriteMapping(t)
    PROVE  AtWork' /\ Resting'
<1>0. Stepping(t)
    BY DEF Stepping
<1>1. tasks[t].kind = "rename" /\ tasks[t].pc = 2 /\ ~Last(t)
    BY <1>0, Facts DEF Places, WriteMapping
<1>2. /\ files' = [files EXCEPT !.map = [name |-> tasks[t].name, ip |-> tasks[t].set]] /\ ap' = ap
      /\ UNCHANGED <<hostname, hostapd, dnsmasq, address, client, renamed>>
    BY DEF WriteMapping, live
<1>3. ASSUME Advanced(t), tasks'[t].alone = tasks[t].alone, want' = want
      PROVE  Starting(tasks[t])' /\ (~muddled => Doing(tasks[t])')
    <2>1. (AsAsked' <=> AsAsked) /\ (Tuned' <=> Tuned)
        BY <1>2, <1>3 DEF AsAsked, Tuned
    <2>2. ~muddled => Renaming(tasks[t])
        BY <1>0, <1>1, Facts DEF Doing
    <2>3. /\ files'.hostapd = files.hostapd /\ files'.dnsmasq = files.dnsmasq
          /\ files'.unit = files.unit
        BY <1>2 DEF VarsOK, Files
    <2>4. ~muddled => Written'
        BY <1>1, <1>2, <2>2 DEF Renaming, Written, FilesOf, VarsOK, Files
    <2>5. ~muddled => Renaming(tasks[t])'
        BY <1>1, <1>2, <1>3, <2>1, <2>2, <2>3, <2>4, AdvancedFields DEF Renaming
    <2> QED
        BY <1>1, <1>3, <2>5, AdvancedFields DEF Doing, Starting
<1> QED
    BY <1>0, <1>1, <1>3, StepKeeps

LEMMA SetAddressKeeps ==
    ASSUME VarsOK, TasksOK, Solitary, AtWork, NEW t \in Task, tasks[t].iface = Primary, SetAddress(t)
    PROVE  AtWork' /\ Resting'
<1>0. Stepping(t)
    BY DEF Stepping
<1>1. /\ ap' = ap
      /\ UNCHANGED <<files, hostname, hostapd, dnsmasq, client, renamed>>
    BY DEF SetAddress, disk
<1>2. Written' <=> Written
    BY <1>1 DEF Written, FilesOf
<1>3. CASE Reached(t, "address")
    <2>1. tasks[t].kind \in {"apply", "hotspot"} /\ tasks[t].pc = 4 /\ ~Last(t)
        BY <1>0, <1>3, Facts DEF Places
    <2>2. address' = tasks[t].set
        BY <1>0, <1>3, <2>1, Facts DEF SetAddress, Places
    <2>3. ASSUME Advanced(t), tasks'[t].alone = tasks[t].alone, want' = want
          PROVE  Starting(tasks[t])' /\ (~muddled => Doing(tasks[t])')
        <3>1. AsAsked' <=> AsAsked
            BY <1>1, <2>3 DEF AsAsked
        <3>2. Starting(tasks[t])'
            <4>1. Starting(tasks[t])
                BY <1>0, Facts
            <4>2. tasks'[t].kind = tasks[t].kind /\ tasks'[t].set = tasks[t].set /\ tasks'[t].pc = 5
                BY <2>1, <2>3, AdvancedFields
            <4> QED
                BY <1>1, <1>2, <2>1, <2>2, <2>3, <4>1, <4>2 DEF Starting
        <3>3. ~muddled => Doing(tasks[t])'
            BY <1>0, <1>1, <1>2, <2>1, <2>2, <2>3, <3>1, Facts, AdvancedFields DEF Doing, Applying
        <3> QED
            BY <3>2, <3>3
    <2> QED
        BY <1>0, <2>1, <2>3, StepKeeps
<1>4. CASE Reached(t, "flush") /\ tasks[t].kind # "connect"
    <2>1. tasks[t].kind \in {"apply", "hotspot"} /\ tasks[t].pc = 3 /\ ~Last(t)
        BY <1>0, <1>4, Facts DEF Places
    <2>2. ASSUME Advanced(t), tasks'[t].alone = tasks[t].alone, want' = want
          PROVE  Starting(tasks[t])' /\ (~muddled => Doing(tasks[t])')
        <3>1. AsAsked' <=> AsAsked
            BY <1>1, <2>2 DEF AsAsked
        <3>2. Starting(tasks[t])'
            <4>1. Starting(tasks[t])
                BY <1>0, Facts
            <4>2. tasks'[t].kind = tasks[t].kind /\ tasks'[t].set = tasks[t].set /\ tasks'[t].pc = 4
                BY <2>1, <2>2, AdvancedFields
            <4> QED
                BY <1>1, <1>2, <2>1, <2>2, <4>1, <4>2 DEF Starting
        <3>3. ~muddled => Doing(tasks[t])'
            BY <1>0, <1>1, <1>2, <2>1, <2>2, <3>1, Facts, AdvancedFields DEF Doing, Applying
        <3> QED
            BY <3>2, <3>3
    <2> QED
        BY <1>0, <2>1, <2>2, StepKeeps
<1>6. CASE Reached(t, "flush") /\ tasks[t].kind = "connect"
    <2>1. tasks[t].kind = "connect" /\ tasks[t].pc = 5 /\ ~Last(t)
        BY <1>0, <1>6, Facts DEF Places
    <2>2. ASSUME Advanced(t), tasks'[t].alone = tasks[t].alone, want' = want
          PROVE  Starting(tasks[t])' /\ (~muddled => Doing(tasks[t])')
        <3>1. ~muddled => Leaving(tasks[t])
            BY <1>0, <2>1, Facts DEF Doing
        <3>2. ~muddled => Leaving(tasks[t])'
            BY <1>1, <1>2, <2>1, <2>2, <3>1, AdvancedFields DEF Leaving
        <3> QED
            BY <2>1, <2>2, <3>2, AdvancedFields DEF Doing, Starting
    <2> QED
        BY <1>0, <2>1, <2>2, StepKeeps
<1>5. CASE Reached(t, "dhcp")
    <2>1. tasks[t].kind = "connect" /\ tasks[t].pc = 7 /\ Last(t)
        BY <1>0, <1>5, Facts DEF Places
    <2>2. ASSUME Done(t), ~muddled' PROVE Right'
        <3>1. ~muddled /\ tasks[t].alone
            BY <1>0, <2>1, <2>2, Facts DEF Done
        <3>2. want' = "client"
            BY <2>1, <2>2, <3>1 DEF Done
        <3>3. Leaving(tasks[t])
            BY <1>0, <2>1, <3>1, Facts DEF Doing
        <3> QED
            BY <1>1, <1>2, <2>1, <3>2, <3>3 DEF Leaving, Right, AsAsked
    <2> QED
        BY <1>0, <2>1, <2>2, StepKeeps
<1> QED
    BY <1>3, <1>4, <1>5, <1>6 DEF SetAddress

LEMMA RestartDnsmasqKeeps ==
    ASSUME VarsOK, TasksOK, Solitary, AtWork, NEW t \in Task, tasks[t].iface = Primary, RestartDnsmasq(t)
    PROVE  AtWork' /\ Resting'
<1>0. Stepping(t)
    BY DEF Stepping
<1>1. /\ ap' = ap /\ dnsmasq' = [range |-> files.dnsmasq, map |-> files.map]
      /\ UNCHANGED <<files, hostname, hostapd, address, client>>
    BY DEF RestartDnsmasq, disk
<1>2. Written' <=> Written
    BY <1>1 DEF Written, FilesOf
<1>3. files.dnsmasq = ap => Leasing'
    BY <1>1 DEF Leasing
<1>4. Written => files.dnsmasq = ap
    BY DEF Written, FilesOf
<1>5. CASE Reached(t, "dnsmasq")
    <2>1. tasks[t].kind \in {"apply", "hotspot"} /\ tasks[t].pc = 5 /\ ~Last(t)
        BY <1>0, <1>5, Facts DEF Places
    <2>2. ASSUME Advanced(t), tasks'[t].alone = tasks[t].alone, want' = want
          PROVE  Starting(tasks[t])' /\ (~muddled => Doing(tasks[t])')
        <3>1. want = "ap" /\ AsAsked => AsAsked'
            BY <1>1, <2>2 DEF AsAsked
        <3>2. Starting(tasks[t])'
            <4>1. Starting(tasks[t])
                BY <1>0, Facts
            <4>2. tasks'[t].kind = tasks[t].kind /\ tasks'[t].set = tasks[t].set /\ tasks'[t].pc = 6
                BY <2>1, <2>2, AdvancedFields
            <4> QED
                BY <1>1, <1>2, <1>3, <1>4, <2>1, <2>2, <4>1, <4>2 DEF Starting
        <3>3. ~muddled => Doing(tasks[t])'
            BY <1>0, <1>1, <1>2, <1>3, <1>4, <2>1, <2>2, <3>1, Facts, AdvancedFields
            DEF Doing, Applying
        <3> QED
            BY <3>2, <3>3
    <2> QED
        BY <1>0, <2>1, <2>2, StepKeeps
<1>6. CASE Reached(t, "dnsmasq_ok")
    <2>1. tasks[t].kind = "rename" /\ tasks[t].pc = 3 /\ Last(t)
        BY <1>0, <1>6, Facts DEF Places
    <2>2. renamed'
        BY <1>6 DEF RestartDnsmasq
    <2>3. ASSUME Done(t), ~muddled' PROVE Right'
        <3>1. ~muddled /\ want' = want
            BY <2>1, <2>3 DEF Done
        <3>2. Renaming(tasks[t])
            BY <1>0, <2>1, <3>1, Facts DEF Doing
        <3>3. AsAsked'
            BY <1>1, <2>2, <3>1, <3>2 DEF Renaming, AsAsked
        <3>4. want' = "ap" => Tuned'
            BY <1>1, <3>1, <3>2 DEF Renaming, Tuned
        <3> QED
            BY <1>2, <1>3, <2>1, <3>2, <3>3, <3>4 DEF Renaming, Right
    <2> QED
        BY <1>0, <2>1, <2>3, StepKeeps
<1> QED
    BY <1>5, <1>6 DEF RestartDnsmasq

LEMMA StopDnsmasqKeeps ==
    ASSUME VarsOK, TasksOK, Solitary, AtWork, NEW t \in Task, tasks[t].iface = Primary, StopDnsmasq(t)
    PROVE  AtWork' /\ Resting'
<1>0. Stepping(t)
    BY DEF Stepping
<1>1. /\ ap' = ap /\ dnsmasq' = Off
      /\ UNCHANGED <<files, hostname, hostapd, address, client>>
    BY DEF StopDnsmasq, disk
<1>2. tasks[t].kind = "connect" /\ tasks[t].pc = 3 /\ ~Last(t)
    BY <1>0, Facts DEF Places, StopDnsmasq
<1>3. ASSUME Advanced(t), tasks'[t].alone = tasks[t].alone, want' = want
      PROVE  Starting(tasks[t])' /\ (~muddled => Doing(tasks[t])')
    <2>1. ~muddled => Leaving(tasks[t])
        BY <1>0, <1>2, Facts DEF Doing
    <2>2. ~muddled => Leaving(tasks[t])'
        BY <1>1, <1>2, <1>3, <2>1, AdvancedFields DEF Leaving, Written, FilesOf
    <2> QED
        BY <1>2, <1>3, <2>2, AdvancedFields DEF Doing, Starting
<1> QED
    BY <1>0, <1>2, <1>3, StepKeeps

LEMMA RestartHostapdKeeps ==
    ASSUME VarsOK, TasksOK, Solitary, AtWork, NEW t \in Task, tasks[t].iface = Primary, RestartHostapd(t)
    PROVE  AtWork' /\ Resting'
<1>0. Stepping(t)
    BY DEF Stepping
<1>1. ap' = ap /\ UNCHANGED <<files, hostname, dnsmasq, address, client, renamed>>
    BY DEF RestartHostapd, disk
<1>2. Written' <=> Written
    BY <1>1 DEF Written, FilesOf
<1>3. CASE Reached(t, "hostapd")
    <2>1. tasks[t].kind \in {"apply", "hotspot"} /\ tasks[t].pc = 6 /\ Last(t)
        BY <1>0, <1>3, Facts DEF Places
    <2>2. hostapd' = files.hostapd
        BY <1>0, <2>1, Facts DEF RestartHostapd, Places
    <2>3. Written => hostapd' = ap /\ hostapd' # Off
        BY <2>2, NameAssumption DEF Written, FilesOf, VarsOK
    <2>4. Leasing' <=> Leasing
        BY <1>1 DEF Leasing
    <2>5. ASSUME Done(t), ~muddled' PROVE Right'
        <3>1. CASE tasks[t].kind = "apply"
            <4>1. ~muddled /\ want' = want
                BY <2>5, <3>1 DEF Done
            <4>2. Applying(tasks[t])
                BY <1>0, <3>1, <4>1, Facts DEF Doing
            <4>3. /\ Written /\ want = "ap" /\ address = ap /\ Leasing
                  /\ client[Primary] = Off
                BY <2>1, <4>2 DEF Applying, AsAsked
            <4> QED
                BY <1>1, <1>2, <2>3, <2>4, <4>1, <4>3 DEF Right, AsAsked, Tuned
        <3>2. CASE tasks[t].kind = "hotspot"
            <4>1. tasks[t].alone
                BY <1>0, <2>5, <3>2, Facts DEF Done
            <4>2. want' = "ap"
                BY <2>5, <3>2, <4>1 DEF Done
            <4>3. Written /\ address = ap /\ Leasing /\ client[Primary] = Off
                BY <1>0, <2>1, <3>2, <4>1, Facts DEF Starting
            <4> QED
                BY <1>1, <1>2, <2>3, <2>4, <4>2, <4>3 DEF Right, AsAsked, Tuned
        <3> QED
            BY <2>1, <3>1, <3>2
    <2> QED
        BY <1>0, <2>1, <2>5, StepKeeps
<1>4. CASE Reached(t, "hostapd_off")
    <2>1. tasks[t].kind = "connect" /\ tasks[t].pc = 2 /\ ~Last(t)
        BY <1>0, <1>4, Facts DEF Places
    <2>2. hostapd' = Off
        BY <1>0, <2>1, Facts DEF RestartHostapd, Places
    <2>3. ASSUME Advanced(t), tasks'[t].alone = tasks[t].alone, want' = want
          PROVE  Starting(tasks[t])' /\ (~muddled => Doing(tasks[t])')
        <3>1. ~muddled => Leaving(tasks[t])
            BY <1>0, <2>1, Facts DEF Doing
        <3>2. ~muddled => Leaving(tasks[t])'
            BY <1>2, <2>1, <2>2, <2>3, <3>1, AdvancedFields DEF Leaving
        <3> QED
            BY <2>1, <2>3, <3>2, AdvancedFields DEF Doing, Starting
    <2> QED
        BY <1>0, <2>1, <2>3, StepKeeps
<1> QED
    BY <1>3, <1>4 DEF RestartHostapd

LEMMA StopClientKeeps ==
    ASSUME VarsOK, TasksOK, Solitary, AtWork, NEW t \in Task, tasks[t].iface = Primary, StopClient(t)
    PROVE  AtWork' /\ Resting'
<1>0. Stepping(t)
    BY DEF Stepping
<1>1. ap' = ap /\ UNCHANGED <<files, hostname, hostapd, dnsmasq, address, renamed>>
    BY DEF StopClient, disk
<1>2. client'[Primary] = Off
    BY DEF StopClient, VarsOK, Iface
<1>3. (Written' <=> Written)
    BY <1>1 DEF Written, FilesOf
<1>4. /\ ~Last(t)
      /\ \/ tasks[t].kind = "hotspot" /\ tasks[t].pc = 2
         \/ tasks[t].kind = "connect" /\ tasks[t].pc = 4
    BY <1>0, Facts DEF Places, StopClient
<1>5. ASSUME Advanced(t), tasks'[t].alone = tasks[t].alone, want' = want
      PROVE  Starting(tasks[t])' /\ (~muddled => Doing(tasks[t])')
    <2>1. CASE tasks[t].kind = "hotspot"
        BY <1>0, <1>1, <1>2, <1>3, <1>4, <1>5, <2>1, Facts, AdvancedFields DEF Doing, Starting
    <2>2. CASE tasks[t].kind = "connect"
        <3>1. ~muddled => Leaving(tasks[t])
            BY <1>0, <2>2, Facts DEF Doing
        <3>2. ~muddled => Leaving(tasks[t])'
            BY <1>1, <1>3, <1>4, <1>5, <2>2, <3>1, AdvancedFields DEF Leaving
        <3> QED
            BY <1>5, <2>2, <3>2, AdvancedFields DEF Doing, Starting
    <2> QED
        BY <1>4, <2>1, <2>2
<1> QED
    BY <1>0, <1>4, <1>5, StepKeeps

LEMMA WriteConfKeeps ==
    ASSUME VarsOK, TasksOK, Solitary, AtWork, NEW t \in Task, tasks[t].iface = Primary, WriteConf(t)
    PROVE  AtWork' /\ Resting'
<1>0. Stepping(t)
    BY DEF Stepping
<1>1. ap' = ap /\ UNCHANGED <<files, hostname, hostapd, dnsmasq, address, renamed, client>>
    BY DEF WriteConf, live
<1>2. tasks[t].kind = "connect" /\ tasks[t].pc = 1 /\ ~Last(t)
    BY <1>0, Facts DEF Places, WriteConf
<1>3. ASSUME Advanced(t), tasks'[t].alone = tasks[t].alone, want' = want
      PROVE  Starting(tasks[t])' /\ (~muddled => Doing(tasks[t])')
    <2>1. ~muddled => Leaving(tasks[t])
        BY <1>0, <1>2, Facts DEF Doing
    <2>2. UNCHANGED Scene
        BY <1>1, <1>3 DEF Scene
    <2>3. ~muddled => Leaving(tasks[t])'
        BY <1>2, <1>3, <2>1, <2>2, SceneKeeps, AdvancedFields DEF Leaving, Right
    <2> QED
        BY <1>2, <1>3, <2>3, AdvancedFields DEF Doing, Starting
<1> QED
    BY <1>0, <1>2, <1>3, StepKeeps

LEMMA StartClientKeeps ==
    ASSUME VarsOK, TasksOK, Solitary, AtWork, NEW t \in Task, tasks[t].iface = Primary, StartClient(t)
    PROVE  AtWork' /\ Resting'
<1>0. Stepping(t)
    BY DEF Stepping
<1>1. ap' = ap /\ UNCHANGED <<files, hostname, hostapd, dnsmasq, address, renamed>>
    BY DEF StartClient, disk
<1>2. client'[Primary] # Off
    BY DEF StartClient, VarsOK, Iface
<1>3. tasks[t].kind = "connect" /\ tasks[t].pc = 6 /\ ~Last(t)
    BY <1>0, Facts DEF Places, StartClient
<1>4. ASSUME Advanced(t), tasks'[t].alone = tasks[t].alone, want' = want
      PROVE  Starting(tasks[t])' /\ (~muddled => Doing(tasks[t])')
    <2>1. ~muddled => Leaving(tasks[t])
        BY <1>0, <1>3, Facts DEF Doing
    <2>2. ~muddled => Leaving(tasks[t])'
        BY <1>1, <1>2, <1>3, <1>4, <2>1, AdvancedFields DEF Leaving, Written, FilesOf
    <2> QED
        BY <1>3, <1>4, <2>2, AdvancedFields DEF Doing, Starting
<1> QED
    BY <1>0, <1>3, <1>4, StepKeeps

LEMMA DongleKeeps ==
    ASSUME VarsOK, TasksOK, AtWork, Resting, NEW t \in Task, tasks[t].iface # Primary, Stepping(t)
    PROVE  AtWork' /\ Resting'
<1>1. Working(t) /\ Step(t) /\ ap' = ap
    BY StepsStep
<1>2. tasks[t].kind = "connect" /\ Extra(tasks[t].iface) = 0 /\ tasks[t].iface \in Iface
    <2>1. tasks[t] \in TaskRec /\ TaskOK(tasks[t])
        BY DEF TasksOK
    <2>2. tasks[t].kind = "connect"
        BY <2>1 DEF TaskOK
    <2>3. tasks[t].iface \in Iface
        BY <2>1 DEF TaskRec
    <2> QED
        BY <2>2, <2>3 DEF Extra
<1>3. Places(t)
    BY <1>1, PlacesHold DEF Working
<1>4. Others(t) /\ want' = want /\ muddled' = muddled
    <2>1. Done(t) => want' = want /\ muddled' = muddled
        BY <1>2 DEF Done, VarsOK
    <2>2. muddled' = (muddled \/ tasks[t].iface = Primary) => muddled' = muddled
        BY DEF VarsOK
    <2> QED
        BY <1>1, <2>1, <2>2, StepsStep, StepEffect DEF Ended, Advanced
<1>5. tasks'[t] = Idle \/ (tasks'[t].iface = tasks[t].iface /\ tasks'[t].kind = "connect")
    BY <1>1, <1>2, StepsStep, StepEffect DEF Ended, Advanced, SameTask
<1>6. UNCHANGED Scene
    <2>1. CASE WriteConf(t)
        BY <1>1, <1>4, <2>1 DEF WriteConf, live, Scene
    <2>2. CASE StopClient(t)
        BY <1>1, <1>2, <1>4, <2>2 DEF StopClient, disk, Scene, VarsOK, Iface
    <2>3. CASE StartClient(t)
        BY <1>1, <1>2, <1>4, <2>3 DEF StartClient, disk, Scene, VarsOK, Iface
    <2>4. CASE SetAddress(t)
        <3>1. address' = address
            BY <1>2, <1>3, <2>4 DEF SetAddress, Places
        <3> QED
            BY <1>1, <1>4, <2>4, <3>1 DEF SetAddress, disk, Scene
    <2>5. ~(WriteFiles(t) \/ RestartDnsmasq(t) \/ StopDnsmasq(t) \/ RestartHostapd(t) \/ SetName(t)
            \/ WriteMapping(t))
        BY <1>2, <1>3
        DEF WriteFiles, RestartDnsmasq, StopDnsmasq, RestartHostapd, SetName, WriteMapping, Places
    <2> QED
        BY <2>1, <2>2, <2>3, <2>4, <2>5 DEF Stepping
<1>7. QuietOn(Primary)' => QuietOn(Primary)
    BY <1>4 DEF QuietOn, On, Active, Others
<1>8. \A q \in Task : \/ tasks'[q] = tasks[q]
                      \/ tasks'[q].kind = "idle"
                      \/ tasks'[q].iface # Primary /\ tasks'[q].kind # "hotspot"
    BY <1>4, <1>5 DEF Others, Idle
<1> QED
    BY <1>4, <1>6, <1>7, <1>8, Elsewhere

LEMMA BeginKeeps ==
    ASSUME VarsOK, TasksOK, AtWork, Resting, NEW t \in Task, NEW task \in TaskRec, Fresh(t, task),
           UNCHANGED <<up, ap, saved, disk, live, want>>
    PROVE  AtWork' /\ Resting'
<1> DEFINE i == task.iface
           single == QuietOn(i)
<1>1. /\ muddled' = (muddled \/ (i = Primary /\ ~single)) /\ ~Active(t) /\ TasksOK'
      /\ tasks'[t] = [task EXCEPT !.alone = single]
      /\ \A q \in Task \ {t} :
            tasks'[q] = IF On(q, i) THEN [tasks[q] EXCEPT !.alone = FALSE] ELSE tasks[q]
    BY Begins DEF Fresh
<1>2. /\ tasks'[t].iface = i /\ tasks'[t].alone = single /\ tasks'[t].kind = task.kind
      /\ tasks'[t].set = task.set /\ tasks'[t].pc = task.pc
    BY <1>1 DEF TaskRec, QuietOn
<1>3. UNCHANGED Scene
    BY DEF Scene, disk, live
<1>4. \A q \in Task \ {t} :
        /\ ~On(q, i) => tasks'[q] = tasks[q]
        /\ On(q, i) => tasks'[q].alone = FALSE
        /\ tasks'[q].iface = tasks[q].iface
        /\ tasks'[q].kind = tasks[q].kind
    <2> TAKE q \in Task \ {t}
    <2>1. CASE On(q, i)
        <3>1. tasks'[q] = [tasks[q] EXCEPT !.alone = FALSE] /\ tasks[q] \in TaskRec
            BY <1>1, <2>1 DEF TasksOK
        <3> QED
            BY <2>1, <3>1 DEF TaskRec
    <2>2. CASE ~On(q, i)
        BY <1>1, <2>2
    <2> QED
        BY <2>1, <2>2
<1>5. single <=> \A q \in Task : ~On(q, i)
    BY DEF QuietOn
<1> HIDE DEF single
<1>6. CASE i # Primary
    <2>1. task.kind = "connect"
        BY <1>6 DEF Fresh, TaskOK
    <2>2. QuietOn(Primary)' => QuietOn(Primary)
        BY <1>1, <1>4 DEF QuietOn, On, Active
    <2>3. ASSUME NEW q \in Task
          PROVE  \/ tasks'[q] = tasks[q]
                 \/ tasks'[q].iface # Primary /\ tasks'[q].kind # "hotspot"
        <3>1. CASE q = t
            BY <1>2, <1>6, <2>1, <3>1
        <3>2. CASE q # t /\ On(q, i)
            BY <1>4, <1>6, <3>2 DEF On, TasksOK, TaskOK
        <3>3. CASE q # t /\ ~On(q, i)
            BY <1>4, <3>3
        <3> QED
            BY <3>1, <3>2, <3>3
    <2> QED
        BY <1>1, <1>3, <1>6, <2>2, <2>3, Elsewhere
<1>7. CASE i = Primary /\ ~single
    <2>1. muddled'
        BY <1>1, <1>7
    <2>2. \A q \in Task : tasks'[q] = tasks[q] \/ ~tasks'[q].alone
        BY <1>2, <1>4, <1>7
    <2> QED
        BY <1>3, <2>1, <2>2, Elsewhere
<1>8. CASE i = Primary /\ single
    <2>1. \A q \in Task \ {t} : On(q, Primary)' => ~tasks'[q].alone /\ muddled'
        BY <1>4, <1>5, <1>8 DEF On, Active
    <2>2. Starting(tasks[t])'
        BY <1>2 DEF Fresh, Starting
    <2>3. On(t, Primary)'
        BY <1>2, <1>8 DEF On, Active, Fresh
    <2>4. ASSUME ~muddled' PROVE Doing(tasks[t])'
        <3>1. Right'
            BY <1>1, <1>3, <1>8, <2>4, SceneKeeps DEF Resting, single
        <3>2. task.kind = "rename" => Renaming(tasks[t])'
            <4>1. Right' => files'.hostapd = ap' /\ files'.dnsmasq = ap' /\ files'.unit = ap'
                BY DEF Right, Written, FilesOf
            <4>2. task.kind = "rename" => tasks'[t].set = ap' /\ tasks'[t].pc = 1
                BY <1>2 DEF Fresh
            <4> QED
                BY <3>1, <4>1, <4>2 DEF Renaming, Right
        <3>3. task.kind = "connect" => Leaving(tasks[t])'
            BY <1>2, <3>1 DEF Fresh, Leaving, Right
        <3> QED
            BY <1>2, <3>1, <3>2, <3>3 DEF Fresh, Doing
    <2> QED
        BY <1>1, <2>1, <2>2, <2>3, <2>4, OnlyOne
<1> QED
    BY <1>6, <1>7, <1>8

LEMMA SaveKeeps ==
    ASSUME VarsOK, TasksOK, Solitary, AtWork, NEW t \in Task, Saving(t)
    PROVE  AtWork' /\ Resting'
<1>1. /\ TasksOK' /\ Others(t) /\ tasks[t].kind = "save"
      /\ tasks'[t].alone = tasks[t].alone /\ tasks'[t].set = tasks[t].set
      /\ tasks'[t].iface = tasks[t].iface /\ tasks'[t].pc = 1
      /\ UNCHANGED <<up, disk, live, want, muddled, ops>>
      /\ \/ tasks'[t].kind = "save" /\ ap' = ap
         \/ tasks'[t].kind = "apply" /\ ap' = tasks[t].set
    BY SaveEffect
<1>2. On(t, Primary) /\ On(t, Primary)'
    BY <1>1 DEF TasksOK, TaskOK, On, Active
<1>3. ~muddled => Right
    BY <1>1, <1>2 DEF AtWork, Doing
<1>4. \A q \in Task \ {t} : On(q, Primary)' => ~tasks'[q].alone /\ muddled'
    BY <1>1, <1>2, OthersAside
<1>5. Starting(tasks[t])'
    BY <1>1 DEF Starting
<1>6. CASE tasks'[t].kind = "save" /\ ap' = ap
    <2>1. UNCHANGED Scene
        BY <1>1, <1>6 DEF Scene, disk, live
    <2>2. ~muddled' => Doing(tasks[t])'
        BY <1>1, <1>3, <1>6, <2>1, SceneKeeps DEF Doing
    <2> QED
        BY <1>1, <1>2, <1>4, <1>5, <2>2, OnlyOne
<1>7. CASE tasks'[t].kind = "apply" /\ ap' = tasks[t].set
    <2>1. AsAsked => AsAsked'
        BY <1>1 DEF AsAsked, live
    <2>2. ~muddled' => Doing(tasks[t])'
        BY <1>1, <1>3, <1>7, <2>1 DEF Doing, Applying, Right
    <2> QED
        BY <1>1, <1>2, <1>4, <1>5, <2>2, OnlyOne
<1> QED
    BY <1>1, <1>6, <1>7

LEMMA IfApKeeps ==
    ASSUME VarsOK, TasksOK, Solitary, AtWork, NEW t \in Task, IfAp(t)
    PROVE  AtWork' /\ Resting'
<1>1. /\ TasksOK' /\ tasks[t].kind = "apply" /\ tasks[t].pc = 2
      /\ UNCHANGED <<up, ap, disk, live, want, muddled, ops>>
    BY IfApEffect
<1>2. On(t, Primary)
    BY <1>1 DEF TasksOK, TaskOK, On, Active
<1>3. ~muddled => Applying(tasks[t])
    BY <1>1, <1>2 DEF AtWork, Doing
<1>4. UNCHANGED Scene
    BY <1>1 DEF Scene, disk, live
<1>5. (Written' <=> Written) /\ (AsAsked' <=> AsAsked)
    BY <1>4 DEF Scene, Written, FilesOf, AsAsked
<1>6. CASE hostapd # Off /\ Advanced(t) /\ tasks'[t].alone = tasks[t].alone
    <2>1. On(t, Primary)'
        BY <1>2, <1>6 DEF On, Active, Advanced, SameTask
    <2>2. Starting(tasks[t])'
        BY <1>1, <1>6 DEF Starting, Advanced, SameTask
    <2>3. ~muddled => want = "ap"
        BY <1>3, <1>6 DEF Applying, AsAsked
    <2>4. ~muddled' => Doing(tasks[t])'
        BY <1>1, <1>3, <1>5, <1>6, <2>3, AdvancedFields DEF Doing, Applying
    <2>5. \A q \in Task \ {t} : On(q, Primary)' => ~tasks'[q].alone /\ muddled'
        BY <1>1, <1>2, <1>6, OthersAside DEF Advanced
    <2> QED
        BY <1>1, <2>1, <2>2, <2>4, <2>5, OnlyOne
<1>7. CASE hostapd = Off /\ Ended(t)
    <2>1. ~On(t, Primary)' /\ Starting(tasks[t])'
        BY <1>7 DEF Ended, On, Active, Idle, Starting
    <2>2. ~muddled => Right
        BY <1>1, <1>3, <1>7 DEF Applying, AsAsked, Right
    <2>3. \A q \in Task \ {t} : On(q, Primary)' => ~tasks'[q].alone /\ muddled'
        BY <1>1, <1>2, <1>7, OthersAside DEF Ended
    <2> QED
        BY <1>1, <1>4, <2>1, <2>2, <2>3, SceneKeeps, OnlyOne
<1> QED
    BY <1>6, <1>7, IfApEffect

LEMMA BreakKeeps ==
    ASSUME VarsOK, TasksOK, Solitary, AtWork, Resting, NEW t \in Task, Breaking(t)
    PROVE  AtWork' /\ Resting'
<1>1. /\ TasksOK' /\ want' = want
      /\ ~muddled' => ~muddled /\ tasks[t].iface # Primary
      /\ Ended(t) \/ Disturbed(t)
      /\ UNCHANGED <<up, ap, saved, hostname, runconf, profile, live>>
      /\ files' = files \/ (WriteFilesPartly(t) /\ Working(t) /\ tasks[t].kind # "connect")
    BY BreaksEffect
<1>2. Others(t)
    BY <1>1 DEF Ended, Disturbed
<1>3. Starting(tasks[t])'
    BY <1>1 DEF Ended, Disturbed, Idle, Starting
<1>4. Active(t)
    BY DEF Breaking, SaveFails, WriteFilesPartly, Fails, Drop, Reached, Active
<1>5. CASE tasks[t].iface = Primary
    <2>1. muddled' /\ On(t, Primary)
        BY <1>1, <1>4, <1>5 DEF On
    <2>2. \A q \in Task \ {t} : On(q, Primary)' => ~tasks'[q].alone /\ muddled'
        BY <1>2, <2>1, OthersAside
    <2> QED
        BY <1>1, <1>3, <2>1, <2>2, OnlyOne
<1>6. CASE tasks[t].iface # Primary
    <2>1. tasks[t].kind = "connect"
        BY <1>6 DEF TasksOK, TaskOK
    <2>2. UNCHANGED Scene
        BY <1>1, <2>1 DEF Scene, live
    <2>3. QuietOn(Primary)' => QuietOn(Primary)
        BY <1>2, <1>6 DEF QuietOn, On, Active, Others
    <2>4. \A q \in Task : \/ tasks'[q] = tasks[q]
                          \/ tasks'[q].kind = "idle"
                          \/ tasks'[q].iface # Primary /\ tasks'[q].kind # "hotspot"
        BY <1>1, <1>2, <1>6, <2>1 DEF Ended, Disturbed, Others, Idle
    <2> QED
        BY <1>1, <2>2, <2>3, <2>4, Elsewhere
<1> QED
    BY <1>5, <1>6

\* Restarts end all that is at work.
LEMMA NobodyAtWork ==
    ASSUME \A t \in Task : tasks'[t] = Idle
    PROVE  AtWork'
BY DEF AtWork, On, Active, Starting, Idle

LEMMA SceneStep ==
    ASSUME VarsOK, TasksOK, Solitary, AtWork, Resting, [Next]_vars
    PROVE  AtWork' /\ Resting'
<1>1. ASSUME NEW t \in Task, Beginning(t) PROVE AtWork' /\ Resting'
    BY <1>1, BeginsFresh, BeginKeeps
<1>2. ASSUME NEW t \in Task, Saving(t) PROVE AtWork' /\ Resting'
    BY <1>2, SaveKeeps
<1>3. ASSUME NEW t \in Task, Breaking(t) PROVE AtWork' /\ Resting'
    BY <1>3, BreakKeeps
<1>4. ASSUME NEW t \in Task, Stepping(t) PROVE AtWork' /\ Resting'
    <2>1. CASE tasks[t].iface # Primary
        BY <1>4, <2>1, DongleKeeps
    <2>2. CASE tasks[t].iface = Primary
        BY <1>4, <2>2, WriteFilesKeeps, SetAddressKeeps, RestartDnsmasqKeeps, StopDnsmasqKeeps,
           RestartHostapdKeeps, StopClientKeeps, WriteConfKeeps, StartClientKeeps, SetNameKeeps,
           WriteMappingKeeps
        DEF Stepping
    <2> QED
        BY <2>1, <2>2
<1>5. ASSUME NEW t \in Task, IfAp(t) PROVE AtWork' /\ Resting'
    BY <1>5, IfApKeeps
<1>6. CASE SetProfile
    <2>1. UNCHANGED Scene /\ muddled' = muddled /\ tasks' = tasks
        BY <1>6 DEF SetProfile, Scene, live
    <2>2. QuietOn(Primary)' <=> QuietOn(Primary)
        BY <2>1 DEF QuietOn, On, Active
    <2> QED
        BY <2>1, <2>2, Elsewhere
<1>7. CASE Crash
    <2>1. AtWork' /\ client'[Primary] = Off /\ ap' = Loaded
        BY <1>7, DownEffect, NobodyAtWork DEF Crash
    <2>2. ASSUME ~muddled' PROVE Right'
        <3>1. Right /\ ap' = ap /\ client[Primary] = Off
            BY <1>7, <2>1, <2>2 DEF Crash, Resting
        <3>2. UNCHANGED Scene
            BY <1>7, <2>1, <3>1 DEF Crash, Scene, disk
        <3> QED
            BY <3>1, <3>2, SceneKeeps
    <2> QED
        BY <2>1, <2>2 DEF Resting
<1>8. CASE Reboot
    <2>1. AtWork' /\ client'[Primary] = Off /\ ap' = Loaded
        BY <1>8, DownEffect, NobodyAtWork DEF Reboot
    <2>2. ASSUME ~muddled' PROVE Right'
        <3>1. Written /\ ap' = ap
            BY <1>8, <2>1, <2>2 DEF Reboot, Resting, Right
        <3>2. files.hostapd = ap /\ files.dnsmasq = ap /\ files.unit = ap
            BY <3>1 DEF Written, FilesOf
        <3>3. Written' /\ Tuned' /\ Leasing' /\ want' = "ap"
            BY <1>8, <3>1, <3>2 DEF Reboot, Written, FilesOf, Tuned, Leasing
        <3>4. ap # Off
            BY NameAssumption DEF VarsOK
        <3> QED
            BY <2>1, <3>1, <3>3, <3>4 DEF Right, AsAsked, Tuned
    <2> QED
        BY <2>1, <2>2 DEF Resting
<1>9. CASE Sync
    <2>1. /\ \A t \in Task : ~Active(t) /\ tasks'[t] = tasks[t]
          /\ muddled' = muddled /\ files' = FilesOf(ap)
          /\ UNCHANGED <<ap, hostname, hostapd, dnsmasq, address, client, renamed, want>>
        BY <1>9 DEF Sync, TasksOK, live
    <2>2. AtWork'
        BY <2>1 DEF AtWork, On, Active, Starting
    <2>3. ASSUME ~muddled' PROVE Right'
        <3>1. Right
            BY <2>1, <2>3 DEF Resting, QuietOn, On
        <3>2. UNCHANGED Scene
            BY <2>1, <3>1 DEF Scene, Right, Written
        <3> QED
            BY <3>1, <3>2, SceneKeeps
    <2> QED
        BY <2>2, <2>3 DEF Resting
<1>10. CASE SyncFails
    <2>1. UNCHANGED Scene /\ muddled' /\ tasks' = tasks
        BY <1>10 DEF SyncFails, Scene, disk, live
    <2> QED
        BY <2>1, Elsewhere
<1>11. CASE UNCHANGED vars
    <2>1. UNCHANGED Scene /\ muddled' = muddled /\ tasks' = tasks
        BY <1>11 DEF vars, Scene, disk, live
    <2>2. QuietOn(Primary)' <=> QuietOn(Primary)
        BY <2>1 DEF QuietOn, On, Active
    <2> QED
        BY <2>1, <2>2, Elsewhere
<1> QED
    BY <1>1, <1>2, <1>3, <1>4, <1>5, <1>6, <1>7, <1>8, <1>9, <1>10, <1>11, NextSplits

----------------------------------------------------------------------------
(* The clients.                                                            *)

\* A step that does its work touches only the client and the configuration of its interface.
LEMMA StepClients ==
    ASSUME VarsOK, TasksOK, NEW t \in Task, Stepping(t)
    PROVE  /\ \A i \in Iface : i # tasks[t].iface => client'[i] = client[i] /\ runconf'[i] = runconf[i]
           /\ WriteConf(t) \/ runconf' = runconf
           /\ StopClient(t) \/ StartClient(t) \/ client' = client
<1> USE DEF VarsOK
<1>0. tasks[t].iface \in Iface
    BY DEF TasksOK, TaskRec
<1>1. CASE WriteConf(t)
    BY <1>0, <1>1 DEF WriteConf, ConfOf, live
<1>2. CASE StopClient(t)
    BY <1>0, <1>2 DEF StopClient, disk
<1>3. CASE StartClient(t)
    BY <1>0, <1>3 DEF StartClient, disk
<1>4. CASE WriteFiles(t) \/ SetName(t) \/ WriteMapping(t)
    BY <1>4 DEF WriteFiles, SetName, WriteMapping, live
<1>5. CASE SetAddress(t) \/ RestartDnsmasq(t) \/ StopDnsmasq(t) \/ RestartHostapd(t)
    BY <1>5 DEF SetAddress, RestartDnsmasq, StopDnsmasq, RestartHostapd, disk
<1> QED
    BY <1>1, <1>2, <1>3, <1>4, <1>5 DEF Stepping

LEMMA ConnectsKept ==
    ASSUME Connects, UNCHANGED <<client, runconf>>,
           \A q \in Task : \/ tasks'[q] = tasks[q]
                          \/ tasks'[q].kind # "connect"
                          \/ ~tasks'[q].alone
    PROVE  Connects'
<1> SUFFICES ASSUME NEW q \in Task PROVE Connecting(tasks[q])'
    BY DEF Connects
<1>1. CASE tasks'[q] = tasks[q]
    BY <1>1 DEF Connects, Connecting, Length, Extra
<1>2. CASE tasks'[q].kind # "connect" \/ ~tasks'[q].alone
    BY <1>2 DEF Connecting
<1> QED
    BY <1>1, <1>2

LEMMA OwnConnect ==
    ASSUME VarsOK, TasksOK, Connects, NEW t \in Task, Stepping(t)
    PROVE  Connecting(tasks[t])'
<1>1. Working(t) /\ Step(t) /\ up' = up
    BY StepsStep
<1>2. CASE Ended(t)
    BY <1>2 DEF Ended, Idle, Connecting
<1>3. CASE ~Last(t) /\ Advanced(t) /\ tasks'[t].alone = tasks[t].alone
    <2> SUFFICES ASSUME tasks'[t].kind = "connect", tasks'[t].alone, tasks'[t].via # "profile"
                 PROVE  /\ tasks'[t].pc > 1 => runconf'[tasks'[t].iface] = tasks'[t].net
                        /\ tasks'[t].pc = Length("connect", tasks'[t].iface)
                             => client'[tasks'[t].iface] = tasks'[t].net
        BY DEF Connecting, Length, Extra
    <2> DEFINE i == tasks[t].iface
               n == tasks[t].net
               pc == tasks[t].pc
    <2>1. /\ tasks'[t].iface = i /\ tasks'[t].net = n /\ tasks'[t].pc = pc + 1
          /\ tasks[t].kind = "connect" /\ tasks[t].alone /\ tasks[t].via # "profile"
        BY <1>3 DEF Advanced, SameTask
    <2>2. i \in Iface /\ pc \in Nat /\ pc >= 1
        BY <2>1, Lengths DEF TasksOK, TaskRec, TaskOK
    <2>3. pc > 1 => runconf[i] = n
        BY <2>1 DEF Connects, Connecting
    <2>4. Places(t) /\ Length("connect", i) = 5 + Extra(i)
        BY <1>1, PlacesHold DEF Working, Length
    <2> HIDE DEF i, n, pc
    <2>5. Extra(i) \in {0, 2}
        BY DEF Extra
    <2>6. CASE WriteConf(t)
        <3>1. pc = 1
            BY <2>4, <2>6 DEF WriteConf, Places, pc
        <3>2. runconf'[i] = n
            BY <2>2, <2>6 DEF WriteConf, ConfOf, VarsOK, i, n
        <3> QED
            BY <2>1, <2>4, <2>5, <3>1, <3>2
    <2>7. CASE StartClient(t)
        <3>1. pc = 4 + Extra(i)
            BY <2>4, <2>7 DEF StartClient, Places, pc, i
        <3>2. runconf' = runconf
            BY <2>7 DEF StartClient, disk
        <3>3. client'[i] = runconf[i]
            BY <2>1, <2>2, <2>7 DEF StartClient, ConfOf, VarsOK, i
        <3> QED
            BY <2>1, <2>3, <2>4, <2>5, <3>1, <3>2, <3>3
    <2>8. CASE ~WriteConf(t) /\ ~StartClient(t)
        <3>1. runconf' = runconf
            BY <2>8, StepClients
        <3>2. pc > 1 /\ pc + 1 # 5 + Extra(i)
            <4>1. CASE SetAddress(t)
                <5>1. ~Reached(t, "dhcp")
                    BY <1>1, <1>3, <2>1, <2>4, PlacesHold DEF Last, Places, Working, i
                <5> QED
                    BY <2>1, <2>4, <2>5, <4>1, <5>1 DEF SetAddress, Places, pc, i
            <4>2. CASE StopClient(t)
                BY <2>1, <2>4, <2>5, <4>2 DEF StopClient, Places, pc, i
            <4>3. CASE StopDnsmasq(t) \/ RestartHostapd(t)
                BY <2>1, <2>4, <2>5, <4>3 DEF StopDnsmasq, RestartHostapd, Places, pc, i
            <4>4. ~(WriteFiles(t) \/ RestartDnsmasq(t) \/ SetName(t) \/ WriteMapping(t))
                BY <2>1, <2>4 DEF WriteFiles, RestartDnsmasq, SetName, WriteMapping, Places
            <4> QED
                BY <2>8, <4>1, <4>2, <4>3, <4>4 DEF Stepping
        <3> QED
            BY <2>1, <2>3, <2>4, <3>1, <3>2
    <2> QED
        BY <2>6, <2>7, <2>8
<1> QED
    BY <1>1, <1>2, <1>3, StepEffect

LEMMA ConnectsStep ==
    ASSUME VarsOK, TasksOK, Solitary, Connects, [Next]_vars
    PROVE  Connects'
<1>1. ASSUME NEW t \in Task, Beginning(t) PROVE Connects'
    <2>1. PICK task \in TaskRec : Fresh(t, task)
        BY <1>1, BeginsFresh
    <2>2. UNCHANGED <<up, disk, live>>
        BY <1>1, BeginsFresh
    <2>3. /\ tasks'[t] = [task EXCEPT !.alone = QuietOn(task.iface)]
          /\ \A q \in Task \ {t} :
                tasks'[q] = IF On(q, task.iface) THEN [tasks[q] EXCEPT !.alone = FALSE] ELSE tasks[q]
        BY <2>1, <2>2, Begins DEF Fresh
    <2>4. Connecting(tasks[t])'
        <3>1. /\ tasks'[t].kind = task.kind /\ tasks'[t].pc = task.pc /\ tasks'[t].via = task.via
              /\ tasks'[t].iface = task.iface
            BY <2>3 DEF TaskRec
        <3>2. task.kind = "connect" /\ task.via # "profile" => task.pc = 1
            BY <2>1 DEF Fresh
        <3>3. Length("connect", task.iface) # 1
            BY Lengths
        <3> QED
            BY <3>1, <3>2, <3>3 DEF Connecting
    <2>5. ASSUME NEW q \in Task \ {t} PROVE Connecting(tasks[q])'
        <3>1. CASE On(q, task.iface)
            <4>1. tasks'[q] = [tasks[q] EXCEPT !.alone = FALSE] /\ tasks[q] \in TaskRec
                BY <2>3, <3>1 DEF TasksOK
            <4>2. ~tasks'[q].alone
                BY <4>1 DEF TaskRec
            <4> QED
                BY <4>2 DEF Connecting
        <3>2. CASE ~On(q, task.iface)
            <4>1. tasks'[q] = tasks[q]
                BY <2>3, <3>2
            <4> QED
                BY <2>2, <4>1 DEF Connects, Connecting, Length, Extra, disk, live
        <3> QED
            BY <3>1, <3>2
    <2> QED
        BY <2>4, <2>5 DEF Connects
<1>2. ASSUME NEW t \in Task, Saving(t) PROVE Connects'
    <2>1. Others(t) /\ tasks'[t].kind # "connect" /\ UNCHANGED <<client, runconf>>
        BY <1>2, SaveEffect DEF disk, live
    <2> QED
        BY <2>1, ConnectsKept DEF Others
<1>3. ASSUME NEW t \in Task, Breaking(t) PROVE Connects'
    <2>1. UNCHANGED <<client, runconf>> /\ Others(t)
        BY <1>3, BreaksEffect DEF live, Ended, Disturbed
    <2>2. tasks'[t].kind # "connect" \/ ~tasks'[t].alone
        BY <1>3, BreaksEffect DEF Ended, Disturbed, Idle
    <2> QED
        BY <2>1, <2>2, ConnectsKept DEF Others
<1>4. ASSUME NEW t \in Task, Stepping(t) PROVE Connects'
    <2>1. Working(t) /\ Others(t)
        BY <1>4, StepsStep, StepEffect DEF Ended, Advanced
    <2>2. ASSUME NEW q \in Task \ {t} PROVE Connecting(tasks[q])'
        <3>1. tasks'[q] = tasks[q] /\ tasks[q].iface \in Iface
            BY <2>1 DEF Others, TasksOK, TaskRec
        <3>2. CASE tasks[q].kind = "connect" /\ tasks[q].alone
            <4>1. tasks[t].iface # tasks[q].iface
                BY <2>1, <3>2 DEF Solitary, On, Active, Working
            <4>2. /\ client'[tasks[q].iface] = client[tasks[q].iface]
                  /\ runconf'[tasks[q].iface] = runconf[tasks[q].iface]
                BY <1>4, <3>1, <4>1, StepClients
            <4> QED
                BY <3>1, <4>2 DEF Connects, Connecting, Length, Extra
        <3>3. CASE ~(tasks[q].kind = "connect" /\ tasks[q].alone)
            BY <3>1, <3>3 DEF Connecting
        <3> QED
            BY <3>2, <3>3
    <2> QED
        BY <1>4, <2>2, OwnConnect DEF Connects
<1>5. ASSUME NEW t \in Task, IfAp(t) PROVE Connects'
    <2>1. UNCHANGED <<client, runconf>> /\ Others(t) /\ tasks'[t].kind # "connect"
        BY <1>5, IfApEffect DEF disk, live, Ended, Advanced, SameTask, Idle
    <2> QED
        BY <2>1, ConnectsKept DEF Others
<1>6. CASE SetProfile
    BY <1>6, ConnectsKept DEF SetProfile, live
<1>7. CASE Crash \/ Reboot
    <2>1. \A t \in Task : tasks'[t] = Idle
        BY <1>7, DownEffect DEF Crash, Reboot
    <2>2. \A t \in Task : tasks'[t].kind # "connect"
        BY <2>1 DEF Idle
    <2> QED
        BY <2>2 DEF Connects, Connecting
<1>8. CASE Sync
    BY <1>8, ConnectsKept DEF Sync, live
<1>9. CASE SyncFails
    BY <1>9, ConnectsKept DEF SyncFails, disk, live
<1>10. CASE UNCHANGED vars
    BY <1>10, ConnectsKept DEF vars, disk, live
<1> QED
    BY <1>1, <1>2, <1>3, <1>4, <1>5, <1>6, <1>7, <1>8, <1>9, <1>10, NextSplits

----------------------------------------------------------------------------
(* Theorems.                                                               *)

LEMMA IInvInit == Init => IInv
<1> SUFFICES ASSUME Init PROVE IInv
    OBVIOUS
<1>1. \A t \in Task : tasks[t] = Idle
    BY DEF Init
<1>2. \A t \in Task : tasks[t].kind = "idle"
    BY <1>1 DEF Idle
<1>3. VarsOK
    <2>1. files \in Files
        BY FactoryAssumption, FilesOfOK DEF Init
    <2>2. dnsmasq \in [range : Setting, map : Mapping]
        <3>1. dnsmasq = [range |-> Factory, map |-> files.map]
            BY DEF Init
        <3>2. files.map \in Mapping
            BY <2>1 DEF Files
        <3> QED
            BY <3>1, <3>2, FactoryAssumption
    <2>3. client \in [Iface -> Net \cup {Off}] /\ runconf \in [Iface -> Net \cup {Off}]
        BY DEF Init
    <2>4. ops \in 0..MaxOps
        BY MaxOpsAssumption DEF Init
    <2>5. /\ up \in BOOLEAN /\ muddled \in BOOLEAN /\ renamed \in BOOLEAN
          /\ ap \in Setting /\ saved \in Setting \cup {Off, Torn} /\ hostname \in Hostname
          /\ hostapd \in Setting \cup {Off} /\ address \in Setting \cup {Off, Leased}
          /\ profile \in Net \cup {Off} /\ want \in {"ap", "client"}
        BY FactoryAssumption DEF Init
    <2> QED
        BY <2>1, <2>2, <2>3, <2>4, <2>5 DEF VarsOK
<1>4. TasksOK
    BY <1>1, <1>2, IdleOK DEF Init, TasksOK, Active
<1>5. Solitary /\ AtWork /\ Connects
    BY <1>2 DEF Solitary, AtWork, Connects, On, Active, Starting, Connecting
<1>6. Factory # Off
    BY FactoryAssumption, NameAssumption
<1>7. Right
    <2>1. Written
        BY DEF Init, Written
    <2>2. Tuned /\ Leasing
        BY DEF Init, Tuned, Leasing
    <2>3. AsAsked
        BY <1>6 DEF Init, AsAsked, Iface
    <2> QED
        BY <2>1, <2>2, <2>3 DEF Right
<1> QED
    BY <1>3, <1>4, <1>5, <1>7 DEF IInv, Resting

\* What the requests on the built-in interface have done and what is right between them, and what
\* every connect that nothing disturbs has done, whatever overlaps, fails, is dropped or restarts.
THEOREM NetworkInvariance == Spec => []IInv
<1>1. IInv /\ [Next]_vars => IInv'
    BY TypeStep, SolitaryStep, SceneStep, ConnectsStep DEF IInv
<1> QED
    BY IInvInit, <1>1, PTL DEF Spec

\* Every variable keeps its type, and every request is at a step of its program.
THEOREM NetworkTypes == Spec => []TypeOK
<1>1. IInv => TypeOK
    BY TypesHold DEF IInv
<1> QED
    BY <1>1, NetworkInvariance, PTL

\* Between requests that nothing disturbed, and after a hotspot that nothing did, memory, files,
\* programs and address agree with each other and with the hostname.
THEOREM HotspotStaysAgreed == Spec => []HotspotAgrees
<1>1. IInv => HotspotAgrees
    BY DEF IInv, Resting, HotspotAgrees, Calm, Right, Written, Tuned, Leasing
<1> QED
    BY <1>1, NetworkInvariance, PTL

\* The built-in interface is the hotspot or a client, as was asked last, and not both.
THEOREM ModeStaysAsAsked == Spec => []ModeAsAsked
<1>1. IInv => ModeAsAsked
    BY DEF IInv, Resting, ModeAsAsked, Calm, Right, AsAsked
<1> QED
    BY <1>1, NetworkInvariance, PTL

\* No step ends a connect that nothing disturbed on another network than it was asked for.
LEMMA EndsConnected ==
    ASSUME IInv, [Next]_vars, NEW t \in Task, tasks[t].alone, tasks[t].via # "profile",
           Reached(t, "dhcp"), tasks'[t] = Idle, ops' = ops
    PROVE  client'[tasks[t].iface] = tasks[t].net
<1>1. /\ VarsOK /\ TasksOK /\ tasks[t].kind = "connect"
      /\ tasks[t].pc = 5 + Extra(tasks[t].iface) /\ Places(t)
    BY PlacesHold DEF IInv, Reached, Active, Places
<1>2. client[tasks[t].iface] = tasks[t].net
    BY <1>1 DEF IInv, Connects, Connecting, Length
<1>3. tasks[t] # Idle
    BY <1>1 DEF Idle
<1>4. ~Op
    BY DEF IInv, VarsOK, Op
<1>5. ASSUME NEW u \in Task, Beginning(u) PROVE FALSE
    BY <1>4, <1>5 DEF Beginning, BeginSetAp, BeginHotspot, BeginRename, BeginConnect, BeginProfile,
                      Begin
<1>6. ASSUME NEW u \in Task, Saving(u) PROVE client' = client
    BY <1>1, <1>6, SaveEffect DEF live
<1>7. ASSUME NEW u \in Task, Breaking(u) PROVE FALSE
    BY <1>1, <1>7, BreaksEffect
<1>8. ASSUME NEW u \in Task, Stepping(u) PROVE client' = client
    <2>1. Others(u)
        BY <1>1, <1>8, StepsStep, StepEffect DEF Ended, Advanced
    <2>2. u = t
        BY <1>3, <2>1 DEF Others
    <2>3. Extra(tasks[t].iface) \in {0, 2}
        BY DEF Extra
    <2>4. ~StopClient(t) /\ ~StartClient(t)
        BY <1>1, <2>3 DEF StopClient, StartClient, Places
    <2> QED
        BY <1>1, <1>8, <2>2, <2>4, StepClients
<1>9. ASSUME NEW u \in Task, IfAp(u) PROVE client' = client
    BY <1>1, <1>9, IfApEffect DEF live
<1>10. ~SetProfile /\ ~Crash /\ ~Reboot /\ ~SyncFails
    BY <1>4 DEF SetProfile, Crash, Reboot, SyncFails
<1>11. CASE Sync
    BY <1>2, <1>11 DEF Sync, live
<1>12. CASE UNCHANGED vars
    BY <1>2, <1>12 DEF vars, live
<1> QED
    BY <1>2, <1>5, <1>6, <1>7, <1>8, <1>9, <1>10, <1>11, <1>12, NextSplits

\* A connect that nothing disturbed on its interface ends on the network it was asked for, with any
\* number of dongles connecting at the same time.
THEOREM ConnectsAsAsked == Spec => ConnectedAsAsked
<1>1. IInv /\ [Next]_vars =>
          [\A t \in Task :
              tasks[t].alone /\ tasks[t].via # "profile" /\ Reached(t, "dhcp")
              /\ tasks'[t] = Idle /\ ops' = ops
              => client'[tasks[t].iface] = tasks[t].net]_vars
    BY EndsConnected
<1> QED
    BY <1>1, NetworkInvariance, PTL DEF Spec, ConnectedAsAsked

==============================================================================
