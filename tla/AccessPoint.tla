----------------------------- MODULE AccessPoint -----------------------------
(***************************************************************************)
(* Wi-Fi (src/src/net.rs and its handlers in web.rs): the built-in         *)
(* interface is the hotspot (hostapd and dnsmasq) or a client; a dongle    *)
(* can be a client beside it.                                              *)
(*                                                                         *)
(* A request is a program of commands, each awaited.  Nothing keeps two    *)
(* requests from running their commands in turns, a command may fail, the  *)
(* browser may hang up, which drops the request where it awaits but not    *)
(* the command that it awaits, and the daemon may stop.  The lock on the   *)
(* settings covers reading or saving them, not what follows.               *)
(***************************************************************************)
EXTENDS Integers, Sequences

CONSTANTS
    Setting,   \* the SSIDs, passphrases and addresses in use
    Factory,   \* ApConfig::default
    Hostname,  \* the names in use
    Net,       \* the networks to connect to
    Dongle,    \* the interfaces beside the built-in one
    Task,      \* the requests that can be at work at once
    Off,       \* not running, no such file, no address
    Torn,      \* what is left of a file that was not written to its end
    Leased,    \* an address of the network the interface is a client of
    MaxOps     \* bound: requests, faults and restarts in a run

ASSUME FactoryAssumption == Factory \in Setting
ASSUME MaxOpsAssumption == MaxOps \in Nat

Primary == "wlan0"
Iface   == {Primary} \cup Dongle
ASSUME NameAssumption == Primary \notin Dongle /\ {Off, Torn, Leased} \cap (Setting \cup Net) = {}

Mapping == [name : Hostname, ip : Setting]
Files   == [hostapd : Setting, dnsmasq : Setting, unit : Setting, map : Mapping]

\* The steps of each kind of request.
ApFiles == <<"files">>
Serve   == <<"flush", "address", "dnsmasq", "hostapd">>
Apply   == ApFiles \o <<"if_ap">> \o Serve
Hotspot == ApFiles \o <<"client_off">> \o Serve
Rename  == <<"name", "mapping", "dnsmasq_ok">>
Client  == <<"client_off", "flush", "client", "dhcp">>

\* Mutant: any interface that becomes a client takes the hotspot down.
ConnectAnyDown(i) == <<"conf", "hostapd_off", "dnsmasq_off">> \o Client
Connect(i) == IF i = Primary THEN <<"conf", "hostapd_off", "dnsmasq_off">> \o Client
                             ELSE <<"conf">> \o Client

Program(kind, i) ==
    CASE kind = "apply"   -> Apply
      [] kind = "hotspot" -> Hotspot
      [] kind = "rename"  -> Rename
      [] kind = "connect" -> Connect(i)

\* Steps whose failure ends the request; that of the others is logged.
Fatal == {"files", "if_ap", "dnsmasq", "hostapd", "name", "mapping", "conf", "client", "dhcp"}

\* Steps that are commands; the others the daemon does itself.
Command == {"client_off", "flush", "address", "dnsmasq", "hostapd", "hostapd_off", "dnsmasq_off",
            "client", "dhcp", "name", "dnsmasq_ok"}

VARIABLES
    up,        \* the daemon runs, and has written the files it writes at its start
    ap,        \* AppState.ap
    saved,     \* network.toml
    files,     \* the files that define the hotspot
    hostname,  \* of the box
    hostapd,   \* the settings hostapd runs with
    dnsmasq,   \* the settings and the mapping dnsmasq runs with
    address,   \* of the built-in interface
    client,    \* by interface: the network wpa_supplicant runs for
    runconf,   \* by interface: the wpa_supplicant configuration of the last connect
    profile,   \* the network a profile is saved for; one profile stands for all
    tasks,     \* the requests at work, and the commands that dropped requests have left
    renamed,   \* dnsmasq was restarted last because the hostname changed
    want,      \* what was asked last of the built-in interface: "ap" or "client"
    muddled,   \* a request on it overlapped another or what one had left, failed or was cut off,
               \* with no hotspot since
    ops        \* requests, faults and restarts so far

live == <<hostapd, dnsmasq, address, client, renamed>>
disk == <<files, hostname, runconf, profile>>
vars == <<up, ap, saved, disk, live, tasks, want, muddled, ops>>

Idle == [kind |-> "idle", pc |-> 0, iface |-> Primary, set |-> Factory,
         name |-> Off, net |-> Off, via |-> "params", alone |-> TRUE, left |-> FALSE]

Active(t)     == tasks[t].kind # "idle"
On(t, i)      == Active(t) /\ tasks[t].iface = i
QuietOn(i)    == \A t \in Task : ~On(t, i)
Steps(t)      == Program(tasks[t].kind, tasks[t].iface)
Reached(t, s) == Active(t) /\ tasks[t].kind # "save" /\ Steps(t)[tasks[t].pc] = s
Locked        == \E t \in Task : tasks[t].kind = "save"

TypeOK ==
    /\ up \in BOOLEAN /\ muddled \in BOOLEAN /\ renamed \in BOOLEAN
    /\ ap \in Setting /\ saved \in Setting \cup {Off, Torn}
    /\ files \in Files /\ hostname \in Hostname
    /\ hostapd \in Setting \cup {Off}
    /\ dnsmasq = Off \/ dnsmasq \in [range : Setting, map : Mapping]
    /\ address \in Setting \cup {Off, Leased}
    /\ client \in [Iface -> Net \cup {Off}] /\ runconf \in [Iface -> Net \cup {Off}]
    /\ profile \in Net \cup {Off}
    /\ want \in {"ap", "client"} /\ ops \in 0..MaxOps
    /\ \A t \in Task : tasks[t].kind \in {"idle", "save"} \/ tasks[t].pc \in 1..Len(Steps(t))

FilesOf(s) == [hostapd |-> s, dnsmasq |-> s, unit |-> s, map |-> [name |-> hostname, ip |-> s]]

\* The box has started as a hotspot.
Init ==
    /\ up = TRUE /\ ap = Factory /\ saved \in {Off, Factory}
    /\ hostname \in Hostname /\ files = FilesOf(Factory)
    /\ hostapd = Factory /\ address = Factory
    /\ dnsmasq = [range |-> Factory, map |-> files.map]
    /\ client = [i \in Iface |-> Off] /\ runconf = [i \in Iface |-> Off]
    /\ profile = Off /\ renamed = FALSE
    /\ tasks = [t \in Task |-> Idle]
    /\ want = "ap" /\ muddled = FALSE /\ ops = 0

Op == ops < MaxOps /\ ops' = ops + 1

----------------------------------------------------------------------------
(* Requests.                                                               *)

\* A request begins; it is alone until another begins on its interface, unless another, or the
\* command of a dropped one, is at work there already.
Begin(t, task) ==
    /\ up /\ ~Active(t) /\ Op
    /\ LET i      == task.iface
           single == QuietOn(i)
       IN  /\ tasks' = [q \in Task |->
                  IF q = t THEN [task EXCEPT !.alone = single]
                  ELSE IF On(q, i) THEN [tasks[q] EXCEPT !.alone = FALSE] ELSE tasks[q]]
           /\ muddled' = (muddled \/ (i = Primary /\ ~single))

\* set_ap: under the lock, the settings are saved and then replaced.
BeginSetAp(t) ==
    /\ ~Locked
    /\ \E s \in Setting : Begin(t, [Idle EXCEPT !.kind = "save", !.set = s])
    /\ UNCHANGED <<up, ap, saved, disk, live, want>>

BeginHotspot(t) ==
    /\ ~Locked
    /\ Begin(t, [Idle EXCEPT !.kind = "hotspot", !.pc = 1, !.set = ap])
    /\ UNCHANGED <<up, ap, saved, disk, live, want>>

\* set_hostname reads the address of the hotspot before it begins.
BeginRename(t) ==
    /\ ~Locked
    /\ \E n \in Hostname :
          Begin(t, [Idle EXCEPT !.kind = "rename", !.pc = 1, !.set = ap, !.name = n])
    /\ UNCHANGED <<up, ap, saved, disk, live, want>>

BeginConnect(t) ==
    /\ \E i \in Iface, n \in Net, via \in {"params", "save_as"} :
          Begin(t, [Idle EXCEPT !.kind = "connect", !.pc = 1, !.iface = i, !.net = n, !.via = via])
    /\ UNCHANGED <<up, ap, saved, disk, live, want>>

\* connect_profile: the profile must exist; there is no configuration to write.
BeginProfile(t) ==
    /\ profile # Off
    /\ \E i \in Iface :
          Begin(t, [Idle EXCEPT !.kind = "connect", !.pc = 2, !.iface = i, !.net = profile,
                                !.via = "profile"])
    /\ UNCHANGED <<up, ap, saved, disk, live, want>>

\* profile_add and profile_remove.
SetProfile ==
    /\ up /\ Op
    /\ profile' \in (Net \cup {Off}) \ {profile}
    /\ UNCHANGED <<up, ap, saved, files, hostname, runconf, live, tasks, want, muddled>>

----------------------------------------------------------------------------
(* The end of a request.                                                   *)

\* A hotspot that starts undisturbed puts everything right.
Done(t) ==
    LET k == tasks[t].kind
        p == tasks[t].alone /\ tasks[t].iface = Primary
    IN  /\ tasks' = [tasks EXCEPT ![t] = Idle]
        /\ muddled' = (muddled /\ ~(k = "hotspot" /\ p))
        /\ want' = IF k = "hotspot" /\ p THEN "ap" ELSE IF k = "connect" /\ p THEN "client" ELSE want

CutOff(t) ==
    /\ tasks' = [tasks EXCEPT ![t] = Idle]
    /\ muddled' = (muddled \/ tasks[t].iface = Primary)
    /\ UNCHANGED want

Last(t) == tasks[t].pc = Len(Steps(t))

\* Nothing follows the command of a dropped request.
Step(t) ==
    IF tasks[t].left THEN CutOff(t)
    ELSE IF Last(t) THEN Done(t)
    ELSE tasks' = [tasks EXCEPT ![t].pc = @ + 1] /\ UNCHANGED <<want, muddled>>

----------------------------------------------------------------------------
(* The steps.                                                              *)

\* fs::write empties the file first.
SaveOpen(t) ==
    /\ tasks[t].kind = "save" /\ tasks[t].pc = 0
    /\ saved' = Torn
    /\ tasks' = [tasks EXCEPT ![t].pc = 1]
    /\ UNCHANGED <<up, ap, disk, live, want, muddled, ops>>

Save(t) ==
    /\ tasks[t].kind = "save" /\ tasks[t].pc = 1
    /\ saved' = tasks[t].set /\ ap' = tasks[t].set
    /\ tasks' = [tasks EXCEPT ![t].kind = "apply"]
    /\ UNCHANGED <<up, disk, live, want, muddled, ops>>

SaveFails(t) ==
    /\ tasks[t].kind = "save" /\ Op
    /\ CutOff(t)
    /\ UNCHANGED <<up, ap, saved, disk, live>>

\* write_ap_files writes the four files with no await between them.
WriteFiles(t) ==
    /\ Reached(t, "files") /\ Step(t)
    /\ files' = FilesOf(tasks[t].set)
    /\ UNCHANGED <<up, ap, saved, hostname, runconf, profile, live, ops>>

\* A file that cannot be written leaves those after it as they were.
WriteFilesPartly(t) ==
    /\ Reached(t, "files") /\ Op /\ CutOff(t)
    /\ LET f == FilesOf(tasks[t].set)
       IN  files' \in {files, [files EXCEPT !.hostapd = f.hostapd],
                       [files EXCEPT !.hostapd = f.hostapd, !.dnsmasq = f.dnsmasq],
                       [f EXCEPT !.unit = files.unit]}
    /\ UNCHANGED <<up, ap, saved, hostname, runconf, profile, live>>

\* apply_ap goes on only if the interface serves the hotspot.
IfAp(t) ==
    /\ Reached(t, "if_ap")
    /\ IF hostapd # Off THEN Step(t) ELSE Done(t)
    /\ UNCHANGED <<up, ap, saved, disk, live, ops>>

SetAddress(t) ==
    /\ \/ Reached(t, "address") /\ address' = tasks[t].set
       \/ Reached(t, "flush")   /\ address' = IF tasks[t].iface = Primary THEN Off ELSE address
       \/ Reached(t, "dhcp")    /\ address' = IF tasks[t].iface = Primary THEN Leased ELSE address
    /\ Step(t)
    /\ UNCHANGED <<up, ap, saved, disk, hostapd, dnsmasq, client, renamed, ops>>

\* systemctl restart also starts what is stopped.
RestartDnsmasq(t) ==
    /\ Reached(t, "dnsmasq") \/ Reached(t, "dnsmasq_ok")
    /\ dnsmasq' = [range |-> files.dnsmasq, map |-> files.map]
    /\ renamed' = Reached(t, "dnsmasq_ok")
    /\ Step(t)
    /\ UNCHANGED <<up, ap, saved, disk, hostapd, address, client, ops>>

StopDnsmasq(t) ==
    /\ Reached(t, "dnsmasq_off") /\ dnsmasq' = Off /\ renamed' = FALSE /\ Step(t)
    /\ UNCHANGED <<up, ap, saved, disk, hostapd, address, client, ops>>

RestartHostapd(t) ==
    /\ \/ Reached(t, "hostapd")     /\ hostapd' = files.hostapd
       \/ Reached(t, "hostapd_off") /\ hostapd' = Off
    /\ Step(t)
    /\ UNCHANGED <<up, ap, saved, disk, dnsmasq, address, client, renamed, ops>>

\* Mutant: only the client this daemon connected by its parameters is stopped.
StopClientOwn(t) ==
    /\ Reached(t, "client_off")
    /\ client' = IF client[tasks[t].iface] = runconf[tasks[t].iface]
                   THEN [client EXCEPT ![tasks[t].iface] = Off] ELSE client
    /\ Step(t)
    /\ UNCHANGED <<up, ap, saved, disk, hostapd, dnsmasq, address, renamed, ops>>

StopClient(t) ==
    /\ Reached(t, "client_off")
    /\ client' = [client EXCEPT ![tasks[t].iface] = Off]
    /\ Step(t)
    /\ UNCHANGED <<up, ap, saved, disk, hostapd, dnsmasq, address, renamed, ops>>

\* Mutant: all the interfaces share one configuration.
ConfOfAll(i) == Primary
\* The configuration of an interface.
ConfOf(i) == i

WriteConf(t) ==
    /\ Reached(t, "conf") /\ Step(t)
    /\ runconf' = [runconf EXCEPT ![ConfOf(tasks[t].iface)] = tasks[t].net]
    /\ profile' = IF tasks[t].via = "save_as" THEN tasks[t].net ELSE profile
    /\ UNCHANGED <<up, ap, saved, files, hostname, live, ops>>

\* wpa_supplicant reads the configuration as it is by now.
StartClient(t) ==
    LET i == tasks[t].iface
        n == IF tasks[t].via = "profile" THEN profile ELSE runconf[ConfOf(i)]
    IN  /\ Reached(t, "client") /\ n # Off /\ Step(t)
        /\ client' = [client EXCEPT ![i] = n]
        /\ UNCHANGED <<up, ap, saved, disk, hostapd, dnsmasq, address, renamed, ops>>

SetName(t) ==
    /\ Reached(t, "name") /\ hostname' = tasks[t].name /\ Step(t)
    /\ UNCHANGED <<up, ap, saved, files, runconf, profile, live, ops>>

WriteMapping(t) ==
    /\ Reached(t, "mapping") /\ Step(t)
    /\ files' = [files EXCEPT !.map = [name |-> tasks[t].name, ip |-> tasks[t].set]]
    /\ UNCHANGED <<up, ap, saved, hostname, runconf, profile, live, ops>>

\* A command fails: the request ends with the error, or goes on as if nothing had happened.
Fails(t) ==
    /\ Active(t) /\ tasks[t].kind # "save" /\ Op
    /\ IF tasks[t].left \/ Last(t) \/ Steps(t)[tasks[t].pc] \in Fatal
         THEN CutOff(t)
         ELSE /\ tasks' = [tasks EXCEPT ![t].pc = @ + 1, ![t].alone = FALSE]
              /\ muddled' = (muddled \/ tasks[t].iface = Primary)
              /\ UNCHANGED want
    /\ UNCHANGED <<up, ap, saved, disk, live>>

\* The browser hangs up: the request is dropped where it awaits. sh sets no kill_on_drop, so a
\* command that has begun goes on and takes effect later, unless it fails. No await comes before
\* the files are written.
Drop(t) ==
    /\ Active(t) /\ tasks[t].kind # "save" /\ ~tasks[t].left /\ ~Reached(t, "files") /\ Op
    /\ \/ CutOff(t)
       \/ /\ Steps(t)[tasks[t].pc] \in Command
          /\ tasks' = [tasks EXCEPT ![t].left = TRUE, ![t].alone = FALSE]
          /\ muddled' = (muddled \/ tasks[t].iface = Primary)
          /\ UNCHANGED want
    /\ UNCHANGED <<up, ap, saved, disk, live>>

Work(t) ==
    \/ SaveOpen(t) \/ Save(t) \/ SaveFails(t)
    \/ WriteFiles(t) \/ WriteFilesPartly(t) \/ IfAp(t) \/ SetAddress(t)
    \/ RestartDnsmasq(t) \/ StopDnsmasq(t) \/ RestartHostapd(t)
    \/ StopClient(t) \/ WriteConf(t) \/ StartClient(t)
    \/ SetName(t) \/ WriteMapping(t)
    \/ Fails(t) \/ Drop(t)

----------------------------------------------------------------------------
(* Restarts.                                                               *)

\* Mutant: only a file that is missing is made up for by the defaults.
LoadedTorn == IF saved = Off THEN Factory ELSE saved
\* ApConfig::load
Loaded == IF saved \in Setting THEN saved ELSE Factory

\* Every request ends, and muddles what it was at; so do settings that are not what the daemon had.
Down ==
    /\ up' = FALSE
    /\ ap' = Loaded
    /\ tasks' = [t \in Task |-> Idle]
    /\ client' = [i \in Iface |-> Off]

\* The daemon ends and systemd starts it again. systemd first ends what else runs in the unit:
\* every wpa_supplicant the daemon has started.
Crash ==
    /\ Op /\ Down
    /\ muddled' = (muddled \/ ~QuietOn(Primary) \/ Loaded # ap \/ client[Primary] # Off)
    /\ UNCHANGED <<saved, disk, hostapd, dnsmasq, address, renamed, want>>

\* The box starts from its files, before the daemon; /run is empty.
Reboot ==
    /\ Op /\ Down
    /\ hostapd' = files.hostapd /\ address' = files.unit
    /\ dnsmasq' = [range |-> files.dnsmasq, map |-> files.map]
    /\ want' = "ap" /\ renamed' = FALSE
    /\ runconf' = [i \in Iface |-> Off]
    /\ muddled' = (muddled \/ ~QuietOn(Primary) \/ Loaded # ap)
    /\ UNCHANGED <<saved, files, hostname, profile>>

\* sync_ap_config: it restarts nothing.
Sync ==
    /\ ~up /\ up' = TRUE
    /\ files' = FilesOf(ap)
    /\ UNCHANGED <<ap, saved, hostname, runconf, profile, live, tasks, want, muddled, ops>>

SyncFails ==
    /\ ~up /\ up' = TRUE /\ Op
    /\ muddled' = TRUE
    /\ UNCHANGED <<ap, saved, disk, live, tasks, want>>

Next ==
    \/ \E t \in Task : \/ BeginSetAp(t) \/ BeginHotspot(t) \/ BeginRename(t)
                       \/ BeginConnect(t) \/ BeginProfile(t) \/ Work(t)
    \/ SetProfile \/ Crash \/ Reboot \/ Sync \/ SyncFails

Spec == Init /\ [][Next]_vars

----------------------------------------------------------------------------
(* Properties.                                                             *)

Calm == up /\ QuietOn(Primary) /\ ~muddled

\* "Saved so that a reboot brings the hotspot up with the configured settings" (net.rs:343-345):
\* memory, every file and, where the hotspot is on, every program and the address agree with each
\* other and with the hostname. Requests that overlap, fail or are dropped may leave them apart, and
\* a command that goes on after its request may set them apart again, until the hotspot is started
\* once undisturbed, with no such command left.
HotspotAgrees ==
    Calm => /\ files = FilesOf(ap)
            /\ want = "ap" => /\ hostapd = ap /\ address = ap
                              /\ dnsmasq = [range |-> ap, map |-> files.map]

\* The built-in interface is what was asked of it last, the hotspot or a client, and not both
\* (net.rs:5-7), whatever dongles do meanwhile and after any failure that was put right; dnsmasq
\* runs for the hotspot only, but for the one that a change of the hostname starts (net.rs:731).
ModeAsAsked ==
    Calm => IF want = "ap" THEN hostapd # Off /\ client[Primary] = Off
                           ELSE /\ hostapd = Off /\ client[Primary] # Off
                                /\ dnsmasq = Off \/ renamed

\* A connect that nothing disturbed on its interface ends with that interface on the network it
\* was asked for, whatever the other interfaces connect to at the same time.
ConnectedAsAsked ==
    [][\A t \in Task :
          tasks[t].alone /\ tasks[t].via # "profile" /\ Reached(t, "dhcp")
          /\ tasks'[t] = Idle /\ ops' = ops
          => client'[tasks[t].iface] = tasks[t].net]_vars

=============================================================================
