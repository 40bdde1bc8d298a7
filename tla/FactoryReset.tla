---------------------------- MODULE FactoryReset ----------------------------
(***************************************************************************)
(* The factory reset (net::factory_reset and its callers): from the        *)
(* dashboard, by the button and from a shell, while the daemon goes on     *)
(* working, with the account and the sessions of module Sessions.          *)
(*                                                                         *)
(* A reset removes what is saved and leaves what the daemon holds in       *)
(* memory: only the restart that follows makes the box forget it.  Every   *)
(* part is either as from the factory or the user's own.                   *)
(***************************************************************************)
EXTENDS Sessions, Sequences

CONSTANTS By,     \* who may reset the box
          MaxOps  \* bound: requests, faults and resets in a run

ASSUME ByAssumption == By \subseteq {"web", "button", "cli"}
ASSUME MaxOpsAssumption == MaxOps \in Nat

\* What outlives the daemon, the account aside: two files in /var/lib/camera-box, the saved Wi-Fi
\* networks, the hostname, its line in /etc/hosts, the hostapd, dnsmasq and unit files, and the
\* name that dnsmasq serves.
Part == {"state", "network", "profiles", "hostname", "hosts", "apfiles", "mapping"}

VARIABLES
    custom,     \* the parts on disk that are the user's own
    memory,     \* the parts in the daemon's memory that are
    hotspot,    \* the hotspot runs with the user's settings
    resets,     \* by who: the step a reset is at, 0 if there is none
    clean,      \* the resets that nothing has undone or failed so far
    booted,     \* the box has rebooted after such a reset, and nothing was changed since
    synced,     \* the daemon that runs has written the AP files
    applying,   \* set_ap has saved the settings and not yet written the AP files
    naming,     \* set_hostname has changed the name and not yet written it down
    ops         \* requests, faults and resets so far

bvars == <<custom, memory, hotspot, resets, clean, booted, synced, applying, naming, ops>>
vars  == <<svars, bvars>>

\* Mutant: the AP files are left to the next start of the daemon.
StepUnsynced == <<"state", "network", "auth", "profiles", "hostname", "hosts", "mapping", "reboot">>
\* The steps of a reset, in order.
Step == <<"state", "network", "auth", "profiles", "hostname", "hosts", "apfiles", "mapping", "reboot">>

TypeOK ==
    /\ SessionsTypeOK
    /\ custom \subseteq Part /\ memory \subseteq {"state", "network"}
    /\ resets \in [By -> 0..Len(Step)] /\ clean \subseteq By
    /\ hotspot \in BOOLEAN /\ booted \in BOOLEAN
    /\ synced \in BOOLEAN /\ applying \in BOOLEAN /\ naming \in BOOLEAN
    /\ ops \in 0..MaxOps

Init ==
    /\ SessionsInit /\ creds # Default
    /\ custom = Part /\ memory = {"state", "network"} /\ hotspot = TRUE
    /\ resets = [b \in By |-> 0] /\ clean = {} /\ booted = FALSE
    /\ synced = TRUE /\ applying = FALSE /\ naming = FALSE
    /\ ops = 0

Op     == ops < MaxOps /\ ops' = ops + 1
\* The user, or the daemon from its memory, makes something the user's own again.
Undone == clean' = {} /\ booted' = FALSE
Kept   == UNCHANGED <<clean, booted>>

Reached(b, s) == resets[b] > 0 /\ Step[resets[b]] = s
Advance(b)       == resets' = [resets EXCEPT ![b] = @ + 1]

----------------------------------------------------------------------------
(* What users and the daemon go on doing.                                  *)

\* A request about the account; only the first step of one counts.
AccountRequest ==
    /\ AuthStep
    /\ IF reqs' # reqs /\ \E r \in Request : At(r, "idle") /\ reqs'[r].pc # "idle"
         THEN Op ELSE ops' = ops
    /\ IF authfile' # authfile \/ creds' # creds THEN Undone ELSE Kept
    /\ UNCHANGED <<custom, memory, hotspot, resets, synced, applying, naming>>

\* A camera's name, settings or switch: in memory first.
SetCamera ==
    /\ up /\ synced /\ Op /\ Undone
    /\ memory' = memory \cup {"state"}
    /\ UNCHANGED <<svars, custom, hotspot, resets, synced, applying, naming>>

\* persist_snapshot, after a change or a hot-plug event: the whole table, from memory.
SaveCameras ==
    /\ up /\ synced
    /\ IF "state" \in memory
         THEN Op /\ Undone /\ custom' = custom \cup {"state"}
         ELSE ops' = ops /\ Kept /\ custom' = custom \ {"state"}
    /\ UNCHANGED <<svars, memory, hotspot, resets, synced, applying, naming>>

SetAp ==
    /\ up /\ synced /\ ~applying /\ Op /\ Undone
    /\ custom' = custom \cup {"network"}
    /\ memory' = memory \cup {"network"}
    /\ applying' = TRUE
    /\ UNCHANGED <<svars, hotspot, resets, synced, naming>>

ApplyAp ==
    /\ applying /\ applying' = FALSE /\ Undone
    /\ custom' = custom \cup {"apfiles", "mapping"}
    /\ hotspot' = TRUE
    /\ UNCHANGED <<svars, memory, resets, synced, naming, ops>>

SetHostname ==
    /\ up /\ synced /\ ~naming /\ Op /\ Undone
    /\ custom' = custom \cup {"hostname"}
    /\ naming' = TRUE
    /\ UNCHANGED <<svars, memory, hotspot, resets, synced, applying>>

WriteHostname ==
    /\ naming /\ naming' = FALSE /\ Undone
    /\ custom' = custom \cup {"hosts", "mapping"}
    /\ UNCHANGED <<svars, memory, hotspot, resets, synced, applying, ops>>

AddProfile ==
    /\ up /\ synced /\ Op /\ Undone
    /\ custom' = custom \cup {"profiles"}
    /\ UNCHANGED <<svars, memory, hotspot, resets, synced, applying, naming>>

----------------------------------------------------------------------------
(* The reset.                                                              *)

\* The dashboard's needs a session, the button's a daemon that runs.
BeginReset(b) ==
    /\ resets[b] = 0 /\ Op
    /\ (b # "cli") => up /\ synced
    /\ (b = "web") => Live # {}
    /\ resets' = [resets EXCEPT ![b] = 1]
    /\ clean' = clean \cup {b}
    /\ UNCHANGED <<svars, custom, memory, hotspot, booted, synced, applying, naming>>

Wipe(b, p) ==
    /\ Reached(b, p) /\ Advance(b) /\ Kept
    /\ custom' = custom \ {p}
    /\ UNCHANGED <<svars, memory, hotspot, synced, applying, naming, ops>>

WipeAuth(b) ==
    /\ Reached(b, "auth") /\ Advance(b) /\ Kept
    /\ AuthWipe
    /\ UNCHANGED <<custom, memory, hotspot, synced, applying, naming, ops>>

\* write_ap_files: the mapping gives the name the box has now to the address of the settings.
WriteApFiles(own) ==
    LET name == IF own \/ "hostname" \in custom THEN {"mapping"} ELSE {}
    IN  custom' = (custom \ {"apfiles", "mapping"}) \cup name \cup (IF own THEN {"apfiles"} ELSE {})

WipeApFiles(b) ==
    /\ Reached(b, "apfiles") /\ Advance(b) /\ Kept
    /\ WriteApFiles(FALSE)
    /\ UNCHANGED <<svars, memory, hotspot, synced, applying, naming, ops>>

\* Any step may fail; the reset goes on without a word.
StepFails(b) ==
    /\ resets[b] \in 1..Len(Step) - 1 /\ Op /\ Advance(b)
    /\ clean' = clean \ {b}
    /\ UNCHANGED <<svars, custom, memory, hotspot, booted, synced, applying, naming>>

\* The browser hangs up: the handler is dropped where it awaits hostnamectl or the reload of
\* systemd, and no reboot follows. The command that runs ends by itself.
Abandon ==
    /\ "web" \in By /\ Op
    /\ Reached("web", "hostname") \/ Reached("web", "mapping")
    /\ resets' = [resets EXCEPT !["web"] = 0]
    /\ clean' = clean \ {"web"}
    /\ custom' \in {custom, IF Reached("web", "hostname") THEN custom \ {"hostname"} ELSE custom}
    /\ UNCHANGED <<svars, memory, hotspot, booted, synced, applying, naming>>

\* The reset is over and the box goes on: the button is not watched any more.
RebootFails(b) ==
    /\ Reached(b, "reboot") /\ Op
    /\ resets' = [resets EXCEPT ![b] = 0]
    /\ clean' = clean \ {b}
    /\ UNCHANGED <<svars, custom, memory, hotspot, booted, synced, applying, naming>>

Reset(b) ==
    \/ \E p \in Part \ {"apfiles"} : Wipe(b, p)
    \/ WipeAuth(b) \/ WipeApFiles(b) \/ StepFails(b) \/ RebootFails(b)

----------------------------------------------------------------------------
(* Restarts.                                                               *)

Down == /\ AuthStop \/ (~up /\ UNCHANGED svars)
        /\ synced' = FALSE /\ applying' = FALSE /\ naming' = FALSE
        /\ UNCHANGED <<custom, memory>>

\* systemd starts hostapd from its files, and then the daemon.
Reboot(b) ==
    /\ Reached(b, "reboot") /\ Down
    /\ hotspot' = ("apfiles" \in custom)
    /\ resets' = [c \in By |-> 0] /\ clean' = {}
    /\ booted' = \E c \in clean : Reached(c, "reboot")
    /\ UNCHANGED ops

\* The daemon ends, and with it the resets it had begun.
Crash ==
    /\ up /\ Op /\ Down
    /\ resets' = [b \in By |-> IF b = "cli" THEN resets[b] ELSE 0]
    /\ clean' = clean \cap {"cli"}
    /\ UNCHANGED <<hotspot, booted>>

Load ==
    /\ AuthLoad
    /\ memory' = custom \cap {"state", "network"}
    /\ Kept
    /\ UNCHANGED <<custom, hotspot, resets, synced, applying, naming, ops>>

\* sync_ap_config: it writes what it loaded, over what a reset may have written meanwhile.
Sync ==
    /\ up /\ ~synced /\ synced' = TRUE
    /\ WriteApFiles("network" \in memory)
    /\ IF custom' \subseteq custom THEN Kept ELSE Undone
    /\ UNCHANGED <<svars, memory, hotspot, resets, applying, naming, ops>>

Next ==
    \/ AccountRequest \/ SetCamera \/ SaveCameras \/ SetAp \/ ApplyAp \/ SetHostname \/ WriteHostname
    \/ AddProfile \/ Abandon \/ Crash \/ Load \/ Sync
    \/ \E b \in By : BeginReset(b) \/ Reset(b) \/ Reboot(b)

Spec == Init /\ [][Next]_vars

----------------------------------------------------------------------------
(* Property.                                                               *)

\* "Wipes all saved application state and reverts to defaults" (net.rs:749-752): once the box has
\* rebooted after a reset of which no step failed and nothing was saved during it, nothing of the
\* user's is left, on disk, in memory, in the account or on the air, even if the daemon stopped
\* and restarted meanwhile or two resets ran at once.
ResetIsTotal ==
    booted /\ up => custom = {} /\ memory = {} /\ ~hotspot /\ creds = Default

=============================================================================
