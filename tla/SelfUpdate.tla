----------------------------- MODULE SelfUpdate -----------------------------
(***************************************************************************)
(* The self-update (src/src/update.rs): ask for the latest release,        *)
(* download the binary and its checksums, verify, run it once, keep a      *)
(* backup, rename the new binary over the installed one, and restart.      *)
(*                                                                         *)
(* A task runs apply_update for one request.  Its client may go away while *)
(* it waits for a command (Abandon), but the curl it started goes on       *)
(* (orphans); the daemon may be stopped between any two steps.             *)
(*                                                                         *)
(* The install asks current_exe once what to replace (Locate).  Once an    *)
(* update is installed, current_exe of the old process no longer names the *)
(* installed binary, so that an install which asks then goes astray; one   *)
(* that asked before replaces whatever is installed by then.               *)
(*                                                                         *)
(* A version is a number, ordered as version_gt orders tags.               *)
(***************************************************************************)
EXTENDS Integers, FiniteSets

CONSTANTS
    Task,       \* the requests that can be at work at once
    Version,    \* the released versions
    MaxUpdates  \* requests in a behavior

ASSUME VersionAssumption == Version \subseteq Nat \ {0} /\ Version # {}
ASSUME MaxUpdatesAssumption == MaxUpdates \in Nat

\* A binary on disk: whose it is, and whether every byte of it is there.
File   == [ver : Version \cup {0}, whole : BOOLEAN]
NoFile == [ver |-> 0, whole |-> FALSE]
Whole(v)  == [ver |-> v, whole |-> TRUE]
Partly(v) == [ver |-> v, whole |-> FALSE]

Phase == {"idle", "query", "connect", "fetch", "sums", "verify", "check",
          "locate", "backup", "saving", "stage", "staging", "rename", "answer"}

Curl == [tag : Version, open : BOOLEAN]

VARIABLES
    target,   \* the installed binary
    bak,      \* camera-box.bak beside it
    staged,   \* .camera-box.new beside it
    bin,      \* camera-box.update in the temporary directory
    sums,     \* the version camera-box.SHA256SUMS is of, or 0
    running,  \* the version of the process, 0 when it cannot start
    replaced, \* the file the process was started from has been renamed over
    due,      \* a restart is scheduled
    release,  \* the latest release
    tasks,    \* where each request is, the version it installs, whether the path it
              \* replaces is not the installed binary's, and the file it backs up
    orphans,  \* the curls that download the binary for abandoned requests
    raced,    \* an update ever began while another was at work
    mishap,   \* the restart or the backup of this process failed
    updates   \* requests so far

files   == <<target, bak, staged, bin, sums>>
process == <<running, replaced, due>>
aside   == <<release, raced, updates>>
vars    == <<files, process, aside, tasks, orphans, mishap>>

TypeOK ==
    /\ target \in [ver : Version, whole : BOOLEAN]
    /\ bak \in File /\ staged \in File /\ bin \in File
    /\ sums \in Version \cup {0}
    /\ running \in Version \cup {0}
    /\ replaced \in BOOLEAN /\ due \in BOOLEAN /\ raced \in BOOLEAN
    /\ mishap \subseteq {"restart", "backup"}
    /\ release \in Version
    /\ tasks \in [Task -> [pc : Phase, tag : Version \cup {0}, astray : BOOLEAN, old : File]]
    /\ orphans \subseteq Curl
    /\ updates \in 0..MaxUpdates

Idle == [pc |-> "idle", tag |-> 0, astray |-> FALSE, old |-> NoFile]

Init ==
    /\ target \in {Whole(v) : v \in Version} /\ running = target.ver
    /\ bak = NoFile /\ staged = NoFile /\ bin = NoFile /\ sums = 0
    /\ replaced = FALSE /\ due = FALSE
    /\ release \in Version
    /\ tasks = [t \in Task |-> Idle]
    /\ orphans = {} /\ raced = FALSE /\ mishap = {} /\ updates = 0

At(t, pc) == tasks[t].pc = pc
Go(t, pc) == tasks' = [tasks EXCEPT ![t].pc = pc]
End(t)    == tasks' = [tasks EXCEPT ![t] = Idle]

----------------------------------------------------------------------------
(* run_update, up to the verified download.                                *)

Begin(t) ==
    /\ At(t, "idle") /\ running # 0 /\ updates < MaxUpdates
    /\ Go(t, "query")
    /\ updates' = updates + 1
    /\ raced' = (raced \/ orphans # {} \/ \E u \in Task : ~At(u, "idle"))
    /\ UNCHANGED <<files, process, release, orphans, mishap>>

\* The command failed, or what it brought is refused: an error, and nothing is undone.
Fail(t) ==
    /\ tasks[t].pc \in {"query", "connect", "fetch", "sums", "verify", "check",
                        "locate", "stage", "staging", "rename"}
    /\ End(t)
    /\ UNCHANGED <<files, process, aside, orphans, mishap>>

\* Mutant: whatever the latest release is.
Different(t) == release # running

Newer(t) == release > running

\* Only a newer release than the running process is downloaded.
LatestTag(t) ==
    /\ At(t, "query") /\ Newer(t)
    /\ tasks' = [tasks EXCEPT ![t].pc = "connect", ![t].tag = release]
    /\ UNCHANGED <<files, process, aside, orphans, mishap>>

\* curl creates or truncates the file when the first bytes arrive.
OpenBin(t) ==
    /\ At(t, "connect")
    /\ Go(t, "fetch")
    /\ bin' = Partly(tasks[t].tag)
    /\ UNCHANGED <<target, bak, staged, sums, process, aside, orphans, mishap>>

OpenBinOrphan(c) ==
    /\ ~c.open
    /\ orphans' = (orphans \ {c}) \cup {[c EXCEPT !.open = TRUE]}
    /\ bin' = Partly(c.tag)
    /\ UNCHANGED <<target, bak, staged, sums, process, aside, tasks, mishap>>

Writers == {t \in Task : At(t, "fetch")}
OpenOrphans == {c \in orphans : c.open}

\* What a finished transfer leaves: all of the release, or something else.
FetchBin(t) ==
    /\ At(t, "fetch")
    /\ Go(t, "sums")
    /\ \E w \in BOOLEAN :
          /\ w => Writers = {t} /\ OpenOrphans = {}
          /\ bin' = [ver |-> tasks[t].tag, whole |-> w]
    /\ UNCHANGED <<target, bak, staged, sums, process, aside, orphans, mishap>>

FetchBinOrphan(c) ==
    /\ c.open
    /\ orphans' = orphans \ {c}
    /\ \E w \in BOOLEAN :
          /\ w => Writers = {} /\ OpenOrphans = {c}
          /\ bin' = [ver |-> c.tag, whole |-> w]
    /\ UNCHANGED <<target, bak, staged, sums, process, aside, tasks, mishap>>

FetchSums(t) ==
    /\ At(t, "sums")
    /\ Go(t, "verify")
    /\ sums' = tasks[t].tag
    /\ UNCHANGED <<target, bak, staged, bin, process, aside, orphans, mishap>>

\* Mutant: the download is taken as curl left it.
VerifyNothing(t) ==
    /\ At(t, "verify")
    /\ Go(t, "check")
    /\ UNCHANGED <<files, process, aside, orphans, mishap>>

\* verify_sha256: the whole of what is on disk now, against the sums that are on disk now.
VerifySha256(t) ==
    /\ At(t, "verify") /\ bin = Whole(sums)
    /\ Go(t, "check")
    /\ UNCHANGED <<files, process, aside, orphans, mishap>>

\* The kernel does not execute a file that is open for writing.  A damaged binary may well
\* print its version.
SelfCheck(t) ==
    /\ At(t, "check") /\ bin # NoFile /\ Writers = {} /\ OpenOrphans = {}
    /\ Go(t, "locate")
    /\ UNCHANGED <<files, process, aside, orphans, mishap>>

----------------------------------------------------------------------------
(* install_atomic: the copies take time, the rename does not.              *)

\* current_exe no longer names the installed binary once the process's own was renamed over.
Locate(t) ==
    /\ At(t, "locate")
    /\ tasks' = [tasks EXCEPT ![t].pc = "backup", ![t].astray = replaced]
    /\ UNCHANGED <<files, process, aside, orphans, mishap>>

Save(t) == tasks' = [tasks EXCEPT ![t].pc = "saving", ![t].old = target]

\* Mutant: a backup that is there is kept.
BackupOnce(t) ==
    /\ At(t, "backup")
    /\ IF tasks[t].astray \/ bak # NoFile
         THEN Go(t, "stage") /\ UNCHANGED bak
         ELSE Save(t) /\ bak' = Partly(target.ver)
    /\ UNCHANGED <<target, staged, bin, sums, process, aside, orphans, mishap>>

\* Mutant: the installed binary is moved aside instead of copied.
BackupMoves(t) ==
    /\ At(t, "backup")
    /\ Go(t, "stage")
    /\ IF tasks[t].astray THEN UNCHANGED <<bak, target>>
                          ELSE bak' = target /\ target' = NoFile
    /\ UNCHANGED <<staged, bin, sums, process, aside, orphans, mishap>>

\* The copy of the installed binary is begun; astray there is nothing to copy.
Backup(t) ==
    /\ At(t, "backup")
    /\ IF tasks[t].astray THEN Go(t, "stage") /\ UNCHANGED bak
                          ELSE Save(t) /\ bak' = Partly(target.ver)
    /\ UNCHANGED <<target, staged, bin, sums, process, aside, orphans, mishap>>

\* What was opened is copied, also when it was renamed over meanwhile.
BackupDone(t) ==
    /\ At(t, "saving")
    /\ tasks' = [tasks EXCEPT ![t].pc = "stage", ![t].old = NoFile]
    /\ bak' = tasks[t].old
    /\ UNCHANGED <<target, staged, bin, sums, process, aside, orphans, mishap>>

\* Best effort: the update goes on without a backup.
BackupFails(t) ==
    /\ tasks[t].pc \in {"backup", "saving"}
    /\ tasks' = [tasks EXCEPT ![t].pc = "stage", ![t].old = NoFile]
    /\ mishap' = mishap \cup {"backup"}
    /\ UNCHANGED <<files, process, aside, orphans>>

Stage(t) ==
    /\ At(t, "stage") /\ bin # NoFile
    /\ Go(t, "staging")
    /\ staged' = Partly(bin.ver)
    /\ UNCHANGED <<target, bak, bin, sums, process, aside, orphans, mishap>>

\* Another install may have renamed the staged file away: its permissions cannot be set (Fail).
StageDone(t) ==
    /\ At(t, "staging") /\ bin # NoFile /\ staged # NoFile
    /\ Go(t, "rename")
    /\ staged' = bin
    /\ UNCHANGED <<target, bak, bin, sums, process, aside, orphans, mishap>>

\* Over whatever is installed now, or astray to a name that nothing starts.
Rename(t) ==
    /\ At(t, "rename") /\ staged # NoFile
    /\ Go(t, "answer")
    /\ staged' = NoFile
    /\ target' = IF tasks[t].astray THEN target ELSE staged
    /\ replaced' = TRUE
    /\ UNCHANGED <<bak, bin, sums, running, due, aside, orphans, mishap>>

\* Mutant: the handler waits before it restarts, and may be dropped there.
AnswerThenRestart(t) ==
    /\ At(t, "answer")
    /\ End(t)
    /\ bin' = NoFile
    /\ due' \in {due, TRUE}
    /\ UNCHANGED <<target, bak, staged, sums, running, replaced, aside, orphans, mishap>>

\* The download is removed, and the restart is spawned as a task of its own, with no await
\* since the rename at which the request could have been dropped.
Answer(t) ==
    /\ At(t, "answer")
    /\ End(t)
    /\ bin' = NoFile
    /\ due' = TRUE
    /\ UNCHANGED <<target, bak, staged, sums, running, replaced, aside, orphans, mishap>>

----------------------------------------------------------------------------
(* The environment.                                                        *)

\* The client goes away while the handler waits for a command.
Abandon(t) ==
    /\ tasks[t].pc \in {"query", "connect", "fetch", "sums", "check"}
    /\ End(t)
    /\ orphans' = IF tasks[t].pc \in {"connect", "fetch"}
                    THEN orphans \cup {[tag |-> tasks[t].tag, open |-> At(t, "fetch")]}
                    ELSE orphans
    /\ UNCHANGED <<files, process, aside, mishap>>

\* The process and its children end and what is installed is started.
Boot ==
    /\ running' = IF target.whole THEN target.ver ELSE 0
    /\ replaced' = FALSE /\ due' = FALSE /\ mishap' = {}
    /\ tasks' = [t \in Task |-> Idle] /\ orphans' = {}
    /\ UNCHANGED <<files, aside>>

Restart      == due /\ Boot
RestartFails ==
    /\ due /\ due' = FALSE
    /\ mishap' = mishap \cup {"restart"}
    /\ UNCHANGED <<files, running, replaced, aside, tasks, orphans>>

\* GitHub's latest release changes, also back when one is withdrawn.
Publish ==
    /\ release' \in Version \ {release}
    /\ UNCHANGED <<files, process, tasks, orphans, raced, mishap, updates>>

----------------------------------------------------------------------------

Install(t) ==
    \/ Locate(t) \/ Backup(t) \/ BackupDone(t) \/ BackupFails(t)
    \/ Stage(t) \/ StageDone(t) \/ Rename(t) \/ Answer(t)

Update(t) ==
    \/ LatestTag(t) \/ OpenBin(t) \/ FetchBin(t) \/ FetchSums(t)
    \/ VerifySha256(t) \/ SelfCheck(t) \/ Install(t) \/ Fail(t)

Next ==
    \/ \E t \in Task : Begin(t) \/ Update(t) \/ Abandon(t)
    \/ \E c \in orphans : OpenBinOrphan(c) \/ FetchBinOrphan(c)
    \/ Restart \/ RestartFails \/ Boot \/ Publish

\* A thread of the runtime runs the synchronous install to its end, and the spawned restart
\* task wakes up after its second.
Fairness ==
    /\ \A t \in Task : WF_vars(Install(t))
    /\ WF_vars(Restart \/ RestartFails)

Spec == Init /\ [][Next]_vars /\ Fairness

----------------------------------------------------------------------------
(* Properties.                                                             *)

\* Whatever fails, is abandoned or is cut off by a stop, the binary that the next boot starts
\* is a complete and verified one, unless two updates shared the download (update.rs:226).
InstalledIsWhole == ~raced => target.whole

\* While the process that an update replaced still runs, the backup is its own binary, complete,
\* even when further updates of the same process follow (update.rs:228).
BackupIsReplaced ==
    (replaced /\ "backup" \notin mishap /\ ~raced) => bak = Whole(running)

\* An install puts in place a release newer than the process that installs it, also when updates
\* race each other and releases are withdrawn (update.rs:154).  An older release replaces a newer
\* one only between racing updates: both may have located the binary before either renamed.
NoDowngrade ==
    [][target' # target => /\ target'.ver > running
                           /\ ~raced => target'.ver >= target.ver]_vars

\* An installed update is started, whatever becomes of the request that installed it: the
\* restart is scheduled with the install or the daemon has stopped anyway (update.rs:88).
UpdateStarts == replaced ~> (~replaced \/ "restart" \in mishap)
=============================================================================
