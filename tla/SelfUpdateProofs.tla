-------------------------- MODULE SelfUpdateProofs --------------------------
(***************************************************************************)
(* Theorems about the self-update, for any number of requests, of versions *)
(* and of updates.                                                         *)
(*                                                                         *)
(* Ascending is why an install puts a newer binary in place than that of   *)
(* the process, also when updates race: all that is on its way there is    *)
(* newer, and the process is what is installed until it is replaced.       *)
(* Solitary is why an update that nothing races installs a whole binary,   *)
(* and why the path it located is still the right one when it renames.     *)
(***************************************************************************)
EXTENDS SelfUpdate, TLAPS

Active(t)  == ~At(t, "idle")
Chosen     == Phase \ {"idle", "query", "answer"}  \* the version is settled
Opened     == Chosen \ {"connect"}                 \* the download was begun
Verified   == {"check", "locate", "backup", "saving", "stage", "staging"}
Located    == {"backup", "saving", "stage", "staging", "rename"}
BackedUp   == {"stage", "staging", "rename"}

Ascending ==
    /\ (running # 0 /\ ~replaced) => target.ver = running
    /\ \A t \in Task : Active(t) => running # 0
    /\ \A t \in Task : tasks[t].pc \in Chosen => tasks[t].tag > running
    /\ \A c \in orphans : c.tag > running
    /\ \A t \in Task : tasks[t].pc \in Opened => bin = NoFile \/ bin.ver > running
    /\ \A t \in Task : tasks[t].pc \in {"staging", "rename"} =>
                         staged = NoFile \/ staged.ver > running

Solitary ==
    ~raced =>
      /\ \A t, u \in Task : Active(t) /\ Active(u) => t = u
      /\ \A t \in Task : Active(t) => orphans = {}
      /\ \A t \in Task : tasks[t].pc \in Verified => bin.whole
      /\ \A t \in Task : At(t, "rename") => staged.whole
      /\ \A t \in Task : tasks[t].pc \in Located => tasks[t].astray = replaced
      /\ \A t \in Task : At(t, "saving") => ~replaced /\ tasks[t].old = target
      /\ \A t \in Task : At(t, "answer") => replaced

BackupKept ==
    (~raced /\ "backup" \notin mishap
       /\ (replaced \/ \E t \in Task : tasks[t].pc \in BackedUp))
    => bak = Whole(running)

IInv == TypeOK /\ Ascending /\ Solitary /\ InstalledIsWhole /\ BackupKept

-----------------------------------------------------------------------------
\* The version of any file is a number, and a cut copy of it is a file.
LEMMA FileFacts ==
    ASSUME NEW f \in File
    PROVE  f.ver \in Version \cup {0} /\ f.ver \in Int /\ Partly(f.ver) \in File
PROOF
  <1>1. f.ver \in Version \cup {0}
    BY DEF File
  <1>2. \A v \in Version \cup {0} : v \in Int
    BY VersionAssumption
  <1>3. Partly(f.ver) \in File
    BY <1>1 DEF File, Partly
  <1> QED
    BY <1>1, <1>2, <1>3

\* The types are kept.
LEMMA TypeStep ==
    ASSUME TypeOK, Ascending, [Next]_vars
    PROVE  TypeOK'
PROOF
  <1> USE VersionAssumption, MaxUpdatesAssumption DEF TypeOK, File, Curl, Phase, Idle, Go, End,
      At, files, process, aside, Partly, NoFile, Whole
  <1>1. ASSUME NEW t \in Task, Begin(t) PROVE TypeOK'
    BY <1>1 DEF Begin
  <1>2. ASSUME NEW t \in Task, Fail(t) PROVE TypeOK'
    BY <1>2 DEF Fail
  <1>3. ASSUME NEW t \in Task, LatestTag(t) PROVE TypeOK'
    <2>1. "connect" \in Phase
      OBVIOUS
    <2> HIDE DEF File, NoFile, Phase
    <2> QED BY <1>3, <2>1 DEF LatestTag, Newer
  <1>4. ASSUME NEW t \in Task, OpenBin(t) PROVE TypeOK'
    BY <1>4 DEF OpenBin
  <1>5. ASSUME NEW t \in Task, FetchBin(t) PROVE TypeOK'
    BY <1>5 DEF FetchBin
  <1>6. ASSUME NEW t \in Task, FetchSums(t) PROVE TypeOK'
    BY <1>6 DEF FetchSums
  <1>7. ASSUME NEW t \in Task, VerifySha256(t) PROVE TypeOK'
    BY <1>7 DEF VerifySha256
  <1>8. ASSUME NEW t \in Task, SelfCheck(t) PROVE TypeOK'
    BY <1>8 DEF SelfCheck
  <1>23. ASSUME NEW t \in Task, Locate(t) PROVE TypeOK'
    <2>1. "backup" \in Phase
      OBVIOUS
    <2> HIDE DEF File, NoFile, Phase
    <2> QED BY <1>23, <2>1 DEF Locate
  <1>9. ASSUME NEW t \in Task, Backup(t) PROVE TypeOK'
    <2>1. target \in File /\ bak \in File
      OBVIOUS
    <2>2. Partly(target.ver) \in File
      BY <2>1, FileFacts
    <2>3. CASE tasks[t].astray
      BY <1>9, <2>3 DEF Backup
    <2>4. CASE ~tasks[t].astray
      <3>1. bak' \in File
        BY <1>9, <2>2, <2>4 DEF Backup
      <3> QED BY <1>9, <2>1, <2>4, <3>1 DEF Backup, Save
    <2> QED BY <2>3, <2>4
  <1>10. ASSUME NEW t \in Task, BackupDone(t) PROVE TypeOK'
    <2>1. NoFile \in File
      OBVIOUS
    <2>2. "stage" \in Phase
      OBVIOUS
    <2> HIDE DEF File, NoFile, Phase
    <2>3. tasks[t].old \in File
      OBVIOUS
    <2> QED BY <1>10, <2>1, <2>2, <2>3 DEF BackupDone
  <1>11. ASSUME NEW t \in Task, BackupFails(t) PROVE TypeOK'
    <2>1. NoFile \in File
      OBVIOUS
    <2>2. "stage" \in Phase
      OBVIOUS
    <2> HIDE DEF File, NoFile, Phase
    <2> QED BY <1>11, <2>1, <2>2 DEF BackupFails
  <1>12. ASSUME NEW t \in Task, Stage(t) PROVE TypeOK'
    BY <1>12 DEF Stage
  <1>13. ASSUME NEW t \in Task, StageDone(t) PROVE TypeOK'
    <2>1. "rename" \in Phase
      OBVIOUS
    <2> HIDE DEF File, NoFile, Phase
    <2> QED BY <1>13, <2>1 DEF StageDone
  <1>14. ASSUME NEW t \in Task, Rename(t) PROVE TypeOK'
    <2>1. At(t, "rename") /\ staged # NoFile
      BY <1>14 DEF Rename
    <2>2. staged.ver > running /\ running \in Nat
      BY <2>1 DEF Ascending
    <2>3. staged.ver # 0
      BY <2>2
    <2>4. staged \in [ver : Version, whole : BOOLEAN]
      BY <2>3
    <2> QED BY <1>14, <2>4 DEF Rename
  <1>15. ASSUME NEW t \in Task, Answer(t) PROVE TypeOK'
    BY <1>15 DEF Answer
  <1>16. ASSUME NEW t \in Task, Abandon(t) PROVE TypeOK'
    <2>1. orphans' \subseteq Curl
      <3>1. tasks[t].pc \in {"connect", "fetch"} => tasks[t].tag \in Version
        <4>1. tasks[t].tag \in Version \cup {0} /\ running \in Version \cup {0}
          OBVIOUS
        <4>2. running >= 0
          <5> HIDE DEF TypeOK, Ascending
          <5>1. \A v \in Version : v \in Nat
            BY VersionAssumption
          <5>2. CASE running = 0
            BY <5>2
          <5>3. CASE running \in Version
            BY <5>1, <5>3
          <5> QED BY <4>1, <5>2, <5>3
        <4> QED BY <4>1, <4>2 DEF Ascending, Chosen
      <3>2. CASE tasks[t].pc \in {"connect", "fetch"}
        <4> DEFINE c == [tag |-> tasks[t].tag, open |-> At(t, "fetch")]
        <4>1. orphans' = orphans \cup {c}
          BY <1>16, <3>2 DEF Abandon
        <4>2. At(t, "fetch") \in BOOLEAN
          OBVIOUS
        <4>3. c \in Curl
          <5> HIDE DEF At
          <5> QED BY <3>1, <3>2, <4>2
        <4> HIDE DEF c
        <4> QED BY <4>1, <4>3
      <3>3. CASE tasks[t].pc \notin {"connect", "fetch"}
        BY <1>16, <3>3 DEF Abandon
      <3> QED BY <3>2, <3>3
    <2> QED BY <1>16, <2>1 DEF Abandon
  <1>17. ASSUME NEW c \in orphans, OpenBinOrphan(c) PROVE TypeOK'
    BY <1>17 DEF OpenBinOrphan
  <1>18. ASSUME NEW c \in orphans, FetchBinOrphan(c) PROVE TypeOK'
    BY <1>18 DEF FetchBinOrphan
  <1>19. CASE Boot
    BY <1>19 DEF Boot
  <1>20. CASE RestartFails
    BY <1>20 DEF RestartFails
  <1>21. CASE Publish
    BY <1>21 DEF Publish
  <1>22. CASE UNCHANGED vars
    BY <1>22 DEF vars, process, aside
  <1> QED
    BY <1>1, <1>2, <1>3, <1>4, <1>5, <1>6, <1>7, <1>8, <1>9, <1>10, <1>11, <1>12, <1>13, <1>14,
       <1>15, <1>16, <1>17, <1>18, <1>19, <1>20, <1>21, <1>22, <1>23 DEF Next, Update, Install, Restart

\* Nothing older than the process gets on its way.
LEMMA AscendingStep ==
    ASSUME TypeOK, Ascending, [Next]_vars
    PROVE  Ascending'
PROOF
  <1> USE VersionAssumption, MaxUpdatesAssumption DEF TypeOK, Ascending, File, Curl, Idle, Go,
      End, At, files, process, aside, Partly, NoFile, Active, Chosen, Opened, Phase
  <1>1. ASSUME NEW t \in Task, Begin(t) PROVE Ascending'
    BY <1>1 DEF Begin
  <1>2. ASSUME NEW t \in Task, Fail(t) PROVE Ascending'
    BY <1>2 DEF Fail
  <1>3. ASSUME NEW t \in Task, LatestTag(t) PROVE Ascending'
    BY <1>3 DEF LatestTag, Newer
  <1>4. ASSUME NEW t \in Task, OpenBin(t) PROVE Ascending'
    BY <1>4 DEF OpenBin
  <1>5. ASSUME NEW t \in Task, FetchBin(t) PROVE Ascending'
    BY <1>5 DEF FetchBin
  <1>6. ASSUME NEW t \in Task, FetchSums(t) PROVE Ascending'
    BY <1>6 DEF FetchSums
  <1>7. ASSUME NEW t \in Task, VerifySha256(t) PROVE Ascending'
    BY <1>7 DEF VerifySha256
  <1>8. ASSUME NEW t \in Task, SelfCheck(t) PROVE Ascending'
    BY <1>8 DEF SelfCheck
  <1>23. ASSUME NEW t \in Task, Locate(t) PROVE Ascending'
    BY <1>23 DEF Locate
  <1>9. ASSUME NEW t \in Task, Backup(t) PROVE Ascending'
    BY <1>9 DEF Backup, Save
  <1>10. ASSUME NEW t \in Task, BackupDone(t) PROVE Ascending'
    BY <1>10 DEF BackupDone
  <1>11. ASSUME NEW t \in Task, BackupFails(t) PROVE Ascending'
    BY <1>11 DEF BackupFails
  <1>12. ASSUME NEW t \in Task, Stage(t) PROVE Ascending'
    BY <1>12 DEF Stage
  <1>13. ASSUME NEW t \in Task, StageDone(t) PROVE Ascending'
    BY <1>13 DEF StageDone
  <1>14. ASSUME NEW t \in Task, Rename(t) PROVE Ascending'
    BY <1>14 DEF Rename
  <1>15. ASSUME NEW t \in Task, Answer(t) PROVE Ascending'
    BY <1>15 DEF Answer
  <1>16. ASSUME NEW t \in Task, Abandon(t) PROVE Ascending'
    BY <1>16 DEF Abandon
  <1>17. ASSUME NEW c \in orphans, OpenBinOrphan(c) PROVE Ascending'
    BY <1>17 DEF OpenBinOrphan
  <1>18. ASSUME NEW c \in orphans, FetchBinOrphan(c) PROVE Ascending'
    BY <1>18 DEF FetchBinOrphan
  <1>19. CASE Boot
    BY <1>19 DEF Boot
  <1>20. CASE RestartFails
    BY <1>20 DEF RestartFails
  <1>21. CASE Publish
    BY <1>21 DEF Publish
  <1>22. CASE UNCHANGED vars
    BY <1>22 DEF vars, process, aside
  <1> QED
    BY <1>1, <1>2, <1>3, <1>4, <1>5, <1>6, <1>7, <1>8, <1>9, <1>10, <1>11, <1>12, <1>13, <1>14,
       <1>15, <1>16, <1>17, <1>18, <1>19, <1>20, <1>21, <1>22, <1>23 DEF Next, Update, Install, Restart

\* A lone update installs what it verified.
LEMMA SolitaryStep ==
    ASSUME TypeOK, Solitary, [Next]_vars
    PROVE  Solitary'
PROOF
  <1> USE VersionAssumption, MaxUpdatesAssumption DEF TypeOK, Solitary, Curl, Idle, Go, End, At, files,
      process, aside, Active, Verified, Located
  <1>1. ASSUME NEW t \in Task, Begin(t) PROVE Solitary'
    <2> SUFFICES ASSUME ~raced' PROVE Solitary'
      OBVIOUS
    <2>1. ~raced /\ orphans = {} /\ \A u \in Task : tasks[u].pc = "idle"
      BY <1>1 DEF Begin
    <2>2. tasks' = [tasks EXCEPT ![t].pc = "query"] /\ orphans' = {}
      BY <1>1, <2>1 DEF Begin
    <2>3. \A u \in Task : tasks'[u].pc = IF u = t THEN "query" ELSE "idle"
      BY <2>1, <2>2
    <2> QED BY <2>2, <2>3
  <1>2. ASSUME NEW t \in Task, Fail(t) PROVE Solitary'
    BY <1>2 DEF Fail
  <1>3. ASSUME NEW t \in Task, LatestTag(t) PROVE Solitary'
    BY <1>3 DEF LatestTag
  <1>4. ASSUME NEW t \in Task, OpenBin(t) PROVE Solitary'
    BY <1>4 DEF OpenBin
  <1>5. ASSUME NEW t \in Task, FetchBin(t) PROVE Solitary'
    BY <1>5 DEF FetchBin
  <1>6. ASSUME NEW t \in Task, FetchSums(t) PROVE Solitary'
    BY <1>6 DEF FetchSums
  <1>7. ASSUME NEW t \in Task, VerifySha256(t) PROVE Solitary'
    BY <1>7 DEF VerifySha256, Whole
  <1>8. ASSUME NEW t \in Task, SelfCheck(t) PROVE Solitary'
    BY <1>8 DEF SelfCheck
  <1>23. ASSUME NEW t \in Task, Locate(t) PROVE Solitary'
    BY <1>23 DEF Locate
  <1>9. ASSUME NEW t \in Task, Backup(t) PROVE Solitary'
    BY <1>9 DEF Backup, Save
  <1>10. ASSUME NEW t \in Task, BackupDone(t) PROVE Solitary'
    BY <1>10 DEF BackupDone
  <1>11. ASSUME NEW t \in Task, BackupFails(t) PROVE Solitary'
    BY <1>11 DEF BackupFails
  <1>12. ASSUME NEW t \in Task, Stage(t) PROVE Solitary'
    BY <1>12 DEF Stage
  <1>13. ASSUME NEW t \in Task, StageDone(t) PROVE Solitary'
    BY <1>13 DEF StageDone
  <1>14. ASSUME NEW t \in Task, Rename(t) PROVE Solitary'
    <2> SUFFICES ASSUME ~raced' PROVE Solitary'
      OBVIOUS
    <2>1. ~raced /\ orphans' = orphans /\ replaced' /\ bin' = bin
      BY <1>14 DEF Rename
    <2>2. orphans = {} /\ \A u \in Task : u # t => tasks[u].pc = "idle"
      BY <1>14, <2>1 DEF Rename
    <2>3. \A u \in Task : tasks'[u].pc = IF u = t THEN "answer" ELSE "idle"
      BY <1>14, <2>2 DEF Rename
    <2> QED BY <2>1, <2>2, <2>3
  <1>15. ASSUME NEW t \in Task, Answer(t) PROVE Solitary'
    BY <1>15 DEF Answer
  <1>16. ASSUME NEW t \in Task, Abandon(t) PROVE Solitary'
    BY <1>16 DEF Abandon
  <1>17. ASSUME NEW c \in orphans, OpenBinOrphan(c) PROVE Solitary'
    BY <1>17 DEF OpenBinOrphan
  <1>18. ASSUME NEW c \in orphans, FetchBinOrphan(c) PROVE Solitary'
    BY <1>18 DEF FetchBinOrphan
  <1>19. CASE Boot
    BY <1>19 DEF Boot
  <1>20. CASE RestartFails
    BY <1>20 DEF RestartFails
  <1>21. CASE Publish
    BY <1>21 DEF Publish
  <1>22. CASE UNCHANGED vars
    BY <1>22 DEF vars, process, aside
  <1> QED
    BY <1>1, <1>2, <1>3, <1>4, <1>5, <1>6, <1>7, <1>8, <1>9, <1>10, <1>11, <1>12, <1>13, <1>14,
       <1>15, <1>16, <1>17, <1>18, <1>19, <1>20, <1>21, <1>22, <1>23 DEF Next, Update, Install, Restart

\* What is renamed over a whole binary is whole.
LEMMA WholeStep ==
    ASSUME TypeOK, Solitary, InstalledIsWhole, [Next]_vars
    PROVE  InstalledIsWhole'
PROOF
  <1> USE VersionAssumption, MaxUpdatesAssumption DEF TypeOK, Solitary, InstalledIsWhole, At,
      files, process, aside
  <1>1. ASSUME NEW t \in Task, Begin(t) PROVE InstalledIsWhole'
    BY <1>1 DEF Begin
  <1>2. ASSUME NEW t \in Task, Fail(t) PROVE InstalledIsWhole'
    BY <1>2 DEF Fail
  <1>3. ASSUME NEW t \in Task, LatestTag(t) PROVE InstalledIsWhole'
    BY <1>3 DEF LatestTag
  <1>4. ASSUME NEW t \in Task, OpenBin(t) PROVE InstalledIsWhole'
    BY <1>4 DEF OpenBin
  <1>5. ASSUME NEW t \in Task, FetchBin(t) PROVE InstalledIsWhole'
    BY <1>5 DEF FetchBin
  <1>6. ASSUME NEW t \in Task, FetchSums(t) PROVE InstalledIsWhole'
    BY <1>6 DEF FetchSums
  <1>7. ASSUME NEW t \in Task, VerifySha256(t) PROVE InstalledIsWhole'
    BY <1>7 DEF VerifySha256
  <1>8. ASSUME NEW t \in Task, SelfCheck(t) PROVE InstalledIsWhole'
    BY <1>8 DEF SelfCheck
  <1>23. ASSUME NEW t \in Task, Locate(t) PROVE InstalledIsWhole'
    BY <1>23 DEF Locate
  <1>9. ASSUME NEW t \in Task, Backup(t) PROVE InstalledIsWhole'
    BY <1>9 DEF Backup, Save
  <1>10. ASSUME NEW t \in Task, BackupDone(t) PROVE InstalledIsWhole'
    BY <1>10 DEF BackupDone
  <1>11. ASSUME NEW t \in Task, BackupFails(t) PROVE InstalledIsWhole'
    BY <1>11 DEF BackupFails
  <1>12. ASSUME NEW t \in Task, Stage(t) PROVE InstalledIsWhole'
    BY <1>12 DEF Stage
  <1>13. ASSUME NEW t \in Task, StageDone(t) PROVE InstalledIsWhole'
    BY <1>13 DEF StageDone
  <1>14. ASSUME NEW t \in Task, Rename(t) PROVE InstalledIsWhole'
    BY <1>14 DEF Rename
  <1>15. ASSUME NEW t \in Task, Answer(t) PROVE InstalledIsWhole'
    BY <1>15 DEF Answer
  <1>16. ASSUME NEW t \in Task, Abandon(t) PROVE InstalledIsWhole'
    BY <1>16 DEF Abandon
  <1>17. ASSUME NEW c \in orphans, OpenBinOrphan(c) PROVE InstalledIsWhole'
    BY <1>17 DEF OpenBinOrphan
  <1>18. ASSUME NEW c \in orphans, FetchBinOrphan(c) PROVE InstalledIsWhole'
    BY <1>18 DEF FetchBinOrphan
  <1>19. CASE Boot
    BY <1>19 DEF Boot
  <1>20. CASE RestartFails
    BY <1>20 DEF RestartFails
  <1>21. CASE Publish
    BY <1>21 DEF Publish
  <1>22. CASE UNCHANGED vars
    BY <1>22 DEF vars, process, aside
  <1> QED
    BY <1>1, <1>2, <1>3, <1>4, <1>5, <1>6, <1>7, <1>8, <1>9, <1>10, <1>11, <1>12, <1>13, <1>14,
       <1>15, <1>16, <1>17, <1>18, <1>19, <1>20, <1>21, <1>22, <1>23 DEF Next, Update, Install, Restart

\* The backup is made before the rename and not again after it.
LEMMA BackupStep ==
    ASSUME IInv, [Next]_vars
    PROVE  BackupKept'
PROOF
  <1> USE VersionAssumption, MaxUpdatesAssumption DEF IInv, TypeOK, Ascending, Solitary,
      InstalledIsWhole, BackupKept, BackedUp, Verified, Located, Idle, Go, End, At, Active,
      files, process, aside, Whole
  <1>1. ASSUME NEW t \in Task, Begin(t) PROVE BackupKept'
    BY <1>1 DEF Begin
  <1>2. ASSUME NEW t \in Task, Fail(t) PROVE BackupKept'
    BY <1>2 DEF Fail
  <1>3. ASSUME NEW t \in Task, LatestTag(t) PROVE BackupKept'
    BY <1>3 DEF LatestTag
  <1>4. ASSUME NEW t \in Task, OpenBin(t) PROVE BackupKept'
    BY <1>4 DEF OpenBin
  <1>5. ASSUME NEW t \in Task, FetchBin(t) PROVE BackupKept'
    BY <1>5 DEF FetchBin
  <1>6. ASSUME NEW t \in Task, FetchSums(t) PROVE BackupKept'
    BY <1>6 DEF FetchSums
  <1>7. ASSUME NEW t \in Task, VerifySha256(t) PROVE BackupKept'
    BY <1>7 DEF VerifySha256
  <1>8. ASSUME NEW t \in Task, SelfCheck(t) PROVE BackupKept'
    BY <1>8 DEF SelfCheck
  <1>23. ASSUME NEW t \in Task, Locate(t) PROVE BackupKept'
    BY <1>23 DEF Locate
  <1>9. ASSUME NEW t \in Task, Backup(t) PROVE BackupKept'
    BY <1>9 DEF Backup, Save
  <1>10. ASSUME NEW t \in Task, BackupDone(t) PROVE BackupKept'
    BY <1>10 DEF BackupDone
  <1>11. ASSUME NEW t \in Task, BackupFails(t) PROVE BackupKept'
    BY <1>11 DEF BackupFails
  <1>12. ASSUME NEW t \in Task, Stage(t) PROVE BackupKept'
    BY <1>12 DEF Stage
  <1>13. ASSUME NEW t \in Task, StageDone(t) PROVE BackupKept'
    BY <1>13 DEF StageDone
  <1>14. ASSUME NEW t \in Task, Rename(t) PROVE BackupKept'
    BY <1>14 DEF Rename
  <1>15. ASSUME NEW t \in Task, Answer(t) PROVE BackupKept'
    BY <1>15 DEF Answer
  <1>16. ASSUME NEW t \in Task, Abandon(t) PROVE BackupKept'
    BY <1>16 DEF Abandon
  <1>17. ASSUME NEW c \in orphans, OpenBinOrphan(c) PROVE BackupKept'
    BY <1>17 DEF OpenBinOrphan
  <1>18. ASSUME NEW c \in orphans, FetchBinOrphan(c) PROVE BackupKept'
    BY <1>18 DEF FetchBinOrphan
  <1>19. CASE Boot
    BY <1>19 DEF Boot
  <1>20. CASE RestartFails
    BY <1>20 DEF RestartFails
  <1>21. CASE Publish
    BY <1>21 DEF Publish
  <1>22. CASE UNCHANGED vars
    BY <1>22 DEF vars, process, aside
  <1> QED
    BY <1>1, <1>2, <1>3, <1>4, <1>5, <1>6, <1>7, <1>8, <1>9, <1>10, <1>11, <1>12, <1>13, <1>14,
       <1>15, <1>16, <1>17, <1>18, <1>19, <1>20, <1>21, <1>22, <1>23 DEF Next, Update, Install, Restart

-----------------------------------------------------------------------------
LEMMA IInvInit == Init => IInv
PROOF
  <1> SUFFICES ASSUME Init PROVE IInv
    OBVIOUS
  <1> USE VersionAssumption, MaxUpdatesAssumption DEF Init, Whole, NoFile, Idle, At, Active
  <1>1. TypeOK
    <2>1. PICK v \in Version : target = Whole(v)
      OBVIOUS
    <2>2. target \in [ver : Version, whole : BOOLEAN] /\ running \in Version \cup {0}
      BY <2>1 DEF File
    <2>3. bak \in File /\ staged \in File /\ bin \in File
      BY DEF File
    <2>4. tasks \in [Task -> [pc : Phase, tag : Version \cup {0}, astray : BOOLEAN, old : File]]
      BY <2>3 DEF Phase
    <2>5. updates \in 0..MaxUpdates
      BY MaxUpdatesAssumption
    <2> QED
      BY <2>2, <2>3, <2>4, <2>5 DEF TypeOK
  <1>2. Ascending
    BY DEF Ascending, Chosen, Opened
  <1>3. Solitary
    BY DEF Solitary, Verified, Located
  <1>4. InstalledIsWhole
    BY DEF InstalledIsWhole
  <1>5. BackupKept
    BY DEF BackupKept, BackedUp
  <1> QED
    BY <1>1, <1>2, <1>3, <1>4, <1>5 DEF IInv

\* What the steps keep, and what it says of the properties, for every set of requests.
THEOREM UpdateInvariance == Spec => []IInv
PROOF
  <1>1. IInv /\ [Next]_vars => IInv'
    BY TypeStep, AscendingStep, SolitaryStep, WholeStep, BackupStep DEF IInv
  <1> QED
    BY IInvInit, <1>1, PTL DEF Spec

\* Every request, orphan and file is of its kind, whatever races, fails or stops.
THEOREM UpdateTypes == Spec => []TypeOK
PROOF
  <1>1. IInv => TypeOK
    BY DEF IInv
  <1> QED
    BY <1>1, UpdateInvariance, PTL

\* An update that no other one overlapped leaves a whole, verified binary, wherever it failed,
\* was abandoned or was cut off.
THEOREM InstalledStaysWhole == Spec => []InstalledIsWhole
PROOF
  <1>1. IInv => InstalledIsWhole
    BY DEF IInv
  <1> QED
    BY <1>1, UpdateInvariance, PTL

\* The binary of the process that was replaced can be put back.
THEOREM BackupStaysReplaced == Spec => []BackupIsReplaced
PROOF
  <1>1. IInv => BackupIsReplaced
    BY DEF IInv, BackupKept, BackupIsReplaced
  <1> QED
    BY <1>1, UpdateInvariance, PTL

\* A step that changes the installed binary installs a newer one than the running process's,
\* which is the one it replaces unless updates race.
LEMMA StepAscends ==
    ASSUME TypeOK, Ascending, Solitary, [Next]_vars, target' # target
    PROVE  target'.ver > running /\ (~raced => target'.ver >= target.ver)
PROOF
  <1>0. target.ver \in Int /\ running \in Int
    <2>1. target.ver \in Version /\ running \in Version \cup {0}
      BY DEF TypeOK
    <2>2. \A v \in Version \cup {0} : v \in Int
      BY VersionAssumption
    <2> QED BY <2>1, <2>2
  <1>1. ASSUME NEW t \in Task, Rename(t)
        PROVE  target'.ver > running /\ (~raced => target'.ver >= target.ver)
    <2>1. At(t, "rename") /\ staged # NoFile /\ ~tasks[t].astray /\ target' = staged
      BY <1>1 DEF Rename
    <2>2. staged.ver > running /\ running # 0
      BY <2>1 DEF Ascending, At, Active
    <2>3. staged.ver \in Int
      BY FileFacts DEF TypeOK
    <2>4. ASSUME ~raced PROVE target.ver = running
      <3>1. tasks[t].astray = replaced
        BY <2>1, <2>4 DEF Solitary, Located, At
      <3> QED BY <2>1, <2>2, <3>1 DEF Ascending
    <2> QED BY <1>0, <2>1, <2>2, <2>3, <2>4
  <1>2. CASE \A t \in Task : ~Rename(t)
    <2>1. target' = target
      BY <1>2 DEF Next, vars, files, process, aside, Begin, Update, LatestTag, OpenBin, FetchBin,
        FetchSums, VerifySha256, SelfCheck, Install, Locate, Backup, BackupDone, BackupFails,
        Stage, StageDone, Answer, Fail, Abandon, OpenBinOrphan, FetchBinOrphan, Restart,
        RestartFails, Boot, Publish
    <2> QED BY <2>1
  <1> QED
    BY <1>1, <1>2

\* No order of requests, releases, stops and failures installs a release that is not newer than
\* the process that installs it; and only racing updates put an older one in place of a newer.
THEOREM NeverDowngrades == Spec => NoDowngrade
PROOF
  <1>1. IInv /\ [Next]_vars =>
          [target' # target => /\ target'.ver > running
                               /\ ~raced => target'.ver >= target.ver]_vars
    BY StepAscends DEF IInv
  <1> QED
    BY <1>1, UpdateInvariance, PTL DEF Spec, NoDowngrade
=============================================================================
