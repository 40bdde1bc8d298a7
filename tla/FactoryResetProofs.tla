------------------------- MODULE FactoryResetProofs -------------------------
(***************************************************************************)
(* Proofs about Sessions and FactoryReset, for any number of requests,     *)
(* accounts, sessions, operations and faults.                              *)
(*                                                                         *)
(* The login first, on its own and as a part of the box.  Neither of its   *)
(* properties is inductive.  While a change is between Store and           *)
(* Clear the sessions may be old, and so may the account of a login that   *)
(* is about to open one: OldEnds says that such a change is under way.     *)
(* FileLeads says what the file, the memory and the confirmed account are  *)
(* at each step of the one change that is.                                 *)
(*                                                                         *)
(* Then the reset: WipedSoFar says what a reset that nothing has undone    *)
(* has removed by the step it is at, whatever the others, the users and    *)
(* the daemon did meanwhile.                                               *)
(*                                                                         *)
(* Last the button, for every time to hold it.  ResetNeedsHold is about    *)
(* one step; what makes it true is an account of all the readings since    *)
(* the time held was last 0, Counted: as long as none was late, each had   *)
(* a tick of its own, so span has counted as many of them, and between     *)
(* two of them the button cannot have been up for two ticks.               *)
(***************************************************************************)
EXTENDS FactoryReset, ResetButton, TLAPS

SessionsNext == AuthStep \/ AuthStop \/ AuthLoad \/ AuthWipe

Clearing == \E r \in Request : At(r, "clear")

OldEnds ==
    ~passed /\ ~Clearing =>
        /\ \A s \in sessions : s.acct = creds
        /\ \A r \in Request : At(r, "insert") => reqs[r].acct = creds

DownIsIdle == ~up => sessions = {} /\ \A r \in Request : At(r, "idle")

FileLeads ==
    ~crossed /\ ~lost =>
        /\ \A r, q \in Request : Changing(r) /\ Changing(q) => r = q
        /\ (\A r \in Request : reqs[r].pc \notin {"saving", "store", "clear"}) => authfile = chosen
        /\ up /\ ~Clearing => creds = chosen
        /\ \A r \in Request : reqs[r].pc \in {"store", "clear"} => authfile = reqs[r].acct
        /\ \A r \in Request : At(r, "clear") => creds = reqs[r].acct

SessionsIInv == SessionsTypeOK /\ OldEnds /\ DownIsIdle /\ FileLeads

----------------------------------------------------------------------------
\* Every request keeps the types: one step of it changes its own record only.
LEMMA SessionsTypeStep == SessionsTypeOK /\ [SessionsNext]_svars => SessionsTypeOK'
<1> SUFFICES ASSUME SessionsTypeOK, [SessionsNext]_svars PROVE SessionsTypeOK'
    OBVIOUS
<1> USE AccountAssumption
<1>1. ASSUME NEW r \in Request, Login(r) \/ SetAccount(r) PROVE SessionsTypeOK'
    BY <1>1 DEF Login, SetAccount, Start, SessionsTypeOK, Live
<1>2. ASSUME NEW r \in Request, Insert(r) PROVE SessionsTypeOK'
    <2> DEFINE k == CHOOSE k \in 1..MaxSession : k \notin Tokens
    <2>1. Tokens \subseteq 1..MaxSession
        BY DEF Tokens, SessionsTypeOK, Session
    <2>2. k \in 1..MaxSession
        BY <1>2, <2>1 DEF Insert
    <2>3. sessions' = sessions \cup {[token |-> k, acct |-> reqs[r].acct, old |-> FALSE]}
        BY <1>2 DEF Insert
    <2> HIDE DEF k
    <2>4. [token |-> k, acct |-> reqs[r].acct, old |-> FALSE] \in Session
        BY <2>2 DEF SessionsTypeOK, Session
    <2> QED
        BY <1>2, <2>3, <2>4 DEF Insert, Go, SessionsTypeOK
<1>3. ASSUME NEW r \in Request, SetCredentials(r) PROVE SessionsTypeOK'
    <2>1. CASE SaveOpen(r) \/ Save(r) \/ SaveFails(r)
        BY <2>1 DEF SaveOpen, Save, SaveFails, Go, At, SessionsTypeOK
    <2>2. CASE Store(r) \/ Clear(r)
        BY <2>2 DEF Store, Clear, Go, At, SessionsTypeOK
    <2> QED
        BY <1>3, <2>1, <2>2 DEF SetCredentials
<1>4. CASE Expire
    <2>1. PICK s \in sessions : sessions' = (sessions \ {s}) \cup {[s EXCEPT !.old = TRUE]}
        BY <1>4 DEF Expire
    <2>2. [s EXCEPT !.old = TRUE] \in Session
        BY DEF SessionsTypeOK, Session
    <2> QED
        BY <1>4, <2>1, <2>2 DEF Expire, SessionsTypeOK
<1>5. CASE Validate \/ Logout
    BY <1>5 DEF Validate, Logout, Live, SessionsTypeOK
<1>6. CASE CliPassword \/ AuthLoad \/ AuthWipe
    BY <1>6 DEF CliPassword, AuthLoad, AuthWipe, SessionsTypeOK
<1>7. CASE AuthStop
    BY <1>7 DEF AuthStop, Idle, SessionsTypeOK
<1>8. CASE UNCHANGED svars
    BY <1>8 DEF svars, SessionsTypeOK
<1> QED
    BY <1>1, <1>2, <1>3, <1>4, <1>5, <1>6, <1>7, <1>8 DEF SessionsNext, AuthStep

\* Sessions that are not of the account in force end: a change that has replaced it will clear them.
LEMMA OldEndsStep ==
    SessionsTypeOK /\ OldEnds /\ DownIsIdle /\ [SessionsNext]_svars => OldEnds' /\ DownIsIdle'
<1> SUFFICES ASSUME SessionsTypeOK, OldEnds, DownIsIdle, [SessionsNext]_svars
             PROVE  OldEnds' /\ DownIsIdle'
    OBVIOUS
<1> USE DEF OldEnds, DownIsIdle, Clearing, At
<1>1. ASSUME NEW r \in Request, Login(r) PROVE OldEnds' /\ DownIsIdle'
    BY <1>1 DEF Login, Start, Verify, SessionsTypeOK
<1>2. ASSUME NEW r \in Request, SetAccount(r) PROVE OldEnds' /\ DownIsIdle'
    BY <1>2 DEF SetAccount, Start, Live, SessionsTypeOK
<1>3. ASSUME NEW r \in Request, Insert(r) PROVE OldEnds' /\ DownIsIdle'
    <2> DEFINE k == CHOOSE k \in 1..MaxSession : k \notin Tokens
    <2>1. /\ sessions' = sessions \cup {[token |-> k, acct |-> reqs[r].acct, old |-> FALSE]}
          /\ reqs' = [reqs EXCEPT ![r].pc = "idle"] /\ UNCHANGED <<up, creds, passed>>
          /\ reqs[r].pc = "insert"
        BY <1>3 DEF Insert, Go
    <2> HIDE DEF k
    <2>2. \A s \in sessions' : s \in sessions \/ s.acct = reqs[r].acct
        BY <2>1
    <2>3. \A q \in Request : reqs'[q].acct = reqs[q].acct /\ (q # r => reqs'[q] = reqs[q])
        BY <2>1 DEF SessionsTypeOK
    <2>4. reqs'[r].pc = "idle"
        BY <2>1 DEF SessionsTypeOK
    <2> QED
        BY <2>1, <2>2, <2>3, <2>4
<1>4. ASSUME NEW r \in Request, SaveOpen(r) \/ Save(r) \/ SaveFails(r) PROVE OldEnds' /\ DownIsIdle'
    <2>1. /\ UNCHANGED <<up, creds, sessions, passed>>
          /\ \A q \in Request : reqs'[q].acct = reqs[q].acct /\ (q # r => reqs'[q] = reqs[q])
          /\ reqs[r].pc \in {"save", "saving"} /\ reqs'[r].pc \in {"saving", "store", "idle"}
        BY <1>4 DEF SaveOpen, Save, SaveFails, Go, SessionsTypeOK
    <2> QED
        BY <2>1
<1>5. ASSUME NEW r \in Request, Store(r) PROVE OldEnds' /\ DownIsIdle'
    BY <1>5 DEF Store, Go, SessionsTypeOK
<1>6. ASSUME NEW r \in Request, Clear(r) PROVE OldEnds' /\ DownIsIdle'
    <2>1. /\ UNCHANGED up /\ sessions' = {} /\ reqs[r].pc = "clear"
          /\ passed' = (passed \/ \E q \in Request : reqs[q].pc = "insert")
          /\ \A q \in Request : q # r => reqs'[q] = reqs[q]
          /\ reqs'[r].pc = "idle"
        BY <1>6 DEF Clear, Go, SessionsTypeOK
    <2> QED
        BY <2>1
<1>7. CASE Expire
    <2>1. PICK s \in sessions : sessions' = (sessions \ {s}) \cup {[s EXCEPT !.old = TRUE]}
        BY <1>7 DEF Expire
    <2>2. \A t \in sessions' : \E v \in sessions : t.acct = v.acct
        BY <2>1 DEF SessionsTypeOK, Session
    <2> QED
        BY <1>7, <2>1, <2>2 DEF Expire
<1>8. CASE Validate \/ Logout
    BY <1>8 DEF Validate, Logout, Live
<1>9. CASE CliPassword \/ AuthWipe
    BY <1>9 DEF CliPassword, AuthWipe
<1>10. CASE AuthStop
    BY <1>10 DEF AuthStop, Idle
<1>11. CASE AuthLoad
    BY <1>11 DEF AuthLoad
<1>12. CASE UNCHANGED svars
    BY <1>12 DEF svars
<1> HIDE DEF OldEnds, DownIsIdle, Clearing, At
<1> QED
    BY <1>1, <1>2, <1>3, <1>4, <1>5, <1>6, <1>7, <1>8, <1>9, <1>10, <1>11, <1>12
    DEF SessionsNext, AuthStep, SetCredentials

\* The file is written first, then the memory, then the change is confirmed.
LEMMA FileLeadsStep ==
    SessionsTypeOK /\ DownIsIdle /\ FileLeads /\ [SessionsNext]_svars => FileLeads'
<1> SUFFICES ASSUME SessionsTypeOK, DownIsIdle, FileLeads, [SessionsNext]_svars PROVE FileLeads'
    OBVIOUS
<1> USE DEF FileLeads, Clearing, Changing, At
<1>1. ASSUME NEW r \in Request, Login(r) PROVE FileLeads'
    BY <1>1 DEF Login, Start, SessionsTypeOK
<1>2. ASSUME NEW r \in Request, SetAccount(r) PROVE FileLeads'
    <2>1. /\ UNCHANGED <<up, creds, authfile, chosen, lost>>
          /\ crossed' = (crossed \/ \E q \in Request : Changing(q))
          /\ \A q \in Request : q # r => reqs'[q] = reqs[q]
          /\ reqs[r].pc = "idle" /\ reqs'[r].pc = "save"
        BY <1>2 DEF SetAccount, Start, SessionsTypeOK
    <2>2. crossed \in BOOLEAN
        BY DEF SessionsTypeOK
    <2> SUFFICES ASSUME ~crossed', ~lost' PROVE FileLeads'
        OBVIOUS
    <2>3. ~crossed /\ ~lost /\ \A q \in Request : ~Changing(q)
        BY <2>1, <2>2
    <2>4. \A q \in Request : reqs[q].pc \notin {"saving", "store", "clear"}
        BY <2>3
    <2> QED
        BY <2>1, <2>3, <2>4
<1>3. ASSUME NEW r \in Request, Insert(r) PROVE FileLeads'
    <2>1. /\ UNCHANGED <<up, creds, authfile, chosen, crossed, lost>>
          /\ \A q \in Request : q # r => reqs'[q] = reqs[q]
          /\ reqs[r].pc = "insert" /\ reqs'[r].pc = "idle"
        BY <1>3 DEF Insert, Go, SessionsTypeOK
    <2> QED
        BY <2>1
<1>4. ASSUME NEW r \in Request, SaveOpen(r) PROVE FileLeads'
    BY <1>4 DEF SaveOpen, Go, SessionsTypeOK
<1>5. ASSUME NEW r \in Request, Save(r) PROVE FileLeads'
    BY <1>5 DEF Save, Go, SessionsTypeOK
<1>6. ASSUME NEW r \in Request, SaveFails(r) PROVE FileLeads'
    BY <1>6 DEF SaveFails, Go, SessionsTypeOK
<1>7. ASSUME NEW r \in Request, Store(r) PROVE FileLeads'
    BY <1>7 DEF Store, Go, SessionsTypeOK
<1>8. ASSUME NEW r \in Request, Clear(r) PROVE FileLeads'
    BY <1>8 DEF Clear, Go, SessionsTypeOK
<1>9. CASE Expire \/ Validate \/ Logout
    BY <1>9 DEF Expire, Validate, Logout
<1>10. CASE CliPassword \/ AuthWipe
    BY <1>10 DEF CliPassword, AuthWipe, DownIsIdle
<1>11. CASE AuthStop
    BY <1>11 DEF AuthStop, Idle
<1>12. CASE AuthLoad
    BY <1>12, FileAssumption DEF AuthLoad, DownIsIdle, SessionsTypeOK
<1>13. CASE UNCHANGED svars
    BY <1>13 DEF svars
<1> HIDE DEF FileLeads, Clearing, Changing, At
<1> QED
    BY <1>1, <1>2, <1>3, <1>4, <1>5, <1>6, <1>7, <1>8, <1>9, <1>10, <1>11, <1>12, <1>13
    DEF SessionsNext, AuthStep, SetCredentials

----------------------------------------------------------------------------
LEMMA SessionsInitSound == SessionsInit => SessionsIInv
<1> SUFFICES ASSUME SessionsInit PROVE SessionsIInv
    OBVIOUS
<1>1. \A r \in Request : reqs[r].pc = "idle"
    BY DEF SessionsInit, Idle
<1>2. SessionsTypeOK
    BY AccountAssumption DEF SessionsInit, SessionsTypeOK, Idle
<1>3. OldEnds /\ DownIsIdle /\ FileLeads
    BY <1>1 DEF SessionsInit, OldEnds, DownIsIdle, FileLeads, Clearing, Changing, At
<1> QED
    BY <1>2, <1>3 DEF SessionsIInv

\* The inductive invariant of the login.
THEOREM SessionsInvariance == SessionsSpec => []SessionsIInv
<1>2. SessionsIInv /\ [SessionsNext]_svars => SessionsIInv'
    BY SessionsTypeStep, OldEndsStep, FileLeadsStep DEF SessionsIInv
<1> QED
    BY <1>2, SessionsInitSound, PTL DEF SessionsSpec, SessionsNext

\* set_credentials ends every session of the old account (auth.rs:94), whatever logins and changes
\* run beside it, but for a login it overtook.
THEOREM SessionsStayCurrent == SessionsSpec => []SessionsCurrent
<1>1. SessionsIInv => SessionsCurrent
    BY DEF SessionsIInv, OldEnds, Clearing, Changing, At, SessionsCurrent
<1> QED
    BY <1>1, SessionsInvariance, PTL

\* No restart brings back an account that was replaced, or loses the one that was confirmed last.
THEOREM AccountStaysKept == SessionsSpec => []AccountKept
<1>1. SessionsIInv => AccountKept
    BY DEF SessionsIInv, FileLeads, Clearing, Changing, At, AccountKept
<1> QED
    BY <1>1, SessionsInvariance, PTL

----------------------------------------------------------------------------
(* The login as a part of the box.                                         *)

\* No step of the box does anything to the account but what a step of the login does.
LEMMA StepIsSessions == [Next]_vars => [SessionsNext]_svars
<1> SUFFICES ASSUME [Next]_vars PROVE [SessionsNext]_svars
    OBVIOUS
<1>1. CASE AccountRequest
    BY <1>1 DEF AccountRequest, SessionsNext
<1>2. CASE SetCamera \/ SaveCameras \/ SetAp \/ ApplyAp \/ SetHostname \/ WriteHostname
           \/ AddProfile \/ Abandon \/ Sync
    BY <1>2 DEF SetCamera, SaveCameras, SetAp, ApplyAp, SetHostname, WriteHostname,
                AddProfile, Abandon, Sync
<1>3. CASE Load
    BY <1>3 DEF Load, SessionsNext
<1>4. CASE Crash
    BY <1>4 DEF Crash, Down, SessionsNext
<1>5. ASSUME NEW b \in By, BeginReset(b) \/ Reset(b) \/ Reboot(b) PROVE [SessionsNext]_svars
    <2>1. CASE BeginReset(b)
        BY <2>1 DEF BeginReset
    <2>2. CASE Reset(b)
        BY <2>2 DEF Reset, Wipe, WipeAuth, WipeApFiles, StepFails, RebootFails, SessionsNext
    <2>3. CASE Reboot(b)
        BY <2>3 DEF Reboot, Down, SessionsNext
    <2> QED
        BY <1>5, <2>1, <2>2, <2>3
<1>6. CASE UNCHANGED vars
    BY <1>6 DEF vars
<1> QED
    BY <1>1, <1>2, <1>3, <1>4, <1>5, <1>6 DEF Next

THEOREM BoxKeepsSessions == Spec => []SessionsIInv
<1>1. SessionsIInv /\ [Next]_vars => SessionsIInv'
    BY StepIsSessions, SessionsTypeStep, OldEndsStep, FileLeadsStep DEF SessionsIInv
<1> QED
    BY <1>1, SessionsInitSound, PTL DEF Spec, Init

\* Sessions stay current and the account is kept on a box that users work with, that is reset,
\* stops and restarts, too.
THEOREM BoxStaysCurrent == Spec => []SessionsCurrent /\ []AccountKept
<1>1. SessionsIInv => SessionsCurrent /\ AccountKept
    BY DEF SessionsIInv, OldEnds, FileLeads, Clearing, Changing, At, SessionsCurrent, AccountKept
<1> QED
    BY <1>1, BoxKeepsSessions, PTL

----------------------------------------------------------------------------
(* The types of the box.                                                   *)

LEMMA Steps ==
    /\ Len(Step) = 9
    /\ Step[1] = "state" /\ Step[2] = "network" /\ Step[3] = "auth" /\ Step[4] = "profiles"
    /\ Step[5] = "hostname" /\ Step[6] = "hosts" /\ Step[7] = "apfiles" /\ Step[8] = "mapping"
    /\ Step[9] = "reboot"
BY DEF Step

\* A step of a reset that is not the last is followed by another.
LEMMA Advances ==
    ASSUME TypeOK, NEW b \in By, NEW s, s # "reboot", Reached(b, s), Advance(b)
    PROVE  resets' \in [By -> 0..Len(Step)]
<1>1. resets[b] \in 0..9 /\ resets[b] # 9
    BY Steps DEF TypeOK, Reached
<1> QED
    BY <1>1, Steps DEF TypeOK, Advance

LEMMA ApFilesAreParts ==
    ASSUME custom \subseteq Part, NEW own, WriteApFiles(own)
    PROVE  custom' \subseteq Part
BY DEF WriteApFiles, Part

LEMMA TypeStep == TypeOK /\ SessionsTypeOK' /\ [Next]_vars => TypeOK'
<1> SUFFICES ASSUME TypeOK, SessionsTypeOK', [Next]_vars PROVE TypeOK'
    OBVIOUS
<1>0. /\ ops \in 0..MaxOps /\ MaxOps \in Nat
      /\ Op => ops' \in 0..MaxOps
    BY MaxOpsAssumption DEF TypeOK, Op
<1>1. CASE AccountRequest
    <2>1. ops' \in 0..MaxOps
        BY <1>0, <1>1 DEF AccountRequest
    <2> QED
        BY <1>1, <2>1 DEF AccountRequest, Undone, Kept, TypeOK
<1>2. CASE SetCamera \/ SetAp \/ ApplyAp
    BY <1>0, <1>2 DEF SetCamera, SetAp, ApplyAp, Undone, TypeOK, Part
<1>3. CASE SetHostname \/ WriteHostname \/ AddProfile
    BY <1>0, <1>3 DEF SetHostname, WriteHostname, AddProfile, Undone, TypeOK, Part
<1>4. CASE SaveCameras
    BY <1>0, <1>4 DEF SaveCameras, Undone, Kept, TypeOK, Part
<1>5. CASE Abandon
    BY <1>0, <1>5, Steps DEF Abandon, TypeOK
<1>6. CASE Crash
    <2>1. resets' = [b \in By |-> IF b = "cli" THEN resets[b] ELSE 0]
        BY <1>6 DEF Crash
    <2>2. resets' \in [By -> 0..Len(Step)]
        BY <2>1, Steps DEF TypeOK
    <2>3. clean' \subseteq By /\ ops' \in 0..MaxOps
        BY <1>0, <1>6 DEF Crash, TypeOK
    <2> QED
        BY <1>6, <2>2, <2>3 DEF Crash, Down, TypeOK
<1>7. CASE Load
    BY <1>0, <1>7 DEF Load, Kept, TypeOK
<1>8. CASE Sync
    <2>1. custom' \subseteq Part
        BY <1>8, ApFilesAreParts DEF Sync, TypeOK
    <2> QED
        BY <1>8, <2>1 DEF Sync, Undone, Kept, TypeOK
<1>9. ASSUME NEW b \in By, BeginReset(b) PROVE TypeOK'
    BY <1>0, <1>9, Steps DEF BeginReset, TypeOK
<1>10. ASSUME NEW b \in By, NEW p \in Part \ {"apfiles"}, Wipe(b, p) PROVE TypeOK'
    <2>1. resets' \in [By -> 0..Len(Step)]
        BY <1>10, Advances DEF Wipe, Part
    <2> QED
        BY <1>10, <2>1 DEF Wipe, Kept, TypeOK
<1>11. ASSUME NEW b \in By, WipeAuth(b) \/ WipeApFiles(b) PROVE TypeOK'
    <2>1. resets' \in [By -> 0..Len(Step)]
        BY <1>11, Advances DEF WipeAuth, WipeApFiles
    <2>2. custom' \subseteq Part
        BY <1>11, ApFilesAreParts DEF WipeAuth, WipeApFiles, TypeOK
    <2> QED
        BY <1>11, <2>1, <2>2 DEF WipeAuth, WipeApFiles, Kept, TypeOK
<1>12. ASSUME NEW b \in By, StepFails(b) \/ RebootFails(b) PROVE TypeOK'
    <2>1. resets' \in [By -> 0..Len(Step)]
        <3>1. CASE StepFails(b)
            BY <3>1, Steps DEF StepFails, Advance, TypeOK
        <3>2. CASE RebootFails(b)
            BY <3>2, Steps DEF RebootFails, TypeOK
        <3> QED
            BY <1>12, <3>1, <3>2
    <2> QED
        BY <1>0, <1>12, <2>1 DEF StepFails, RebootFails, TypeOK
<1>13. ASSUME NEW b \in By, Reboot(b) PROVE TypeOK'
    <2>1. resets' \in [By -> 0..Len(Step)]
        BY <1>13, Steps DEF Reboot
    <2>2. hotspot' \in BOOLEAN
        <3>1. hotspot' = ("apfiles" \in custom)
            BY <1>13 DEF Reboot
        <3> QED
            BY <3>1
    <2>3. booted' \in BOOLEAN
        <3> DEFINE ends == \E c \in clean : Reached(c, "reboot")
        <3>1. booted' = ends
            BY <1>13 DEF Reboot
        <3>2. ends \in BOOLEAN
            OBVIOUS
        <3> HIDE DEF ends
        <3> QED
            BY <3>1, <3>2
    <2> QED
        BY <1>0, <1>13, <2>1, <2>2, <2>3 DEF Reboot, Down, TypeOK
<1>14. CASE UNCHANGED vars
    BY <1>14 DEF vars, bvars, TypeOK
<1> QED
    BY <1>1, <1>2, <1>3, <1>4, <1>5, <1>6, <1>7, <1>8, <1>9, <1>10, <1>11, <1>12, <1>13, <1>14
    DEF Next, Reset

----------------------------------------------------------------------------
(* What a reset has removed.                                               *)

\* The account that a boot would read is that of the factory.
NoAccount == authfile \in {Absent, Default}

\* By the step it is at, a reset that nothing has undone has removed what comes before.
WipedSoFar ==
    \A b \in clean :
        /\ resets[b] > 1 => "state" \notin custom
        /\ resets[b] > 2 => "network" \notin custom
        /\ resets[b] > 3 => NoAccount
        /\ resets[b] > 4 => "profiles" \notin custom
        /\ resets[b] > 5 => "hostname" \notin custom
        /\ resets[b] > 6 => "hosts" \notin custom
        /\ resets[b] > 7 => "apfiles" \notin custom
        /\ resets[b] > 8 => "mapping" \notin custom

\* After its reboot nothing is left, and nothing comes back without being an undoing.
Forgotten ==
    booted => /\ custom = {} /\ NoAccount /\ ~hotspot
              /\ up => memory = {} /\ creds = Default

ResetIInv == TypeOK /\ SessionsIInv /\ WipedSoFar /\ Forgotten

\* A step that neither starts, advances nor undoes a reset and adds nothing.
LEMMA ShrinkKeeps ==
    ASSUME WipedSoFar, Forgotten, custom' \subseteq custom, clean' \subseteq clean,
           \A b \in clean' : resets'[b] = resets[b],
           NoAccount => NoAccount', booted' = booted, hotspot' = hotspot,
           up' = up \/ up' = FALSE, memory' \subseteq memory, creds' = creds
    PROVE  WipedSoFar' /\ Forgotten'
BY DEF WipedSoFar, Forgotten

LEMMA UndoneKeeps == Undone => WipedSoFar' /\ Forgotten'
BY DEF Undone, WipedSoFar, Forgotten

\* A clean reset that has done its step has removed its part.
LEMMA WipeKeeps ==
    ASSUME TypeOK, WipedSoFar, Forgotten, NEW b \in By,
           \/ \E p \in Part \ {"apfiles"} : Wipe(b, p)
           \/ WipeAuth(b)
           \/ WipeApFiles(b)
    PROVE  WipedSoFar' /\ Forgotten'
<1>1. /\ resets \in [By -> 0..9] /\ clean \subseteq By
      /\ clean' = clean /\ booted' = booted /\ hotspot' = hotspot /\ up' = up
      /\ memory' = memory /\ creds' = creds
    BY Steps DEF TypeOK, Wipe, WipeAuth, WipeApFiles, Kept, AuthWipe, svars
<1>2. NoAccount => NoAccount'
    BY DEF Wipe, WipeAuth, WipeApFiles, AuthWipe, NoAccount, svars
<1>3. resets' = [resets EXCEPT ![b] = @ + 1]
    BY DEF Wipe, WipeAuth, WipeApFiles, Advance
<1>4. /\ \A c \in By : c # b => resets'[c] = resets[c]
      /\ resets'[b] = resets[b] + 1 /\ resets[b] \in 0..9
    BY <1>1, <1>3
<1>5. CASE \E p \in Part \ {"apfiles"} : Wipe(b, p)
    <2>1. PICK p \in Part \ {"apfiles"} : Wipe(b, p)
        BY <1>5
    <2>2. custom' = custom \ {p} /\ resets[b] > 0 /\ Step[resets[b]] = p
        BY <2>1 DEF Wipe, Reached
    <2>3. \/ resets[b] = 1 /\ p = "state"
          \/ resets[b] = 2 /\ p = "network"
          \/ resets[b] = 4 /\ p = "profiles"
          \/ resets[b] = 5 /\ p = "hostname"
          \/ resets[b] = 6 /\ p = "hosts"
          \/ resets[b] = 8 /\ p = "mapping"
        BY <1>4, <2>2, Steps DEF Part
    <2>4. WipedSoFar'
        BY <1>1, <1>2, <1>4, <2>2, <2>3 DEF WipedSoFar
    <2>5. Forgotten'
        BY <1>1, <1>2, <2>2 DEF Forgotten
    <2> QED
        BY <2>4, <2>5
<1>6. CASE WipeAuth(b)
    <2>1. custom' = custom /\ NoAccount' /\ resets[b] > 0 /\ Step[resets[b]] = "auth"
        BY <1>6 DEF WipeAuth, Reached, AuthWipe, NoAccount
    <2>2. resets[b] = 3
        BY <1>4, <2>1, Steps
    <2>3. WipedSoFar'
        BY <1>1, <1>4, <2>1, <2>2 DEF WipedSoFar
    <2>4. Forgotten'
        BY <1>1, <2>1 DEF Forgotten
    <2> QED
        BY <2>3, <2>4
<1>7. CASE WipeApFiles(b)
    <2>1. /\ custom' \subseteq custom \cup {"mapping"} /\ "apfiles" \notin custom'
          /\ "hostname" \notin custom => custom' \subseteq custom
          /\ "hostname" \notin custom => "mapping" \notin custom'
          /\ resets[b] > 0 /\ Step[resets[b]] = "apfiles"
        BY <1>7 DEF WipeApFiles, WriteApFiles, Reached
    <2>2. resets[b] = 7
        BY <1>4, <2>1, Steps
    <2>3. WipedSoFar'
        BY <1>1, <1>2, <1>4, <2>1, <2>2 DEF WipedSoFar
    <2>4. Forgotten'
        BY <1>1, <1>2, <2>1 DEF Forgotten
    <2> QED
        BY <2>3, <2>4
<1> QED
    BY <1>5, <1>6, <1>7

\* The reboot after a clean reset finds nothing left.
LEMMA RebootForgets ==
    ASSUME TypeOK, WipedSoFar, NEW b \in By, Reboot(b)
    PROVE  WipedSoFar' /\ Forgotten'
<1>1. /\ clean' = {} /\ custom' = custom /\ authfile' = authfile /\ ~up'
      /\ hotspot' = ("apfiles" \in custom)
      /\ booted' = \E c \in clean : Reached(c, "reboot")
    BY DEF Reboot, Down, AuthStop, svars
<1>2. ASSUME booted' PROVE custom = {} /\ NoAccount
    <2>1. PICK c \in clean : Reached(c, "reboot")
        BY <1>1, <1>2
    <2>2. resets[c] = 9
        <3>1. resets[c] \in 0..9 /\ resets[c] > 0 /\ Step[resets[c]] = "reboot"
            BY <2>1, Steps DEF TypeOK, Reached
        <3> QED
            BY <3>1, Steps
    <2>3. custom \subseteq Part
        BY DEF TypeOK
    <2> QED
        BY <2>1, <2>2, <2>3 DEF WipedSoFar, Part
<1> QED
    BY <1>1, <1>2 DEF WipedSoFar, Forgotten, NoAccount

LEMMA ResetStep == ResetIInv /\ [Next]_vars => WipedSoFar' /\ Forgotten'
<1> SUFFICES ASSUME ResetIInv, [Next]_vars PROVE WipedSoFar' /\ Forgotten'
    OBVIOUS
<1>0. TypeOK /\ WipedSoFar /\ Forgotten
    BY DEF ResetIInv
<1>1. CASE AccountRequest
    <2>1. CASE authfile' # authfile \/ creds' # creds
        BY <1>1, <2>1, UndoneKeeps DEF AccountRequest
    <2>2. CASE authfile' = authfile /\ creds' = creds
        <3>1. up' = up
            BY <1>1 DEF AccountRequest, AuthStep, Login, Insert, SetAccount, SetCredentials,
                        SaveOpen, Save, SaveFails, Store, Clear, Expire, Validate, Logout,
                        CliPassword
        <3> QED
            BY <1>0, <1>1, <2>2, <3>1, ShrinkKeeps DEF AccountRequest, Kept, NoAccount
    <2> QED
        BY <2>1, <2>2
<1>2. CASE SetCamera \/ SetAp \/ ApplyAp \/ SetHostname \/ WriteHostname \/ AddProfile
    BY <1>2, UndoneKeeps
    DEF SetCamera, SetAp, ApplyAp, SetHostname, WriteHostname, AddProfile
<1>3. CASE SaveCameras
    <2>1. CASE "state" \in memory
        BY <1>3, <2>1, UndoneKeeps DEF SaveCameras
    <2>2. CASE "state" \notin memory
        BY <1>0, <1>3, <2>2, ShrinkKeeps DEF SaveCameras, Kept, NoAccount, svars
    <2> QED
        BY <2>1, <2>2
<1>4. CASE Abandon
    <2>1. /\ custom' \subseteq custom /\ clean' = clean \ {"web"}
          /\ resets' = [resets EXCEPT !["web"] = 0]
          /\ UNCHANGED <<svars, memory, hotspot, booted>>
        BY <1>4 DEF Abandon
    <2>2. \A b \in clean' : resets'[b] = resets[b]
        BY <1>0, <2>1 DEF TypeOK
    <2> QED
        BY <1>0, <2>1, <2>2, ShrinkKeeps DEF NoAccount, svars
<1>5. CASE Crash
    <2>1. /\ custom' = custom /\ memory' = memory /\ hotspot' = hotspot /\ booted' = booted
          /\ clean' = clean \cap {"cli"} /\ up' = FALSE /\ creds' = creds /\ authfile' = authfile
          /\ \A b \in clean' : resets'[b] = resets[b]
        BY <1>0, <1>5 DEF Crash, Down, AuthStop, TypeOK
    <2> QED
        BY <1>0, <2>1, ShrinkKeeps DEF NoAccount
<1>6. CASE Load
    <2>1. /\ custom' = custom /\ memory' = custom \cap {"state", "network"}
          /\ UNCHANGED <<hotspot, resets, clean, booted>>
        BY <1>6 DEF Load, Kept
    <2>2. NoAccount => NoAccount' /\ creds' = Default
        BY <1>6, FileAssumption DEF Load, AuthLoad, NoAccount
    <2> QED
        BY <1>0, <2>1, <2>2 DEF WipedSoFar, Forgotten
<1>7. CASE Sync
    <2>1. CASE custom' \subseteq custom
        BY <1>0, <1>7, <2>1, ShrinkKeeps DEF Sync, Kept, NoAccount, svars
    <2>2. CASE ~(custom' \subseteq custom)
        BY <1>7, <2>2, UndoneKeeps DEF Sync
    <2> QED
        BY <2>1, <2>2
<1>8. ASSUME NEW b \in By, BeginReset(b) PROVE WipedSoFar' /\ Forgotten'
    BY <1>0, <1>8 DEF BeginReset, WipedSoFar, Forgotten, NoAccount, TypeOK, svars
<1>9. ASSUME NEW b \in By, StepFails(b) \/ RebootFails(b) PROVE WipedSoFar' /\ Forgotten'
    <2>1. /\ custom' = custom /\ clean' = clean \ {b}
          /\ UNCHANGED <<svars, memory, hotspot, booted>>
          /\ \A c \in clean' : resets'[c] = resets[c]
        BY <1>0, <1>9 DEF StepFails, RebootFails, Advance, TypeOK
    <2> QED
        BY <1>0, <2>1, ShrinkKeeps DEF NoAccount, svars
<1>10. ASSUME NEW b \in By, Reset(b) PROVE WipedSoFar' /\ Forgotten'
    BY <1>0, <1>9, <1>10, WipeKeeps DEF Reset
<1>11. ASSUME NEW b \in By, Reboot(b) PROVE WipedSoFar' /\ Forgotten'
    BY <1>0, <1>11, RebootForgets
<1>12. CASE UNCHANGED vars
    BY <1>0, <1>12, ShrinkKeeps DEF vars, bvars, svars, NoAccount
<1> QED
    BY <1>1, <1>2, <1>3, <1>4, <1>5, <1>6, <1>7, <1>8, <1>10, <1>11, <1>12 DEF Next

\* The inductive invariant of the box.
THEOREM ResetInvariance == Spec => []ResetIInv
<1>1. Init => ResetIInv
    <2> SUFFICES ASSUME Init PROVE ResetIInv
        OBVIOUS
    <2>1. SessionsIInv
        BY SessionsInitSound DEF Init
    <2>2. resets \in [By -> 0..Len(Step)] /\ ops \in 0..MaxOps
        BY MaxOpsAssumption, Steps DEF Init
    <2>3. TypeOK
        BY <2>1, <2>2 DEF Init, TypeOK, SessionsIInv, Part
    <2> QED
        BY <2>1, <2>3 DEF Init, ResetIInv, WipedSoFar, Forgotten
<1>2. ResetIInv /\ [Next]_vars => ResetIInv'
    <2>1. SessionsIInv /\ [Next]_vars => SessionsIInv'
        BY StepIsSessions, SessionsTypeStep, OldEndsStep, FileLeadsStep DEF SessionsIInv
    <2> QED
        BY <2>1, TypeStep, ResetStep DEF ResetIInv, SessionsIInv
<1> QED
    BY <1>1, <1>2, PTL DEF Spec

\* Every variable of the box keeps its type, also while resets and restarts overlap.
THEOREM BoxTypes == Spec => []TypeOK
<1>1. ResetIInv => TypeOK
    BY DEF ResetIInv
<1> QED
    BY <1>1, ResetInvariance, PTL

\* "Wipes all saved application state and reverts to defaults" (net.rs:749-752): nothing of the
\* user's is left after the reboot of a reset that nothing has undone, on disk, in memory, in the
\* account or on the air, whoever resets, fails, stops and restarts meanwhile, and how often.
THEOREM ResetStaysTotal == Spec => []ResetIsTotal
<1>1. ResetIInv => ResetIsTotal
    BY DEF ResetIInv, Forgotten, ResetIsTotal
<1> QED
    BY <1>1, ResetInvariance, PTL

----------------------------------------------------------------------------
(* The button.                                                             *)

Polls == \E n \in Nat : held = n * POLL_MS

Counted ==
    watching /\ ~late =>
        /\ owed <= 1
        /\ held > 0 => \/ span * POLL_MS >= need_ms
                       \/ held <= (span + 1 - owed) * POLL_MS
        /\ held > 0 => pressed \/ free <= owed

ButtonIInv == ButtonOK /\ Polls /\ (watching => held < need_ms) /\ Counted

\* The button must be held for whole seconds, so for a whole number of polls.
LEMMA WholeSeconds == need_ms \in Nat /\ \E m \in Nat : need_ms = 1000 * m /\ m >= 1
BY HoldAssumption DEF need_ms

\* What a press, the line and the passing of time leave of the account.
LEMMA TimeStep == ButtonIInv /\ (Press \/ Line \/ Tick) => ButtonIInv'
<1> SUFFICES ASSUME ButtonIInv, Press \/ Line \/ Tick PROVE ButtonIInv'
    OBVIOUS
<1> USE WholeSeconds, OwedAssumption DEF ButtonIInv, ButtonOK, Polls, Counted, POLL_MS
<1>1. CASE Press
    BY <1>1 DEF Press
<1>2. CASE Line
    BY <1>2 DEF Line
<1>3. CASE Tick
    <2>1. ButtonOK' /\ Polls' /\ (watching' => held' < need_ms)
        BY <1>3 DEF Tick
    <2>2. CASE owed > 0 \/ late
        BY <1>3, <2>1, <2>2 DEF Tick
    <2>3. CASE owed = 0 /\ ~late
        BY <1>3, <2>1, <2>3 DEF Tick
    <2> QED
        BY <2>2, <2>3
<1> QED
    BY <1>1, <1>2, <1>3

\* What a reading leaves of it.
LEMMA ReadStep == ButtonIInv /\ (ReadReleased \/ ReadActive) => ButtonIInv'
<1> SUFFICES ASSUME ButtonIInv, ReadReleased \/ ReadActive PROVE ButtonIInv'
    OBVIOUS
<1> USE WholeSeconds, OwedAssumption DEF ButtonIInv, ButtonOK, Polls, Counted, POLL_MS
<1>1. CASE ReadReleased
    BY <1>1 DEF ReadReleased
<1>2. CASE ReadActive
    <2>1. held' = held + 200 /\ watching' = (held' < need_ms) /\ owed' = owed - 1 /\ watching /\ pressed
        BY <1>2 DEF ReadActive
    <2>2. Polls'
        <3>1. PICK n \in Nat : held = n * 200
            OBVIOUS
        <3>2. n + 1 \in Nat /\ held' = (n + 1) * 200
            BY <2>1, <3>1
        <3> QED
            BY <3>2
    <2>3. ButtonOK'
        BY <1>2, <2>1, <2>2 DEF ReadActive
    <2>4. Counted'
        BY <1>2, <2>1 DEF ReadActive
    <2> QED
        BY <2>1, <2>2, <2>3, <2>4
<1> QED
    BY <1>1, <1>2

LEMMA RestartStep == ButtonIInv /\ (ButtonStop \/ ButtonStart) => ButtonIInv'
<1> SUFFICES ASSUME ButtonIInv, ButtonStop \/ ButtonStart PROVE ButtonIInv'
    OBVIOUS
<1> USE WholeSeconds, OwedAssumption
<1>1. CASE ButtonStop
    <2>1. ButtonOK' /\ (watching' => held' < need_ms)
        <3>1. watching' \in BOOLEAN /\ UNCHANGED <<held, pressed, readable, free, span, late>> /\
           ~watching'
            BY <1>1 DEF ButtonStop
        <3>2. owed' \in 0..MaxOwed
            BY <1>1 DEF ButtonStop
        <3> QED
            BY <3>1, <3>2, ZenonT(30) DEF ButtonIInv, ButtonOK
    <2>2. Polls' /\ Counted'
        BY <1>1 DEF ButtonStop, ButtonIInv, Polls, Counted
    <2> QED
        BY <2>1, <2>2 DEF ButtonIInv
<1>2. CASE ButtonStart
    <2>1. ButtonOK' /\ (watching' => held' < need_ms)
        <3>1. watching' \in BOOLEAN /\ late' \in BOOLEAN /\ UNCHANGED <<pressed, readable, free,
           span>>
            BY <1>2 DEF ButtonStart
        <3>2. owed' \in 0..MaxOwed /\ held' \in 0..need_ms /\ held' < need_ms
            BY <1>2 DEF ButtonStart
        <3> QED
            BY <3>1, <3>2, ZenonT(30) DEF ButtonIInv, ButtonOK
    <2>2. Polls'
        <3>1. held' = 0 * POLL_MS
            BY <1>2 DEF ButtonStart, POLL_MS
        <3> QED
            BY <3>1 DEF Polls, POLL_MS
    <2>3. Counted'
        BY <1>2 DEF ButtonStart, Counted
    <2> QED
        BY <2>1, <2>2, <2>3 DEF ButtonIInv
<1> QED
    BY <1>1, <1>2

\* The inductive invariant of the button.
THEOREM ButtonInvariance == ButtonSpec => []ButtonIInv
<1>1. ButtonInit => ButtonIInv
    <2> SUFFICES ASSUME ButtonInit PROVE ButtonIInv
        OBVIOUS
    <2>1. ButtonOK /\ held < need_ms
        <3>1. {watching, pressed, readable, late} \subseteq BOOLEAN
            BY DEF ButtonInit
        <3>2. held \in 0..need_ms /\ held < need_ms /\ owed \in 0..MaxOwed /\ free \in 0..2 /\ span \in Nat
            BY WholeSeconds, OwedAssumption DEF ButtonInit
        <3> QED
            BY <3>1, <3>2, ZenonT(30) DEF ButtonOK
    <2>2. held = 0 * POLL_MS /\ Counted
        BY DEF ButtonInit, Counted, POLL_MS
    <2> QED
        BY <2>1, <2>2 DEF ButtonIInv, Polls, POLL_MS
<1>2. ButtonIInv /\ [ButtonNext]_button_vars => ButtonIInv'
    <2>1. ButtonIInv /\ UNCHANGED button_vars => ButtonIInv'
        BY DEF button_vars, ButtonIInv, ButtonOK, Polls, Counted
    <2> QED
        BY <2>1, TimeStep, ReadStep, RestartStep DEF ButtonNext
<1> QED
    BY <1>1, <1>2, PTL DEF ButtonSpec

\* The time held never passes the time to hold (button.rs:59-61), however the readings come.
THEOREM ButtonTypes == ButtonSpec => []ButtonOK
BY ButtonInvariance, PTL DEF ButtonIInv

\* Whatever the time configured, no shorter press resets the box while no reading is late.
THEOREM NoShortReset == ButtonSpec => ResetNeedsHold
<1> DEFINE A == held' >= need_ms /\ held < need_ms => late \/ (span + 1) * POLL_MS >= need_ms
<1>1. ButtonIInv /\ [ButtonNext]_button_vars => [A]_button_vars
    <2> SUFFICES ASSUME ButtonIInv, [ButtonNext]_button_vars, held' >= need_ms, held < need_ms, ~late
                 PROVE  (span + 1) * POLL_MS >= need_ms
        OBVIOUS
    <2> USE WholeSeconds DEF ButtonIInv, ButtonOK
    <2>1. CASE ReadActive
        BY <2>1 DEF ReadActive, Counted, POLL_MS
    <2>2. CASE ~ReadActive
        BY <2>2 DEF ButtonNext, button_vars, Press, Line, Tick, ReadReleased, ButtonStop, ButtonStart
    <2> QED
        BY <2>1, <2>2
<1> QED
    BY <1>1, ButtonInvariance, PTL DEF ButtonSpec, ResetNeedsHold

=============================================================================
