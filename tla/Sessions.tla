------------------------------ MODULE Sessions ------------------------------
(***************************************************************************)
(* The login of the dashboard (src/src/auth.rs): one account, in memory    *)
(* and in auth.toml, and the sessions it has opened.                       *)
(*                                                                         *)
(* No handler awaits between its steps, so none of them is dropped half-   *)
(* way, but the runtime's threads interleave: login verifies under one     *)
(* lock and opens the session under another, set_credentials writes the    *)
(* file, the memory and the sessions in turn.                              *)
(*                                                                         *)
(* The actions say what becomes of these variables; FactoryReset composes  *)
(* them with the rest of the box.                                          *)
(***************************************************************************)
EXTENDS Integers, FiniteSets

CONSTANTS
    Account,     \* the pairs of a user name and a password in use
    Default,     \* admin / password
    Request,     \* the handlers that can be at work at once
    MaxSession   \* bound: sessions open at once

ASSUME AccountAssumption == Default \in Account
ASSUME MaxSessionAssumption == MaxSession \in Nat \ {0}

\* What auth.toml holds when it does not hold an account: nothing, or part of one.
Absent == "absent"
Torn   == "torn"
ASSUME FileAssumption == Absent \notin Account /\ Torn \notin Account

Session == [token : 1..MaxSession, acct : Account, old : BOOLEAN]

VARIABLES
    up,        \* the daemon runs
    creds,     \* Auth.creds
    authfile,  \* auth.toml
    sessions,  \* Auth.sessions
    reqs,      \* the handlers at work
    chosen,    \* the account whose change was confirmed last
    passed,    \* a change ended the sessions while a login was about to open one
    crossed,   \* two changes of the account were ever under way at once
    lost       \* the file was removed, changed behind the daemon, or a write of it cut off

svars == <<up, creds, authfile, sessions, reqs, chosen, passed, crossed, lost>>

SessionsTypeOK ==
    /\ up \in BOOLEAN
    /\ creds \in Account
    /\ authfile \in Account \cup {Absent, Torn}
    /\ sessions \subseteq Session
    /\ reqs \in [Request -> [pc : {"idle", "insert", "save", "saving", "store", "clear"},
                             acct : Account]]
    /\ chosen \in Account
    /\ passed \in BOOLEAN /\ crossed \in BOOLEAN /\ lost \in BOOLEAN

Idle == [pc |-> "idle", acct |-> Default]

SessionsInit ==
    /\ up = TRUE
    /\ creds \in Account /\ authfile = creds /\ chosen = creds
    /\ sessions = {}
    /\ reqs = [r \in Request |-> Idle]
    /\ passed = FALSE /\ crossed = FALSE /\ lost = FALSE

At(r, pc) == reqs[r].pc = pc
Go(r, pc) == reqs' = [reqs EXCEPT ![r].pc = pc]
Changing(r) == reqs[r].pc \in {"save", "saving", "store", "clear"}

Start(r, pc, a) ==
    /\ up /\ At(r, "idle")
    /\ reqs' = [reqs EXCEPT ![r] = [pc |-> pc, acct |-> a]]

\* validate: every request with a cookie drops all the sessions that are too old, and goes on
\* only with one that is left.
Live == {s \in sessions : ~s.old}

Verify(a) == a = creds

\* Handlers that fail to verify change nothing.
Login(r) ==
    /\ \E a \in Account : Verify(a) /\ Start(r, "insert", a)
    /\ UNCHANGED <<up, creds, authfile, sessions, chosen, passed, crossed, lost>>

Tokens == {s.token : s \in sessions}

\* random_hex never repeats a token.
Insert(r) ==
    /\ At(r, "insert") /\ Tokens # 1..MaxSession
    /\ LET k == CHOOSE k \in 1..MaxSession : k \notin Tokens
       IN  sessions' = sessions \cup {[token |-> k, acct |-> reqs[r].acct, old |-> FALSE]}
    /\ Go(r, "idle")
    /\ UNCHANGED <<up, creds, authfile, chosen, passed, crossed, lost>>

\* SESSION_TTL passes.
Expire ==
    /\ \E s \in sessions : ~s.old /\ sessions' = (sessions \ {s}) \cup {[s EXCEPT !.old = TRUE]}
    /\ UNCHANGED <<up, creds, authfile, reqs, chosen, passed, crossed, lost>>

Validate ==
    /\ up
    /\ sessions' = Live
    /\ UNCHANGED <<up, creds, authfile, reqs, chosen, passed, crossed, lost>>

Logout ==
    /\ up
    /\ \E s \in Live : sessions' = Live \ {s}
    /\ UNCHANGED <<up, creds, authfile, reqs, chosen, passed, crossed, lost>>

\* set_account: what set_credentials refuses changes nothing.
SetAccount(r) ==
    /\ Live # {} /\ sessions' = Live
    /\ \E a \in Account : Start(r, "save", a)
    /\ crossed' = (crossed \/ \E q \in Request : Changing(q))
    /\ UNCHANGED <<up, creds, authfile, chosen, passed, lost>>

\* fs::write truncates the file before it writes.
SaveOpen(r) ==
    /\ At(r, "save")
    /\ authfile' = Torn
    /\ Go(r, "saving")
    /\ UNCHANGED <<up, creds, sessions, chosen, passed, crossed, lost>>

Save(r) ==
    /\ At(r, "saving")
    /\ authfile' = reqs[r].acct
    /\ Go(r, "store")
    /\ UNCHANGED <<up, creds, sessions, chosen, passed, crossed, lost>>

\* The error goes to the client; memory and sessions stay as they are.
SaveFails(r) ==
    /\ reqs[r].pc \in {"save", "saving"}
    /\ Go(r, "idle")
    /\ lost' = (lost \/ At(r, "saving"))
    /\ UNCHANGED <<up, creds, authfile, sessions, chosen, passed, crossed>>

Store(r) ==
    /\ At(r, "store")
    /\ creds' = reqs[r].acct
    /\ Go(r, "clear")
    /\ UNCHANGED <<up, authfile, sessions, chosen, passed, crossed, lost>>

\* Mutant: only the sessions that are too old end.
ClearOld(r) ==
    /\ At(r, "clear")
    /\ sessions' = Live
    /\ chosen' = reqs[r].acct
    /\ Go(r, "idle")
    /\ passed' = (passed \/ \E q \in Request : At(q, "insert"))
    /\ UNCHANGED <<up, creds, authfile, crossed, lost>>

Clear(r) ==
    /\ At(r, "clear")
    /\ sessions' = {}
    /\ chosen' = reqs[r].acct
    /\ Go(r, "idle")
    /\ passed' = (passed \/ \E q \in Request : At(q, "insert"))
    /\ UNCHANGED <<up, creds, authfile, crossed, lost>>

SetCredentials(r) == SaveOpen(r) \/ Save(r) \/ SaveFails(r) \/ Store(r) \/ Clear(r)

\* The process ends: what was only in memory is gone, and the client of a change that had
\* begun to write the file cannot tell which account holds now.
AuthStop ==
    /\ up /\ up' = FALSE
    /\ sessions' = {}
    /\ reqs' = [r \in Request |-> Idle]
    /\ lost' = (lost \/ \E r \in Request : reqs[r].pc \in {"saving", "store", "clear"})
    /\ UNCHANGED <<creds, authfile, chosen, passed, crossed>>

\* Mutant: the file that is there is not used.
AuthLoadDefault ==
    /\ ~up /\ up' = TRUE
    /\ creds' = Default /\ authfile' \in {Default, authfile}
    /\ UNCHANGED <<sessions, reqs, chosen, passed, crossed, lost>>

\* Mutant: whatever a file that is there holds is used.
AuthLoadTorn ==
    /\ ~up /\ up' = TRUE
    /\ IF authfile # Absent
         THEN creds' = authfile /\ UNCHANGED authfile
         ELSE creds' = Default /\ authfile' \in {Default, authfile}
    /\ UNCHANGED <<sessions, reqs, chosen, passed, crossed, lost>>

\* Auth::load: without a readable account the default one, which is saved if that works.
AuthLoad ==
    /\ ~up /\ up' = TRUE
    /\ IF authfile \in Account
         THEN creds' = authfile /\ UNCHANGED authfile
         ELSE creds' = Default /\ authfile' \in {Default, authfile}
    /\ UNCHANGED <<sessions, reqs, chosen, passed, crossed, lost>>

\* camera-box reset-password writes the file, from a shell and to its end; a daemon that runs does
\* not read it again.
CliPassword ==
    /\ \E a \in Account : authfile' = a /\ chosen' = a
    /\ lost' = (lost \/ up)
    /\ UNCHANGED <<up, creds, sessions, reqs, passed, crossed>>

\* A factory reset removes the file.
AuthWipe ==
    /\ authfile' = Absent /\ lost' = TRUE
    /\ UNCHANGED <<up, creds, sessions, reqs, chosen, passed, crossed>>

AuthStep ==
    \/ \E r \in Request : Login(r) \/ Insert(r) \/ SetAccount(r) \/ SetCredentials(r)
    \/ Expire \/ Validate \/ Logout \/ CliPassword

\* The login on its own.
SessionsSpec == SessionsInit /\ [][AuthStep \/ AuthStop \/ AuthLoad \/ AuthWipe]_svars

----------------------------------------------------------------------------
(* Properties.                                                             *)

\* Changing the account ends every session of the old one (auth.rs:94): while no change is under
\* way, all the sessions were opened with the account in force. The one exception is a login that
\* verified the old account and had not opened its session yet when the change ended the others.
SessionsCurrent ==
    up /\ ~passed /\ (\A r \in Request : ~Changing(r)) => \A s \in sessions : s.acct = creds

\* The account in force is the one whose change was confirmed last, whatever was restarted in
\* between (auth.rs:3-7): unless two changes crossed, or the file was lost.
AccountKept ==
    up /\ ~crossed /\ ~lost /\ (\A r \in Request : ~Changing(r)) => creds = chosen

=============================================================================
