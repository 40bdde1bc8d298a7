--------------------------- MODULE StreamingProofs ---------------------------
(***************************************************************************)
(* Proofs about the supervisors of the streams (Streaming): that every     *)
(* stream has exactly one, and that a camera which was never enabled in    *)
(* haste is streamed with the settings, and shown with the status, that    *)
(* the registry has.  Any number of cameras, supervisors and disturbances. *)
(***************************************************************************)
EXTENDS Streaming, CameraOpsProofs, SequenceTheorems

-----------------------------------------------------------------------------
(***************************************************************************)
(* The inductive invariant, of a registry reg with supervisors ss, permits *)
(* pt, statuses run and hastily enabled cameras hs.  The cameras of pend   *)
(* are those whose settings have changed and that are still to be notified *)
(* of it; between two steps there are none.                                *)
(***************************************************************************)

DistinctIds(reg) == \A p, q \in DOMAIN reg : reg[p].id = reg[q].id => p = q

Typed(reg, ss, pt, run, hs) ==
    /\ Sound(reg) /\ DistinctIds(reg)
    /\ ss \in Seq(Supervisor)
    /\ pt \in [Path -> BOOLEAN]
    /\ run \in [Path -> BOOLEAN]
    /\ hs \subseteq Path

\* Where a supervisor has set the status, and not cleared it yet.
AfterMark == {"enter", "wait", "exited", "reap_loop", "reap_end"}

Shares(s, p) == s.attached /\ s.path = p
Owns(s, p)   == Shares(s, p) /\ ~s.cancelled

\* What can be said of one supervisor: the camera it belongs to; that it runs
\* with the right settings, or has been notified, or has yet to read them; and
\* that it has told so.
Tied(s, reg) ==
    /\ s.attached => s.path \in DOMAIN reg
    /\ ~s.attached => s.cancelled
    /\ s.notified => s.pc = "wait"
    /\ s.pc = "reap_end" => s.cancelled
    /\ s.attached /\ ~s.cancelled =>
         reg[s.path].streaming /\ s.port = reg[s.path].port

Applied(s, reg, pt, pend) ==
    s.pc \in {"mark", "enter", "wait"} =>
        \/ s.conf = SettingsOf(reg[s.path])
        \/ pt[s.path]
        \/ s.notified
        \/ s.path \in pend

Patient(s, reg, pt, run, pend) ==
    /\ s.cancelled => ~reg[s.path].enabled
    /\ ~s.cancelled => Applied(s, reg, pt, pend)
    /\ ~s.cancelled /\ s.pc \in {"enter", "wait"} => run[s.path]

\* Two supervisors must not share one camera, unless it was enabled in haste; and
\* then only one of them goes on.
Clash(s, t, hs) ==
    /\ s.attached /\ t.attached /\ s.path = t.path
    /\ s.path \notin hs \/ (~s.cancelled /\ ~t.cancelled)

Good(reg, ss, pt, run, hs, pend) ==
    /\ Typed(reg, ss, pt, run, hs)
    /\ \A i \in DOMAIN ss : Tied(ss[i], reg)
    /\ \A i \in DOMAIN ss :
         ss[i].attached /\ ss[i].path \notin hs => Patient(ss[i], reg, pt, run, pend)
    /\ \A i, j \in DOMAIN ss : Clash(ss[i], ss[j], hs) => i = j
    /\ \A p \in Streams(reg) : \E i \in DOMAIN ss : Owns(ss[i], p)
    /\ \A p \in DOMAIN reg \ hs :
         run[p] => \E i \in DOMAIN ss : Shares(ss[i], p) /\ ss[i].pc \in AfterMark

IInv == Good(cams, sups, permit, running, hasty, {}) /\ left \in 0..Budget

-----------------------------------------------------------------------------
\* Sequences of supervisors.

\* The elements of a concatenation are those of its two parts, each at a place of
\* its own.
LEMMA Concatenated ==
    ASSUME NEW S, NEW s \in Seq(S), NEW t \in Seq(S)
    PROVE  /\ s \o t \in Seq(S)
           /\ DOMAIN (s \o t) = 1..(Len(s) + Len(t))
           /\ DOMAIN s = 1..Len(s) /\ DOMAIN t = 1..Len(t)
           /\ Len(s) \in Nat /\ Len(t) \in Nat
           /\ \A i \in DOMAIN s : (s \o t)[i] = s[i]
           /\ \A i \in DOMAIN t : (s \o t)[Len(s) + i] = t[i]
           /\ \A i \in DOMAIN (s \o t) :
                i \in DOMAIN s \/ (i - Len(s) \in DOMAIN t /\ i = Len(s) + (i - Len(s)))
PROOF
  <1>1. /\ s \o t \in Seq(S)
        /\ Len(s \o t) = Len(s) + Len(t)
        /\ \A i \in 1 .. Len(s) + Len(t) :
             (s \o t)[i] = IF i <= Len(s) THEN s[i] ELSE t[i - Len(s)]
    BY ConcatProperties
  <1>2. /\ Len(s) \in Nat /\ DOMAIN s = 1..Len(s)
        /\ Len(t) \in Nat /\ DOMAIN t = 1..Len(t)
        /\ DOMAIN (s \o t) = 1..Len(s \o t)
    BY <1>1, LenProperties
  <1>3. DOMAIN (s \o t) = 1..(Len(s) + Len(t))
    BY <1>1, <1>2
  <1>4. \A i \in DOMAIN s : (s \o t)[i] = s[i]
    BY <1>1, <1>2
  <1>5. ASSUME NEW i \in DOMAIN t
        PROVE  (s \o t)[Len(s) + i] = t[i]
    <2>1. i \in 1..Len(t) /\ Len(s) + i \in 1 .. Len(s) + Len(t)
      BY <1>2
    <2>2. ~ (Len(s) + i <= Len(s)) /\ (Len(s) + i) - Len(s) = i
      BY <2>1, <1>2
    <2> QED
      BY <2>1, <2>2, <1>1
  <1>6. \A i \in DOMAIN (s \o t) :
          i \in DOMAIN s \/ (i - Len(s) \in DOMAIN t /\ i = Len(s) + (i - Len(s)))
    BY <1>2, <1>3
  <1> QED
    BY <1>1, <1>2, <1>3, <1>4, <1>5, <1>6

\* Where the element k of a sequence was before element i was removed.
Was(i, k) == IF k < i THEN k ELSE k + 1

LEMMA Removed ==
    ASSUME NEW S, NEW s \in Seq(S), NEW i \in DOMAIN s
    PROVE  /\ RemoveAt(s, i) \in Seq(S)
           /\ \A k \in DOMAIN RemoveAt(s, i) :
                /\ Was(i, k) \in DOMAIN s \ {i}
                /\ RemoveAt(s, i)[k] = s[Was(i, k)]
           /\ \A k, l \in DOMAIN RemoveAt(s, i) : Was(i, k) = Was(i, l) => k = l
           /\ \A j \in DOMAIN s \ {i} :
                \E k \in DOMAIN RemoveAt(s, i) : Was(i, k) = j
PROOF
  <1> DEFINE n == Len(s)
             l == SubSeq(s, 1, i - 1)
             r == SubSeq(s, i + 1, n)
  <1>1. n \in Nat /\ DOMAIN s = 1..n /\ i \in 1..n
    BY LenProperties
  <1>2. \A k \in 1..n : s[k] \in S
    BY <1>1, ElementOfSeq
  <1> HIDE DEF n
  <1>3. /\ l \in Seq(S) /\ Len(l) = i - 1
        /\ \A k \in 1..(i - 1) : l[k] = s[k]
    <2>1. 1 \in Int /\ i - 1 \in Int /\ \A k \in 1..(i - 1) : s[k] \in S
      BY <1>1, <1>2
    <2>2. /\ l \in Seq(S)
          /\ Len(l) = IF 1 <= i - 1 THEN (i - 1) - 1 + 1 ELSE 0
          /\ \A k \in 1..((i - 1) - 1 + 1) : l[k] = s[1 + k - 1]
      BY <2>1, SubSeqProperties
    <2> HIDE DEF l
    <2> QED
      BY <2>2, <1>1
  <1>4. /\ r \in Seq(S) /\ Len(r) = n - i
        /\ \A k \in 1..(n - i) : r[k] = s[i + k]
    <2>1. i + 1 \in Int /\ n \in Int /\ \A k \in (i + 1)..n : s[k] \in S
      BY <1>1, <1>2
    <2>2. /\ r \in Seq(S)
          /\ Len(r) = IF i + 1 <= n THEN n - (i + 1) + 1 ELSE 0
          /\ \A k \in 1..(n - (i + 1) + 1) : r[k] = s[(i + 1) + k - 1]
      BY <2>1, SubSeqProperties
    <2> HIDE DEF r
    <2> QED
      BY <2>2, <1>1
  <1>5. RemoveAt(s, i) = l \o r
    BY DEF RemoveAt, l, r, n
  <1> HIDE DEF l, r
  <1>6. /\ RemoveAt(s, i) \in Seq(S)
        /\ DOMAIN RemoveAt(s, i) = 1..(n - 1)
        /\ \A k \in 1..(i - 1) : RemoveAt(s, i)[k] = s[k]
        /\ \A k \in 1..(n - i) : RemoveAt(s, i)[(i - 1) + k] = s[i + k]
    <2>1. /\ l \o r \in Seq(S)
          /\ DOMAIN (l \o r) = 1..(Len(l) + Len(r))
          /\ DOMAIN l = 1..Len(l) /\ DOMAIN r = 1..Len(r)
          /\ \A k \in DOMAIN l : (l \o r)[k] = l[k]
          /\ \A k \in DOMAIN r : (l \o r)[Len(l) + k] = r[k]
      <3>1. l \in Seq(S) /\ r \in Seq(S)
        BY <1>3, <1>4
      <3> QED
        BY <3>1, Concatenated
    <2>2. Len(l) + Len(r) = n - 1
      BY <1>1, <1>3, <1>4
    <2> QED
      BY <2>1, <2>2, <1>3, <1>4, <1>5
  <1>7. ASSUME NEW k \in DOMAIN RemoveAt(s, i)
        PROVE  /\ Was(i, k) \in DOMAIN s \ {i}
               /\ RemoveAt(s, i)[k] = s[Was(i, k)]
    <2>1. k \in 1..(n - 1)
      BY <1>6
    <2>2. CASE k < i
      BY <2>1, <2>2, <1>1, <1>6 DEF Was
    <2>3. CASE ~ (k < i)
      <3>1. k - (i - 1) \in 1..(n - i) /\ (i - 1) + (k - (i - 1)) = k
            /\ i + (k - (i - 1)) = k + 1
        BY <2>1, <2>3, <1>1
      <3>2. RemoveAt(s, i)[k] = s[k + 1]
        BY <3>1, <1>6
      <3> QED
        BY <3>2, <2>1, <2>3, <1>1 DEF Was
    <2> QED
      BY <2>2, <2>3
  <1>8. \A k, m \in DOMAIN RemoveAt(s, i) : Was(i, k) = Was(i, m) => k = m
    BY <1>1, <1>6 DEF Was
  <1>9. ASSUME NEW j \in DOMAIN s \ {i}
        PROVE  \E k \in DOMAIN RemoveAt(s, i) : Was(i, k) = j
    <2>1. CASE j < i
      BY <2>1, <1>1, <1>6 DEF Was
    <2>2. CASE ~ (j < i)
      <3>1. j - 1 \in DOMAIN RemoveAt(s, i) /\ Was(i, j - 1) = j
        BY <2>2, <1>1, <1>6 DEF Was
      <3> QED
        BY <3>1
    <2> QED
      BY <2>1, <2>2
  <1> QED
    BY <1>6, <1>7, <1>8, <1>9

LEMMA SupervisorsTyped ==
    ASSUME NEW ss \in Seq(Supervisor)
    PROVE  /\ DOMAIN ss = 1..Len(ss) /\ Len(ss) \in Nat
           /\ \A i \in DOMAIN ss : ss[i] \in Supervisor /\ ss[i].path \in Path
PROOF
  <1>1. DOMAIN ss = 1..Len(ss) /\ Len(ss) \in Nat
    BY LenProperties
  <1>2. \A i \in DOMAIN ss : ss[i] \in Supervisor
    BY <1>1, ElementOfSeq
  <1>3. \A s \in Supervisor : s.path \in Path
    BY DEF Supervisor
  <1> QED
    BY <1>1, <1>2, <1>3

\* A sequence of the elements of a finite set holds each of them once.
LEMMA SetToSeqLists ==
    ASSUME NEW S, IsFiniteSet(S)
    PROVE  /\ Cardinality(S) \in Nat
           /\ SetToSeq(S) \in [1..Cardinality(S) -> S]
           /\ \A k, l \in 1..Cardinality(S) : SetToSeq(S)[k] = SetToSeq(S)[l] => k = l
           /\ \A x \in S : \E k \in 1..Cardinality(S) : SetToSeq(S)[k] = x
PROOF
  <1> DEFINE n == Cardinality(S)
             f == SetToSeq(S)
  <1>1. n \in Nat /\ ExistsBijection(1..n, S)
    BY FS_CardinalityType
  <1>2. \E g \in [1..n -> S] : IsInjective(g)
    BY <1>1 DEF ExistsBijection, Bijection, Injection
  <1>3. f \in [1..n -> S] /\ IsInjective(f)
    BY <1>2 DEF SetToSeq
  <1>4. f \in Injection(1..n, S)
    BY <1>3 DEF Injection
  <1>5. IsFiniteSet(1..n) /\ Cardinality(1..n) = n
    BY <1>1, FS_Interval
  <1> HIDE DEF f
  <1>6. f \in Surjection(1..n, S)
    BY <1>4, <1>5, FS_Injection
  <1> QED
    BY <1>1, <1>3, <1>6 DEF f, IsInjective, Surjection

-----------------------------------------------------------------------------
\* Supervisors that are spawned.

LEMMA NewSupervisorType ==
    ASSUME NEW reg, Sound(reg), NEW p \in Streams(reg)
    PROVE  /\ NewSupervisor(reg[p], p) \in Supervisor
           /\ NewSupervisor(reg[p], p).path = p
           /\ NewSupervisor(reg[p], p).attached = TRUE
           /\ NewSupervisor(reg[p], p).port = reg[p].port
           /\ NewSupervisor(reg[p], p).cancelled = FALSE
           /\ NewSupervisor(reg[p], p).notified = FALSE
           /\ NewSupervisor(reg[p], p).pc = "check"
PROOF
  <1>1. p \in Path /\ reg[p] \in CamRecord
    BY DEF Streams, Sound, IsRegistry, IsPartial
  <1>2. reg[p].port \in Port
    BY <1>1 DEF Streams, Sound, WellFormed, CamRecord
  <1>3. SettingsOf(reg[p]) \in Settings
    BY <1>1 DEF SettingsOf, Settings, CamRecord
  <1> QED
    BY <1>1, <1>2, <1>3 DEF NewSupervisor, Supervisor

\* One supervisor is spawned for each stream that starts.
LEMMA SpawnedShape ==
    ASSUME NEW old, NEW new, Sound(new)
    PROVE  LET started == Streams(new) \ Streams(old)
               new_ones == Spawned(old, new)
           IN
           /\ new_ones \in Seq(Supervisor)
           /\ \A k \in DOMAIN new_ones :
                \E p \in started : new_ones[k] = NewSupervisor(new[p], p)
           /\ \A p \in started :
                \E k \in DOMAIN new_ones : new_ones[k] = NewSupervisor(new[p], p)
           /\ \A k, l \in DOMAIN new_ones : new_ones[k].path = new_ones[l].path => k = l
PROOF
  <1> DEFINE started == Streams(new) \ Streams(old)
             n       == Cardinality(started)
             q       == SetToSeq(started)
             ones    == Spawned(old, new)
  <1>1. IsFiniteSet(started)
    <2>1. started \in SUBSET Path
      BY DEF Streams, Sound, IsRegistry, IsPartial
    <2> QED
      BY <2>1, PathAssumption, FS_Subset
  <1>2. /\ n \in Nat /\ q \in [1..n -> started]
        /\ \A k, l \in 1..n : q[k] = q[l] => k = l
        /\ \A p \in started : \E k \in 1..n : q[k] = p
    BY <1>1, SetToSeqLists
  <1>3. ones = [k \in DOMAIN q |-> NewSupervisor(new[q[k]], q[k])]
    BY DEF Spawned
  <1>4. \A p \in started : /\ NewSupervisor(new[p], p) \in Supervisor
                           /\ NewSupervisor(new[p], p).path = p
    BY NewSupervisorType
  <1> HIDE DEF started, n, q, ones
  <1>5. /\ DOMAIN ones = 1..n
        /\ \A k \in 1..n : q[k] \in started /\ ones[k] = NewSupervisor(new[q[k]], q[k])
    BY <1>2, <1>3
  <1>6. ones \in Seq(Supervisor)
    <2>1. ones = [k \in 1..n |-> ones[k]] /\ \A k \in 1..n : ones[k] \in Supervisor
      BY <1>2, <1>3, <1>4, <1>5
    <2> QED
      BY <2>1, <1>2, IsASeq
  <1>7. \A k \in DOMAIN ones : \E p \in started : ones[k] = NewSupervisor(new[p], p)
    BY <1>5
  <1>8. \A p \in started : \E k \in DOMAIN ones : ones[k] = NewSupervisor(new[p], p)
    BY <1>2, <1>5
  <1>9. ASSUME NEW k \in DOMAIN ones, NEW l \in DOMAIN ones, ones[k].path = ones[l].path
        PROVE  k = l
    <2>1. ones[k].path = q[k] /\ ones[l].path = q[l]
      BY <1>4, <1>5
    <2> QED
      BY <2>1, <1>2, <1>5, <1>9
  <1> QED
    BY <1>6, <1>7, <1>8, <1>9 DEF started, ones

-----------------------------------------------------------------------------
\* Each part of a handler preserves the invariant.

\* reconcile, with the supervisors it spawns: a camera that gets a port had no
\* supervisor but, if it was enabled in haste, one that is leaving.
LEMMA ReconcileGood ==
    ASSUME NEW reg, NEW ss, NEW pt, NEW run, NEW hs, NEW pend,
           Good(reg, ss, pt, run, hs, pend)
    PROVE  Good(Reconcile(reg), ss \o Spawned(reg, Reconcile(reg)), pt, run, hs, pend)
PROOF
  <1> DEFINE new  == Reconcile(reg)
             ones == Spawned(reg, new)
             all  == ss \o ones
             started == Streams(new) \ Streams(reg)
  <1>1. Sound(reg) /\ Sound(new) /\ ss \in Seq(Supervisor) /\ DistinctIds(reg)
    BY ReconcileSound DEF Good, Typed
  <1>2. /\ ones \in Seq(Supervisor)
        /\ \A k \in DOMAIN ones : \E p \in started : ones[k] = NewSupervisor(new[p], p)
        /\ \A p \in started : \E k \in DOMAIN ones : ones[k] = NewSupervisor(new[p], p)
        /\ \A k, l \in DOMAIN ones : ones[k].path = ones[l].path => k = l
    BY <1>1, SpawnedShape
  <1>3. DOMAIN new = DOMAIN reg
    BY ReconcileDomain
  <1>4. \A p \in DOMAIN reg : p \notin Waiting(reg) => new[p] = reg[p]
    BY ReconcileLeaves
  <1>5. started \subseteq Waiting(reg)
    BY <1>3, <1>4 DEF Streams
  <1>6. Streams(reg) \subseteq Streams(new)
    BY <1>3, <1>4 DEF Streams, Waiting
  <1>7. DistinctIds(new)
    <2>1. SameModes(reg, new)
      BY <1>1, ReconcileSameModes
    <2> QED
      BY <2>1, <1>1, <1>3 DEF SameModes, DistinctIds
  <1>8. \A p \in started : /\ NewSupervisor(new[p], p).path = p
                           /\ NewSupervisor(new[p], p).attached = TRUE
                           /\ NewSupervisor(new[p], p).port = new[p].port
                           /\ NewSupervisor(new[p], p).cancelled = FALSE
                           /\ NewSupervisor(new[p], p).notified = FALSE
                           /\ NewSupervisor(new[p], p).pc = "check"
    BY <1>1, NewSupervisorType
  <1> HIDE DEF new, ones, all, started
  <1>9. \A k \in DOMAIN ones :
          /\ ones[k].path \in started /\ ones[k].attached = TRUE
          /\ ones[k].port = new[ones[k].path].port
          /\ ones[k].cancelled = FALSE /\ ones[k].notified = FALSE
          /\ ones[k].pc = "check"
    BY <1>2, <1>8
  <1>10. /\ all \in Seq(Supervisor)
         /\ \A i \in DOMAIN ss : i \in DOMAIN all /\ all[i] = ss[i]
         /\ \A i \in DOMAIN ones : Len(ss) + i \in DOMAIN all /\ all[Len(ss) + i] = ones[i]
         /\ \A i \in DOMAIN all :
              \/ i \in DOMAIN ss
              \/ i - Len(ss) \in DOMAIN ones /\ i = Len(ss) + (i - Len(ss))
    BY <1>1, <1>2, Concatenated DEF all
  <1>11. Typed(new, all, pt, run, hs)
    BY <1>1, <1>7, <1>10 DEF Good, Typed, new
  <1>12. \A s, t : s = t /\ Tied(s, reg) => Tied(t, new)
    BY <1>3, <1>4 DEF Tied, Waiting
  <1>13. ASSUME NEW i \in DOMAIN all
         PROVE  Tied(all[i], new)
    <2>1. CASE i \in DOMAIN ss
      BY <2>1, <1>10, <1>12 DEF Good
    <2>2. CASE i - Len(ss) \in DOMAIN ones /\ i = Len(ss) + (i - Len(ss))
      <3>1. all[i] = ones[i - Len(ss)]
        BY <2>2, <1>10
      <3>2. ones[i - Len(ss)].path \in Streams(new)
        BY <2>2, <1>9 DEF started
      <3> QED
        BY <2>2, <3>1, <3>2, <1>9 DEF Tied, Streams
    <2> QED
      BY <2>1, <2>2, <1>10
  \* Of a camera that waits and was not enabled in haste, no supervisor is left.
  <1>14. ASSUME NEW i \in DOMAIN ss, ss[i].attached, ss[i].path \in Waiting(reg)
         PROVE  ss[i].path \in hs /\ ss[i].cancelled
    BY <1>14 DEF Good, Tied, Patient, Waiting
  <1>15. ASSUME NEW i \in DOMAIN all, all[i].attached, all[i].path \notin hs
         PROVE  Patient(all[i], new, pt, run, pend)
    <2>1. CASE i \in DOMAIN ss
      <3>1. all[i] = ss[i] /\ Patient(ss[i], reg, pt, run, pend) /\ Tied(ss[i], reg)
        BY <2>1, <1>10, <1>15 DEF Good
      <3>2. new[ss[i].path] = reg[ss[i].path]
        BY <2>1, <3>1, <1>4, <1>14, <1>15 DEF Tied
      <3> QED
        BY <3>1, <3>2 DEF Patient, Applied
    <2>2. CASE i - Len(ss) \in DOMAIN ones /\ i = Len(ss) + (i - Len(ss))
      <3>1. all[i] = ones[i - Len(ss)]
        BY <2>2, <1>10
      <3> QED
        BY <2>2, <3>1, <1>9 DEF Patient, Applied
    <2> QED
      BY <2>1, <2>2, <1>10
  <1>16. ASSUME NEW i \in DOMAIN ss, NEW k \in DOMAIN ones
         PROVE  ~Clash(ss[i], ones[k], hs) /\ ~Clash(ones[k], ss[i], hs)
    BY <1>5, <1>9, <1>14 DEF Clash
  <1>17. ASSUME NEW i \in DOMAIN all, NEW j \in DOMAIN all, Clash(all[i], all[j], hs)
         PROVE  i = j
    <2>1. CASE i \in DOMAIN ss /\ j \in DOMAIN ss
      BY <2>1, <1>10, <1>17 DEF Good
    <2>2. CASE i \in DOMAIN ss /\ j \notin DOMAIN ss
      BY <2>2, <1>10, <1>16, <1>17
    <2>3. CASE i \notin DOMAIN ss /\ j \in DOMAIN ss
      BY <2>3, <1>10, <1>16, <1>17
    <2>4. CASE i \notin DOMAIN ss /\ j \notin DOMAIN ss
      <3>1. /\ i - Len(ss) \in DOMAIN ones /\ i = Len(ss) + (i - Len(ss))
            /\ j - Len(ss) \in DOMAIN ones /\ j = Len(ss) + (j - Len(ss))
        BY <2>4, <1>10
      <3>2. ones[i - Len(ss)].path = ones[j - Len(ss)].path
        BY <3>1, <1>10, <1>17 DEF Clash
      <3>3. i - Len(ss) = j - Len(ss)
        BY <3>1, <3>2, <1>2
      <3> QED
        BY <3>1, <3>3
    <2> QED
      BY <2>1, <2>2, <2>3, <2>4
  <1>18. ASSUME NEW p \in Streams(new)
         PROVE  \E i \in DOMAIN all : Owns(all[i], p)
    <2>1. CASE p \in Streams(reg)
      BY <2>1, <1>10 DEF Good
    <2>2. CASE p \in started
      <3>1. PICK k \in DOMAIN ones : ones[k] = NewSupervisor(new[p], p)
        BY <2>2, <1>2
      <3>2. Len(ss) + k \in DOMAIN all /\ Owns(all[Len(ss) + k], p)
        BY <2>2, <3>1, <1>8, <1>10 DEF Owns, Shares
      <3> QED
        BY <3>2
    <2> QED
      BY <2>1, <2>2 DEF started
  <1>19. ASSUME NEW p \in DOMAIN new \ hs, run[p]
         PROVE  \E i \in DOMAIN all : Shares(all[i], p) /\ all[i].pc \in AfterMark
    BY <1>3, <1>10, <1>19 DEF Good
  <1>20. Good(new, all, pt, run, hs, pend)
    BY <1>11, <1>13, <1>15, <1>17, <1>18, <1>19 DEF Good
  <1> QED
    BY <1>20 DEF new, ones, all

\* notify_one: what the settings of p are is now known to its supervisor, or will
\* be when it next waits.
LEMMA NotifyGood ==
    ASSUME NEW reg, NEW ss, NEW run, NEW hs, NEW pend, NEW p \in Path,
           Good(reg, ss, permit, run, hs, pend), NotifyOne(ss, p)
    PROVE  Good(reg, sups', permit', run, hs, pend \ {p})
PROOF
  <1>1. /\ ss \in Seq(Supervisor) /\ DOMAIN ss = 1..Len(ss)
        /\ \A i \in DOMAIN ss : ss[i] \in Supervisor
    BY SupervisorsTyped DEF Good, Typed
  <1>2. permit \in [Path -> BOOLEAN]
    BY DEF Good, Typed
  <1>3. CASE Waiters(ss, p) = {}
    <2>1. sups' = ss /\ permit' = [permit EXCEPT ![p] = TRUE]
      BY <1>3 DEF NotifyOne
    <2>2. /\ permit' \in [Path -> BOOLEAN]
          /\ permit'[p] = TRUE
          /\ \A q \in Path : permit[q] => permit'[q]
      BY <2>1, <1>2
    <2>3. Typed(reg, ss, permit', run, hs)
      BY <2>2 DEF Good, Typed
    <2>4. \A i \in DOMAIN ss : ss[i].path \in Path
      BY <1>1 DEF Supervisor
    <2>5. ASSUME NEW i \in DOMAIN ss, ss[i].attached, ss[i].path \notin hs
          PROVE  Patient(ss[i], reg, permit', run, pend \ {p})
      BY <2>2, <2>4, <2>5 DEF Good, Patient, Applied
    <2> QED
      BY <2>1, <2>3, <2>5 DEF Good
  <1>4. CASE Waiters(ss, p) # {}
    <2> DEFINE w   == Min(Waiters(ss, p))
               new == [ss EXCEPT ![w].notified = TRUE]
    <2>1. w \in Waiters(ss, p)
      <3>1. Waiters(ss, p) \in SUBSET Nat
        BY <1>1, LenProperties DEF Waiters
      <3>2. \E x \in Waiters(ss, p) : \A y \in Waiters(ss, p) : x <= y
        BY <3>1, <1>4, LowestExists
      <3> QED
        BY <3>2 DEF Min
    <2>2. sups' = new /\ permit' = permit
      BY <1>4 DEF NotifyOne
    <2> HIDE DEF w
    <2>3. /\ w \in DOMAIN ss /\ ss[w].path = p /\ ss[w].attached
          /\ ss[w].pc = "wait"
      BY <2>1 DEF Waiters
    <2>4. /\ DOMAIN new = DOMAIN ss
          /\ \A i \in DOMAIN ss : i # w => new[i] = ss[i]
          /\ new[w] = [ss[w] EXCEPT !.notified = TRUE]
      BY <2>3
    <2>5. /\ new[w] \in Supervisor
          /\ new[w].notified = TRUE
          /\ new[w].path = ss[w].path /\ new[w].attached = ss[w].attached
          /\ new[w].port = ss[w].port /\ new[w].cancelled = ss[w].cancelled
          /\ new[w].pc = ss[w].pc /\ new[w].conf = ss[w].conf
      BY <2>3, <2>4, <1>1 DEF Supervisor
    <2>6. new \in Seq(Supervisor)
      BY <2>3, <2>4, <2>5, <1>1, ExceptSeq
    <2> HIDE DEF new
    <2>7. Typed(reg, new, permit, run, hs)
      BY <2>6 DEF Good, Typed
    <2>8. ASSUME NEW i \in DOMAIN new
          PROVE  Tied(new[i], reg)
      <3>1. /\ i \in DOMAIN ss
            /\ \A j \in DOMAIN ss : Tied(ss[j], reg)
        BY <2>4, <2>8 DEF Good
      <3>2. CASE i = w
        BY <3>1, <3>2, <2>3, <2>5 DEF Tied
      <3>3. CASE i # w
        BY <3>1, <3>3, <2>4
      <3> QED
        BY <3>2, <3>3
    <2>9. ASSUME NEW i \in DOMAIN new, new[i].attached, new[i].path \notin hs
          PROVE  Patient(new[i], reg, permit, run, pend \ {p})
      <3>1. CASE i = w
        BY <3>1, <2>3, <2>4, <2>5, <2>9 DEF Good, Patient, Applied
      <3>2. CASE i # w
        <4>1. new[i] = ss[i] /\ i \in DOMAIN ss
          BY <3>2, <2>4
        <4>2. Patient(ss[i], reg, permit, run, pend)
          BY <4>1, <2>9 DEF Good
        <4>3. ss[i].path # p
          BY <4>1, <3>2, <2>3, <2>9 DEF Good, Clash
        <4> QED
          BY <4>1, <4>2, <4>3 DEF Patient, Applied
      <3> QED
        BY <3>1, <3>2
    <2>10. ASSUME NEW i \in DOMAIN new, NEW j \in DOMAIN new, Clash(new[i], new[j], hs)
           PROVE  i = j
      <3>1. Clash(ss[i], ss[j], hs)
        BY <2>3, <2>4, <2>5, <2>10 DEF Clash
      <3> QED
        BY <3>1, <2>4 DEF Good
    <2>11. ASSUME NEW q \in Streams(reg)
           PROVE  \E i \in DOMAIN new : Owns(new[i], q)
      <3>1. PICK i \in DOMAIN ss : Owns(ss[i], q)
        BY DEF Good
      <3>2. Owns(new[i], q)
        BY <3>1, <2>4, <2>5 DEF Owns, Shares
      <3> QED
        BY <3>2, <2>4
    <2>12. ASSUME NEW q \in DOMAIN reg \ hs, run[q]
           PROVE  \E i \in DOMAIN new : Shares(new[i], q) /\ new[i].pc \in AfterMark
      <3>1. PICK i \in DOMAIN ss : Shares(ss[i], q) /\ ss[i].pc \in AfterMark
        BY <2>12 DEF Good
      <3>2. Shares(new[i], q) /\ new[i].pc \in AfterMark
        BY <3>1, <2>4, <2>5 DEF Shares
      <3> QED
        BY <3>2, <2>4
    <2> QED
      BY <2>2, <2>7, <2>8, <2>9, <2>10, <2>11, <2>12 DEF Good
  <1> QED
    BY <1>3, <1>4

\* A supervisor goes on: it stays the one of its camera, and touches the cells
\* of that camera only.
LEMMA StepGood ==
    ASSUME NEW reg, NEW ss, NEW pt, NEW run, NEW hs, NEW pend,
           Good(reg, ss, pt, run, hs, pend),
           NEW i \in DOMAIN ss, NEW t \in Supervisor,
           NEW pt2 \in [Path -> BOOLEAN], NEW run2 \in [Path -> BOOLEAN],
           t.path = ss[i].path, t.attached = ss[i].attached,
           t.port = ss[i].port, t.cancelled = ss[i].cancelled,
           t.notified => t.pc = "wait",
           t.pc = "reap_end" => t.cancelled,
           \A p \in Path : ~Shares(t, p) => pt2[p] = pt[p] /\ run2[p] = run[p],
           t.attached /\ t.path \notin hs =>
             /\ ~t.cancelled => Applied(t, reg, pt2, pend)
             /\ ~t.cancelled /\ t.pc \in {"enter", "wait"} => run2[t.path]
             /\ run2[t.path] => t.pc \in AfterMark
    PROVE  Good(reg, [ss EXCEPT ![i] = t], pt2, run2, hs, pend)
PROOF
  <1> DEFINE new == [ss EXCEPT ![i] = t]
  <1>1. /\ ss \in Seq(Supervisor) /\ DOMAIN ss = 1..Len(ss)
        /\ \A j \in DOMAIN ss : ss[j] \in Supervisor /\ ss[j].path \in Path
    BY SupervisorsTyped DEF Good, Typed
  <1>2. /\ DOMAIN new = DOMAIN ss /\ new[i] = t
        /\ \A j \in DOMAIN ss : j # i => new[j] = ss[j]
    BY <1>1
  <1>3. new \in Seq(Supervisor)
    BY <1>1, ExceptSeq
  <1> HIDE DEF new
  <1>4. Typed(reg, new, pt2, run2, hs)
    BY <1>3 DEF Good, Typed
  <1>5. ASSUME NEW j \in DOMAIN new
        PROVE  Tied(new[j], reg)
    BY <1>2 DEF Good, Tied
  \* Another supervisor does not share its camera with this one.
  <1>6. ASSUME NEW j \in DOMAIN ss, j # i, ss[j].attached, ss[j].path \notin hs
        PROVE  ~Shares(t, ss[j].path)
    BY <1>6 DEF Good, Clash, Shares
  <1>7. ASSUME NEW j \in DOMAIN new, new[j].attached, new[j].path \notin hs
        PROVE  Patient(new[j], reg, pt2, run2, pend)
    <2>1. CASE j = i
      BY <2>1, <1>2, <1>7 DEF Good, Patient
    <2>2. CASE j # i
      <3>1. new[j] = ss[j] /\ j \in DOMAIN ss
        BY <2>2, <1>2
      <3>2. Patient(ss[j], reg, pt, run, pend)
        BY <3>1, <1>7 DEF Good
      <3>3. pt2[ss[j].path] = pt[ss[j].path] /\ run2[ss[j].path] = run[ss[j].path]
        BY <3>1, <2>2, <1>1, <1>6, <1>7
      <3> QED
        BY <3>1, <3>2, <3>3 DEF Patient, Applied
    <2> QED
      BY <2>1, <2>2
  <1>8. ASSUME NEW j \in DOMAIN new, NEW k \in DOMAIN new, Clash(new[j], new[k], hs)
        PROVE  j = k
    <2>1. Clash(ss[j], ss[k], hs)
      BY <1>2, <1>8 DEF Clash
    <2> QED
      BY <2>1, <1>2 DEF Good
  <1>9. ASSUME NEW q \in Streams(reg)
        PROVE  \E j \in DOMAIN new : Owns(new[j], q)
    <2>1. PICK j \in DOMAIN ss : Owns(ss[j], q)
      BY DEF Good
    <2>2. Owns(new[j], q)
      BY <2>1, <1>2 DEF Owns, Shares
    <2> QED
      BY <2>2, <1>2
  <1>10. ASSUME NEW q \in DOMAIN reg \ hs, run2[q]
         PROVE  \E j \in DOMAIN new : Shares(new[j], q) /\ new[j].pc \in AfterMark
    <2>1. CASE Shares(t, q)
      BY <2>1, <1>2, <1>10 DEF Shares
    <2>2. CASE ~Shares(t, q)
      <3>1. q \in Path
        BY DEF Good, Typed, Sound, IsRegistry, IsPartial
      <3>2. run[q]
        BY <3>1, <2>2, <1>10
      <3>3. PICK j \in DOMAIN ss : Shares(ss[j], q) /\ ss[j].pc \in AfterMark
        BY <3>2 DEF Good
      <3>4. j # i
        BY <3>3, <2>2 DEF Shares
      <3> QED
        BY <3>3, <3>4, <1>2
    <2> QED
      BY <2>1, <2>2
  <1>11. Good(reg, new, pt2, run2, hs, pend)
    BY <1>4, <1>5, <1>7, <1>8, <1>9, <1>10 DEF Good
  <1> QED
    BY <1>11 DEF new

\* A cancelled supervisor returns, its status cleared.
LEMMA ReturnGood ==
    ASSUME NEW reg, NEW ss, NEW pt, NEW run, NEW hs, NEW pend,
           Good(reg, ss, pt, run, hs, pend),
           NEW i \in DOMAIN ss, ss[i].cancelled,
           NEW run2 \in [Path -> BOOLEAN],
           \A p \in Path : ~Shares(ss[i], p) => run2[p] = run[p],
           ss[i].attached /\ ss[i].path \notin hs => ~run2[ss[i].path]
    PROVE  Good(reg, RemoveAt(ss, i), pt, run2, hs, pend)
PROOF
  <1> DEFINE new == RemoveAt(ss, i)
  <1>1. /\ ss \in Seq(Supervisor)
        /\ \A j \in DOMAIN ss : ss[j] \in Supervisor /\ ss[j].path \in Path
    BY SupervisorsTyped DEF Good, Typed
  <1>2. /\ new \in Seq(Supervisor)
        /\ \A k \in DOMAIN new :
             Was(i, k) \in DOMAIN ss \ {i} /\ new[k] = ss[Was(i, k)]
        /\ \A k, l \in DOMAIN new : Was(i, k) = Was(i, l) => k = l
        /\ \A j \in DOMAIN ss \ {i} : \E k \in DOMAIN new : Was(i, k) = j
    BY <1>1, Removed
  <1> HIDE DEF new
  <1>3. \A j \in DOMAIN ss \ {i} : \E k \in DOMAIN new : new[k] = ss[j]
    BY <1>2
  <1>4. Typed(reg, new, pt, run2, hs)
    BY <1>2 DEF Good, Typed
  <1>5. \A k \in DOMAIN new : Tied(new[k], reg)
    BY <1>2 DEF Good
  <1>6. ASSUME NEW k \in DOMAIN new, new[k].attached, new[k].path \notin hs
        PROVE  Patient(new[k], reg, pt, run2, pend)
    <2> DEFINE j == Was(i, k)
    <2>1. j \in DOMAIN ss /\ j # i /\ new[k] = ss[j]
      BY <1>2
    <2> HIDE DEF j
    <2>2. Patient(ss[j], reg, pt, run, pend)
      BY <2>1, <1>6 DEF Good
    <2>3. ~Shares(ss[i], ss[j].path)
      BY <2>1, <1>6 DEF Good, Clash, Shares
    <2>4. run2[ss[j].path] = run[ss[j].path]
      BY <2>1, <2>3, <1>1
    <2> QED
      BY <2>1, <2>2, <2>4 DEF Patient, Applied
  <1>7. ASSUME NEW k \in DOMAIN new, NEW l \in DOMAIN new, Clash(new[k], new[l], hs)
        PROVE  k = l
    <2>1. Clash(ss[Was(i, k)], ss[Was(i, l)], hs)
      BY <1>2, <1>7
    <2>2. Was(i, k) = Was(i, l)
      BY <2>1, <1>2 DEF Good
    <2> QED
      BY <2>2, <1>2
  <1>8. ASSUME NEW q \in Streams(reg)
        PROVE  \E k \in DOMAIN new : Owns(new[k], q)
    <2>1. PICK j \in DOMAIN ss : Owns(ss[j], q)
      BY DEF Good
    <2>2. j # i
      BY <2>1 DEF Owns
    <2> QED
      BY <2>1, <2>2, <1>3
  <1>9. ASSUME NEW q \in DOMAIN reg \ hs, run2[q]
        PROVE  \E k \in DOMAIN new : Shares(new[k], q) /\ new[k].pc \in AfterMark
    <2>1. q \in Path
      BY DEF Good, Typed, Sound, IsRegistry, IsPartial
    <2>2. ~Shares(ss[i], q)
      BY <1>9 DEF Shares
    <2>3. run[q]
      BY <2>1, <2>2, <1>9
    <2>4. PICK j \in DOMAIN ss : Shares(ss[j], q) /\ ss[j].pc \in AfterMark
      BY <2>3 DEF Good
    <2>5. j # i
      BY <2>4, <2>2
    <2> QED
      BY <2>4, <2>5, <1>3
  <1>10. Good(reg, new, pt, run2, hs, pend)
    BY <1>4, <1>5, <1>6, <1>7, <1>8, <1>9 DEF Good
  <1> QED
    BY <1>10 DEF new

-----------------------------------------------------------------------------
\* The handlers.

\* Only the streams before it matter for what is spawned.
LEMMA SameSpawned ==
    ASSUME NEW old, NEW mid, NEW new, Streams(new) \ Streams(old) = Streams(new) \ Streams(mid)
    PROVE  Spawned(old, new) = Spawned(mid, new)
BY DEF Spawned

\* Each camera is found by its id.
LEMMA FirstNodeIs ==
    ASSUME NEW reg, Sound(reg), DistinctIds(reg), NEW p \in DOMAIN reg
    PROVE  FirstNode(reg, reg[p].id) = p
PROOF
  <1>1. p \in Nat /\ p <= p
    BY PathAssumption DEF Sound, IsRegistry, IsPartial
  <1>2. \A q \in DOMAIN reg : reg[q].id = reg[p].id => q = p
    BY DEF DistinctIds
  <1> DEFINE First(q) == reg[q].id = reg[p].id /\ \A r \in DOMAIN reg : reg[r].id = reg[p].id => q <= r
  <1>3. First(p)
    BY <1>1, <1>2
  <1>4. \A q \in DOMAIN reg : First(q) => q = p
    BY <1>2
  <1>5. FirstNode(reg, reg[p].id) = CHOOSE q \in DOMAIN reg : First(q)
    BY DEF FirstNode
  <1> HIDE DEF First
  <1> QED
    BY <1>3, <1>4, <1>5

LEMMA AddGood ==
    ASSUME Good(cams, sups, permit, running, hasty, {}),
           NEW p \in Path, NEW dev \in Cabling, NEW rows \in {Empty, Known},
           HandleAdd(p, dev, rows)
    PROVE  Good(cams, sups, permit, running, hasty, {})'
PROOF
  <1> DEFINE c   == NewCamera(dev, rows)
             mid == Put(cams, p, c)
  <1>1. /\ p \in Path \ DOMAIN cams /\ dev \in Device /\ SoundRows(rows)
        /\ dev.id \notin Ids(cams) /\ Sound(cams) /\ DistinctIds(cams)
    BY CablingAssumption, KnownAssumption, EmptySound DEF HandleAdd, Good, Typed, SoundRows
  <1>2. Sound(mid)
    BY <1>1, PutCameraSound
  <1>3. c.id = dev.id /\ c.streaming = FALSE
    BY DEF NewCamera
  <1> HIDE DEF c
  <1>4. /\ DOMAIN mid = DOMAIN cams \cup {p} /\ mid[p] = c
        /\ \A q \in DOMAIN cams : mid[q] = cams[q]
    BY <1>1 DEF Put
  <1>5. cams' = Reconcile(mid)
    BY DEF HandleAdd, AddCamera, c
  <1> HIDE DEF mid
  <1>6. Streams(mid) = Streams(cams)
    BY <1>3, <1>4 DEF Streams
  <1>7. sups' = sups \o Spawned(mid, Reconcile(mid))
    <2>1. sups' = sups \o Spawned(cams, Reconcile(mid))
      BY <1>5 DEF HandleAdd
    <2>2. Spawned(cams, Reconcile(mid)) = Spawned(mid, Reconcile(mid))
      BY <1>6, SameSpawned
    <2> QED
      BY <2>1, <2>2
  <1>8. /\ permit' \in [Path -> BOOLEAN] /\ running' \in [Path -> BOOLEAN]
        /\ hasty' = hasty \ {p} /\ hasty' \subseteq Path
        /\ \A q \in Path : q # p => permit'[q] = permit[q] /\ running'[q] = running[q]
        /\ running'[p] = FALSE
    BY DEF HandleAdd, Good, Typed
  <1>9. DistinctIds(mid)
    <2>1. \A q \in DOMAIN cams : cams[q].id # dev.id
      BY <1>1 DEF Ids
    <2> QED
      BY <2>1, <1>1, <1>3, <1>4 DEF DistinctIds
  <1>10. \A i \in DOMAIN sups : sups[i].attached => sups[i].path \in DOMAIN cams \ {p}
    BY <1>1 DEF Good, Tied
  <1>11. DOMAIN cams \subseteq Path
    BY <1>1 DEF Sound, IsRegistry, IsPartial
  <1>12. Typed(mid, sups, permit', running', hasty')
    BY <1>2, <1>8, <1>9 DEF Good, Typed
  <1>13. \A i \in DOMAIN sups : Tied(sups[i], mid)
    BY <1>4, <1>10 DEF Good, Tied
  <1>14. ASSUME NEW i \in DOMAIN sups, sups[i].attached, sups[i].path \notin hasty'
         PROVE  Patient(sups[i], mid, permit', running', {})
    <2>1. Patient(sups[i], cams, permit, running, {})
      BY <1>8, <1>10, <1>14 DEF Good
    <2> QED
      BY <2>1, <1>4, <1>8, <1>10, <1>11, <1>14 DEF Patient, Applied
  <1>15. \A i, j \in DOMAIN sups : Clash(sups[i], sups[j], hasty') => i = j
    BY <1>8, <1>10 DEF Good, Clash
  <1>16. \A q \in Streams(mid) : \E i \in DOMAIN sups : Owns(sups[i], q)
    BY <1>6 DEF Good
  <1>17. ASSUME NEW q \in DOMAIN mid \ hasty', running'[q]
         PROVE  \E i \in DOMAIN sups : Shares(sups[i], q) /\ sups[i].pc \in AfterMark
    BY <1>4, <1>8, <1>11, <1>17 DEF Good
  <1>18. Good(mid, sups, permit', running', hasty', {})
    BY <1>12, <1>13, <1>14, <1>15, <1>16, <1>17 DEF Good
  <1> QED
    BY <1>18, <1>5, <1>7, ReconcileGood

LEMMA RemoveGood ==
    ASSUME Good(cams, sups, permit, running, hasty, {}),
           NEW p \in Path, HandleRemove(p)
    PROVE  Good(cams, sups, permit, running, hasty, {})'
PROOF
  <1> DEFINE mid == Restrict(cams, DOMAIN cams \ {p})
             ss  == Detach(CancelAll(sups, p), p)
  <1>1. /\ sups \in Seq(Supervisor) /\ DOMAIN sups = 1..Len(sups) /\ Len(sups) \in Nat
        /\ \A i \in DOMAIN sups : sups[i] \in Supervisor /\ sups[i].path \in Path
        /\ Sound(cams) /\ DistinctIds(cams)
    BY SupervisorsTyped DEF Good, Typed
  <1>2. /\ DOMAIN mid = DOMAIN cams \ {p}
        /\ \A q \in DOMAIN cams \ {p} : mid[q] = cams[q]
    BY DEF Restrict
  <1>3. Sound(mid)
    BY <1>1, RestrictSound
  <1>4. DistinctIds(mid)
    BY <1>1, <1>2 DEF DistinctIds
  <1>5. cams' = Reconcile(mid) /\ sups' = ss \o Spawned(mid, Reconcile(mid))
        /\ UNCHANGED <<permit, running, hasty>>
    BY DEF HandleRemove, RemoveCamera
  <1>6. /\ DOMAIN ss = DOMAIN sups
        /\ \A i \in DOMAIN sups : sups[i].path # p => ss[i] = sups[i]
        /\ \A i \in DOMAIN sups : sups[i].path = p =>
             ss[i] = [sups[i] EXCEPT !.cancelled = TRUE, !.attached = FALSE]
    BY <1>1 DEF Detach, CancelAll, Supervisor
  <1>7. \A i \in DOMAIN sups : ss[i].path = sups[i].path
    BY <1>1, <1>6 DEF Supervisor
  <1> HIDE DEF mid, ss
  <1>8. ASSUME NEW i \in DOMAIN sups, sups[i].path = p
        PROVE  /\ ss[i] \in Supervisor /\ ss[i].cancelled = TRUE /\ ss[i].attached = FALSE
               /\ ss[i].path = p /\ ss[i].pc = sups[i].pc /\ ss[i].notified = sups[i].notified
    <2>1. /\ sups[i] \in Supervisor
          /\ ss[i] = [sups[i] EXCEPT !.cancelled = TRUE, !.attached = FALSE]
      BY <1>1, <1>6, <1>8
    <2> QED
      BY <2>1, <1>8 DEF Supervisor
  <1>9. ss \in Seq(Supervisor)
    <2>1. \A i \in 1..Len(sups) : ss[i] \in Supervisor
      BY <1>1, <1>6, <1>8
    <2>2. ss = [i \in 1..Len(sups) |-> ss[i]]
      BY <1>1 DEF ss, Detach, CancelAll
    <2> QED
      BY <2>1, <2>2, <1>1, IsASeq
  <1>10. Typed(mid, ss, permit, running, hasty)
    BY <1>3, <1>4, <1>9 DEF Good, Typed
  <1>11. \A i \in DOMAIN ss : ss[i].attached => sups[i].path # p /\ ss[i] = sups[i]
    BY <1>6, <1>8
  <1>12. \A i \in DOMAIN ss : Tied(ss[i], mid)
    <2> SUFFICES ASSUME NEW i \in DOMAIN ss PROVE Tied(ss[i], mid)
      OBVIOUS
    <2>1. i \in DOMAIN sups /\ Tied(sups[i], cams)
      BY <1>6 DEF Good
    <2>2. CASE sups[i].path = p
      BY <2>1, <2>2, <1>8 DEF Tied
    <2>3. CASE sups[i].path # p
      BY <2>1, <2>3, <1>2, <1>6 DEF Tied
    <2> QED
      BY <2>2, <2>3
  <1>13. ASSUME NEW i \in DOMAIN ss, ss[i].attached, ss[i].path \notin hasty
         PROVE  Patient(ss[i], mid, permit, running, {})
    <2>1. ss[i] = sups[i] /\ sups[i].path # p /\ i \in DOMAIN sups
      BY <1>6, <1>11, <1>13
    <2>2. Patient(sups[i], cams, permit, running, {}) /\ Tied(sups[i], cams)
      BY <2>1, <1>13 DEF Good
    <2>3. mid[sups[i].path] = cams[sups[i].path]
      BY <2>1, <2>2, <1>2, <1>13 DEF Tied
    <2> QED
      BY <2>1, <2>2, <2>3 DEF Patient, Applied
  <1>14. \A i, j \in DOMAIN ss : Clash(ss[i], ss[j], hasty) => i = j
    BY <1>6, <1>11 DEF Good, Clash
  <1>15. ASSUME NEW q \in Streams(mid)
         PROVE  \E i \in DOMAIN ss : Owns(ss[i], q)
    <2>1. q \in Streams(cams) /\ q # p
      BY <1>2 DEF Streams
    <2>2. PICK i \in DOMAIN sups : Owns(sups[i], q)
      BY <2>1 DEF Good
    <2>3. i \in DOMAIN ss /\ ss[i] = sups[i]
      BY <2>1, <2>2, <1>6 DEF Owns, Shares
    <2> QED
      BY <2>2, <2>3
  <1>16. ASSUME NEW q \in DOMAIN mid \ hasty, running[q]
         PROVE  \E i \in DOMAIN ss : Shares(ss[i], q) /\ ss[i].pc \in AfterMark
    <2>1. q \in DOMAIN cams \ hasty /\ q # p
      BY <1>2
    <2>2. PICK i \in DOMAIN sups : Shares(sups[i], q) /\ sups[i].pc \in AfterMark
      BY <2>1, <1>16 DEF Good
    <2>3. i \in DOMAIN ss /\ ss[i] = sups[i]
      BY <2>1, <2>2, <1>6 DEF Shares
    <2> QED
      BY <2>2, <2>3
  <1>17. Good(mid, ss, permit, running, hasty, {})
    BY <1>10, <1>12, <1>13, <1>14, <1>15, <1>16 DEF Good
  <1>18. Good(Reconcile(mid), ss \o Spawned(mid, Reconcile(mid)), permit, running, hasty, {})
    BY <1>17, ReconcileGood
  <1> QED
    BY <1>18, <1>5

LEMMA EnableGood ==
    ASSUME Good(cams, sups, permit, running, hasty, {}),
           NEW p \in Path, SetEnabled(p)
    PROVE  Good(cams, sups, permit, running, hasty, {})'
PROOF
  <1> DEFINE mid == SwitchCamera(cams, cams[p].id, TRUE)
  <1>1. p \in DOMAIN cams /\ Sound(cams) /\ DistinctIds(cams)
    BY DEF SetEnabled, Good, Typed
  <1>2. cams[p] \in CamRecord
    BY <1>1 DEF Sound, IsRegistry, IsPartial
  <1>3. mid = [cams EXCEPT ![p] = [@ EXCEPT !.enabled = TRUE]]
    BY <1>1, FirstNodeIs DEF SwitchCamera, Switched
  <1>4. Sound(mid)
    BY <1>1, SwitchCameraSound
  <1>5. cams' = Reconcile(mid) /\ UNCHANGED <<permit, running>>
    BY DEF SetEnabled, EnableCamera
  <1> HIDE DEF mid
  <1>6. /\ DOMAIN mid = DOMAIN cams
        /\ \A q \in DOMAIN cams : q # p => mid[q] = cams[q]
        /\ mid[p] = [cams[p] EXCEPT !.enabled = TRUE]
    BY <1>1, <1>3
  <1>7. /\ mid[p].id = cams[p].id /\ mid[p].streaming = cams[p].streaming
        /\ mid[p].port = cams[p].port /\ SettingsOf(mid[p]) = SettingsOf(cams[p])
    BY <1>2, <1>6 DEF CamRecord, SettingsOf
  <1>8. Streams(mid) = Streams(cams)
    BY <1>6, <1>7 DEF Streams
  <1>9. sups' = sups \o Spawned(mid, Reconcile(mid))
    <2>1. sups' = sups \o Spawned(cams, Reconcile(mid))
      BY <1>5 DEF SetEnabled
    <2>2. Spawned(cams, Reconcile(mid)) = Spawned(mid, Reconcile(mid))
      BY <1>8, SameSpawned
    <2> QED
      BY <2>1, <2>2
  <1>10. DistinctIds(mid)
    BY <1>1, <1>6, <1>7 DEF DistinctIds
  <1>11. /\ hasty' \subseteq Path /\ hasty \subseteq hasty'
         /\ \A i \in DOMAIN sups : Leaving(i, p) => p \in hasty'
    BY DEF SetEnabled, Good, Typed
  <1>12. Typed(mid, sups, permit, running, hasty')
    BY <1>4, <1>10, <1>11 DEF Good, Typed
  <1>13. ASSUME NEW i \in DOMAIN sups
         PROVE  Tied(sups[i], mid)
    <2>1. Tied(sups[i], cams)
      BY DEF Good
    <2> QED
      BY <2>1, <1>6, <1>7 DEF Tied
  <1>14. ASSUME NEW i \in DOMAIN sups, sups[i].attached, sups[i].path \notin hasty'
         PROVE  Patient(sups[i], mid, permit, running, {})
    <2>1. Patient(sups[i], cams, permit, running, {}) /\ Tied(sups[i], cams)
      BY <1>11, <1>14 DEF Good
    <2>2. sups[i].path = p => ~sups[i].cancelled
      BY <1>11, <1>14 DEF Leaving
    <2> QED
      BY <2>1, <2>2, <1>6, <1>7, <1>14 DEF Patient, Applied, Tied
  <1>15. \A i, j \in DOMAIN sups : Clash(sups[i], sups[j], hasty') => i = j
    BY <1>11 DEF Good, Clash
  <1>16. \A q \in Streams(mid) : \E i \in DOMAIN sups : Owns(sups[i], q)
    BY <1>8 DEF Good
  <1>17. \A q \in DOMAIN mid \ hasty' :
           running[q] => \E i \in DOMAIN sups : Shares(sups[i], q) /\ sups[i].pc \in AfterMark
    BY <1>6, <1>11 DEF Good
  <1>18. Good(mid, sups, permit, running, hasty', {})
    BY <1>12, <1>13, <1>14, <1>15, <1>16, <1>17 DEF Good
  <1> QED
    BY <1>18, <1>5, <1>9, ReconcileGood

LEMMA DisableGood ==
    ASSUME Good(cams, sups, permit, running, hasty, {}),
           NEW p \in Path, SetDisabled(p)
    PROVE  Good(cams, sups, permit, running, hasty, {})'
PROOF
  <1> DEFINE mid == SwitchCamera(cams, cams[p].id, FALSE)
             ss  == CancelAll(sups, p)
  <1>1. /\ p \in DOMAIN cams /\ Sound(cams) /\ DistinctIds(cams)
        /\ sups \in Seq(Supervisor) /\ DOMAIN sups = 1..Len(sups) /\ Len(sups) \in Nat
        /\ \A i \in DOMAIN sups : sups[i] \in Supervisor /\ sups[i].path \in Path
        /\ running \in [Path -> BOOLEAN]
    BY SupervisorsTyped DEF SetDisabled, Good, Typed
  <1>2. cams[p] \in CamRecord
    BY <1>1 DEF Sound, IsRegistry, IsPartial
  <1>3. mid = [cams EXCEPT ![p] = Switched(@, FALSE)]
    BY <1>1, FirstNodeIs DEF SwitchCamera
  <1>4. Sound(mid)
    BY <1>1, SwitchCameraSound
  <1>5. cams' = Reconcile(mid) /\ permit' = permit /\ hasty' = hasty
    BY DEF SetDisabled, EnableCamera
  <1> HIDE DEF mid
  <1>6. /\ DOMAIN mid = DOMAIN cams
        /\ \A q \in DOMAIN cams : q # p => mid[q] = cams[q]
        /\ mid[p] = Switched(cams[p], FALSE)
    BY <1>1, <1>3
  <1>7. /\ mid[p].id = cams[p].id /\ mid[p].streaming = FALSE /\ mid[p].enabled = FALSE
    BY <1>2, <1>6 DEF CamRecord, Switched
  <1>8. p \notin Streams(Reconcile(mid))
    <2>1. p \in DOMAIN mid /\ p \notin Waiting(mid)
      BY <1>1, <1>6, <1>7 DEF Waiting
    <2>2. Reconcile(mid)[p] = mid[p]
      BY <2>1, ReconcileLeaves
    <2> QED
      BY <2>2, <1>7 DEF Streams
  <1>9. Streams(mid) = Streams(cams) \ {p}
    BY <1>6, <1>7 DEF Streams
  <1>10. sups' = ss \o Spawned(mid, Reconcile(mid))
    <2>1. sups' = ss \o Spawned(cams, Reconcile(mid))
      BY <1>5 DEF SetDisabled
    <2>2. Streams(Reconcile(mid)) \ Streams(cams) = Streams(Reconcile(mid)) \ Streams(mid)
      BY <1>8, <1>9
    <2>3. Spawned(cams, Reconcile(mid)) = Spawned(mid, Reconcile(mid))
      BY <2>2, SameSpawned
    <2> QED
      BY <2>1, <2>3
  <1>11. DistinctIds(mid)
    BY <1>1, <1>6, <1>7 DEF DistinctIds
  <1>12. /\ running' \in [Path -> BOOLEAN] /\ running'[p] = FALSE
         /\ \A q \in Path : q # p => running'[q] = running[q]
    BY <1>1 DEF SetDisabled
  <1>13. /\ DOMAIN ss = DOMAIN sups
         /\ \A i \in DOMAIN sups : sups[i].path # p => ss[i] = sups[i]
         /\ \A i \in DOMAIN sups : sups[i].path = p =>
              ss[i] = [sups[i] EXCEPT !.cancelled = TRUE]
    BY DEF CancelAll
  <1>14. ASSUME NEW i \in DOMAIN sups, sups[i].path = p
         PROVE  /\ ss[i] \in Supervisor /\ ss[i].cancelled = TRUE
                /\ ss[i].attached = sups[i].attached /\ ss[i].path = p
                /\ ss[i].pc = sups[i].pc /\ ss[i].notified = sups[i].notified
    <2>1. sups[i] \in Supervisor /\ ss[i] = [sups[i] EXCEPT !.cancelled = TRUE]
      BY <1>1, <1>13, <1>14
    <2> QED
      BY <2>1, <1>14 DEF Supervisor
  <1>15. ss \in Seq(Supervisor)
    <2>1. \A i \in 1..Len(sups) : ss[i] \in Supervisor
      BY <1>1, <1>13, <1>14
    <2>2. ss = [i \in 1..Len(sups) |-> ss[i]]
      BY <1>1 DEF CancelAll
    <2> QED
      BY <2>1, <2>2, <1>1, IsASeq
  <1> HIDE DEF ss
  <1>16. Typed(mid, ss, permit, running', hasty)
    BY <1>4, <1>11, <1>12, <1>15 DEF Good, Typed
  <1>17. ASSUME NEW i \in DOMAIN ss
         PROVE  Tied(ss[i], mid)
    <2>1. i \in DOMAIN sups /\ Tied(sups[i], cams)
      BY <1>13 DEF Good
    <2>2. CASE sups[i].path = p
      BY <2>1, <2>2, <1>1, <1>6, <1>14 DEF Tied
    <2>3. CASE sups[i].path # p
      BY <2>1, <2>3, <1>6, <1>13 DEF Tied
    <2> QED
      BY <2>2, <2>3
  <1>18. ASSUME NEW i \in DOMAIN ss, ss[i].attached, ss[i].path \notin hasty
         PROVE  Patient(ss[i], mid, permit, running', {})
    <2>1. CASE sups[i].path = p
      BY <2>1, <1>7, <1>13, <1>14 DEF Patient
    <2>2. CASE sups[i].path # p
      <3>1. /\ i \in DOMAIN sups /\ ss[i] = sups[i]
            /\ Patient(sups[i], cams, permit, running, {}) /\ Tied(sups[i], cams)
        BY <2>2, <1>13, <1>18 DEF Good
      <3>2. mid[sups[i].path] = cams[sups[i].path] /\ running'[sups[i].path] = running[sups[i].path]
        BY <3>1, <2>2, <1>1, <1>6, <1>12, <1>18 DEF Tied
      <3> QED
        BY <3>1, <3>2 DEF Patient, Applied
    <2> QED
      BY <2>1, <2>2
  <1>19. ASSUME NEW i \in DOMAIN ss, NEW j \in DOMAIN ss, Clash(ss[i], ss[j], hasty)
         PROVE  i = j
    <2>1. \A k \in DOMAIN ss : /\ k \in DOMAIN sups
                               /\ ss[k].path = sups[k].path /\ ss[k].attached = sups[k].attached
                               /\ ~ss[k].cancelled => ~sups[k].cancelled
      BY <1>13, <1>14
    <2>2. Clash(sups[i], sups[j], hasty)
      BY <2>1, <1>19 DEF Clash
    <2> QED
      BY <2>1, <2>2 DEF Good
  <1>20. ASSUME NEW q \in Streams(mid)
         PROVE  \E i \in DOMAIN ss : Owns(ss[i], q)
    <2>1. PICK i \in DOMAIN sups : Owns(sups[i], q)
      BY <1>9 DEF Good
    <2>2. i \in DOMAIN ss /\ ss[i] = sups[i]
      BY <2>1, <1>9, <1>13 DEF Owns, Shares
    <2> QED
      BY <2>1, <2>2
  <1>21. ASSUME NEW q \in DOMAIN mid \ hasty, running'[q]
         PROVE  \E i \in DOMAIN ss : Shares(ss[i], q) /\ ss[i].pc \in AfterMark
    <2>1. q \in DOMAIN cams /\ q \in Path /\ q # p
      BY <1>1, <1>6, <1>12, <1>21 DEF Sound, IsRegistry, IsPartial
    <2>2. running[q]
      BY <2>1, <1>12, <1>21
    <2>3. PICK i \in DOMAIN sups : Shares(sups[i], q) /\ sups[i].pc \in AfterMark
      BY <2>1, <2>2, <1>21 DEF Good
    <2>4. i \in DOMAIN ss /\ ss[i] = sups[i]
      BY <2>1, <2>3, <1>13 DEF Shares
    <2> QED
      BY <2>3, <2>4
  <1>22. Good(mid, ss, permit, running', hasty, {})
    BY <1>16, <1>17, <1>18, <1>19, <1>20, <1>21 DEF Good
  <1> QED
    BY <1>22, <1>5, <1>10, ReconcileGood

\* New settings of p: its supervisor is still to be notified.
LEMMA ChangedGood ==
    ASSUME Good(cams, sups, permit, running, hasty, {}),
           NEW p \in DOMAIN cams, NEW mid, Sound(mid),
           DOMAIN mid = DOMAIN cams,
           \A q \in DOMAIN cams : q # p => mid[q] = cams[q],
           mid[p].id = cams[p].id, mid[p].streaming = cams[p].streaming,
           mid[p].port = cams[p].port, mid[p].enabled = cams[p].enabled
    PROVE  /\ Good(mid, sups, permit, running, hasty, {p})
           /\ ~cams[p].streaming => Good(mid, sups, permit, running, hasty, {})
PROOF
  <1>1. DistinctIds(mid)
    BY DEF Good, Typed, DistinctIds
  <1>2. Typed(mid, sups, permit, running, hasty)
    BY <1>1 DEF Good, Typed
  <1>3. ASSUME NEW i \in DOMAIN sups
        PROVE  Tied(sups[i], mid)
    <2>1. Tied(sups[i], cams)
      BY DEF Good
    <2> QED
      BY <2>1 DEF Tied
  <1>4. ASSUME NEW i \in DOMAIN sups, sups[i].attached, sups[i].path \notin hasty
        PROVE  /\ Patient(sups[i], mid, permit, running, {p})
               /\ ~cams[p].streaming => Patient(sups[i], mid, permit, running, {})
    <2>1. Patient(sups[i], cams, permit, running, {}) /\ Tied(sups[i], cams)
      BY <1>4 DEF Good
    <2>2. CASE sups[i].path = p
      BY <2>1, <2>2, <1>4 DEF Patient, Applied, Tied
    <2>3. CASE sups[i].path # p
      <3>1. mid[sups[i].path] = cams[sups[i].path]
        BY <2>1, <2>3, <1>4 DEF Tied
      <3> QED
        BY <2>1, <3>1 DEF Patient, Applied
    <2> QED
      BY <2>2, <2>3
  <1>5. Streams(mid) = Streams(cams)
    BY DEF Streams
  <1> QED
    BY <1>2, <1>3, <1>4, <1>5 DEF Good

LEMMA ModeGood ==
    ASSUME Good(cams, sups, permit, running, hasty, {}),
           NEW p \in Path, NEW mode \in Mode, SetMode(p, mode)
    PROVE  Good(cams, sups, permit, running, hasty, {})'
PROOF
  <1> DEFINE mid == [cams EXCEPT ![p].mode = mode]
             all == sups \o Spawned(mid, Reconcile(mid))
  <1>1. p \in DOMAIN cams /\ Sound(cams) /\ DistinctIds(cams)
    BY DEF SetMode, Good, Typed
  <1>2. cams[p] \in CamRecord
    BY <1>1 DEF Sound, IsRegistry, IsPartial
  <1>3. Sound(mid)
    BY <1>1, StoreModeSound
  <1>4. cams' = Reconcile(mid) /\ UNCHANGED <<running, hasty>>
    BY <1>1, FirstNodeIs DEF SetMode, ChangeMode
  <1>5. /\ DOMAIN mid = DOMAIN cams
        /\ \A q \in DOMAIN cams : q # p => mid[q] = cams[q]
        /\ mid[p].id = cams[p].id /\ mid[p].streaming = cams[p].streaming
        /\ mid[p].port = cams[p].port /\ mid[p].enabled = cams[p].enabled
    BY <1>1, <1>2 DEF CamRecord
  <1> HIDE DEF mid
  <1>6. Streams(mid) = Streams(cams)
    BY <1>5 DEF Streams
  <1>7. sups \o Spawned(cams, cams') = all
    BY <1>4, <1>6, SameSpawned
  <1>8. CASE cams[p].streaming
    <2>1. Good(mid, sups, permit, running, hasty, {p})
      BY <1>1, <1>3, <1>5, ChangedGood
    <2>2. Good(Reconcile(mid), all, permit, running, hasty, {p})
      BY <2>1, ReconcileGood
    <2>3. NotifyOne(all, p)
      BY <1>7, <1>8 DEF SetMode
    <2> HIDE DEF all
    <2>4. Good(Reconcile(mid), sups', permit', running, hasty, {p} \ {p})
      BY <2>2, <2>3, NotifyGood
    <2>5. {p} \ {p} = {}
      OBVIOUS
    <2> QED
      BY <2>4, <2>5, <1>4
  <1>9. CASE ~cams[p].streaming
    <2>1. Good(mid, sups, permit, running, hasty, {})
      BY <1>1, <1>3, <1>5, <1>9, ChangedGood
    <2>2. Good(Reconcile(mid), all, permit, running, hasty, {})
      BY <2>1, ReconcileGood
    <2>3. sups' = all /\ permit' = permit
      BY <1>7, <1>9 DEF SetMode
    <2> QED
      BY <2>2, <2>3, <1>4
  <1> QED
    BY <1>8, <1>9

LEMMA AuthGood ==
    ASSUME Good(cams, sups, permit, running, hasty, {}),
           NEW p \in Path, NEW auth \in Auth \cup {NoAuth}, SetStreamAuth(p, auth)
    PROVE  Good(cams, sups, permit, running, hasty, {})'
PROOF
  <1> DEFINE mid == ChangeAuth(cams, cams[p].id, auth)
  <1>1. p \in DOMAIN cams /\ Sound(cams) /\ DistinctIds(cams)
    BY DEF SetStreamAuth, Good, Typed
  <1>2. cams[p] \in CamRecord
    BY <1>1 DEF Sound, IsRegistry, IsPartial
  <1>3. Sound(mid)
    BY <1>1, ChangeAuthSound
  <1>4. cams' = mid /\ UNCHANGED <<running, hasty>>
    BY DEF SetStreamAuth
  <1>5. mid = [cams EXCEPT ![p].auth = Filtered(auth)]
    BY <1>1, FirstNodeIs DEF ChangeAuth
  <1> HIDE DEF mid
  <1>6. /\ DOMAIN mid = DOMAIN cams
        /\ \A q \in DOMAIN cams : q # p => mid[q] = cams[q]
        /\ mid[p].id = cams[p].id /\ mid[p].streaming = cams[p].streaming
        /\ mid[p].port = cams[p].port /\ mid[p].enabled = cams[p].enabled
    BY <1>1, <1>2, <1>5 DEF CamRecord
  <1>7. CASE cams[p].streaming
    <2>1. Good(mid, sups, permit, running, hasty, {p})
      BY <1>1, <1>3, <1>6, ChangedGood
    <2>2. NotifyOne(sups, p)
      BY <1>7 DEF SetStreamAuth
    <2>3. Good(mid, sups', permit', running, hasty, {p} \ {p})
      BY <2>1, <2>2, NotifyGood
    <2>4. {p} \ {p} = {}
      OBVIOUS
    <2> QED
      BY <2>3, <2>4, <1>4
  <1>8. CASE ~cams[p].streaming
    <2>1. Good(mid, sups, permit, running, hasty, {})
      BY <1>1, <1>3, <1>6, <1>8, ChangedGood
    <2>2. sups' = sups /\ permit' = permit
      BY <1>8 DEF SetStreamAuth
    <2> QED
      BY <2>1, <2>2, <1>4
  <1> QED
    BY <1>7, <1>8

-----------------------------------------------------------------------------
\* A supervisor's loop.

\* A camera's status is not set while its only supervisor has not set it.
LEMMA StatusUnset ==
    ASSUME Good(cams, sups, permit, running, hasty, {}),
           NEW i \in DOMAIN sups, sups[i].pc \notin AfterMark,
           sups[i].attached, sups[i].path \notin hasty
    PROVE  ~running[sups[i].path]
PROOF
  <1> SUFFICES ASSUME running[sups[i].path] PROVE FALSE
    OBVIOUS
  <1>1. sups[i].path \in DOMAIN cams \ hasty
    BY DEF Good, Tied
  <1>2. PICK j \in DOMAIN sups : Shares(sups[j], sups[i].path) /\ sups[j].pc \in AfterMark
    BY <1>1 DEF Good
  <1>3. i = j
    BY <1>2 DEF Good, Clash, Shares
  <1> QED
    BY <1>2, <1>3

\* What a write of the status changes.
LEMMA StatusWritten ==
    ASSUME Good(cams, sups, permit, running, hasty, {}),
           NEW i \in DOMAIN sups, NEW on \in BOOLEAN, SetRunning(i, on)
    PROVE  /\ running' \in [Path -> BOOLEAN]
           /\ \A p \in Path : ~Shares(sups[i], p) => running'[p] = running[p]
           /\ sups[i].attached => running'[sups[i].path] = on
PROOF
  <1>1. running \in [Path -> BOOLEAN] /\ sups[i].path \in Path
    BY SupervisorsTyped DEF Good, Typed
  <1>2. CASE sups[i].attached
    <2>1. running' = [running EXCEPT ![sups[i].path] = on]
      BY <1>2 DEF SetRunning
    <2> QED
      BY <2>1, <1>1, <1>2 DEF Shares
  <1>3. CASE ~sups[i].attached
    BY <1>1, <1>3 DEF SetRunning
  <1> QED
    BY <1>2, <1>3

ProgramCounter == {"check", "read", "mark", "unmark", "enter", "wait",
                   "exited", "backoff", "reap_loop", "reap_end"}
Child          == {"none", "starting", "serving", "dying", "dead"}

\* A supervisor goes on from a state in which it waits for nothing.
LEMMA GotoGood ==
    ASSUME Good(cams, sups, permit, running, hasty, {}),
           NEW i \in DOMAIN sups, NEW from, NEW to \in ProgramCounter \ {"reap_end"},
           NEW child \in Child, Goto(i, from, to, child), "wait" \notin from,
           to \in {"mark", "enter", "wait"} => from \subseteq {"mark", "enter"},
           UNCHANGED <<cams, hasty>>,
           running' \in [Path -> BOOLEAN],
           \A p \in Path : ~Shares(sups[i], p) => running'[p] = running[p],
           sups[i].attached /\ sups[i].path \notin hasty =>
             /\ running'[sups[i].path] => to \in AfterMark
             /\ to \in {"enter", "wait"} /\ ~sups[i].cancelled => running'[sups[i].path]
    PROVE  Good(cams, sups, permit, running, hasty, {})'
PROOF
  <1> DEFINE t == [sups[i] EXCEPT !.pc = to, !.child = child]
  <1>1. sups[i] \in Supervisor /\ permit \in [Path -> BOOLEAN]
    BY SupervisorsTyped DEF Good, Typed
  <1>2. /\ sups' = [sups EXCEPT ![i] = t] /\ permit' = permit
        /\ sups[i].pc \in from
    BY DEF Goto
  <1>3. sups[i].notified = FALSE
    BY <1>1, <1>2 DEF Good, Tied, Supervisor
  <1>4. /\ t \in Supervisor /\ t.pc = to /\ t.notified = FALSE
        /\ t.path = sups[i].path /\ t.attached = sups[i].attached
        /\ t.port = sups[i].port /\ t.cancelled = sups[i].cancelled
        /\ t.conf = sups[i].conf
    BY <1>1, <1>3 DEF Supervisor, ProgramCounter, Child
  <1> HIDE DEF t
  <1>5. \A p \in Path : ~Shares(t, p) => permit[p] = permit[p] /\ running'[p] = running[p]
    BY <1>4 DEF Shares
  <1>6. ASSUME t.attached, t.path \notin hasty
        PROVE  /\ ~t.cancelled => Applied(t, cams, permit, {})
               /\ ~t.cancelled /\ t.pc \in {"enter", "wait"} => running'[t.path]
               /\ running'[t.path] => t.pc \in AfterMark
    <2>1. Patient(sups[i], cams, permit, running, {})
      BY <1>4, <1>6 DEF Good
    <2>2. ~t.cancelled => Applied(t, cams, permit, {})
      BY <2>1, <1>2, <1>3, <1>4 DEF Patient, Applied
    <2> QED
      BY <2>2, <1>4, <1>6
  <1>7. t.pc # "reap_end"
    BY <1>4
  <1>8. Good(cams, [sups EXCEPT ![i] = t], permit, running', hasty, {})
    BY <1>1, <1>4, <1>5, <1>6, <1>7, StepGood
  <1> QED
    BY <1>2, <1>8

\* A cancelled supervisor returns, the status of its camera being cleared.
LEMMA LeftGood ==
    ASSUME Good(cams, sups, permit, running, hasty, {}),
           NEW i \in DOMAIN sups, NEW from, Return(i, from), sups[i].cancelled,
           UNCHANGED <<cams, hasty>>,
           running' \in [Path -> BOOLEAN],
           \A p \in Path : ~Shares(sups[i], p) => running'[p] = running[p],
           sups[i].attached /\ sups[i].path \notin hasty => ~running'[sups[i].path]
    PROVE  Good(cams, sups, permit, running, hasty, {})'
PROOF
  <1>1. sups' = RemoveAt(sups, i) /\ permit' = permit
    BY DEF Return
  <1>2. Good(cams, RemoveAt(sups, i), permit, running', hasty, {})
    BY ReturnGood
  <1> QED
    BY <1>1, <1>2

\* The steps that go on, or return, without a look at the select!.
LEMMA LoopGood ==
    ASSUME Good(cams, sups, permit, running, hasty, {}),
           NEW i \in DOMAIN sups, UNCHANGED <<cams, hasty>>,
           Check(i) \/ Mark(i) \/ Unmark(i) \/ Register(i) \/ MarkExited(i)
             \/ Backoff(i) \/ Reap(i)
    PROVE  Good(cams, sups, permit, running, hasty, {})'
PROOF
  <1>1. /\ sups[i] \in Supervisor /\ sups[i].child \in Child
        /\ sups[i].cancelled \in BOOLEAN /\ running \in [Path -> BOOLEAN]
    BY SupervisorsTyped DEF Good, Typed, Supervisor, Child
  <1>2. "none" \in Child /\ {"read", "enter", "wait", "backoff", "check"} \subseteq ProgramCounter \ {"reap_end"}
    BY DEF Child, ProgramCounter
  <1>3. \A on \in BOOLEAN : SetRunning(i, on) =>
          /\ running' \in [Path -> BOOLEAN]
          /\ \A p \in Path : ~Shares(sups[i], p) => running'[p] = running[p]
          /\ sups[i].attached => running'[sups[i].path] = on
    BY StatusWritten
  <1>4. sups[i].pc \notin AfterMark /\ sups[i].attached /\ sups[i].path \notin hasty
          => ~running[sups[i].path]
    BY StatusUnset
  <1>5. CASE Check(i)
    <2>1. running' = running
      BY <1>5 DEF Check
    <2>2. CASE sups[i].cancelled
      <3>1. Return(i, {"check"})
        BY <1>5, <2>2 DEF Check
      <3>2. sups[i].pc \notin AfterMark
        BY <3>1 DEF Return, AfterMark
      <3> QED
        BY <3>1, <3>2, <2>1, <2>2, <1>1, <1>4, LeftGood
    <2>3. CASE ~sups[i].cancelled
      <3>1. Goto(i, {"check"}, "read", "none")
        BY <1>5, <2>3 DEF Check
      <3>2. sups[i].pc \notin AfterMark
        BY <3>1 DEF Goto, AfterMark
      <3> QED
        BY <3>1, <3>2, <2>1, <1>1, <1>2, <1>4, GotoGood
    <2> QED
      BY <2>2, <2>3
  <1>6. CASE Mark(i)
    <2>1. Goto(i, {"mark"}, "enter", sups[i].child) /\ SetRunning(i, TRUE)
      BY <1>6 DEF Mark
    <2>2. "enter" \in AfterMark
      BY DEF AfterMark
    <2> QED
      BY <2>1, <2>2, <1>1, <1>2, <1>3, GotoGood
  <1>7. CASE Unmark(i)
    <2>1. Goto(i, {"unmark"}, "backoff", "none") /\ SetRunning(i, FALSE)
      BY <1>7 DEF Unmark
    <2> QED
      BY <2>1, <1>1, <1>2, <1>3, GotoGood
  <1>8. CASE Register(i)
    <2>1. Goto(i, {"enter"}, "wait", sups[i].child) /\ running' = running
      BY <1>8 DEF Register
    <2>2. sups[i].pc = "enter"
      BY <2>1 DEF Goto
    <2>3. sups[i].attached /\ sups[i].path \notin hasty /\ ~sups[i].cancelled => running[sups[i].path]
      BY <2>2 DEF Good, Patient
    <2>4. "wait" \in AfterMark
      BY DEF AfterMark
    <2> QED
      BY <2>1, <2>3, <2>4, <1>1, <1>2, GotoGood
  <1>9. CASE MarkExited(i)
    <2>1. SetRunning(i, FALSE)
      BY <1>9 DEF MarkExited
    <2>2. CASE sups[i].cancelled
      <3>1. Return(i, {"exited"})
        BY <1>9, <2>2 DEF MarkExited
      <3> QED
        BY <3>1, <2>1, <2>2, <1>3, LeftGood
    <2>3. CASE ~sups[i].cancelled
      <3>1. Goto(i, {"exited"}, "backoff", "none")
        BY <1>9, <2>3 DEF MarkExited
      <3> QED
        BY <3>1, <2>1, <1>2, <1>3, GotoGood
    <2> QED
      BY <2>2, <2>3
  <1>10. CASE Backoff(i)
    <2>1. running' = running
      BY <1>10 DEF Backoff
    <2>2. CASE sups[i].cancelled /\ Return(i, {"backoff"})
      <3>1. sups[i].pc \notin AfterMark
        BY <2>2 DEF Return, AfterMark
      <3> QED
        BY <3>1, <2>1, <2>2, <1>1, <1>4, LeftGood
    <2>3. CASE Goto(i, {"backoff"}, "check", "none")
      <3>1. sups[i].pc \notin AfterMark
        BY <2>3 DEF Goto, AfterMark
      <3> QED
        BY <3>1, <2>1, <2>3, <1>1, <1>2, <1>4, GotoGood
    <2> QED
      BY <1>10, <2>2, <2>3 DEF Backoff
  <1>11. CASE Reap(i)
    <2>1. SetRunning(i, FALSE)
      BY <1>11 DEF Reap
    <2>2. CASE Return(i, {"reap_end"})
      <3>1. sups[i].cancelled
        BY <2>2 DEF Return, Good, Tied
      <3> QED
        BY <3>1, <2>1, <2>2, <1>3, LeftGood
    <2>3. CASE Goto(i, {"reap_loop"}, "check", "none")
      BY <2>1, <2>3, <1>2, <1>3, GotoGood
    <2> QED
      BY <1>11, <2>2, <2>3 DEF Reap
  <1> QED
    BY <1>5, <1>6, <1>7, <1>8, <1>9, <1>10, <1>11

\* A child is started with the settings of that moment.
LEMMA SpawnGood ==
    ASSUME Good(cams, sups, permit, running, hasty, {}),
           NEW i \in DOMAIN sups, UNCHANGED <<cams, hasty>>, Spawn(i)
    PROVE  Good(cams, sups, permit, running, hasty, {})'
PROOF
  <1> DEFINE conf == IF sups[i].attached THEN SettingsOf(cams[sups[i].path]) ELSE sups[i].conf
             t    == [sups[i] EXCEPT !.pc = "mark", !.child = "starting", !.conf = conf]
  <1>1. /\ sups[i] \in Supervisor /\ permit \in [Path -> BOOLEAN]
        /\ running \in [Path -> BOOLEAN] /\ Sound(cams)
    BY SupervisorsTyped DEF Good, Typed
  <1>2. conf \in Settings
    <2>1. sups[i].attached => cams[sups[i].path] \in CamRecord
      BY <1>1 DEF Good, Tied, Sound, IsRegistry, IsPartial
    <2>2. \A c \in CamRecord : SettingsOf(c) \in Settings
      BY DEF SettingsOf, Settings, CamRecord
    <2> QED
      BY <2>1, <2>2, <1>1 DEF Supervisor
  <1>3. /\ sups[i].pc = "read" /\ sups' = [sups EXCEPT ![i] = t]
        /\ permit' = permit /\ running' = running
    BY DEF Spawn
  <1>4. sups[i].notified = FALSE
    BY <1>1, <1>3 DEF Good, Tied, Supervisor
  <1>5. sups[i].attached => conf = SettingsOf(cams[sups[i].path])
    OBVIOUS
  <1> HIDE DEF conf
  <1>6. /\ t \in Supervisor /\ t.pc = "mark" /\ t.notified = FALSE
        /\ t.path = sups[i].path /\ t.attached = sups[i].attached
        /\ t.port = sups[i].port /\ t.cancelled = sups[i].cancelled
        /\ t.conf = conf
    BY <1>1, <1>2, <1>4 DEF Supervisor
  <1> HIDE DEF t
  <1>7. ASSUME t.attached, t.path \notin hasty
        PROVE  /\ ~t.cancelled => Applied(t, cams, permit, {})
               /\ ~t.cancelled /\ t.pc \in {"enter", "wait"} => running[t.path]
               /\ running[t.path] => t.pc \in AfterMark
    <2>1. ~running[sups[i].path]
      BY <1>3, <1>6, <1>7, StatusUnset DEF AfterMark
    <2> QED
      BY <2>1, <1>5, <1>6, <1>7 DEF Applied
  <1>8. Good(cams, [sups EXCEPT ![i] = t], permit, running, hasty, {})
    BY <1>1, <1>6, <1>7, StepGood
  <1> QED
    BY <1>3, <1>8

\* Something happens to the child only.
LEMMA ChildGood ==
    ASSUME Good(cams, sups, permit, running, hasty, {}),
           NEW i \in DOMAIN sups, NEW child \in Child,
           sups' = [sups EXCEPT ![i].child = child],
           UNCHANGED <<cams, permit, running, hasty>>
    PROVE  Good(cams, sups, permit, running, hasty, {})'
PROOF
  <1> DEFINE t == [sups[i] EXCEPT !.child = child]
  <1>1. /\ sups[i] \in Supervisor /\ permit \in [Path -> BOOLEAN]
        /\ running \in [Path -> BOOLEAN]
    BY SupervisorsTyped DEF Good, Typed
  <1>2. sups' = [sups EXCEPT ![i] = t]
    OBVIOUS
  <1>3. /\ t \in Supervisor /\ t.pc = sups[i].pc /\ t.notified = sups[i].notified
        /\ t.path = sups[i].path /\ t.attached = sups[i].attached
        /\ t.port = sups[i].port /\ t.cancelled = sups[i].cancelled
        /\ t.conf = sups[i].conf
    BY <1>1 DEF Supervisor, Child
  <1> HIDE DEF t
  <1>4. Tied(sups[i], cams)
    BY DEF Good
  <1>5. ASSUME t.attached, t.path \notin hasty
        PROVE  /\ ~t.cancelled => Applied(t, cams, permit, {})
               /\ ~t.cancelled /\ t.pc \in {"enter", "wait"} => running[t.path]
               /\ running[t.path] => t.pc \in AfterMark
    <2>1. Patient(sups[i], cams, permit, running, {})
      BY <1>3, <1>5 DEF Good
    <2>2. sups[i].pc \notin AfterMark => ~running[sups[i].path]
      BY <1>3, <1>5, StatusUnset
    <2> QED
      BY <2>1, <2>2, <1>3 DEF Patient, Applied
  <1>6. (t.notified => t.pc = "wait") /\ (t.pc = "reap_end" => t.cancelled)
    BY <1>3, <1>4 DEF Tied
  <1>7. Good(cams, [sups EXCEPT ![i] = t], permit, running, hasty, {})
    BY <1>1, <1>3, <1>5, <1>6, StepGood
  <1> QED
    BY <1>2, <1>7

\* The select! is left for a dead child or a cancellation; a notification that
\* the supervisor was chosen for is passed on.
LEMMA LeaveGood ==
    ASSUME Good(cams, sups, permit, running, hasty, {}),
           NEW i \in DOMAIN sups, sups[i].pc \in InSelect,
           NEW to \in {"exited", "reap_end"}, NEW child \in Child,
           to = "reap_end" => sups[i].cancelled,
           LeaveSelect(i, to, child), UNCHANGED <<cams, running, hasty>>
    PROVE  Good(cams, sups, permit, running, hasty, {})'
PROOF
  <1> DEFINE t == [sups[i] EXCEPT !.pc = to, !.child = child, !.notified = FALSE]
             ss == [sups EXCEPT ![i] = t]
  <1>1. /\ sups[i] \in Supervisor /\ permit \in [Path -> BOOLEAN]
        /\ running \in [Path -> BOOLEAN] /\ sups[i].path \in Path
    BY SupervisorsTyped DEF Good, Typed
  <1>2. /\ t \in Supervisor /\ t.pc = to /\ t.notified = FALSE
        /\ t.path = sups[i].path /\ t.attached = sups[i].attached
        /\ t.port = sups[i].port /\ t.cancelled = sups[i].cancelled
    BY <1>1 DEF Supervisor, Child
  <1>3. IF sups[i].notified /\ sups[i].attached
        THEN NotifyOne(ss, sups[i].path)
        ELSE sups' = ss /\ permit' = permit
    BY DEF LeaveSelect
  <1> HIDE DEF t
  <1>4. to \in AfterMark
    BY DEF AfterMark
  <1>5. ~t.cancelled => Applied(t, cams, permit, {})
    BY <1>2 DEF Applied
  <1>6. Good(cams, ss, permit, running, hasty, {})
    BY <1>1, <1>2, <1>4, <1>5, StepGood
  <1> HIDE DEF ss
  <1>7. CASE sups[i].notified /\ sups[i].attached
    <2>1. Good(cams, sups', permit', running, hasty, {} \ {sups[i].path})
      BY <1>1, <1>3, <1>6, <1>7, NotifyGood
    <2>2. {} \ {sups[i].path} = {}
      OBVIOUS
    <2> QED
      BY <2>1, <2>2
  <1>8. CASE ~(sups[i].notified /\ sups[i].attached)
    BY <1>3, <1>6, <1>8
  <1> QED
    BY <1>7, <1>8

\* The child is to be restarted: the supervisor will read the settings anew.
LEMMA RestartGood ==
    ASSUME Good(cams, sups, permit, running, hasty, {}),
           NEW i \in DOMAIN sups, SelectRestart(i), UNCHANGED <<cams, hasty>>
    PROVE  Good(cams, sups, permit, running, hasty, {})'
PROOF
  <1> DEFINE t == [sups[i] EXCEPT !.pc = "reap_loop", !.notified = FALSE,
                                  !.child = Killed(sups[i].child)]
  <1>1. /\ sups[i] \in Supervisor /\ permit \in [Path -> BOOLEAN]
        /\ running \in [Path -> BOOLEAN] /\ sups[i].path \in Path
    BY SupervisorsTyped DEF Good, Typed
  <1>2. Killed(sups[i].child) \in Child
    BY <1>1 DEF Killed, Child, Supervisor
  <1>3. /\ t \in Supervisor /\ t.pc = "reap_loop" /\ t.notified = FALSE
        /\ t.path = sups[i].path /\ t.attached = sups[i].attached
        /\ t.port = sups[i].port /\ t.cancelled = sups[i].cancelled
    BY <1>1, <1>2 DEF Supervisor, Child
  <1>4. /\ sups' = [sups EXCEPT ![i] = t] /\ running' = running
        /\ permit' = [permit EXCEPT ![sups[i].path] = @ /\ sups[i].pc = "wait"]
        /\ sups[i].pc \in InSelect /\ Notified(i)
    BY DEF SelectRestart
  <1> HIDE DEF t
  <1>5. permit' \in [Path -> BOOLEAN]
    <2>1. (permit[sups[i].path] /\ sups[i].pc = "wait") \in BOOLEAN
      OBVIOUS
    <2> QED
      BY <2>1, <1>1, <1>4
  \* A supervisor that shares no cells waits, and is no reason to take a permit.
  <1>6. ASSUME NEW p \in Path, ~Shares(t, p)
        PROVE  permit'[p] = permit[p]
    <2>1. CASE p # sups[i].path
      BY <2>1, <1>1, <1>4
    <2>2. CASE p = sups[i].path
      <3>1. sups[i].pc = "wait"
        BY <2>2, <1>3, <1>4, <1>6 DEF Shares, Notified
      <3>2. permit'[p] = (permit[p] /\ sups[i].pc = "wait")
        BY <2>2, <1>1, <1>4
      <3>3. permit[p] \in BOOLEAN
        BY <1>1
      <3> QED
        BY <3>1, <3>2, <3>3
    <2> QED
      BY <2>1, <2>2
  <1>7. t.pc \in AfterMark
    BY <1>3 DEF AfterMark
  <1>8. ~t.cancelled => Applied(t, cams, permit', {})
    BY <1>3 DEF Applied
  <1>9. Good(cams, [sups EXCEPT ![i] = t], permit', running, hasty, {})
    BY <1>1, <1>3, <1>5, <1>6, <1>7, <1>8, StepGood
  <1> QED
    BY <1>4, <1>9

-----------------------------------------------------------------------------
\* The invariant holds.

LEMMA InitGood == Init => IInv
PROOF
  <1> SUFFICES ASSUME Init PROVE IInv
    OBVIOUS
  <1>1. cams = Empty /\ DOMAIN cams = {}
    BY DEF Init, Empty
  <1>2. sups = <<>> /\ DOMAIN sups = {} /\ sups \in Seq(Supervisor)
    BY EmptySeq DEF Init
  <1>3. Typed(cams, sups, permit, running, hasty)
    BY <1>1, <1>2, EmptySound DEF Init, Typed, DistinctIds
  <1>4. Streams(cams) = {}
    BY <1>1 DEF Streams
  <1>5. Good(cams, sups, permit, running, hasty, {})
    BY <1>1, <1>2, <1>3, <1>4 DEF Good
  <1> QED
    BY <1>5, BudgetAssumption DEF IInv, Init

LEMMA HandlerGood ==
    ASSUME Good(cams, sups, permit, running, hasty, {}), HandlerStep
    PROVE  Good(cams, sups, permit, running, hasty, {})'
BY AddGood, RemoveGood, EnableGood, DisableGood, ModeGood, AuthGood DEF HandlerStep

LEMMA SupervisorGood ==
    ASSUME Good(cams, sups, permit, running, hasty, {}),
           NEW i \in DOMAIN sups, SupervisorStep(i)
    PROVE  Good(cams, sups, permit, running, hasty, {})'
PROOF
  <1>1. UNCHANGED <<cams, hasty>>
    BY DEF SupervisorStep
  <1>2. sups[i].child \in Child
    BY SupervisorsTyped DEF Good, Typed, Supervisor, Child
  <1>3. CASE Spawn(i)
    BY <1>1, <1>3, SpawnGood
  <1>4. CASE SelectExit(i)
    <2>1. "none" \in Child
      BY DEF Child
    <2>2. /\ sups[i].pc \in InSelect /\ LeaveSelect(i, "exited", "none")
          /\ running' = running
      BY <1>4 DEF SelectExit
    <2> QED
      BY <1>1, <2>1, <2>2, LeaveGood
  <1>5. CASE SelectCancel(i)
    <2>1. Killed(sups[i].child) \in Child
      BY <1>2 DEF Killed, Child
    <2>2. /\ sups[i].pc \in InSelect /\ sups[i].cancelled
          /\ LeaveSelect(i, "reap_end", Killed(sups[i].child))
          /\ running' = running
      BY <1>5 DEF SelectCancel
    <2> QED
      BY <1>1, <2>1, <2>2, LeaveGood
  <1>6. CASE SelectRestart(i)
    BY <1>1, <1>6, RestartGood
  <1>7. CASE Check(i) \/ Mark(i) \/ Unmark(i) \/ Register(i) \/ MarkExited(i)
               \/ Backoff(i) \/ Reap(i)
    BY <1>1, <1>7, LoopGood
  <1> QED
    BY <1>3, <1>4, <1>5, <1>6, <1>7 DEF SupervisorStep

LEMMA SpawnFailsGood ==
    ASSUME Good(cams, sups, permit, running, hasty, {}),
           NEW i \in DOMAIN sups, SpawnFails(i)
    PROVE  Good(cams, sups, permit, running, hasty, {})'
PROOF
  <1>1. /\ Goto(i, {"read"}, "unmark", "none")
        /\ UNCHANGED <<cams, hasty>> /\ running' = running
    BY DEF SpawnFails
  <1>2. "none" \in Child /\ "unmark" \in ProgramCounter \ {"reap_end"}
    BY DEF Child, ProgramCounter
  <1>3. sups[i].pc \notin AfterMark
    BY <1>1 DEF Goto, AfterMark
  <1>4. sups[i].attached /\ sups[i].path \notin hasty => ~running[sups[i].path]
    BY <1>3, StatusUnset
  <1>5. running \in [Path -> BOOLEAN]
    BY DEF Good, Typed
  <1> QED
    BY <1>1, <1>2, <1>4, <1>5, GotoGood

LEMMA KernelGood ==
    ASSUME Good(cams, sups, permit, running, hasty, {}),
           NEW i \in DOMAIN sups, Bind(i) \/ Die(i) \/ ChildCrashes(i)
    PROVE  Good(cams, sups, permit, running, hasty, {})'
PROOF
  <1>1. "dead" \in Child /\ "serving" \in Child
    BY DEF Child
  <1>2. UNCHANGED <<cams, permit, running, hasty>>
    BY DEF Bind, Die, ChildCrashes
  <1>3. \/ sups' = [sups EXCEPT ![i].child = "dead"]
        \/ sups' = [sups EXCEPT ![i].child = "serving"]
    BY DEF Bind, Die, ChildCrashes
  <1> QED
    BY <1>1, <1>2, <1>3, ChildGood

LEMMA StepKeepsBudget == IInv /\ [Next]_vars => (left \in 0..Budget)'
PROOF
  <1> SUFFICES ASSUME IInv, [Next]_vars PROVE left' \in 0..Budget
    OBVIOUS
  <1>1. left \in 0..Budget
    BY DEF IInv
  <1>2. CASE Disturb
    BY <1>1, <1>2, BudgetAssumption DEF Disturb
  <1>3. CASE UNCHANGED left
    BY <1>1, <1>3
  <1> QED
    BY <1>2, <1>3 DEF Next, vars, HandlerStep, HandleAdd, HandleRemove, SetEnabled,
         SetDisabled, SetMode, SetStreamAuth, SupervisorStep, SpawnFails, Bind, Die,
         ChildCrashes

\* The inductive invariant: which camera each supervisor belongs to, what it runs
\* with, and what it has told, under every interleaving of handlers, supervisors,
\* children and failures.
THEOREM SupervisionInvariance == Spec => []IInv
PROOF
  <1>1. Init => IInv
    BY InitGood
  <1>2. IInv /\ [Next]_vars => IInv'
    <2> SUFFICES ASSUME IInv, [Next]_vars PROVE IInv'
      OBVIOUS
    <2>1. Good(cams, sups, permit, running, hasty, {})
      BY DEF IInv
    <2>2. ASSUME HandlerStep PROVE Good(cams, sups, permit, running, hasty, {})'
      BY <2>1, <2>2, HandlerGood
    <2>3. ASSUME NEW i \in DOMAIN sups,
                 SupervisorStep(i) \/ SpawnFails(i) \/ Bind(i) \/ Die(i) \/ ChildCrashes(i)
          PROVE  Good(cams, sups, permit, running, hasty, {})'
      BY <2>1, <2>3, SupervisorGood, SpawnFailsGood, KernelGood
    <2>4. ASSUME UNCHANGED vars PROVE Good(cams, sups, permit, running, hasty, {})'
      BY <2>1, <2>4 DEF vars
    <2>5. Good(cams, sups, permit, running, hasty, {})'
      BY <2>2, <2>3, <2>4 DEF Next
    <2> QED
      BY <2>5, StepKeepsBudget DEF IInv
  <1> QED
    BY <1>1, <1>2, PTL DEF Spec

\* The types of the supervisors and of the cells they share.
THEOREM StreamingTypes == Spec => []TypeOK
PROOF
  <1>1. IInv => TypeOK
    BY DEF IInv, Good, Typed, Sound, TypeOK
  <1> QED
    BY <1>1, SupervisionInvariance, PTL

\* Exactly the cameras that stream have a supervisor that is not being stopped,
\* one each, on the port of the registry, however handlers and supervisors
\* interleave: no handler forgets to cancel one, cancels the wrong one or spawns
\* a second.
THEOREM SupervisorsStayMatched == Spec => []SupervisorsMatchRegistry
PROOF
  <1>1. IInv => SupervisorsMatchRegistry
    <2> SUFFICES ASSUME IInv PROVE SupervisorsMatchRegistry
      OBVIOUS
    <2>1. /\ \A i \in DOMAIN sups : Tied(sups[i], cams)
          /\ \A i, j \in DOMAIN sups : Clash(sups[i], sups[j], hasty) => i = j
          /\ \A p \in Streams(cams) : \E i \in DOMAIN sups : Owns(sups[i], p)
      BY DEF IInv, Good
    <2>2. ASSUME NEW p \in DOMAIN cams, cams[p].streaming
          PROVE  \E i \in Owners(p) : Owners(p) = {i} /\ sups[i].port = cams[p].port
      <3>0. p \in Streams(cams)
        BY <2>2 DEF Streams
      <3>1. PICK i \in DOMAIN sups : Owns(sups[i], p)
        BY <3>0, <2>1
      <3>2. sups[i].attached /\ sups[i].path = p /\ ~sups[i].cancelled
        BY <3>1 DEF Owns, Shares
      <3>3. i \in Owners(p)
        BY <3>2 DEF Owners
      <3>4. sups[i].port = cams[p].port
        <4>1. Tied(sups[i], cams)
          BY <2>1
        <4> QED
          BY <4>1, <3>2 DEF Tied
      <3>5. ASSUME NEW j \in Owners(p) PROVE j = i
        <4>1. Clash(sups[j], sups[i], hasty) /\ j \in DOMAIN sups
          BY <3>2 DEF Owners, Clash
        <4> QED
          BY <4>1, <2>1
      <3>6. Owners(p) = {i}
        BY <3>3, <3>5
      <3> QED
        BY <3>3, <3>4, <3>6
    <2>3. ASSUME NEW p \in DOMAIN cams, ~cams[p].streaming
          PROVE  Owners(p) = {}
      BY <2>1, <2>3 DEF Owners, Tied
    <2> QED
      BY <2>1, <2>2, <2>3 DEF SupervisorsMatchRegistry, Tied
  <1> QED
    BY <1>1, SupervisionInvariance, PTL

\* A camera that was never enabled before its old supervisor returned is streamed,
\* once its supervisor has settled, with the settings the dashboard shows: no order
\* of changes, restarts, exits and cancellations loses the last notification.
THEOREM ModeStaysApplied == Spec => []ModeAppliedWithPatience
PROOF
  <1>1. IInv => ModeAppliedWithPatience
    <2> SUFFICES ASSUME IInv, NEW p \in DOMAIN cams \ hasty, NEW i \in Owners(p),
                        Settled(i)
                 PROVE  sups[i].conf = SettingsOf(cams[p])
      BY DEF ModeAppliedWithPatience, ModeAppliedTo
    <2>1. /\ i \in DOMAIN sups /\ sups[i].attached /\ sups[i].path = p
          /\ ~sups[i].cancelled
      BY DEF Owners
    <2>2. Applied(sups[i], cams, permit, {})
      BY <2>1 DEF IInv, Good, Patient
    <2> QED
      BY <2>1, <2>2 DEF Applied, Settled
  <1> QED
    BY <1>1, SupervisionInvariance, PTL

\* Of the same cameras, the status shown is that of the child: set while a settled
\* supervisor serves, and clear once no supervisor is left.
THEOREM StatusStaysTrue == Spec => []StatusTrueWithPatience
PROOF
  <1>1. IInv => StatusTrueWithPatience
    <2> SUFFICES ASSUME IInv, NEW p \in DOMAIN cams \ hasty PROVE StatusTrueOf(p)
      BY DEF StatusTrueWithPatience
    <2>1. ASSUME NEW i \in Owners(p), Settled(i)
          PROVE  running[p]
      <3>1. /\ i \in DOMAIN sups /\ sups[i].attached /\ sups[i].path = p
            /\ ~sups[i].cancelled
        BY DEF Owners
      <3> QED
        BY <2>1, <3>1 DEF IInv, Good, Patient, Settled
    <2>2. ASSUME \A i \in DOMAIN sups : sups[i].path # p
          PROVE  ~running[p]
      BY <2>2 DEF IInv, Good, Shares
    <2> QED
      BY <2>1, <2>2 DEF StatusTrueOf
  <1> QED
    BY <1>1, SupervisionInvariance, PTL
=============================================================================
