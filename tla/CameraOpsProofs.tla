--------------------------- MODULE CameraOpsProofs ---------------------------
(***************************************************************************)
(* Lemmas about the registry's operations: what each of them preserves.    *)
(***************************************************************************)
EXTENDS CameraOps, FiniteSetTheorems, WellFoundedInduction, TLAPS

-----------------------------------------------------------------------------
\* Sets of node numbers.

\* The lowest of a set of node numbers exists.
LEMMA LowestExists ==
    ASSUME NEW S \in SUBSET Nat, S # {}
    PROVE  \E x \in S : \A y \in S : x <= y
PROOF
  <1>1. PICK x \in S : \A y \in S : ~ (<<y, x>> \in OpToRel(<, Nat))
    BY NatLessThanWellFounded, WFMin
  <1>2. \A y \in S : <<y, x>> \in OpToRel(<, Nat) <=> y < x
    BY DEF OpToRel
  <1>3. \A y \in S : ~ (y < x)
    BY <1>1, <1>2
  <1> QED
    BY <1>3

\* The highest of a finite set of node numbers exists: one with the fewest
\* elements above it.
LEMMA HighestExists ==
    ASSUME NEW S \in SUBSET Nat, S # {}, IsFiniteSet(S)
    PROVE  \E x \in S : \A y \in S : y <= x
PROOF
  <1> DEFINE Above(x) == {y \in S : y > x}
             Count(x) == Cardinality(Above(x))
             Counts   == {Count(x) : x \in S}
  <1>0. \A x \in S : x \in Int
    OBVIOUS
  <1>1. \A x \in S : IsFiniteSet(Above(x)) /\ Count(x) \in Nat
    BY FS_Subset, FS_CardinalityType
  <1>2. \A x, y \in S : y > x => Count(y) < Count(x)
    <2> SUFFICES ASSUME NEW x \in S, NEW y \in S, y > x
                 PROVE  Count(y) < Count(x)
      OBVIOUS
    <2>1. Above(y) \subseteq Above(x)
      <3>1. \A z \in S : z > y => z > x
        BY <1>0
      <3> QED BY <3>1
    <2>2. y \in Above(x) /\ y \notin Above(y)
      OBVIOUS
    <2>3. Count(y) <= Count(x) /\ Count(y) # Count(x)
      <3> HIDE DEF Above
      <3> QED
        BY <2>1, <2>2, <1>1, FS_Subset
    <2>4. Count(x) \in Nat /\ Count(y) \in Nat
      BY <1>1
    <2> HIDE DEF Count
    <2> QED
      BY <2>3, <2>4
  <1> HIDE DEF Count
  <1>3. Counts \in SUBSET Nat /\ Counts # {}
    BY <1>1
  <1>4. PICK n \in Counts : \A m \in Counts : n <= m
    <2> HIDE DEF Counts
    <2> QED BY <1>3, LowestExists
  <1>5. PICK x \in S : n = Count(x)
    BY <1>4
  <1>6. \A y \in S : ~ (y > x)
    <2> SUFFICES ASSUME NEW y \in S, y > x PROVE FALSE
      OBVIOUS
    <2>1. Count(y) < Count(x) /\ Count(x) \in Nat /\ Count(y) \in Nat
      BY <1>1, <1>2
    <2>2. Count(x) <= Count(y)
      BY <1>4, <1>5 DEF Counts
    <2> QED BY <2>1, <2>2
  <1> QED
    BY <1>0, <1>6

-----------------------------------------------------------------------------
\* Ranks: how many elements of a finite set of numbers are below one of them.

LEMMA RankBounds ==
    ASSUME NEW S \in SUBSET Nat, IsFiniteSet(S), NEW x
    PROVE  /\ Below(S, x) \in Nat
           /\ x \in S => Below(S, x) < Cardinality(S)
PROOF
  <1> DEFINE Lower == {y \in S : y < x}
  <1>1. IsFiniteSet(Lower) /\ Lower \in SUBSET S
    BY FS_Subset
  <1>2. Cardinality(Lower) \in Nat /\ Cardinality(S) \in Nat
    BY <1>1, FS_CardinalityType
  <1>3. x \in S => Lower # S
    OBVIOUS
  <1>4. Cardinality(Lower) <= Cardinality(S) /\ (Cardinality(Lower) = Cardinality(S) => Lower = S)
    <2> HIDE DEF Lower
    <2> QED
      BY <1>1, FS_Subset
  <1>5. Below(S, x) = Cardinality(Lower)
    BY DEF Below
  <1> HIDE DEF Lower
  <1> QED
    BY <1>2, <1>3, <1>4, <1>5

\* Ranks ascend with the elements.
LEMMA RanksAscend ==
    ASSUME NEW S \in SUBSET Nat, IsFiniteSet(S), NEW p \in S, NEW q \in S, p < q
    PROVE  Below(S, p) < Below(S, q)
PROOF
  <1> DEFINE Lower(x) == {y \in S : y < x}
  <1>1. IsFiniteSet(Lower(q))
    BY FS_Subset
  <1>2. Lower(p) \subseteq Lower(q)
    <2>1. \A z \in S : z < p => z < q
      OBVIOUS
    <2> QED BY <2>1
  <1>3. p \in Lower(q) /\ p \notin Lower(p)
    OBVIOUS
  <1>4. Lower(p) # Lower(q)
    BY <1>3
  <1>5. Cardinality(Lower(p)) <= Cardinality(Lower(q)) /\ Cardinality(Lower(p)) # Cardinality(Lower(q))
    <2> HIDE DEF Lower
    <2> QED BY <1>1, <1>2, <1>4, FS_Subset
  <1>6. Below(S, p) \in Nat /\ Below(S, q) \in Nat
    BY RankBounds
  <1> QED
    BY <1>5, <1>6 DEF Below

\* No two elements have one rank.
LEMMA RanksDiffer ==
    ASSUME NEW S \in SUBSET Nat, IsFiniteSet(S), NEW p \in S, NEW q \in S, p # q
    PROVE  Below(S, p) # Below(S, q)
PROOF
  <1>1. p < q \/ q < p
    OBVIOUS
  <1>2. Below(S, p) \in Nat /\ Below(S, q) \in Nat
    BY RankBounds
  <1> QED
    BY <1>1, <1>2, RanksAscend

\* The highest element below x, or of all of S, has one rank less than x, or than
\* S has elements.
LEMMA HighestRank ==
    ASSUME NEW S \in SUBSET Nat, IsFiniteSet(S), NEW L \in SUBSET S, L # {},
           \A y \in S, z \in L : y < z => y \in L
    PROVE  \E z \in L : Below(S, z) = Cardinality(L) - 1
PROOF
  <1>1. IsFiniteSet(L)
    BY FS_Subset
  <1>2. PICK z \in L : \A y \in L : y <= z
    BY <1>1, HighestExists
  <1>3. {y \in S : y < z} = L \ {z}
    <2>1. \A y \in S : y < z <=> (y \in L /\ y # z)
      <3>1. ASSUME NEW y \in S, y < z PROVE y \in L /\ y # z
        BY <3>1
      <3>2. ASSUME NEW y \in L, y # z PROVE y < z
        BY <1>2, <3>2
      <3> QED
        BY <3>1, <3>2
    <2> QED
      BY <2>1
  <1>4. Cardinality(L \ {z}) = Cardinality(L) - 1
    BY <1>1, FS_RemoveElement
  <1> QED
    BY <1>3, <1>4 DEF Below

\* A finite set has an element of every rank below its size: the lowest of those
\* whose rank is not less, since the element before it has a rank that is.
LEMMA RanksFill ==
    ASSUME NEW S \in SUBSET Nat, IsFiniteSet(S), NEW k \in Nat, k < Cardinality(S)
    PROVE  \E x \in S : Below(S, x) = k
PROOF
  <1> DEFINE T == {y \in S : Below(S, y) >= k}
  <1>0. Cardinality(S) \in Nat /\ \A y \in S : Below(S, y) \in Nat
    BY FS_CardinalityType, RankBounds
  <1>1. T # {}
    <2>1. S # {}
      BY <1>0, FS_EmptySet
    <2>2. PICK z \in S : Below(S, z) = Cardinality(S) - 1
      BY <2>1, HighestRank
    <2> QED
      BY <1>0, <2>2
  <1>2. PICK x \in T : \A y \in T : x <= y
    BY <1>1, LowestExists
  <1>3. Below(S, x) = k
    <2> SUFFICES ASSUME Below(S, x) # k PROVE FALSE
      OBVIOUS
    <2> DEFINE L == {y \in S : y < x}
    <2>1. Below(S, x) > k /\ Below(S, x) = Cardinality(L)
      BY <1>0 DEF Below
    <2>2. L # {}
      BY <1>0, <2>1, FS_EmptySet
    <2>3. \A y \in S, z \in L : y < z => y \in L
      OBVIOUS
    <2>4. PICK z \in L : Below(S, z) = Cardinality(L) - 1
      <3> HIDE DEF L
      <3>1. L \in SUBSET S
        BY DEF L
      <3> QED
        BY <2>2, <2>3, <3>1, HighestRank
    <2>5. z \in T /\ z < x
      BY <1>0, <2>1, <2>4
    <2> QED
      BY <1>2, <2>5
  <1> QED
    BY <1>3

-----------------------------------------------------------------------------
\* reconcile.

\* What a registry is like between two operations, with its type.
Sound(cams) == IsRegistry(cams) /\ DistinctPorts(cams) /\ WellFormed(cams)

\* The ports of the pool are ports, and NoPort is none.
LEMMA PoolPorts == Pool \subseteq Port /\ NoPort \notin Port
PROOF
  <1>1. \A port \in Pool : port \in Port
    <2>1. U16MAX \in Nat
      BY DEF U16MAX
    <2> QED
      BY <2>1, BasePortAssumption DEF Pool, Port
  <1>2. NoPort \notin Port
    BY DEF Port, NoPort
  <1> QED
    BY <1>1, <1>2

\* Starting a stream changes three fields of a camera.
LEMMA StartStreamFields ==
    ASSUME NEW c \in CamRecord, NEW port \in Pool
    PROVE  LET s == StartStream(c, port) IN
           /\ s \in CamRecord
           /\ s.port = port /\ s.desired_port = port /\ s.streaming = TRUE
           /\ s.enabled = c.enabled /\ s.cam = c.cam /\ s.id = c.id
           /\ s.mode = c.mode /\ s.auth = c.auth
BY PoolPorts DEF StartStream, CamRecord

\* Streams started for waiting cameras, on ports of the pool that nobody uses
\* and that differ from one another, leave the registry sound.
LEMMA StartsSound ==
    ASSUME NEW cams, Sound(cams),
           NEW S \in SUBSET Waiting(cams), NEW f,
           \A p \in S : f[p] \in FreePorts(cams),
           \A p, q \in S : p # q => f[p] # f[q]
    PROVE  Sound([p \in DOMAIN cams |->
                    IF p \in S THEN StartStream(cams[p], f[p]) ELSE cams[p]])
PROOF
  <1> DEFINE new == [p \in DOMAIN cams |->
                       IF p \in S THEN StartStream(cams[p], f[p]) ELSE cams[p]]
  <1>1. /\ DOMAIN cams \subseteq Path
        /\ \A p \in DOMAIN cams : cams[p] \in CamRecord
        /\ cams = [p \in DOMAIN cams |-> cams[p]]
    BY DEF Sound, IsRegistry, IsPartial
  <1>2. \A p \in S : /\ p \in DOMAIN cams
                     /\ cams[p].enabled /\ ~cams[p].streaming
                     /\ f[p] \in Pool /\ f[p] \notin Used(cams)
    BY DEF Waiting, FreePorts
  <1>3. \A p \in S : LET s == new[p] IN
           /\ s \in CamRecord
           /\ s.port = f[p] /\ s.desired_port = f[p] /\ s.streaming = TRUE
           /\ s.enabled
    BY <1>1, <1>2, StartStreamFields
  <1>4. \A p \in DOMAIN cams \ S : new[p] = cams[p]
    OBVIOUS
  <1>5. DOMAIN new = DOMAIN cams /\ IsRegistry(new)
    BY <1>1, <1>3, <1>4 DEF IsRegistry, IsPartial
  <1> HIDE DEF new
  <1>6. DistinctPorts(new)
    <2> SUFFICES ASSUME NEW p \in DOMAIN cams, NEW q \in DOMAIN cams, p # q,
                        new[p].port # NoPort
                 PROVE  new[p].port # new[q].port
      BY <1>5 DEF DistinctPorts
    <2>1. CASE p \in S /\ q \in S
      BY <2>1, <1>3
    <2>2. CASE p \in S /\ q \notin S
      BY <2>2, <1>2, <1>3, <1>4, PoolPorts DEF Used
    <2>3. CASE p \notin S /\ q \in S
      BY <2>3, <1>2, <1>3, <1>4, PoolPorts DEF Used
    <2>4. CASE p \notin S /\ q \notin S
      BY <2>4, <1>4 DEF Sound, DistinctPorts
    <2> QED
      BY <2>1, <2>2, <2>3, <2>4
  <1>7. WellFormed(new)
    <2> SUFFICES ASSUME NEW p \in DOMAIN cams
                 PROVE  /\ new[p].streaming <=> new[p].port # NoPort
                        /\ new[p].streaming => new[p].enabled /\ new[p].port = new[p].desired_port
                        /\ new[p].desired_port # NoPort =>
                              new[p].enabled /\ new[p].desired_port \in Pool
      BY <1>5 DEF WellFormed
    <2>1. CASE p \in S
      BY <2>1, <1>2, <1>3, PoolPorts
    <2>2. CASE p \notin S
      BY <2>2, <1>4 DEF Sound, WellFormed
    <2> QED
      BY <2>1, <2>2
  <1> QED
    BY <1>5, <1>6, <1>7 DEF Sound, new

\* Every remembered port is in the pool.
LEMMA WantedInPool ==
    ASSUME NEW cams, Sound(cams), NEW p \in DOMAIN cams,
           cams[p].desired_port # NoPort
    PROVE  cams[p].desired_port \in Pool
BY DEF Sound, WellFormed

\* Pass 1.
LEMMA ReclaimStickySound ==
    ASSUME NEW cams, Sound(cams)
    PROVE  Sound(ReclaimSticky(cams))
PROOF
  <1> DEFINE S == {p \in DOMAIN cams : Reclaims(cams, p)}
             f == [p \in DOMAIN cams |-> cams[p].desired_port]
  <1>1. S \in SUBSET Waiting(cams)
    BY DEF Reclaims
  <1>2. \A p \in S : f[p] \in FreePorts(cams)
    BY <1>1, WantedInPool DEF Reclaims, FreePorts, Waiting
  <1>3. \A p, q \in S : p # q => f[p] # f[q]
    <2> SUFFICES ASSUME NEW p \in S, NEW q \in S, p < q
                 PROVE  f[p] # f[q]
      <3>1. S \subseteq Nat
        BY PathAssumption DEF Sound, IsRegistry, IsPartial
      <3>2. \A p, q \in S : p # q => p < q \/ q < p
        BY <3>1
      <3> QED
        BY <3>2
    <2> QED
      BY <1>1 DEF Reclaims
  <1> HIDE DEF f
  <1>4. Sound([p \in DOMAIN cams |->
                 IF p \in S THEN StartStream(cams[p], f[p]) ELSE cams[p]])
    BY <1>1, <1>2, <1>3, StartsSound
  <1>5. ReclaimSticky(cams) =
          [p \in DOMAIN cams |->
             IF p \in S THEN StartStream(cams[p], f[p]) ELSE cams[p]]
    BY DEF ReclaimSticky, f
  <1> QED
    BY <1>4, <1>5

\* Pass 2.
LEMMA AssignLowestSound ==
    ASSUME NEW cams, Sound(cams)
    PROVE  Sound(AssignLowest(cams))
PROOF
  <1> DEFINE S == {p \in DOMAIN cams : \E port \in Pool : Offered(cams, p, port)}
             f == [p \in DOMAIN cams |-> CHOOSE port \in Pool : Offered(cams, p, port)]
  <1>1. \A p \in S : Offered(cams, p, f[p])
    OBVIOUS
  <1>2. S \in SUBSET Waiting(cams)
    BY DEF Offered
  <1>3. \A p \in S : f[p] \in FreePorts(cams)
    BY <1>1 DEF Offered
  <1>4. Waiting(cams) \in SUBSET Nat /\ IsFiniteSet(Waiting(cams))
    <2>1. Waiting(cams) \subseteq Path
      BY DEF Waiting, Sound, IsRegistry, IsPartial
    <2> QED
      BY <2>1, PathAssumption, FS_Subset
  <1>5. \A p, q \in S : p # q => f[p] # f[q]
    <2> SUFFICES ASSUME NEW p \in S, NEW q \in S, p < q
                 PROVE  f[p] # f[q]
      <3>1. \A p, q \in S : p # q => p < q \/ q < p
        BY <1>2, <1>4
      <3> QED
        BY <3>1
    <2>1. Below(Waiting(cams), p) # Below(Waiting(cams), q)
      BY <1>2, <1>4, RanksDiffer
    <2> QED
      BY <1>1, <2>1 DEF Offered
  <1> HIDE DEF f
  <1>6. Sound([p \in DOMAIN cams |->
                 IF p \in S THEN StartStream(cams[p], f[p]) ELSE cams[p]])
    BY <1>2, <1>3, <1>5, StartsSound
  <1>7. AssignLowest(cams) =
          [p \in DOMAIN cams |->
             IF p \in S THEN StartStream(cams[p], f[p]) ELSE cams[p]]
    BY DEF AssignLowest, f
  <1> QED
    BY <1>6, <1>7

\* reconcile keeps the registry sound, however many cameras wait and whatever
\* they remember.
THEOREM ReconcileSound ==
    ASSUME NEW cams, Sound(cams)
    PROVE  Sound(Reconcile(cams))
BY ReclaimStickySound, AssignLowestSound DEF Reconcile

-----------------------------------------------------------------------------
\* Nobody waits beside a free port.

Served(cams) == Waiting(cams) # {} => FreePorts(cams) = {}

\* Those that wait, and the ports that are free, are finite sets of numbers.
LEMMA FiniteSupply ==
    ASSUME NEW cams, DOMAIN cams \subseteq Path
    PROVE  /\ Waiting(cams) \in SUBSET Nat /\ IsFiniteSet(Waiting(cams))
           /\ FreePorts(cams) \in SUBSET Nat /\ IsFiniteSet(FreePorts(cams))
PROOF
  <1>1. Waiting(cams) \subseteq Path
    BY DEF Waiting
  <1>2. BasePort \in Int /\ U16MAX - 1 \in Int
    BY BasePortAssumption DEF U16MAX
  <1>3. IsFiniteSet(Pool) /\ Pool \subseteq Nat
    BY <1>2, FS_Interval, BasePortAssumption DEF Pool
  <1>4. FreePorts(cams) \subseteq Pool
    BY DEF FreePorts
  <1> QED
    BY <1>1, <1>3, <1>4, PathAssumption, FS_Subset

\* A camera is offered one port at most, and gets it.
LEMMA AssignsOffered ==
    ASSUME NEW cams, DOMAIN cams \subseteq Path, NEW p, NEW port, Offered(cams, p, port)
    PROVE  AssignLowest(cams)[p] = StartStream(cams[p], port)
PROOF
  <1> DEFINE s == CHOOSE s \in Pool : Offered(cams, p, s)
  <1>1. p \in DOMAIN cams /\ port \in Pool
    BY DEF Offered, Waiting, FreePorts
  <1>2. s \in Pool /\ Offered(cams, p, s)
    BY <1>1
  <1>3. AssignLowest(cams)[p] = StartStream(cams[p], s)
    BY <1>1 DEF AssignLowest
  <1> HIDE DEF s
  <1>4. /\ s \in FreePorts(cams) /\ port \in FreePorts(cams)
        /\ Below(FreePorts(cams), s) = Below(FreePorts(cams), port)
    BY <1>2 DEF Offered
  <1>5. s = port
    BY <1>4, FiniteSupply, RanksDiffer
  <1> QED
    BY <1>3, <1>5

\* A port that is still free after pass 2 had a rank among the free ports; it is
\* not less than that of anyone who still waits, for it would have been offered;
\* but then there was a port of the waiter's rank, too.
LEMMA AssignLowestServes ==
    ASSUME NEW cams, Sound(cams)
    PROVE  Served(AssignLowest(cams))
PROOF
  <1> DEFINE new == AssignLowest(cams)
             W   == Waiting(cams)
             F   == FreePorts(cams)
  <1> SUFFICES ASSUME NEW p \in Waiting(new), NEW port \in FreePorts(new)
               PROVE  FALSE
    BY DEF Served
  <1>1. /\ W \in SUBSET Nat /\ IsFiniteSet(W) /\ F \in SUBSET Nat /\ IsFiniteSet(F)
        /\ Cardinality(W) \in Nat /\ Cardinality(F) \in Nat
    BY FiniteSupply, FS_CardinalityType DEF Sound, IsRegistry, IsPartial
  <1>2. ASSUME NEW q \in DOMAIN cams, NEW r \in Pool, Offered(cams, q, r)
        PROVE  /\ new[q].streaming = TRUE
               /\ new[q].port \in Pool
               /\ Offered(cams, q, new[q].port)
    <2> DEFINE s == CHOOSE s \in Pool : Offered(cams, q, s)
    <2>1. s \in Pool /\ Offered(cams, q, s)
      BY <1>2
    <2>2. new[q] = StartStream(cams[q], s)
      BY <1>2 DEF AssignLowest
    <2>3. cams[q] \in CamRecord
      BY DEF Sound, IsRegistry, IsPartial
    <2> HIDE DEF s, new
    <2>4. StartStream(cams[q], s).streaming = TRUE /\ StartStream(cams[q], s).port = s
      BY <2>1, <2>3, StartStreamFields
    <2> QED
      BY <2>1, <2>2, <2>4
  <1>3. ASSUME NEW q \in DOMAIN cams, \A r \in Pool : ~Offered(cams, q, r)
        PROVE  new[q] = cams[q]
    BY <1>3 DEF AssignLowest
  <1>4. DOMAIN new = DOMAIN cams
    BY DEF AssignLowest
  <1>5. p \in W /\ \A r \in Pool : ~Offered(cams, p, r)
    BY <1>2, <1>3, <1>4 DEF Waiting
  <1>6. port \in F
    <2>1. port \in Pool /\ port \notin Used(new)
      BY DEF FreePorts
    <2>2. SUFFICES ASSUME NEW q \in DOMAIN cams, cams[q].port = port, port # NoPort
                   PROVE  FALSE
      BY <2>1, PoolPorts DEF FreePorts, Used
    <2>3. cams[q].streaming
      BY <2>2 DEF Sound, WellFormed
    <2>4. new[q] = cams[q]
      BY <1>3, <2>3 DEF Offered, Waiting
    <2> QED
      BY <1>4, <2>1, <2>2, <2>4 DEF Used
  <1> HIDE DEF new, W, F
  <1>7. Below(W, p) \in Nat /\ Below(W, p) < Cardinality(W)
    BY <1>1, <1>5, RankBounds
  <1>8. Below(F, port) \in Nat /\ Below(F, port) < Cardinality(F)
    BY <1>1, <1>6, RankBounds
  <1>9. CASE Below(W, p) < Cardinality(F)
    <2>1. PICK r \in F : Below(F, r) = Below(W, p)
      BY <1>1, <1>7, <1>9, RanksFill
    <2>2. Offered(cams, p, r) /\ r \in Pool
      BY <1>5, <2>1 DEF Offered, FreePorts, F, W
    <2> QED
      BY <1>5, <2>2
  <1>10. CASE Cardinality(F) <= Below(W, p)
    <2>1. PICK q \in W : Below(W, q) = Below(F, port)
      BY <1>1, <1>7, <1>8, <1>10, RanksFill
    <2>2. Offered(cams, q, port) /\ port \in Pool /\ q \in DOMAIN cams
      BY <1>6, <2>1 DEF Offered, FreePorts, Waiting, F, W
    <2>3. Offered(cams, q, new[q].port) /\ new[q].port \in Pool
      BY <1>2, <2>2
    <2>4. new[q].port = port
      <3>1. new[q].port \in F /\ Below(F, new[q].port) = Below(F, port)
        BY <2>1, <2>3 DEF Offered, F, W
      <3> QED
        BY <1>1, <1>6, <3>1, RanksDiffer
    <2>5. port \in Used(new)
      BY <1>4, <2>2, <2>4, PoolPorts DEF Used
    <2> QED
      BY <2>5 DEF FreePorts
  <1> QED
    BY <1>1, <1>7, <1>9, <1>10

\* reconcile leaves nobody waiting beside a free port, whoever was let down before.
THEOREM ReconcileServes ==
    ASSUME NEW cams, Sound(cams)
    PROVE  Served(Reconcile(cams))
BY ReclaimStickySound, AssignLowestServes DEF Reconcile

-----------------------------------------------------------------------------
\* Rows.

\* A table of rows that agree with a camera's flag.
SoundRows(rows) == IsRows(rows) /\ RowsAgree(rows)

\* Some node of every listed id is its last.
LEMMA LastNodeExists ==
    ASSUME NEW cams, Sound(cams), NEW id \in Ids(cams)
    PROVE  LastNode(cams, id) \in DOMAIN cams /\ cams[LastNode(cams, id)].id = id
PROOF
  <1> DEFINE S == {p \in DOMAIN cams : cams[p].id = id}
  <1>1. S \subseteq Path /\ S # {}
    BY DEF Sound, IsRegistry, IsPartial, Ids
  <1>2. PICK x \in S : \A y \in S : y <= x
    <2>1. S \in SUBSET Nat /\ IsFiniteSet(S)
      BY <1>1, PathAssumption, FS_Subset
    <2> HIDE DEF S
    <2> QED
      BY <1>1, <2>1, HighestExists
  <1> QED
    BY <1>2 DEF LastNode

\* A row of a sound registry is a row, and agrees.
LEMMA RowOfSound ==
    ASSUME NEW cams, Sound(cams), NEW p \in DOMAIN cams
    PROVE  LET row == RowOf(cams[p]) IN
           /\ row \in Row
           /\ row.port # NoPort => row.enabled /\ row.port \in Pool
PROOF
  <1>1. cams[p] \in CamRecord
    BY DEF Sound, IsRegistry, IsPartial
  <1>2. cams[p].desired_port # NoPort =>
          cams[p].enabled /\ cams[p].desired_port \in Pool
    BY DEF Sound, WellFormed
  <1> QED
    BY <1>1, <1>2 DEF RowOf, Row, CamRecord

LEMMA SnapshotSound ==
    ASSUME NEW cams, Sound(cams)
    PROVE  SoundRows(SnapshotPersist(cams))
PROOF
  <1>1. Ids(cams) \subseteq CamId
    BY DEF Ids, Sound, IsRegistry, IsPartial, CamRecord
  <1>2. \A id \in Ids(cams) : LET row == SnapshotPersist(cams)[id] IN
           /\ row \in Row
           /\ row.port # NoPort => row.enabled /\ row.port \in Pool
    BY LastNodeExists, RowOfSound DEF SnapshotPersist
  <1>3. DOMAIN SnapshotPersist(cams) = Ids(cams)
    BY DEF SnapshotPersist
  <1>4. SnapshotPersist(cams) = [id \in Ids(cams) |-> SnapshotPersist(cams)[id]]
    BY DEF SnapshotPersist
  <1> QED
    BY <1>1, <1>2, <1>3, <1>4 DEF SoundRows, IsRows, IsPartial, RowsAgree

LEMMA InsertRowsSound ==
    ASSUME NEW persist, NEW rows, SoundRows(persist), SoundRows(rows)
    PROVE  SoundRows(InsertRows(persist, rows))
BY DEF SoundRows, IsRows, IsPartial, RowsAgree, InsertRows, Override

LEMMA RestrictRowsSound ==
    ASSUME NEW rows, SoundRows(rows), NEW S \in SUBSET DOMAIN rows
    PROVE  SoundRows(Restrict(rows, S))
BY DEF SoundRows, IsRows, IsPartial, RowsAgree, Restrict

LEMMA EmptyServed == Served(Empty)
BY DEF Served, Waiting, Empty

LEMMA EmptySound == Sound(Empty) /\ SoundRows(Empty)
BY DEF Sound, SoundRows, IsRegistry, IsRows, IsPartial, RowsAgree,
       DistinctPorts, WellFormed, Empty

-----------------------------------------------------------------------------
\* Handlers.

\* A camera that is listed has no stream yet and is sound with any row that
\* agrees.
LEMMA NewCameraSound ==
    ASSUME NEW dev \in Device, NEW persist, SoundRows(persist)
    PROVE  LET c == NewCamera(dev, persist) IN
           /\ c \in CamRecord
           /\ c.port = NoPort /\ c.streaming = FALSE
           /\ c.desired_port # NoPort => c.enabled /\ c.desired_port \in Pool
PROOF
  <1>1. dev.cam \in Camera /\ dev.id \in CamId
    BY DEF Device
  <1>2. InitialSettings(dev.cam) \in Mode
    BY <1>1, ModeAssumption, FirstModeAssumption DEF InitialSettings
  <1>3. CASE dev.id \in DOMAIN persist
    <2>1. /\ persist[dev.id] \in Row
          /\ persist[dev.id].port # NoPort =>
                persist[dev.id].enabled /\ persist[dev.id].port \in Pool
      BY <1>3 DEF SoundRows, IsRows, IsPartial, RowsAgree
    <2> QED
      BY <1>1, <1>3, <2>1 DEF NewCamera, CamRecord, Row
  <1>4. CASE dev.id \notin DOMAIN persist
    BY <1>1, <1>2, <1>4 DEF NewCamera, CamRecord
  <1> QED
    BY <1>3, <1>4

LEMMA PutCameraSound ==
    ASSUME NEW cams, Sound(cams), NEW persist, SoundRows(persist),
           NEW p \in Path \ DOMAIN cams, NEW dev \in Device
    PROVE  Sound(Put(cams, p, NewCamera(dev, persist)))
PROOF
  <1> DEFINE c   == NewCamera(dev, persist)
             new == Put(cams, p, c)
  <1>1. /\ c \in CamRecord
        /\ c.port = NoPort /\ c.streaming = FALSE
        /\ c.desired_port # NoPort => c.enabled /\ c.desired_port \in Pool
    BY NewCameraSound
  <1> HIDE DEF c
  <1>2. /\ DOMAIN new = DOMAIN cams \cup {p}
        /\ new[p] = c
        /\ \A q \in DOMAIN cams : new[q] = cams[q]
        /\ new = [q \in DOMAIN new |-> new[q]]
    BY DEF Put
  <1> HIDE DEF new
  <1>3. IsRegistry(new)
    BY <1>1, <1>2 DEF Sound, IsRegistry, IsPartial
  <1>4. DistinctPorts(new)
    BY <1>1, <1>2 DEF Sound, DistinctPorts
  <1>5. WellFormed(new)
    BY <1>1, <1>2 DEF Sound, WellFormed
  <1>6. Sound(new)
    BY <1>3, <1>4, <1>5 DEF Sound
  <1> QED
    BY <1>6 DEF new, c

LEMMA AddCameraSound ==
    ASSUME NEW cams, Sound(cams), NEW persist, SoundRows(persist),
           NEW p \in Path \ DOMAIN cams, NEW dev \in Device
    PROVE  Sound(AddCamera(cams, p, dev, persist))
BY PutCameraSound, ReconcileSound DEF AddCamera

LEMMA RestrictSound ==
    ASSUME NEW cams, Sound(cams), NEW p
    PROVE  Sound(Restrict(cams, DOMAIN cams \ {p}))
BY DEF Sound, IsRegistry, IsPartial, DistinctPorts, WellFormed, Restrict

LEMMA RemoveCameraSound ==
    ASSUME NEW cams, Sound(cams), NEW p
    PROVE  Sound(RemoveCamera(cams, p))
BY RestrictSound, ReconcileSound DEF RemoveCamera

\* Changing one camera, without giving it a port it did not have, keeps the
\* registry sound.
LEMMA ChangeOneSound ==
    ASSUME NEW cams, Sound(cams), NEW p, NEW c,
           p \in DOMAIN cams =>
             /\ c \in CamRecord
             /\ c.port \in {cams[p].port, NoPort}
             /\ c.streaming <=> c.port # NoPort
             /\ c.streaming => c.enabled /\ c.port = c.desired_port
             /\ c.desired_port # NoPort => c.enabled /\ c.desired_port \in Pool
    PROVE  Sound([cams EXCEPT ![p] = c])
PROOF
  <1> DEFINE new == [cams EXCEPT ![p] = c]
  <1>1. CASE p \notin DOMAIN cams
    <2>1. cams = [q \in DOMAIN cams |-> cams[q]]
      BY DEF Sound, IsRegistry, IsPartial
    <2> QED
      BY <1>1, <2>1
  <1>2. CASE p \in DOMAIN cams
    <2>1. /\ DOMAIN new = DOMAIN cams
          /\ new[p] = c
          /\ \A q \in DOMAIN cams \ {p} : new[q] = cams[q]
          /\ new = [q \in DOMAIN new |-> new[q]]
      BY <1>2
    <2> HIDE DEF new
    <2>2. IsRegistry(new)
      BY <1>2, <2>1 DEF Sound, IsRegistry, IsPartial
    <2>3. DistinctPorts(new)
      BY <1>2, <2>1 DEF Sound, DistinctPorts
    <2>4. WellFormed(new)
      BY <1>2, <2>1 DEF Sound, WellFormed
    <2> QED
      BY <2>2, <2>3, <2>4 DEF Sound, new
  <1> QED
    BY <1>1, <1>2

LEMMA SwitchCameraSound ==
    ASSUME NEW cams, Sound(cams), NEW id, NEW on \in BOOLEAN
    PROVE  Sound(SwitchCamera(cams, id, on))
PROOF
  <1> DEFINE p == FirstNode(cams, id)
             c == Switched(cams[p], on)
  <1>1. p \in DOMAIN cams =>
          /\ cams[p] \in CamRecord
          /\ cams[p].streaming <=> cams[p].port # NoPort
          /\ cams[p].streaming => cams[p].enabled /\ cams[p].port = cams[p].desired_port
          /\ cams[p].desired_port # NoPort =>
                cams[p].enabled /\ cams[p].desired_port \in Pool
    BY DEF Sound, IsRegistry, IsPartial, WellFormed
  <1> HIDE DEF p
  <1>2. p \in DOMAIN cams =>
          /\ c \in CamRecord
          /\ c.port \in {cams[p].port, NoPort}
          /\ c.streaming <=> c.port # NoPort
          /\ c.streaming => c.enabled /\ c.port = c.desired_port
          /\ c.desired_port # NoPort => c.enabled /\ c.desired_port \in Pool
    BY <1>1 DEF Switched, CamRecord
  <1> HIDE DEF c
  <1>3. Sound([cams EXCEPT ![p] = c])
    BY <1>2, ChangeOneSound
  <1> QED
    BY <1>3 DEF SwitchCamera, p, c

LEMMA EnableCameraSound ==
    ASSUME NEW cams, Sound(cams), NEW id, NEW on \in BOOLEAN
    PROVE  Sound(EnableCamera(cams, id, on))
BY SwitchCameraSound, ReconcileSound DEF EnableCamera

\* A change of mode or credentials leaves everything about streams alone.
LEMMA ChangeSettingsSound ==
    ASSUME NEW cams, Sound(cams), NEW p, NEW mode \in Mode,
           NEW auth \in Auth \cup {NoAuth}
    PROVE  /\ Sound([cams EXCEPT ![p].mode = mode])
           /\ Sound([cams EXCEPT ![p].auth = auth])
PROOF
  <1>1. p \in DOMAIN cams =>
          /\ cams[p] \in CamRecord
          /\ cams[p].streaming <=> cams[p].port # NoPort
          /\ cams[p].streaming => cams[p].enabled /\ cams[p].port = cams[p].desired_port
          /\ cams[p].desired_port # NoPort =>
                cams[p].enabled /\ cams[p].desired_port \in Pool
    BY DEF Sound, IsRegistry, IsPartial, WellFormed
  <1>2. ASSUME NEW c \in {[cams[p] EXCEPT !.mode = mode], [cams[p] EXCEPT !.auth = auth]}
        PROVE  Sound([cams EXCEPT ![p] = c])
    <2>1. p \in DOMAIN cams =>
             /\ c \in CamRecord
             /\ c.port = cams[p].port /\ c.desired_port = cams[p].desired_port
             /\ c.streaming = cams[p].streaming /\ c.enabled = cams[p].enabled
      BY <1>1 DEF CamRecord
    <2> QED
      BY <1>1, <2>1, ChangeOneSound
  <1> QED
    BY <1>2

LEMMA StoreModeSound ==
    ASSUME NEW cams, Sound(cams), NEW p, NEW mode \in Mode
    PROVE  Sound([cams EXCEPT ![p].mode = mode])
PROOF
  <1>1. NoAuth \in Auth \cup {NoAuth}
    OBVIOUS
  <1> QED
    BY <1>1, ChangeSettingsSound

LEMMA ChangeModeSound ==
    ASSUME NEW cams, Sound(cams), NEW id, NEW mode \in Mode
    PROVE  Sound(ChangeMode(cams, id, mode))
BY StoreModeSound, ReconcileSound DEF ChangeMode

LEMMA ChangeAuthSound ==
    ASSUME NEW cams, Sound(cams), NEW id,
           NEW auth \in Auth \cup {NoAuth, EmptyUser}
    PROVE  Sound(ChangeAuth(cams, id, auth))
PROOF
  <1> DEFINE p == FirstNode(cams, id)
  <1>1. Filtered(auth) \in Auth \cup {NoAuth}
    BY DEF Filtered
  <1>2. Sound([cams EXCEPT ![p].auth = Filtered(auth)])
    <2> HIDE DEF p
    <2> QED
      BY <1>1, ModeAssumption, ChangeSettingsSound
  <1> QED
    BY <1>2 DEF ChangeAuth

-----------------------------------------------------------------------------
\* Streams that go on.

\* Every stream of cams that new still lists is left alone or stopped in a way
\* that reconcile does not undo.
KeptOrStopped(cams, new) ==
    \A p \in DOMAIN cams \cap DOMAIN new : cams[p].streaming =>
        \/ new[p].streaming /\ new[p].port = cams[p].port
        \/ new[p].streaming = FALSE /\ new[p].enabled = FALSE

\* reconcile lists the same nodes and leaves alone those that do not wait.
LEMMA ReconcileLeaves ==
    ASSUME NEW cams, NEW p \in DOMAIN cams, p \notin Waiting(cams)
    PROVE  p \in DOMAIN Reconcile(cams) /\ Reconcile(cams)[p] = cams[p]
PROOF
  <1> DEFINE mid == ReclaimSticky(cams)
  <1>1. p \in DOMAIN mid /\ mid[p] = cams[p]
    BY DEF ReclaimSticky, Reclaims
  <1>2. p \notin Waiting(mid)
    BY <1>1 DEF Waiting
  <1> HIDE DEF mid
  <1>3. p \in DOMAIN AssignLowest(mid) /\ AssignLowest(mid)[p] = mid[p]
    BY <1>1, <1>2 DEF AssignLowest, Offered
  <1> QED
    BY <1>1, <1>3 DEF Reconcile, mid

LEMMA ReconcileDomain ==
    ASSUME NEW cams
    PROVE  DOMAIN Reconcile(cams) = DOMAIN cams
BY DEF Reconcile, ReclaimSticky, AssignLowest

\* reconcile neither moves or stops a stream nor starts one that was stopped.
LEMMA ReconcileKeepsOrStops ==
    ASSUME NEW cams, NEW mid, KeptOrStopped(cams, mid)
    PROVE  KeptOrStopped(cams, Reconcile(mid))
PROOF
  <1> SUFFICES ASSUME NEW p \in DOMAIN cams \cap DOMAIN mid, cams[p].streaming
               PROVE  Reconcile(mid)[p] = mid[p]
    BY ReconcileDomain DEF KeptOrStopped
  <1>1. p \notin Waiting(mid)
    BY DEF KeptOrStopped, Waiting
  <1> QED
    BY <1>1, ReconcileLeaves

LEMMA AddCameraKeepsOrStops ==
    ASSUME NEW cams, NEW p, p \notin DOMAIN cams, NEW dev, NEW persist
    PROVE  KeptOrStopped(cams, AddCamera(cams, p, dev, persist))
PROOF
  <1>1. KeptOrStopped(cams, Put(cams, p, NewCamera(dev, persist)))
    BY DEF KeptOrStopped, Put
  <1> QED
    BY <1>1, ReconcileKeepsOrStops DEF AddCamera

LEMMA RemoveCameraKeepsOrStops ==
    ASSUME NEW cams, NEW p
    PROVE  KeptOrStopped(cams, RemoveCamera(cams, p))
PROOF
  <1>1. KeptOrStopped(cams, Restrict(cams, DOMAIN cams \ {p}))
    BY DEF KeptOrStopped, Restrict
  <1> QED
    BY <1>1, ReconcileKeepsOrStops DEF RemoveCamera

LEMMA SwitchCameraKeepsOrStops ==
    ASSUME NEW cams, Sound(cams), NEW id, NEW on \in BOOLEAN
    PROVE  KeptOrStopped(cams, SwitchCamera(cams, id, on))
PROOF
  <1> DEFINE p == FirstNode(cams, id)
             c == Switched(cams[p], on)
  <1>1. \A q \in DOMAIN cams : cams[q] \in CamRecord
    BY DEF Sound, IsRegistry, IsPartial
  <1>2. p \in DOMAIN cams =>
          \/ c.streaming = cams[p].streaming /\ c.port = cams[p].port
          \/ c.streaming = FALSE /\ c.enabled = FALSE
    BY <1>1 DEF Switched, CamRecord
  <1> HIDE DEF p, c
  <1>3. KeptOrStopped(cams, [cams EXCEPT ![p] = c])
    BY <1>2 DEF KeptOrStopped
  <1> QED
    BY <1>3 DEF SwitchCamera, p, c

LEMMA ChangeModeKeepsOrStops ==
    ASSUME NEW cams, Sound(cams), NEW id, NEW mode
    PROVE  KeptOrStopped(cams, ChangeMode(cams, id, mode))
PROOF
  <1> DEFINE p == FirstNode(cams, id)
  <1>1. \A q \in DOMAIN cams : cams[q] \in CamRecord
    BY DEF Sound, IsRegistry, IsPartial
  <1> HIDE DEF p
  <1>2. KeptOrStopped(cams, [cams EXCEPT ![p].mode = mode])
    BY <1>1 DEF KeptOrStopped, CamRecord
  <1> QED
    BY <1>2, ReconcileKeepsOrStops DEF ChangeMode, p

LEMMA ChangeAuthKeepsOrStops ==
    ASSUME NEW cams, Sound(cams), NEW id, NEW auth
    PROVE  KeptOrStopped(cams, ChangeAuth(cams, id, auth))
PROOF
  <1> DEFINE p == FirstNode(cams, id)
  <1>1. \A q \in DOMAIN cams : cams[q] \in CamRecord
    BY DEF Sound, IsRegistry, IsPartial
  <1> HIDE DEF p
  <1>2. KeptOrStopped(cams, [cams EXCEPT ![p].auth = Filtered(auth)])
    BY <1>1 DEF KeptOrStopped, CamRecord
  <1> QED
    BY <1>2 DEF ChangeAuth, p

\* Credentials have no bearing on who waits and what is free.
LEMMA ChangeAuthServes ==
    ASSUME NEW cams, Sound(cams), Served(cams), NEW id, NEW auth
    PROVE  Served(ChangeAuth(cams, id, auth))
PROOF
  <1> DEFINE p   == FirstNode(cams, id)
             new == [cams EXCEPT ![p].auth = Filtered(auth)]
  <1>1. \A q \in DOMAIN cams : cams[q] \in CamRecord
    BY DEF Sound, IsRegistry, IsPartial
  <1> HIDE DEF p
  <1>2. /\ DOMAIN new = DOMAIN cams
        /\ \A q \in DOMAIN cams : /\ new[q].port = cams[q].port
                                  /\ new[q].enabled = cams[q].enabled
                                  /\ new[q].streaming = cams[q].streaming
    BY <1>1 DEF CamRecord
  <1> HIDE DEF new
  <1>3. Waiting(new) = Waiting(cams) /\ FreePorts(new) = FreePorts(cams)
    BY <1>2 DEF Waiting, FreePorts, Used
  <1> QED
    BY <1>3 DEF Served, ChangeAuth, new, p

-----------------------------------------------------------------------------
\* Modes.

\* The cameras of new are cameras of cams, in their USB ports and modes.
SameModes(cams, new) ==
    /\ DOMAIN new \subseteq DOMAIN cams
    /\ \A p \in DOMAIN new : /\ new[p].cam = cams[p].cam
                             /\ new[p].id = cams[p].id
                             /\ new[p].mode = cams[p].mode

\* reconcile gives out ports and touches nothing else.
LEMMA ReconcileSameModes ==
    ASSUME NEW cams, Sound(cams)
    PROVE  SameModes(cams, Reconcile(cams))
PROOF
  <1> DEFINE mid == ReclaimSticky(cams)
  <1>1. Sound(mid)
    BY ReclaimStickySound
  <1>2. ASSUME NEW p \in DOMAIN cams
        PROVE  /\ p \in DOMAIN mid
               /\ mid[p].cam = cams[p].cam /\ mid[p].id = cams[p].id
               /\ mid[p].mode = cams[p].mode
    <2>1. cams[p] \in CamRecord
      BY DEF Sound, IsRegistry, IsPartial
    <2>2. Reclaims(cams, p) => cams[p].desired_port \in Pool
      BY WantedInPool DEF Reclaims
    <2>3. mid[p] \in {cams[p], StartStream(cams[p], cams[p].desired_port)}
      BY DEF ReclaimSticky
    <2>4. ~Reclaims(cams, p) => mid[p] = cams[p]
      BY DEF ReclaimSticky
    <2> QED
      BY <2>1, <2>2, <2>3, <2>4, StartStreamFields DEF ReclaimSticky
  <1> HIDE DEF mid
  <1>3. ASSUME NEW p \in DOMAIN mid
        PROVE  LET c == AssignLowest(mid)[p] IN
               c.cam = mid[p].cam /\ c.id = mid[p].id /\ c.mode = mid[p].mode
    <2>1. mid[p] \in CamRecord
      BY <1>1 DEF Sound, IsRegistry, IsPartial
    <2>2. CASE \E port \in Pool : Offered(mid, p, port)
      <3> DEFINE given == CHOOSE port \in Pool : Offered(mid, p, port)
      <3>1. given \in Pool
        BY <2>2
      <3>2. AssignLowest(mid)[p] = StartStream(mid[p], given)
        BY <2>2 DEF AssignLowest
      <3> HIDE DEF given
      <3>3. LET s == StartStream(mid[p], given) IN
            s.cam = mid[p].cam /\ s.id = mid[p].id /\ s.mode = mid[p].mode
        BY <2>1, <3>1, StartStreamFields
      <3> QED
        BY <3>2, <3>3
    <2>3. CASE ~\E port \in Pool : Offered(mid, p, port)
      BY <2>3 DEF AssignLowest
    <2> QED
      BY <2>2, <2>3
  <1>4. DOMAIN Reconcile(cams) = DOMAIN cams
    BY ReconcileDomain
  <1> QED
    BY <1>2, <1>3, <1>4 DEF SameModes, Reconcile, mid

LEMMA RemoveCameraSameModes ==
    ASSUME NEW cams, Sound(cams), NEW p
    PROVE  SameModes(cams, RemoveCamera(cams, p))
PROOF
  <1> DEFINE left == Restrict(cams, DOMAIN cams \ {p})
  <1>1. SameModes(left, Reconcile(left))
    BY RestrictSound, ReconcileSameModes
  <1>2. SameModes(cams, left)
    BY DEF SameModes, Restrict
  <1> HIDE DEF left
  <1>3. SameModes(cams, Reconcile(left))
    BY <1>1, <1>2 DEF SameModes
  <1> QED
    BY <1>3 DEF RemoveCamera, left

LEMMA SwitchCameraSameModes ==
    ASSUME NEW cams, Sound(cams), NEW id, NEW on \in BOOLEAN
    PROVE  SameModes(cams, SwitchCamera(cams, id, on))
PROOF
  <1> DEFINE p == FirstNode(cams, id)
  <1>1. \A q \in DOMAIN cams : cams[q] \in CamRecord
    BY DEF Sound, IsRegistry, IsPartial
  <1> HIDE DEF p
  <1>2. SameModes(cams, [cams EXCEPT ![p] = Switched(@, on)])
    BY <1>1 DEF SameModes, Switched, CamRecord
  <1> QED
    BY <1>2 DEF SwitchCamera, p

LEMMA EnableCameraSameModes ==
    ASSUME NEW cams, Sound(cams), NEW id, NEW on \in BOOLEAN
    PROVE  SameModes(cams, EnableCamera(cams, id, on))
PROOF
  <1> DEFINE mid == SwitchCamera(cams, id, on)
  <1>1. SameModes(cams, mid) /\ SameModes(mid, Reconcile(mid))
    BY SwitchCameraSameModes, SwitchCameraSound, ReconcileSameModes
  <1> HIDE DEF mid
  <1>2. SameModes(cams, Reconcile(mid))
    BY <1>1 DEF SameModes
  <1> QED
    BY <1>2 DEF EnableCamera, mid

LEMMA ChangeAuthSameModes ==
    ASSUME NEW cams, Sound(cams), NEW id, NEW auth
    PROVE  SameModes(cams, ChangeAuth(cams, id, auth))
PROOF
  <1> DEFINE p == FirstNode(cams, id)
  <1>1. \A q \in DOMAIN cams : cams[q] \in CamRecord
    BY DEF Sound, IsRegistry, IsPartial
  <1> HIDE DEF p
  <1>2. SameModes(cams, [cams EXCEPT ![p].auth = Filtered(auth)])
    BY <1>1 DEF SameModes, CamRecord
  <1> QED
    BY <1>2 DEF ChangeAuth, p

-----------------------------------------------------------------------------
\* Ports for everyone.

\* With nobody waiting there is nothing to do for reconcile.
LEMMA ReconcileIdles ==
    ASSUME NEW cams, Sound(cams), Waiting(cams) = {}
    PROVE  Reconcile(cams) = cams
PROOF
  <1>1. cams = [p \in DOMAIN cams |-> cams[p]]
    BY DEF Sound, IsRegistry, IsPartial
  <1>2. ReclaimSticky(cams) = cams
    BY <1>1 DEF ReclaimSticky, Reclaims
  <1>3. AssignLowest(cams) = cams
    BY <1>1 DEF AssignLowest, Offered
  <1> QED
    BY <1>2, <1>3 DEF Reconcile

\* Where the pool has a port for every node, being served is not to wait.
LEMMA ServedIsNotWaiting ==
    ASSUME NEW cams, Sound(cams), Served(cams),
           Cardinality(Path) <= Cardinality(Pool)
    PROVE  Waiting(cams) = {}
PROOF
  <1> SUFFICES ASSUME NEW w \in Waiting(cams) PROVE FALSE
    OBVIOUS
  <1> DEFINE S == {p \in DOMAIN cams : cams[p].streaming}
             l == [port \in Pool |-> CHOOSE p \in S : cams[p].port = port]
  <1>1. \A port \in Pool : \E p \in S : cams[p].port = port
    <2> SUFFICES ASSUME NEW port \in Pool PROVE \E p \in S : cams[p].port = port
      OBVIOUS
    <2>1. port \in Used(cams)
      BY DEF Served, FreePorts
    <2> QED
      BY <2>1 DEF Used, Sound, WellFormed
  <1>2. S \subseteq Path \ {w} /\ w \in Path
    BY DEF Waiting, Sound, IsRegistry, IsPartial
  <1>3. IsFiniteSet(Path) /\ IsFiniteSet(Path \ {w})
    BY PathAssumption, FS_Subset
  <1>4. Cardinality(Path \ {w}) = Cardinality(Path) - 1
    BY <1>2, <1>3, FS_RemoveElement
  <1>5. \A port \in Pool : l[port] \in S /\ cams[l[port]].port = port
    BY <1>1
  <1> HIDE DEF l
  <1>6. l \in [Pool -> Path \ {w}]
    BY <1>2, <1>5 DEF l
  <1>7. Cardinality(Path) \in Nat
    BY <1>3, FS_CardinalityType
  <1>8. IsFiniteSet(Pool) /\ Cardinality(Pool) \in Nat
    BY FS_Interval, BasePortAssumption, FS_CardinalityType DEF Pool, U16MAX
  <1>9. \A a, b \in Pool : l[a] = l[b] => a = b
    BY <1>5
  <1>10. Cardinality(Path \ {w}) < Cardinality(Pool)
    BY <1>4, <1>7, <1>8
  <1> QED
    BY <1>3, <1>6, <1>8, <1>9, <1>10, FS_PigeonHole
=============================================================================
