--------------------------- MODULE AlgorithmsProofs ---------------------------
(***************************************************************************)
(* Proofs about Algorithms, for every input of its functions, and about    *)
(* the loops of reconcile, for every registry: that they compute what      *)
(* Reconcile says, by way of the ports that each of them has marked so far.*)
(***************************************************************************)
EXTENDS Algorithms, ReconcileLoop, CameraOpsProofs, SequenceTheorems

\* What validate_ap_ip accepts is a host of the subnet, outside the leases of dhcp_range_of.
LEMMA AcceptedIsRight ==
    ASSUME NEW a \in Addresses
    PROVE  Address!AddressIsRight(a, Address!Accepts(a), Address!DhcpRange(a))
<1> SUFFICES ASSUME Address!Accepts(a)
             PROVE  Address!AddressIsRight(a, TRUE, Address!DhcpRange(a))
    BY DEF Address!AddressIsRight
<1>1. Len(a.octets) = 4 /\ a.octets[4].n # 0 /\ a.octets[4].n < 255 /\ ~(a.octets[4].n \in 100..200)
    BY DEF Address!Accepts, Address!InLeases
<1>2. \A i \in 1..4 : a.octets[i].n \in 0..255
    <2> SUFFICES ASSUME NEW i \in 1..4 PROVE a.octets[i].n \in 0..255
        OBVIOUS
    <2>1. a.octets[i] # Address!Word /\ a.octets[i].n <= 255
        BY DEF Address!Accepts, Address!Parses
    <2>2. a.octets[i] \in Octet \cup {Address!Word}
        BY <1>1, ElementOfSeq, AddressAssumption
    <2> QED
        BY <2>1, <2>2 DEF Octet
<1> QED
    BY <1>1, <1>2 DEF Address!AddressIsRight, Address!DhcpRange

----------------------------------------------------------------------------
(* Release tags.                                                           *)

\* In a base that none of them reaches, numbers are compared by the first digit that differs.
LEMMA DigitsCompare ==
    ASSUME NEW B \in Nat \ {0}, NEW x \in Nat, NEW y \in Nat, NEW r \in 0..(B - 1), NEW s \in 0..(B - 1)
    PROVE  x * B + r > y * B + s <=> x > y \/ (x = y /\ r > s)
<1>1. ASSUME NEW m \in Nat, NEW n \in Nat, NEW p \in 0..(B - 1), NEW q \in 0..(B - 1), m > n
      PROVE  m * B + p > n * B + q
    <2>1. PICK d \in Nat : m = n + 1 + d
        <3>1. m - n - 1 \in Nat /\ m = n + 1 + (m - n - 1)
            BY <1>1
        <3> QED
            BY <3>1
    <2>2. m * B = n * B + B + d * B
        BY <2>1
    <2>3. d * B >= 0 /\ n * B \in Nat /\ d * B \in Nat
        OBVIOUS
    <2> QED
        BY <2>2, <2>3
<1>2. CASE x > y
    BY <1>1, <1>2
<1>3. CASE y > x
    <2>1. y * B + s > x * B + r
        BY <1>1, <1>3
    <2>2. x * B \in Nat /\ y * B \in Nat
        OBVIOUS
    <2> QED
        BY <1>3, <2>1, <2>2
<1>4. CASE x = y
    <2>1. x * B \in Nat
        OBVIOUS
    <2> QED
        BY <1>4, <2>1
<1> QED
    BY <1>2, <1>3, <1>4

\* The lowest of a set of numbers is the one that is chosen for it.
LEMMA LowestIsChosen ==
    ASSUME NEW S \in SUBSET Nat, NEW k \in S, \A j \in S : k <= j
    PROVE  (CHOOSE i \in S : \A j \in S : i <= j) = k
<1> DEFINE c == CHOOSE i \in S : \A j \in S : i <= j
<1>1. c \in S /\ \A j \in S : c <= j
    BY Zenon
<1> HIDE DEF c
<1>2. c <= k /\ k <= c /\ c \in Nat /\ k \in Nat
    BY <1>1
<1>3. c = k
    BY <1>2
<1> QED
    BY <1>3 DEF c

\* The three numbers of a tag X.Y.Z are its first three parts.
LEMMA ReleaseParts ==
    ASSUME NEW t \in Tags, Version!Release(t)
    PROVE  /\ Version!ParseVer(t) = <<t[1], t[2], t[3]>>
           /\ \A i \in 1..3 : t[i] \in 0..(Base - 1)
<1> DEFINE numbers  == {k \in DOMAIN t : t[k] # Version!Word}
           first(S) == CHOOSE k \in S : \A j \in S : k <= j
           next(S)  == IF S = {} THEN 0 ELSE t[first(S)]
           rest(S)  == IF S = {} THEN {} ELSE S \ {first(S)}
<1>1. t \in Seq(0..(Base - 1) \cup {Version!Word}) /\ Base \in Nat \ {0}
    BY TagAssumption
<1>2. Len(t) >= 3 /\ \A i \in 1..3 : t[i] # Version!Word
    BY DEF Version!Release
<1>3. DOMAIN t = 1..Len(t) /\ Len(t) \in Nat
    BY <1>1
<1>4. \A i \in 1..3 : t[i] \in 0..(Base - 1)
    <2> SUFFICES ASSUME NEW i \in 1..3 PROVE t[i] \in 0..(Base - 1)
        OBVIOUS
    <2>1. i \in 1..Len(t)
        BY <1>2, <1>3
    <2>2. t[i] \in 0..(Base - 1) \cup {Version!Word}
        BY <1>1, <2>1, ElementOfSeq
    <2> QED
        BY <1>2, <2>2
<1>5. 1 \in numbers /\ 2 \in numbers /\ 3 \in numbers /\ numbers \subseteq Nat \ {0}
    BY <1>2, <1>3
<1> HIDE DEF numbers
<1> DEFINE two   == numbers \ {1}
           three == two \ {2}
<1>6. /\ 2 \in two /\ two \in SUBSET Nat /\ \A j \in two : 2 <= j
      /\ 3 \in three /\ three \in SUBSET Nat /\ \A j \in three : 3 <= j
      /\ numbers \in SUBSET Nat /\ \A j \in numbers : 1 <= j
    BY <1>5
<1>7. first(numbers) = 1
    BY <1>5, <1>6, LowestIsChosen
<1> HIDE DEF two, three
<1>8. first(two) = 2 /\ first(three) = 3
    BY <1>6, LowestIsChosen
<1> HIDE DEF first
<1>9. next(numbers) = t[1] /\ rest(numbers) = two
    BY <1>5, <1>7 DEF two
<1>10. next(two) = t[2] /\ rest(two) = three
    BY <1>6, <1>8 DEF three
<1>12. next(three) = t[3]
    BY <1>6, <1>8
<1>13. Version!ParseVer(t) = <<next(numbers), next(rest(numbers)), next(rest(rest(numbers)))>>
    BY DEF Version!ParseVer, numbers, first
<1> HIDE DEF next, rest
<1> QED
    BY <1>4, <1>9, <1>10, <1>12, <1>13

LEMMA NewerIsRight ==
    ASSUME NEW a \in Tags, NEW b \in Tags, Version!Release(a), Version!Release(b)
    PROVE  Version!VersionGt(a, b) <=> Version!Weight(a, Base) > Version!Weight(b, Base)
<1>1. /\ Version!ParseVer(a) = <<a[1], a[2], a[3]>> /\ Version!ParseVer(b) = <<b[1], b[2], b[3]>>
      /\ Base \in Nat \ {0}
      /\ \A i \in 1..3 : a[i] \in 0..(Base - 1) /\ b[i] \in 0..(Base - 1)
    BY ReleaseParts, TagAssumption
<1>2. Version!VersionGt(a, b) <=> \/ a[1] > b[1]
                                  \/ a[1] = b[1] /\ a[2] > b[2]
                                  \/ a[1] = b[1] /\ a[2] = b[2] /\ a[3] > b[3]
    BY <1>1 DEF Version!VersionGt
<1> DEFINE x == a[1] * Base + a[2]
           y == b[1] * Base + b[2]
<1>3. a[1] \in Nat /\ b[1] \in Nat /\ x \in Nat /\ y \in Nat
    BY <1>1
<1>4. x > y <=> a[1] > b[1] \/ (a[1] = b[1] /\ a[2] > b[2])
    <2>1. a[2] \in 0..(Base - 1) /\ b[2] \in 0..(Base - 1)
        BY <1>1
    <2> QED
        BY <1>1, <1>3, <2>1, DigitsCompare
<1>5. y > x <=> b[1] > a[1] \/ (b[1] = a[1] /\ b[2] > a[2])
    <2>1. a[2] \in 0..(Base - 1) /\ b[2] \in 0..(Base - 1)
        BY <1>1
    <2> QED
        BY <1>1, <1>3, <2>1, DigitsCompare
<1>6. x = y <=> a[1] = b[1] /\ a[2] = b[2]
    <2>1. a[2] \in Nat /\ b[2] \in Nat
        BY <1>1
    <2>2. a[1] = b[1] /\ a[2] = b[2] => x = y
        OBVIOUS
    <2> HIDE DEF x, y
    <2> QED
        BY <1>3, <1>4, <1>5, <2>1, <2>2
<1>7. x * Base + a[3] > y * Base + b[3] <=> x > y \/ (x = y /\ a[3] > b[3])
    <2> HIDE DEF x, y
    <2> QED
        BY <1>1, <1>3, DigitsCompare
<1>8. Version!Weight(a, Base) = x * Base + a[3] /\ Version!Weight(b, Base) = y * Base + b[3]
    BY DEF Version!Weight
<1> HIDE DEF x, y
<1> QED
    BY <1>2, <1>4, <1>6, <1>7, <1>8

----------------------------------------------------------------------------
(* /etc/hosts.                                                             *)

\* Of any content no line of which only looks like the box's own.
LEMMA HostsStayRight ==
    ASSUME NEW content \in Contents, NEW name,
           \A k \in DOMAIN content : content[k].addr # Hosts!LikeOwn
    PROVE  Hosts!HostsAreRight(content, name, Hosts!UpdateEtcHosts(content, name))
<1> DEFINE line == [addr |-> Hosts!Own, name |-> name]
           out  == [k \in DOMAIN content |-> IF Hosts!IsOwn(content[k]) THEN line ELSE content[k]]
           own  == \E k \in DOMAIN content : Hosts!IsOwn(content[k])
           new  == Hosts!UpdateEtcHosts(content, name)
<1>1. PICK n \in Nat : content \in Seq([addr : STRING, name : STRING]) /\ n = Len(content)
    BY ContentAssumption
<1>2. DOMAIN content = 1..n
    BY <1>1
<1>3. \A k \in 1..n : Hosts!IsOwn(content[k]) <=> content[k].addr = Hosts!Own
    BY <1>2 DEF Hosts!IsOwn
<1>4. Hosts!IsOwn(line) /\ line.addr = Hosts!Own /\ line.name = name
    BY DEF Hosts!IsOwn
<1>5. new = IF own THEN out ELSE Append(out, line)
    BY DEF Hosts!UpdateEtcHosts
<1>6. DOMAIN out = 1..n /\ \A k \in 1..n : out[k] = IF Hosts!IsOwn(content[k]) THEN line ELSE content[k]
    BY <1>2
<1> HIDE DEF line
\* The own lines are all alike, and there is one; what else is there was there before.
<1>7. /\ DOMAIN new = 1..n \/ DOMAIN new = 1..(n + 1)
      /\ \E k \in DOMAIN new : new[k] = line
      /\ \A k \in DOMAIN new : new[k] = line \/ (k \in 1..n /\ ~Hosts!IsOwn(content[k]) /\ new[k] = content[k])
      /\ \A k \in 1..n : k \in DOMAIN new /\ (~Hosts!IsOwn(content[k]) => new[k] = content[k])
    <2>1. CASE own
        <3>1. new = out
            BY <1>5, <2>1
        <3> HIDE DEF out, new
        <3> QED
            BY <1>2, <1>6, <2>1, <3>1
    <2>2. CASE ~own
        <3>1. new = Append(out, line)
            BY <1>5, <2>2
        <3>2. out = content
            <4>1. content = [k \in DOMAIN content |-> content[k]]
                BY <1>1
            <4>2. out = [k \in DOMAIN content |-> content[k]]
                BY <2>2
            <4> QED
                BY <4>1, <4>2
        <3>3. /\ DOMAIN new = 1..(n + 1) /\ new[n + 1] = line
              /\ \A k \in 1..n : new[k] = content[k]
            <4>1. new = Append(content, line)
                BY <3>1, <3>2
            <4> HIDE DEF new
            <4> QED
                BY <1>1, <4>1
        <3> HIDE DEF out, new
        <3> QED
            BY <1>2, <2>2, <3>3
    <2> QED
        BY <2>1, <2>2
<1> HIDE DEF out, own, new
<1>8. \A k \in DOMAIN new : Hosts!IsOwn(new[k]) <=> new[k].addr = Hosts!Own
    BY <1>3, <1>4, <1>7
<1>9. {new[k].name : k \in {j \in DOMAIN new : new[j].addr = Hosts!Own}} = {name}
    BY <1>3, <1>4, <1>7
<1>10. \A k \in DOMAIN content : content[k].addr # Hosts!Own => k \in DOMAIN new /\ new[k] = content[k]
    BY <1>2, <1>3, <1>7
<1>11. \A k \in DOMAIN new : new[k].addr # Hosts!Own => k \in DOMAIN content /\ new[k] = content[k]
    BY <1>2, <1>4, <1>7
<1>12. Hosts!UpdateEtcHosts(new, name) = new
    <2> DEFINE again == [k \in DOMAIN new |-> IF Hosts!IsOwn(new[k]) THEN line ELSE new[k]]
    <2>1. \E k \in DOMAIN new : Hosts!IsOwn(new[k])
        BY <1>4, <1>7
    <2>2. Hosts!UpdateEtcHosts(new, name) = again
        BY <2>1 DEF Hosts!UpdateEtcHosts, line
    <2>3. \A k \in DOMAIN new : again[k] = new[k]
        BY <1>3, <1>7, <1>8
    <2>4. new = [k \in DOMAIN new |-> new[k]]
        <3>1. new = out \/ new = Append(out, line)
            BY <1>5
        <3>2. out = [k \in DOMAIN out |-> out[k]] /\ Append(out, line) = [k \in DOMAIN Append(out, line) |-> Append(out, line)[k]]
            BY DEF out
        <3> QED
            BY <3>1, <3>2
    <2> QED
        BY <2>2, <2>3, <2>4
<1> QED
    BY <1>9, <1>10, <1>11, <1>12 DEF Hosts!HostsAreRight, new

----------------------------------------------------------------------------
(* What a driver lists.                                                    *)

\* An enumeration sees the beginning of a list.
LEMMA SeenBegins ==
    ASSUME NEW S, NEW list \in Seq(S)
    PROVE  \E n \in 0..Len(list) :
               /\ DOMAIN Seen(list) = 1..n
               /\ \A k \in 1..n : Seen(list)[k] = list[k]
<1> DEFINE m == Len(list)
           Ends(n) == n = m \/ ~list[n + 1].discrete \/ n = MaxIndex
           All(n) == \A k \in 1..n : list[k].discrete /\ k <= MaxIndex
           T == {n \in 0..m : Ends(n)}
           n0 == CHOOSE n \in 0..m : All(n) /\ Ends(n)
<1>1. m \in Nat /\ MaxIndex \in Nat
    BY MaxIndexAssumption
<1>2. m \in T /\ T \in SUBSET Nat
    BY <1>1
<1> HIDE DEF T
<1>3. PICK n \in T : \A j \in T : n <= j
    BY <1>2, LowestExists
<1> USE DEF T
<1>4. n \in 0..m /\ Ends(n) /\ \A j \in 0..m : Ends(j) => n <= j
    BY <1>3
<1>5. All(n)
    <2> SUFFICES ASSUME NEW k \in 1..n PROVE list[k].discrete /\ k <= MaxIndex
        OBVIOUS
    <2>1. k - 1 \in 0..m /\ ~(n <= k - 1) /\ (k - 1) + 1 = k
        BY <1>1, <1>4
    <2>2. ~Ends(k - 1)
        BY <1>4, <2>1
    <2>3. list[k].discrete
        BY <2>1, <2>2
    <2>4. ASSUME k > MaxIndex PROVE FALSE
        <3>1. MaxIndex \in 0..m /\ ~(n <= MaxIndex)
            BY <1>1, <1>4, <2>4
        <3> QED
            BY <1>4, <3>1
    <2> QED
        BY <1>1, <1>4, <2>3, <2>4
<1> HIDE DEF T, All, Ends
<1>6. n0 \in 0..m
    BY <1>4, <1>5
<1>7. Seen(list) = SubSeq(list, 1, n0)
    BY DEF Seen, All, Ends
<1> HIDE DEF n0
<1> QED
    BY <1>1, <1>6, <1>7

\* The first of the rates is the highest, and there is one if there is a rate at all.
LEMMA HighestRateFirst ==
    ASSUME NEW intervals \in Seq(Interval)
    PROVE  /\ DOMAIN EnumFrameRates(intervals) = 1..Cardinality(Rates(Seen(intervals)))
           /\ EnumFrameRates(intervals) # <<>> => Rates(Seen(intervals)) # {}
           /\ Rates(Seen(intervals)) # {} =>
                /\ EnumFrameRates(intervals) # <<>> /\ 1 \in DOMAIN EnumFrameRates(intervals)
                /\ EnumFrameRates(intervals)[1] \in Nat
                /\ \A r \in Rates(Seen(intervals)) : r \in Nat /\ r <= EnumFrameRates(intervals)[1]
<1> DEFINE seen  == Seen(intervals)
           rates == Rates(Seen(intervals))
           I     == {j \in DOMAIN seen : seen[j].num > 0}
<1>1. PICK n \in 0..Len(intervals) : DOMAIN seen = 1..n /\ \A k \in 1..n : seen[k] = intervals[k]
    BY SeenBegins
<1>2. ASSUME NEW k \in DOMAIN seen PROVE seen[k] \in Interval
    <2>1. k \in 1..Len(intervals)
        BY <1>1
    <2> QED
        BY <1>1, <2>1, ElementOfSeq
<1>3. rates = {seen[k].den \div seen[k].num : k \in I}
    BY DEF Rates
<1>4. IsFiniteSet(I)
    <2>1. I \in SUBSET (1..n) /\ n \in Int
        BY <1>1
    <2>2. IsFiniteSet(1..n)
        BY <2>1, FS_Interval
    <2> QED
        BY <2>1, <2>2, FS_Subset
<1> HIDE DEF I
<1>5. IsFiniteSet(rates)
    <2> DEFINE f == [k \in I |-> seen[k].den \div seen[k].num]
    <2>1. f \in Surjection(I, rates)
        BY <1>3 DEF Surjection
    <2> HIDE DEF f
    <2> QED
        BY <1>4, <2>1, FS_Surjection
<1>6. rates \in SUBSET Nat
    <2> SUFFICES ASSUME NEW k \in I PROVE seen[k].den \div seen[k].num \in Nat
        BY <1>3
    <2>1. seen[k].den \in Nat /\ seen[k].num \in Nat \ {0}
        BY <1>2 DEF I, Interval
    <2> QED
        BY <2>1
<1> HIDE DEF seen
<1>7. EnumFrameRates(intervals) =
          [i \in 1..Cardinality(rates) |-> CHOOSE r \in rates : Cardinality({s \in rates : s > r}) = i - 1]
    BY DEF EnumFrameRates
<1> HIDE DEF rates
<1>8. ASSUME rates # {}
      PROVE  /\ Cardinality(rates) \in Nat /\ Cardinality(rates) >= 1
             /\ EnumFrameRates(intervals)[1] \in rates
             /\ \A r \in rates : r <= EnumFrameRates(intervals)[1]
    <2> DEFINE Above(r) == {s \in rates : s > r}
               c == CHOOSE r \in rates : Cardinality(Above(r)) = 0
    <2>1. PICK x \in rates : \A y \in rates : y <= x
        BY <1>5, <1>6, <1>8, HighestExists
    <2>2. Cardinality(rates) \in Nat /\ Cardinality(rates) # 0
        BY <1>5, <1>8, FS_CardinalityType, FS_EmptySet
    <2>3. Above(x) = {}
        <3>1. \A s \in rates : s \in Nat /\ x \in Nat /\ ~(s > x)
            BY <1>6, <2>1
        <3> QED
            BY <3>1
    <2>4. Cardinality(Above(x)) = 0
        BY <2>3, FS_EmptySet
    <2> HIDE DEF Above
    <2>5. c \in rates /\ Cardinality(Above(c)) = 0
        BY <2>4
    <2>6. EnumFrameRates(intervals)[1] = c
        <3>1. 1 \in 1..Cardinality(rates) /\ 1 - 1 = 0
            BY <2>2
        <3>2. EnumFrameRates(intervals)[1] =
                  CHOOSE r \in rates : Cardinality({s \in rates : s > r}) = 1 - 1
            BY <1>7, <3>1
        <3> QED
            BY <3>1, <3>2 DEF Above
    <2> HIDE DEF c
    <2>7. Above(c) = {}
        <3>1. IsFiniteSet(Above(c))
            BY <1>5, FS_Subset DEF Above
        <3> QED
            BY <2>5, <3>1, FS_EmptySet
    <2> QED
        BY <1>6, <2>2, <2>5, <2>6, <2>7 DEF Above
<1>9. rates = Rates(Seen(intervals)) /\ DOMAIN EnumFrameRates(intervals) = 1..Cardinality(rates)
    BY <1>7 DEF rates
<1>10. 1 \in DOMAIN EnumFrameRates(intervals) => EnumFrameRates(intervals) # <<>>
    OBVIOUS
<1>11. rates = {} => EnumFrameRates(intervals) = <<>>
    <2> DEFINE Ith(i) == CHOOSE r \in rates : Cardinality({s \in rates : s > r}) = i - 1
    <2>1. EnumFrameRates(intervals) = [i \in 1..Cardinality(rates) |-> Ith(i)]
        BY <1>7
    <2> HIDE DEF Ith
    <2>2. rates = {} => Cardinality(rates) = 0
        BY FS_EmptySet
    <2>3. [i \in 1..0 |-> Ith(i)] = <<>>
        OBVIOUS
    <2> QED
        BY <2>1, <2>2, <2>3
<1> QED
    BY <1>6, <1>8, <1>9, <1>10, <1>11

\* A rate is the whole part of frames over seconds: the next higher one would be too high.
LEMMA WholeRate ==
    ASSUME NEW den \in Nat, NEW num \in Nat \ {0}, NEW top \in Nat, den \div num <= top
    PROVE  den < (top + 1) * num
<1> DEFINE q == den \div num
<1>1. q \in Nat /\ den < (q + 1) * num
    <2>1. /\ den % num \in 0..(num - 1) /\ q \in Nat
          /\ den = num * q + (den % num)
        OBVIOUS
    <2> HIDE DEF q
    <2>2. (q + 1) * num = num * q + num /\ num * q \in Nat
        BY <2>1
    <2> QED
        BY <2>1, <2>2
<1>2. PICK d \in Nat : top = q + d
    <2>1. top - q \in Nat /\ top = q + (top - q)
        BY <1>1
    <2> QED
        BY <2>1
<1> HIDE DEF q
<1>3. (top + 1) * num = (q + 1) * num + d * num /\ d * num \in Nat /\ (q + 1) * num \in Nat
    BY <1>1, <1>2
<1> QED
    BY <1>1, <1>3

\* The first of the settings are right for the sizes that the modes are listed from.
LEMMA FirstIsRight ==
    ASSUME NEW sizes \in Seq(Size), NEW config
    PROVE  InitialIsRight(sizes, EnumModes(sizes), config, FirstSettings(EnumModes(sizes), config))
<1> DEFINE seen     == Seen(sizes)
           modes    == EnumModes(sizes)
           settings == FirstSettings(modes, config)
           rates    == EnumFrameRates(sizes[1].intervals)
<1>1. PICK n \in 0..Len(sizes) : DOMAIN seen = 1..n /\ \A k \in 1..n : seen[k] = sizes[k]
    BY SeenBegins
<1>2. /\ DOMAIN modes = 1..n
      /\ \A k \in 1..n : modes[k] = [size |-> sizes[k].size, fps |-> EnumFrameRates(sizes[k].intervals)]
    BY <1>1 DEF EnumModes
<1>3. Offers(modes, config) => settings = config
    BY DEF FirstSettings
<1>4. modes = <<>> => settings = config
    BY DEF FirstSettings
<1>5. ASSUME ~Offers(modes, config), modes # <<>>
      PROVE  settings = [size |-> modes[1].size,
                         fps  |-> IF modes[1].fps = <<>> THEN config.fps ELSE modes[1].fps[1]]
    BY <1>5 DEF FirstSettings
<1>6. modes # <<>> => 1 \in 1..n
    <2> SUFFICES ASSUME n = 0 PROVE modes = <<>>
        BY <1>1
    <2>1. modes = [k \in DOMAIN modes |-> modes[k]]
        BY DEF EnumModes
    <2>2. DOMAIN modes = {}
        BY <1>2
    <2> HIDE DEF modes
    <2> QED
        BY <2>1, <2>2
<1> HIDE DEF modes, settings, seen
<1>7. ASSUME modes # <<>>
      PROVE  /\ sizes[1].intervals \in Seq(Interval)
             /\ modes[1].size = sizes[1].size /\ modes[1].fps = rates
    <2>1. 1 \in 1..Len(sizes)
        BY <1>1, <1>6, <1>7
    <2>2. sizes[1] \in Size
        BY <2>1, ElementOfSeq
    <2> QED
        BY <1>2, <1>6, <1>7, <2>2 DEF Size
<1>8. ASSUME modes # <<>>, modes[1].fps # <<>> PROVE Offers(modes, settings)
    <2>1. CASE Offers(modes, config)
        BY <1>3, <2>1
    <2>2. CASE ~Offers(modes, config)
        <3>1. settings.size = modes[1].size /\ settings.fps = modes[1].fps[1]
            BY <1>5, <1>8, <2>2
        <3>2. 1 \in DOMAIN rates
            BY <1>7, <1>8, HighestRateFirst
        <3> HIDE DEF rates
        <3> QED
            BY <1>2, <1>6, <1>7, <1>8, <3>1, <3>2 DEF Offers
    <2> QED
        BY <2>1, <2>2
<1>9. ASSUME modes # <<>>, modes[1].fps = <<>>
       PROVE  Offers(modes, settings) \/ settings = [size |-> modes[1].size, fps |-> config.fps]
    BY <1>3, <1>5, <1>9
<1>10. ASSUME settings # config, modes # <<>>, NEW k \in DOMAIN Seen(sizes[1].intervals),
             sizes[1].intervals[k].num > 0
      PROVE  sizes[1].intervals[k].den < (settings.fps + 1) * sizes[1].intervals[k].num
    <2> DEFINE list == sizes[1].intervals
               some == Rates(Seen(list))
    <2>1. list \in Seq(Interval) /\ modes[1].fps = rates
        BY <1>7, <1>10
    <2>2. PICK m \in 0..Len(list) : DOMAIN Seen(list) = 1..m /\ \A j \in 1..m : Seen(list)[j] = list[j]
        BY <2>1, SeenBegins
    <2>3. list[k] \in Interval /\ Seen(list)[k] = list[k]
        <3>1. k \in 1..Len(list)
            BY <1>10, <2>2
        <3> QED
            BY <1>10, <2>1, <2>2, <3>1, ElementOfSeq
    <2>4. list[k].den \in Nat /\ list[k].num \in Nat \ {0}
        BY <1>10, <2>3 DEF Interval
    <2>5. list[k].den \div list[k].num \in some
        BY <1>10, <2>3 DEF Rates
    <2>6. rates # <<>> /\ rates[1] \in Nat /\ list[k].den \div list[k].num <= rates[1]
        BY <2>1, <2>5, HighestRateFirst
    <2>7. settings.fps = rates[1]
        BY <1>3, <1>5, <1>10, <2>1, <2>6
    <2> HIDE DEF rates, list
    <2>8. list[k].den < (rates[1] + 1) * list[k].num
        BY <2>4, <2>6, WholeRate
    <2> QED
        BY <2>7, <2>8 DEF list
<1> QED
    BY <1>3, <1>4, <1>8, <1>9, <1>10 DEF InitialIsRight, modes, settings

\* Whatever a driver lists.
LEMMA SettingsAreRight ==
    ASSUME NEW d \in Drivers, NEW config
    PROVE  LET s == Settings(d, config) IN InitialIsRight(s.sizes, s.modes, config, s.settings)
<1> DEFINE Record == [format : STRING, sizes : Seq(Size)]
           format == PickFormat([k \in DOMAIN d |-> d[k].format])
           Is(k)  == d[k].format = format /\ \A j \in 1..k - 1 : d[j].format # format
           sizes  == IF format = NoFormat THEN <<>> ELSE d[CHOOSE k \in DOMAIN d : Is(k)].sizes
<1>1. d \in Seq(Record) /\ DOMAIN d = 1..Len(d) /\ Len(d) \in Nat
    <2>1. d \in Seq(Record)
        BY DriverAssumption
    <2> HIDE DEF Record
    <2> QED
        BY <2>1
<1>2. ASSUME format # NoFormat PROVE \E k \in DOMAIN d : d[k].format = format
    <2> DEFINE formats == [k \in DOMAIN d |-> d[k].format]
               asked   == SubSeq(formats, 1, IF Len(formats) < MaxIndex THEN Len(formats) ELSE MaxIndex)
    <2>1. formats \in Seq(STRING) /\ Len(formats) = Len(d)
        <3>1. \A k \in 1..Len(d) : d[k] \in Record
            BY <1>1, ElementOfSeq
        <3>2. \A k \in DOMAIN d : d[k].format \in STRING
            BY <1>1, <3>1
        <3> HIDE DEF Record
        <3> QED
            BY <1>1, <3>2
    <2> HIDE DEF Record
    <2>2. PICK n \in 0..Len(d) : n = IF Len(formats) < MaxIndex THEN Len(formats) ELSE MaxIndex
        <3>1. (IF Len(d) < MaxIndex THEN Len(d) ELSE MaxIndex) \in 0..Len(d)
            BY <1>1, MaxIndexAssumption
        <3> HIDE DEF formats, asked
        <3> QED
            BY <2>1, <3>1
    <2>3. /\ asked \in Seq(STRING) /\ DOMAIN asked = 1..n
          /\ \A k \in 1..n : asked[k] = d[k].format
        <3>1. asked = SubSeq(formats, 1, n)
            BY <2>2
        <3>2. n \in Nat /\ 1..n \subseteq DOMAIN d
            BY <1>1
        <3>3. \A k \in 1..n : formats[k] = d[k].format /\ formats[k] \in STRING
            <4>1. \A k \in 1..n : formats[k] = d[k].format
                BY <3>2
            <4>2. \A k \in 1..n : k \in 1..Len(formats)
                BY <1>1, <2>1, <3>2
            <4> HIDE DEF formats
            <4> QED
                BY <2>1, <4>1, <4>2, ElementOfSeq
        <3> HIDE DEF formats, asked
        <3>4. /\ asked \in Seq(STRING)
              /\ Len(asked) = IF 1 <= n THEN n - 1 + 1 ELSE 0
              /\ \A k \in 1..n - 1 + 1 : asked[k] = formats[1 + k - 1]
            BY <3>1, <3>2, <3>3, SubSeqProperties
        <3>5. Len(asked) = n /\ \A k \in 1..n : asked[k] = formats[k]
            BY <3>2, <3>4
        <3> QED
            BY <3>3, <3>4, <3>5
    <2>4. format = IF asked = <<>> THEN NoFormat
                   ELSE IF \E k \in DOMAIN asked : asked[k] = MJPEG THEN MJPEG ELSE asked[1]
        BY DEF PickFormat
    <2>5. asked # <<>> => 1 \in DOMAIN asked
        <3> HIDE DEF asked
        <3> QED
            BY <2>3, EmptySeq
    <2> HIDE DEF asked, format
    <2>6. \E k \in DOMAIN asked : asked[k] = format
        BY <1>2, <2>4, <2>5
    <2> QED
        BY <1>1, <2>3, <2>6
<1>3. sizes \in Seq(Size)
    <2>1. CASE format = NoFormat
        BY <2>1
    <2>2. CASE format # NoFormat
        <3> DEFINE c == CHOOSE k \in DOMAIN d : Is(k)
                   S == {k \in DOMAIN d : d[k].format = format}
        <3> HIDE DEF format
        <3>1. S \in SUBSET Nat /\ S # {}
            BY <1>1, <1>2, <2>2
        <3>2. PICK x \in S : \A y \in S : x <= y
            <4> HIDE DEF S
            <4> QED
                BY <3>1, LowestExists
        <3>3. Is(x)
            <4> SUFFICES ASSUME NEW j \in 1..x - 1, d[j].format = format PROVE FALSE
                OBVIOUS
            <4>1. j \in S /\ ~(x <= j)
                BY <1>1
            <4> QED
                BY <3>2, <4>1
        <3>4. c \in DOMAIN d
            BY <3>3
        <3> HIDE DEF c
        <3>5. d[c] \in Record
            BY <1>1, <3>4, ElementOfSeq
        <3>6. d[c].sizes \in Seq(Size)
            BY <3>5
        <3> QED
            BY <2>2, <3>6 DEF c
    <2> QED
        BY <2>1, <2>2
<1>4. /\ Settings(d, config).sizes = sizes
      /\ Settings(d, config).modes = EnumModes(sizes)
      /\ Settings(d, config).settings = FirstSettings(EnumModes(sizes), config)
    BY DEF Settings
<1> HIDE DEF sizes
<1> QED
    BY <1>3, <1>4, FirstIsRight

----------------------------------------------------------------------------
(* The calls: what a function has answered is what it computes of its      *)
(* input.                                                                  *)

Calls ==
    /\ fn = "address" =>
          /\ input \in [a : Addresses]
          /\ output # None => output = [ok    |-> Address!Accepts(input.a),
                                        range |-> Address!DhcpRange(input.a)]
    /\ fn = "version" =>
          /\ input \in [a : Tags, b : Tags]
          /\ output # None => output = [gt |-> Version!VersionGt(input.a, input.b)]
    /\ fn = "settings" =>
          /\ input \in [formats : Drivers, config : Configured]
          /\ output # None => output = Settings(input.formats, input.config)
    /\ fn = "hosts" =>
          /\ input \in [content : Contents]
          /\ output # None => output = [out |-> Hosts!UpdateEtcHosts(input.content, "box")]

LEMMA CallsInvariance == Spec => []Calls
<1>1. Init => Calls
    BY DEF Init, Calls
<1>2. Calls /\ [Next]_vars => Calls'
    <2> SUFFICES ASSUME Calls, [Next]_vars PROVE Calls'
        OBVIOUS
    <2>1. CASE Next
        <3>1. fn' = fn /\ input' = input
            BY <2>1 DEF Next, Answer
        <3>2. CASE output' = output
            BY <3>1, <3>2 DEF Calls
        <3>3. CASE AddressAnswers
            BY <3>1, <3>3 DEF AddressAnswers, Calls
        <3>4. CASE VersionAnswers
            BY <3>1, <3>4 DEF VersionAnswers, Calls
        <3>5. CASE SettingsAnswers
            BY <3>1, <3>5 DEF SettingsAnswers, Calls
        <3>6. CASE HostsAnswers
            BY <3>1, <3>6 DEF HostsAnswers, Calls
        <3> QED
            BY <2>1, <3>2, <3>3, <3>4, <3>5, <3>6 DEF Next, Answer
    <2>2. CASE UNCHANGED vars
        BY <2>2 DEF vars, Calls
    <2> QED
        BY <2>1, <2>2
<1> QED
    BY <1>1, <1>2, PTL DEF Spec

\* "So the gateway can't collide with a lease" (net.rs:378-379), whatever the user types.
THEOREM GatewayNeverLeased == Spec => []GatewayIsNoLease
<1>1. Calls => GatewayIsNoLease
    <2> SUFFICES ASSUME Calls, Answered("address")
                 PROVE  Address!AddressIsRight(input.a, output.ok, output.range)
        BY DEF GatewayIsNoLease
    <2>1. /\ input.a \in Addresses
          /\ output.ok = Address!Accepts(input.a) /\ output.range = Address!DhcpRange(input.a)
        BY DEF Calls, Answered
    <2> QED
        BY <2>1, AcceptedIsRight
<1> QED
    BY <1>1, CallsInvariance, PTL

\* "Is version a strictly newer than b?" (update.rs:255), for any two tags X.Y.Z whose numbers are
\* below Base, with any suffix.
THEOREM NewerStaysNumeric == Spec => []NewerIsNumeric
<1>1. Calls => NewerIsNumeric
    <2> SUFFICES ASSUME Calls, Answered("version"), Version!Release(input.a), Version!Release(input.b)
                 PROVE  output.gt <=> Version!Weight(input.a, Base) > Version!Weight(input.b, Base)
        BY DEF NewerIsNumeric
    <2>1. /\ input.a \in Tags /\ input.b \in Tags
          /\ output = [gt |-> Version!VersionGt(input.a, input.b)]
        BY DEF Calls, Answered
    <2>2. output.gt = Version!VersionGt(input.a, input.b)
        BY <2>1
    <2> QED
        BY <2>1, <2>2, NewerIsRight
<1> QED
    BY <1>1, CallsInvariance, PTL

\* A camera starts with the configured settings if it has them, and with its first size at its
\* highest rate if not, whatever a driver lists and whatever is configured. The exception is a first
\* size without a rate, which gets the configured rate.
THEOREM InitialSettingsStayRight == Spec => []InitialSettingsWork
<1>1. Calls => InitialSettingsWork
    <2> SUFFICES ASSUME Calls, Answered("settings")
                 PROVE  InitialIsRight(output.sizes, output.modes, input.config, output.settings)
        BY DEF InitialSettingsWork
    <2>1. input.formats \in Drivers /\ output = Settings(input.formats, input.config)
        BY DEF Calls, Answered
    <2> QED
        BY <2>1, SettingsAreRight
<1> QED
    BY <1>1, CallsInvariance, PTL

\* "Point the 127.0.1.1 line at the new hostname" (net.rs:787), of any content of /etc/hosts in
\* which no other address starts like that one.
THEOREM HostsStayKept == Spec => []HostsKeepOthers
<1>1. Calls => HostsKeepOthers
    <2> SUFFICES ASSUME Calls, Answered("hosts"),
                        \A k \in DOMAIN input.content : input.content[k].addr # Hosts!LikeOwn
                 PROVE  Hosts!HostsAreRight(input.content, "box", output.out)
        BY DEF HostsKeepOthers
    <2>1. input.content \in Contents /\ output.out = Hosts!UpdateEtcHosts(input.content, "box")
        BY DEF Calls, Answered
    <2> QED
        BY <2>1, HostsStayRight
<1> QED
    BY <1>1, CallsInvariance, PTL

----------------------------------------------------------------------------
(* The scan parser: after each line, what has been entered is right for    *)
(* the stations before the one that is being read (Best), and of that one  *)
(* all is known whose line has been read (Pending), unless a "BSS Load:"   *)
(* came: behind the last of its lines, when it is entered already (Ended), *)
(* or between them, when its name is excused (Partly).                     *)

Found == [ssid : STRING, signal : Int, secured : BOOLEAN]

ScanTypes ==
    /\ blocks \in Seq(Station)
    /\ station \in 0..Len(blocks)
    /\ results \in Seq(Found)
    /\ phase \in {"idle", "read", "sort", "done"}

\* The entries of the first n stations, in any order.
Best(list, n) ==
    /\ \A i \in DOMAIN list : list[i].ssid # NoName /\ \E b \in 1..n : Explains(b, list[i], n)
    /\ \A b \in 1..n :
          blocks[b].ssid # NoName => \E i \in DOMAIN list : list[i].ssid = blocks[b].ssid
    /\ \A i, j \in DOMAIN list : list[i].ssid = list[j].ssid => i = j

Pending ==
    /\ station = 0 => unread = {} /\ ssid = NoName
    /\ station # 0 =>
          /\ unread \subseteq Told(blocks[station])
          /\ ssid    = IF "SSID" \in unread THEN NoName ELSE blocks[station].ssid
          /\ signal  = IF "signal" \in unread THEN NoSignal ELSE blocks[station].signal
          /\ secured = IF "RSN" \in unread THEN FALSE ELSE blocks[station].secured

Intact == Pending /\ Best(results, IF station = 0 THEN 0 ELSE station - 1)

Ended == station # 0 /\ unread = {} /\ ssid = NoName /\ Best(results, station)

\* Entries of the stations up to the one that is being read, in which the name of that one may have
\* any signal, and may be missing.
Partly(list) ==
    /\ \A i \in DOMAIN list :
          /\ list[i].ssid # NoName
          /\ \E b \in 1..station :
                /\ blocks[b].ssid = list[i].ssid
                /\ list[i].secured => blocks[b].secured
                /\ list[i].ssid \notin cut \cup {blocks[station].ssid} => IsBest(b, list[i], station)
    /\ \A b \in 1..station :
          blocks[b].ssid \notin {NoName, blocks[station].ssid} =>
              \E i \in DOMAIN list : list[i].ssid = blocks[b].ssid
    /\ \A i, j \in DOMAIN list : list[i].ssid = list[j].ssid => i = j

\* What is known of a station whose block is cut is true of it.
Known ==
    /\ ssid \in {NoName, blocks[station].ssid}
    /\ signal \in Int /\ secured \in BOOLEAN
    /\ secured => blocks[station].secured

Spoiled ==
    /\ station # 0 /\ blocks[station].ssid \in cut
    /\ unread \subseteq Told(blocks[station])
    /\ Known /\ Partly(results)
    /\ \/ blocks[station].ssid = NoName \/ "SSID" \in unread \/ ssid = blocks[station].ssid
       \/ \E i \in DOMAIN results : results[i].ssid = blocks[station].ssid

ScanIInv ==
    /\ ScanTypes
    /\ phase = "read" => Intact \/ Ended \/ Spoiled
    /\ phase = "sort" => Best(results, Len(blocks))
    /\ ScanKeepsStrongest

\* One station more is entered.
LEMMA EnteredIsBest ==
    ASSUME ScanTypes, NEW n \in Nat, n + 1 <= Len(blocks), Best(results, n),
           ssid = blocks[n + 1].ssid, signal = blocks[n + 1].signal, secured = blocks[n + 1].secured
    PROVE  Entered \in Seq(Found) /\ Best(Entered, n + 1)
<1> DEFINE m == n + 1
<1>1. /\ m \in 1..Len(blocks) /\ m \in Nat /\ \A b \in 1..m : b \in 1..n \/ b = m
      /\ \A b \in 1..n : b \in 1..m /\ b <= m /\ b # m
    BY DEF ScanTypes
<1>2. \A b \in 1..m : blocks[b] \in Station
    <2>1. \A b \in 1..m : b \in 1..Len(blocks)
        BY <1>1
    <2> QED
        BY <2>1, ElementOfSeq DEF ScanTypes
<1>3. /\ Entry = Heard(m) /\ Entry \in Found
      /\ Heard(m).ssid = blocks[m].ssid /\ Heard(m).secured = blocks[m].secured
      /\ Heard(m).signal = blocks[m].signal
    BY <1>1, <1>2 DEF Entry, Heard, Station, Found
<1>4. /\ \A i \in DOMAIN results : results[i] \in Found /\ results[i].signal \in Int
      /\ \A b \in 1..m : blocks[b].signal \in Int
      /\ Entry.signal = signal /\ Entry.ssid = ssid
    <2>1. DOMAIN results = 1..Len(results) /\ results \in Seq(Found)
        BY DEF ScanTypes
    <2>2. \A i \in DOMAIN results : results[i] \in Found
        BY <2>1, ElementOfSeq
    <2> QED
        BY <1>2, <2>2 DEF Station, Found, Entry
<1>5. \A i \in DOMAIN results : results[i].ssid # NoName /\ \E b \in 1..n : Explains(b, results[i], n)
    BY DEF Best
<1> HIDE DEF m
\* The best station of another name stays the best.
<1>6. ASSUME NEW i \in DOMAIN results, results[i].ssid # ssid
      PROVE  \E b \in 1..m : Explains(b, results[i], m)
    <2>1. PICK b \in 1..n : Explains(b, results[i], n)
        BY <1>5
    <2>2. Explains(b, results[i], m)
        BY <1>1, <1>3, <1>4, <1>6, <2>1 DEF Explains, IsBest
    <2> QED
        BY <1>1, <2>2
<1>7. CASE ssid = NoName
    <2>1. Entered = results
        BY <1>7 DEF Entered
    <2>2. \A i \in DOMAIN results : \E b \in 1..m : Explains(b, results[i], m)
        BY <1>5, <1>6, <1>7
    <2>3. \A b \in 1..m :
             blocks[b].ssid # NoName => \E i \in DOMAIN results : results[i].ssid = blocks[b].ssid
        BY <1>1, <1>3, <1>4, <1>7 DEF Best
    <2>4. \A i, j \in DOMAIN results : results[i].ssid = results[j].ssid => i = j
        BY DEF Best
    <2> QED
        BY <1>5, <2>1, <2>2, <2>3, <2>4 DEF Best, ScanTypes, m
<1>8. CASE ssid # NoName /\ \A k \in DOMAIN results : results[k].ssid # ssid
    <2>1. PICK len \in Nat : len = Len(results) /\ DOMAIN results = 1..len
        BY DEF ScanTypes
    <2>2. /\ Entered \in Seq(Found) /\ DOMAIN Entered = 1..(len + 1)
          /\ Entered[len + 1] = Entry /\ \A i \in 1..len : Entered[i] = results[i]
        BY <1>3, <1>8, <2>1 DEF Entered, ScanTypes
    <2>3. Explains(m, Entry, m)
        <3>1. ASSUME NEW c \in 1..n PROVE blocks[c].ssid # ssid
            BY <1>8 DEF Best
        <3> QED
            BY <1>1, <1>3, <1>4, <3>1 DEF Explains, IsBest
    <2>4. ASSUME NEW i \in DOMAIN Entered
          PROVE  Entered[i].ssid # NoName /\ \E b \in 1..m : Explains(b, Entered[i], m)
        <3>1. CASE i \in 1..len
            BY <1>5, <1>6, <1>8, <2>1, <2>2, <3>1
        <3>2. CASE i = len + 1
            BY <1>1, <1>4, <1>8, <2>2, <2>3, <3>2
        <3> QED
            BY <2>1, <2>2, <3>1, <3>2
    <2>5. ASSUME NEW b \in 1..m, blocks[b].ssid # NoName
          PROVE  \E i \in DOMAIN Entered : Entered[i].ssid = blocks[b].ssid
        <3>1. CASE b = m
            <4>1. len + 1 \in DOMAIN Entered
                BY <2>1, <2>2
            <4> QED
                BY <1>3, <2>2, <3>1, <4>1
        <3>2. CASE b \in 1..n
            <4>1. PICK i \in DOMAIN results : results[i].ssid = blocks[b].ssid
                BY <2>5, <3>2 DEF Best
            <4> QED
                BY <2>1, <2>2, <4>1
        <3> QED
            BY <1>1, <3>1, <3>2
    <2>6. ASSUME NEW i \in DOMAIN Entered, NEW j \in DOMAIN Entered, Entered[i].ssid = Entered[j].ssid
          PROVE  i = j
        <3>1. (i \in 1..len \/ i = len + 1) /\ (j \in 1..len \/ j = len + 1)
            BY <2>1, <2>2
        <3> QED
            BY <1>4, <1>8, <2>1, <2>2, <2>6, <3>1 DEF Best
    <2> QED
        BY <2>2, <2>4, <2>5, <2>6 DEF Best, m
<1>9. CASE ssid # NoName /\ \E k \in DOMAIN results : results[k].ssid = ssid
    <2>1. PICK k \in DOMAIN results : results[k].ssid = ssid
        BY <1>9
    <2>2. \A i \in DOMAIN results : results[i].ssid = ssid => i = k
        BY <2>1 DEF Best
    <2>3. /\ Entered = [i \in DOMAIN results |->
                  IF results[i].ssid = ssid /\ signal > results[i].signal THEN Entry ELSE results[i]]
          /\ DOMAIN Entered = DOMAIN results
        BY <1>9 DEF Entered
    <2>4. \A i \in DOMAIN results : Entered[i].ssid = results[i].ssid /\ Entered[i] \in Found
        BY <1>3, <1>4, <2>3
    <2>5. Entered \in Seq(Found)
        BY <2>3, <2>4 DEF ScanTypes
    <2>6. PICK b \in 1..n : Explains(b, results[k], n)
        BY <1>5
    <2>7. ASSUME signal > results[k].signal PROVE Explains(m, Entry, m)
        <3>1. ASSUME ssid \notin cut, NEW c \in 1..n, blocks[c].ssid = ssid PROVE blocks[c].signal < signal
            <4>1. blocks[c].signal < results[k].signal \/ blocks[c].signal = results[k].signal
                BY <2>1, <2>6, <3>1 DEF Explains, IsBest
            <4>2. blocks[c].signal \in Int /\ results[k].signal \in Int /\ signal \in Int
                BY <1>1, <1>3, <1>4
            <4> QED
                BY <2>7, <4>1, <4>2
        <3> QED
            BY <1>1, <1>3, <1>4, <3>1 DEF Explains, IsBest
    <2>8. ASSUME ~(signal > results[k].signal) PROVE Explains(b, results[k], m)
        <3>1. signal < results[k].signal \/ signal = results[k].signal
            BY <1>1, <1>3, <1>4, <2>8
        <3> QED
            BY <1>1, <1>3, <1>4, <2>1, <2>6, <3>1 DEF Explains, IsBest
    <2>9. ASSUME NEW i \in DOMAIN Entered
          PROVE  Entered[i].ssid # NoName /\ \E c \in 1..m : Explains(c, Entered[i], m)
        <3>1. Entered[i].ssid # NoName
            BY <1>5, <2>3, <2>4
        <3>2. CASE i = k
            <4>1. m \in 1..m /\ b \in 1..m
                BY <1>1
            <4> QED
                BY <2>1, <2>3, <2>7, <2>8, <3>1, <3>2, <4>1
        <3>3. CASE i # k
            BY <1>6, <2>2, <2>3, <3>1, <3>3
        <3> QED
            BY <3>2, <3>3
    <2>10. ASSUME NEW c \in 1..m, blocks[c].ssid # NoName
           PROVE  \E i \in DOMAIN Entered : Entered[i].ssid = blocks[c].ssid
        <3>1. CASE c = m
            BY <1>3, <1>4, <2>1, <2>3, <2>4, <3>1
        <3>2. CASE c \in 1..n
            BY <2>3, <2>4, <2>10, <3>2 DEF Best
        <3> QED
            BY <1>1, <3>1, <3>2
    <2>11. \A i, j \in DOMAIN Entered : Entered[i].ssid = Entered[j].ssid => i = j
        BY <2>3, <2>4 DEF Best
    <2> QED
        BY <2>5, <2>9, <2>10, <2>11 DEF Best, m
<1> QED
    BY <1>7, <1>8, <1>9

\* What is entered of a station whose block is cut is true of it, and names it.
LEMMA EnteredIsPartly ==
    ASSUME ScanTypes, station # 0, Known, Partly(results)
    PROVE  /\ Entered \in Seq(Found) /\ Partly(Entered)
           /\ \/ ssid # NoName
              \/ \E i \in DOMAIN results : results[i].ssid = blocks[station].ssid
              => \E i \in DOMAIN Entered : Entered[i].ssid = blocks[station].ssid
<1> DEFINE name == blocks[station].ssid
           Right(e) == /\ e.ssid # NoName
                       /\ \E b \in 1..station :
                             /\ blocks[b].ssid = e.ssid
                             /\ e.secured => blocks[b].secured
                             /\ e.ssid \notin cut \cup {name} => IsBest(b, e, station)
<1>1. station \in 1..station /\ blocks[station] \in Station
    <2>1. station \in 1..Len(blocks)
        BY DEF ScanTypes
    <2> QED
        BY <2>1, ElementOfSeq DEF ScanTypes
<1>2. Entry.ssid = ssid /\ Entry.secured = secured /\ (ssid # NoName => Entry \in Found)
    <2>1. ssid # NoName => ssid \in STRING
        BY <1>1 DEF Known, Station
    <2>2. signal \in Int
        BY DEF Known
    <2>3. secured \in BOOLEAN
        BY DEF Known
    <2> QED
        BY <2>1, <2>2, <2>3 DEF Entry, Found
<1>3. ssid # NoName => ssid = name /\ Right(Entry)
    BY <1>1, <1>2 DEF Known
<1>4. \A i \in DOMAIN results : Right(results[i])
    BY DEF Partly
<1>5. /\ \A i, j \in DOMAIN results : results[i].ssid = results[j].ssid => i = j
      /\ \A b \in 1..station :
            blocks[b].ssid \notin {NoName, name} => \E i \in DOMAIN results : results[i].ssid = blocks[b].ssid
    BY DEF Partly
<1>6. ASSUME NEW list, \A i \in DOMAIN list : Right(list[i]),
             \A i, j \in DOMAIN list : list[i].ssid = list[j].ssid => i = j,
             \A i \in DOMAIN results : \E j \in DOMAIN list : list[j].ssid = results[i].ssid
      PROVE  Partly(list)
    <2>1. \A b \in 1..station :
             blocks[b].ssid \notin {NoName, name} => \E i \in DOMAIN list : list[i].ssid = blocks[b].ssid
        BY <1>5, <1>6
    <2> QED
        BY <1>6, <2>1 DEF Partly
<1> HIDE DEF Right, name
<1>7. CASE ssid = NoName
    BY <1>7 DEF Entered, ScanTypes, name
<1>8. CASE ssid # NoName /\ \A k \in DOMAIN results : results[k].ssid # ssid
    <2>1. PICK len \in Nat : len = Len(results) /\ DOMAIN results = 1..len
        BY DEF ScanTypes
    <2>2. /\ Entered \in Seq(Found) /\ DOMAIN Entered = 1..(len + 1)
          /\ Entered[len + 1] = Entry /\ \A i \in 1..len : Entered[i] = results[i]
        BY <1>2, <1>8, <2>1 DEF Entered, ScanTypes
    <2>3. \A i \in DOMAIN Entered : i \in 1..len \/ i = len + 1
        BY <2>1, <2>2
    <2>4. \A i \in DOMAIN Entered : Right(Entered[i])
        BY <1>3, <1>4, <1>8, <2>1, <2>2, <2>3
    <2>5. \A i, j \in DOMAIN Entered : Entered[i].ssid = Entered[j].ssid => i = j
        BY <1>2, <1>5, <1>8, <2>1, <2>2, <2>3
    <2>6. \A i \in DOMAIN results : i \in DOMAIN Entered /\ Entered[i].ssid = results[i].ssid
        BY <2>1, <2>2
    <2>7. len + 1 \in DOMAIN Entered /\ Entered[len + 1].ssid = name
        BY <1>2, <1>3, <1>8, <2>1, <2>2
    <2> QED
        BY <1>6, <2>2, <2>4, <2>5, <2>6, <2>7 DEF name
<1>9. CASE ssid # NoName /\ \E k \in DOMAIN results : results[k].ssid = ssid
    <2>1. /\ Entered = [i \in DOMAIN results |->
                 IF results[i].ssid = ssid /\ signal > results[i].signal THEN Entry ELSE results[i]]
          /\ DOMAIN Entered = DOMAIN results
        BY <1>9 DEF Entered
    <2>2. \A i \in DOMAIN results : Entered[i] \in {Entry, results[i]} /\ Entered[i].ssid = results[i].ssid
        BY <1>2, <2>1
    <2>3. \A i \in DOMAIN results : results[i] \in Found
        BY ElementOfSeq DEF ScanTypes
    <2>4. Entered \in Seq(Found)
        BY <1>2, <1>9, <2>1, <2>2, <2>3 DEF ScanTypes
    <2>5. \A i \in DOMAIN Entered : Right(Entered[i])
        BY <1>3, <1>4, <1>9, <2>1, <2>2
    <2>6. \A i, j \in DOMAIN Entered : Entered[i].ssid = Entered[j].ssid => i = j
        BY <1>5, <2>1, <2>2
    <2> QED
        BY <1>3, <1>6, <1>9, <2>1, <2>2, <2>4, <2>5, <2>6 DEF name
<1> QED
    BY <1>7, <1>8, <1>9

\* When the lines of a station are read, it is entered, and there is none before the first.
LEMMA FlushIsBest ==
    ASSUME ScanIInv, phase = "read", unread = {}
    PROVE  Entered \in Seq(Found) /\ Best(Entered, station)
<1>1. ScanTypes /\ station \in Nat /\ (Intact \/ Ended \/ Spoiled)
    BY DEF ScanIInv, ScanTypes
<1>2. CASE Intact /\ station = 0
    <2>1. Entered = results
        BY <1>2 DEF Intact, Pending, Entered
    <2> QED
        BY <1>1, <1>2, <2>1 DEF Intact, ScanTypes
<1>3. CASE Intact /\ station # 0
    <2>1. PICK n \in Nat : station = n + 1
        <3>1. station - 1 \in Nat /\ station = (station - 1) + 1
            BY <1>1, <1>3
        <3> QED
            BY <3>1
    <2>2. station - 1 = n /\ n + 1 <= Len(blocks)
        BY <1>1, <2>1 DEF ScanTypes
    <2>3. /\ ssid = blocks[n + 1].ssid /\ signal = blocks[n + 1].signal
          /\ secured = blocks[n + 1].secured
        BY <1>1, <1>3, <2>1 DEF Intact, Pending
    <2> QED
        BY <1>1, <1>3, <2>1, <2>2, <2>3, EnteredIsBest DEF Intact
<1>4. CASE Ended
    <2>1. Entered = results
        BY <1>4 DEF Ended, Entered
    <2> QED
        BY <1>1, <1>4, <2>1 DEF Ended, ScanTypes
<1>5. CASE Spoiled
    <2>1. /\ Entered \in Seq(Found) /\ Partly(Entered) /\ blocks[station].ssid \in cut
          /\ \/ blocks[station].ssid = NoName
             \/ \E i \in DOMAIN Entered : Entered[i].ssid = blocks[station].ssid
        BY <1>1, <1>5, EnteredIsPartly DEF Spoiled
    <2> QED
        BY <2>1 DEF Partly, Best, Explains
<1> QED
    BY <1>1, <1>2, <1>3, <1>4, <1>5

\* Before the first line of a station is read, nothing is known of it.
LEMMA NothingReadYet ==
    ASSUME ScanTypes, Pending, station # 0, unread = Told(blocks[station])
    PROVE  ssid = NoName /\ signal = NoSignal /\ secured = FALSE
<1>1. blocks[station] \in Station
    <2>1. station \in 1..Len(blocks)
        BY DEF ScanTypes
    <2> QED
        BY <2>1, ElementOfSeq DEF ScanTypes
<1> QED
    BY <1>1 DEF Pending, Told, Station

\* A "BSS Load:" before the first or behind the last line of a station that is told loses nothing,
\* and one between them excuses the name.
LEMMA LoadKeeps ==
    ASSUME ScanIInv, LoadLine
    PROVE  ScanIInv'
<1>1. /\ ScanTypes /\ station # 0 /\ station \in Nat /\ phase = "read" /\ phase' = "read"
      /\ (Intact \/ Ended \/ Spoiled) /\ UNCHANGED <<blocks, station, unread>>
      /\ results' = Entered /\ ssid' = NoName /\ signal' = NoSignal /\ secured' = FALSE
      /\ cut' = IF unread \in {{}, Told(blocks[station])} THEN cut ELSE cut \cup {blocks[station].ssid}
    BY DEF ScanIInv, ScanTypes, LoadLine, Flush, NewStation
<1>2. blocks[station] \in Station
    <2>1. station \in 1..Len(blocks)
        BY <1>1 DEF ScanTypes
    <2> QED
        BY <1>1, <2>1, ElementOfSeq DEF ScanTypes
<1>3. CASE (Intact \/ Ended) /\ unread = {}
    <2>1. Entered \in Seq(Found) /\ Best(Entered, station)
        BY <1>1, <1>3, FlushIsBest
    <2>2. Best(results, station)'
        BY <1>1, <1>3, <2>1 DEF Best, Explains, IsBest, Heard
    <2> QED
        BY <1>1, <1>3, <2>1, <2>2 DEF Ended, ScanIInv, ScanTypes, ScanKeepsStrongest
<1>4. CASE Intact /\ unread # {} /\ unread = Told(blocks[station])
    <2>1. ssid = NoName /\ signal = NoSignal /\ secured = FALSE
        BY <1>1, <1>4, NothingReadYet DEF Intact
    <2>2. UNCHANGED <<ssid, signal, secured, results, blocks, station, unread, cut>>
        <3>1. results' = results
            BY <1>1, <2>1 DEF Entered
        <3>2. cut' = cut
            BY <1>1, <1>4
        <3>3. ssid' = ssid /\ signal' = signal /\ secured' = secured
            BY <1>1, <2>1
        <3> QED
            BY <1>1, <3>1, <3>2, <3>3
    <2>3. Intact'
        <3>1. Pending'
            BY <1>4, <2>2 DEF Intact, Pending
        <3>2. Best(results, IF station = 0 THEN 0 ELSE station - 1)'
            BY <1>4, <2>2 DEF Intact, Best, Explains, IsBest, Heard
        <3> QED
            BY <3>1, <3>2 DEF Intact
    <2> QED
        BY <1>1, <2>2, <2>3 DEF ScanIInv, ScanTypes, ScanKeepsStrongest
<1>5. ASSUME Known, Partly(results), unread \subseteq Told(blocks[station]),
             \/ blocks[station].ssid = NoName \/ "SSID" \in unread \/ ssid = blocks[station].ssid
             \/ \E i \in DOMAIN results : results[i].ssid = blocks[station].ssid,
             blocks[station].ssid \in cut'
      PROVE  ScanIInv'
    <2>1. /\ Entered \in Seq(Found) /\ Partly(Entered)
          /\ \/ blocks[station].ssid = NoName \/ "SSID" \in unread
             \/ \E i \in DOMAIN Entered : Entered[i].ssid = blocks[station].ssid
        BY <1>1, <1>5, EnteredIsPartly
    <2>2. Partly(results)'
        BY <1>1, <2>1 DEF Partly, IsBest, Heard
    <2>3. Known'
        <3>1. NoSignal \in Int
            BY DEF NoSignal
        <3> QED
            BY <1>1, <3>1 DEF Known
    <2> QED
        BY <1>1, <1>5, <2>1, <2>2, <2>3 DEF Spoiled, ScanIInv, ScanTypes, ScanKeepsStrongest
<1>6. CASE Intact /\ unread \notin {{}, Told(blocks[station])}
    <2>1. Known /\ unread \subseteq Told(blocks[station])
        <3>1. /\ unread \subseteq Told(blocks[station])
              /\ ssid \in {NoName, blocks[station].ssid}
              /\ signal \in {NoSignal, blocks[station].signal}
              /\ secured \in {FALSE, blocks[station].secured}
            BY <1>1, <1>6 DEF Intact, Pending
        <3>2. NoSignal \in Int /\ blocks[station].signal \in Int
            BY <1>2 DEF NoSignal, Station
        <3>3. blocks[station].secured \in BOOLEAN
            BY <1>2 DEF Station
        <3>4. signal \in Int
            BY <3>1, <3>2
        <3>5. secured \in BOOLEAN /\ (secured => blocks[station].secured)
            BY <3>1, <3>3
        <3> QED
            BY <3>1, <3>4, <3>5 DEF Known
    <2>2. Partly(results)
        <3>1. PICK n \in Nat : station = n + 1 /\ Best(results, n)
            <4>1. station - 1 \in Nat /\ station = (station - 1) + 1
                BY <1>1
            <4> QED
                BY <1>1, <1>6, <4>1 DEF Intact
        <3>2. \A b \in 1..station : b \in 1..n \/ b = station
            BY <3>1
        <3>3. \A b \in 1..n : b \in 1..station
            BY <3>1
        <3>4. ASSUME NEW i \in DOMAIN results
              PROVE  \E b \in 1..station :
                        /\ blocks[b].ssid = results[i].ssid
                        /\ results[i].secured => blocks[b].secured
                        /\ results[i].ssid \notin cut \cup {blocks[station].ssid} =>
                              IsBest(b, results[i], station)
            <4>1. PICK b \in 1..n : Explains(b, results[i], n)
                BY <3>1 DEF Best
            <4>2. results[i].ssid \notin cut \cup {blocks[station].ssid} => IsBest(b, results[i], station)
                BY <3>2, <4>1 DEF Explains, IsBest
            <4> QED
                BY <3>3, <4>1, <4>2 DEF Explains
        <3> QED
            BY <3>1, <3>2, <3>4 DEF Best, Partly
    <2>3. \/ blocks[station].ssid = NoName \/ "SSID" \in unread \/ ssid = blocks[station].ssid
        BY <1>1, <1>6 DEF Intact, Pending
    <2> QED
        BY <1>1, <1>5, <1>6, <2>1, <2>2, <2>3
<1>7. CASE Spoiled
    BY <1>1, <1>5, <1>7 DEF Spoiled
<1> QED
    BY <1>1, <1>3, <1>4, <1>6, <1>7 DEF Ended

\* Sorting keeps every entry, once.
LEMMA SortIsRight ==
    ASSUME ScanIInv, Sort
    PROVE  results' \in Seq(Found) /\ ScanKeepsStrongest'
<1>1. /\ ScanTypes /\ Best(results, Len(blocks)) /\ UNCHANGED <<blocks, cut>>
    BY DEF ScanIInv, Sort
<1>2. PICK order \in [DOMAIN results -> DOMAIN results] :
          /\ \A k \in DOMAIN results : \E i \in DOMAIN results : order[i] = k
          /\ \A i, j \in DOMAIN results : i < j => Before(order[i], order[j])
          /\ results' = [i \in DOMAIN results |-> results[order[i]]]
    BY DEF Sort
<1>3. PICK len \in Nat : DOMAIN results = 1..len /\ len = Len(results)
    BY <1>1 DEF ScanTypes
<1>4. \A i \in 1..len : results[i] \in Found /\ results[i].signal \in Int
    <2>1. \A i \in 1..len : results[i] \in Found
        BY <1>1, <1>3, ElementOfSeq DEF ScanTypes
    <2> QED
        BY <2>1 DEF Found
<1>5. /\ DOMAIN results' = 1..len
      /\ \A i \in 1..len : order[i] \in 1..len /\ results'[i] = results[order[i]]
    BY <1>2, <1>3
<1>6. results' \in Seq(Found)
    <2>1. results' \in [1..len -> Found]
        BY <1>2, <1>3, <1>4
    <2> QED
        BY <2>1
<1>7. DOMAIN blocks = 1..Len(blocks)
    BY <1>1 DEF ScanTypes
<1>8. ASSUME NEW i \in 1..len
      PROVE  \E b \in DOMAIN blocks : Explains(b, results'[i], Len(blocks)) /\ blocks[b].ssid # NoName
    <2>1. PICK b \in 1..Len(blocks) : Explains(b, results[order[i]], Len(blocks))
        BY <1>1, <1>3, <1>5 DEF Best
    <2>2. results[order[i]].ssid # NoName
        BY <1>1, <1>3, <1>5 DEF Best
    <2> QED
        BY <1>1, <1>5, <1>7, <2>1, <2>2 DEF Explains, IsBest, Heard
<1>9. ASSUME NEW b \in DOMAIN blocks, blocks[b].ssid # NoName
      PROVE  \E i \in 1..len : results'[i].ssid = blocks[b].ssid
    <2>1. PICK k \in 1..len : results[k].ssid = blocks[b].ssid
        BY <1>1, <1>3, <1>7, <1>9 DEF Best
    <2>2. PICK i \in 1..len : order[i] = k
        BY <1>2, <1>3
    <2> QED
        BY <1>5, <2>1, <2>2
<1>10. ASSUME NEW i \in 1..len, NEW j \in 1..len, i < j
       PROVE  results'[i].ssid # results'[j].ssid /\ results'[i].signal >= results'[j].signal
    <2>1. \/ results[order[i]].signal > results[order[j]].signal
          \/ results[order[i]].signal = results[order[j]].signal /\ order[i] < order[j]
        BY <1>2, <1>3, <1>10 DEF Before
    <2>2. order[i] # order[j]
        BY <1>4, <1>5, <2>1
    <2>3. results[order[i]].ssid # results[order[j]].ssid
        BY <1>1, <1>3, <1>5, <2>2 DEF Best
    <2> QED
        BY <1>4, <1>5, <2>1, <2>3
<1>11. \A i \in DOMAIN results' :
          (\E b \in DOMAIN blocks : Explains(b, results[i], Len(blocks)) /\ blocks[b].ssid # NoName)'
    BY <1>1, <1>5, <1>8 DEF Explains, IsBest, Heard
<1>12. \A b \in DOMAIN blocks' :
          (blocks[b].ssid # NoName => \E i \in DOMAIN results : results[i].ssid = blocks[b].ssid)'
    BY <1>1, <1>5, <1>9
<1>13. \A i, j \in DOMAIN results' :
          (i < j => results[i].ssid # results[j].ssid /\ results[i].signal >= results[j].signal)'
    BY <1>5, <1>10
<1> QED
    BY <1>6, <1>11, <1>12, <1>13 DEF ScanKeepsStrongest

\* A line of a station tells what it says, and a station begins with nothing known.
LEMMA LineKeeps ==
    ASSUME ScanIInv, SignalLine \/ NameLine \/ SecurityLine
    PROVE  ScanIInv'
<1>1. /\ ScanTypes /\ (Intact \/ Ended \/ Spoiled)
      /\ phase = "read" /\ phase' = "read" /\ unread # {} /\ unread' \subseteq unread
      /\ UNCHANGED <<blocks, station, results, cut>>
    BY DEF ScanIInv, SignalLine, NameLine, SecurityLine, Read
<1>2. station # 0 /\ ~Ended /\ unread \subseteq Told(blocks[station])
    BY <1>1 DEF Intact, Ended, Spoiled, Pending
<1>3. blocks[station] \in Station
    <2>1. station \in 1..Len(blocks)
        BY <1>1, <1>2 DEF ScanTypes
    <2> QED
        BY <1>1, <2>1, ElementOfSeq DEF ScanTypes
<1>4. SecurityLine => blocks[station].secured = TRUE
    <2>1. SecurityLine => "RSN" \in Told(blocks[station])
        BY <1>2 DEF SecurityLine, Read
    <2>2. SecurityLine => blocks[station].secured
        BY <2>1 DEF Told
    <2> QED
        BY <1>3, <2>2 DEF Station
<1>5. CASE Intact
    <2>1. Pending'
        <3>1. CASE SignalLine
            BY <1>1, <1>2, <1>5, <3>1 DEF SignalLine, Read, Intact, Pending
        <3>2. CASE NameLine
            BY <1>1, <1>2, <1>5, <3>2 DEF NameLine, Read, Intact, Pending
        <3>3. CASE SecurityLine
            BY <1>1, <1>2, <1>4, <1>5, <3>3 DEF SecurityLine, Read, Intact, Pending
        <3> QED
            BY <3>1, <3>2, <3>3
    <2>2. Best(results, IF station = 0 THEN 0 ELSE station - 1)'
        BY <1>1, <1>5 DEF Intact, Best, Explains, IsBest, Heard
    <2> QED
        BY <1>1, <2>1, <2>2 DEF Intact, ScanIInv, ScanTypes, ScanKeepsStrongest
<1>6. CASE Spoiled
    <2>1. Known'
        <3>1. CASE SignalLine
            BY <1>1, <1>3, <1>6, <3>1 DEF SignalLine, Spoiled, Known, Station
        <3>2. CASE NameLine
            BY <1>1, <1>6, <3>2 DEF NameLine, Spoiled, Known
        <3>3. CASE SecurityLine
            BY <1>1, <1>4, <1>6, <3>3 DEF SecurityLine, Spoiled, Known
        <3> QED
            BY <3>1, <3>2, <3>3
    <2>2. Partly(results)'
        BY <1>1, <1>6 DEF Spoiled, Partly, IsBest, Heard
    <2>3. \/ blocks[station].ssid = NoName \/ "SSID" \in unread' \/ ssid' = blocks[station].ssid
          \/ \E i \in DOMAIN results : results[i].ssid = blocks[station].ssid
        BY <1>1, <1>6 DEF Spoiled, SignalLine, NameLine, SecurityLine, Read
    <2> QED
        BY <1>1, <1>2, <1>6, <2>1, <2>2, <2>3 DEF Spoiled, ScanIInv, ScanTypes, ScanKeepsStrongest
<1> QED
    BY <1>1, <1>2, <1>5, <1>6

\* After every line that iw prints, the stations before the one being read are entered, each name once
\* and, unless a "BSS Load:" cut into one of its blocks, as its strongest station says.
THEOREM ScanInvariance == Spec => []ScanIInv
<1>1. Init => ScanIInv
    <2> SUFFICES ASSUME ScanInit PROVE ScanIInv
        BY DEF Init
    <2>1. ScanTypes
        <3>1. blocks \in Seq(Station)
            <4>1. CASE blocks = <<>>
                BY <4>1
            <4>2. CASE blocks \in Blocks
                BY <4>2, BlocksAssumption
            <4> QED
                BY <4>1, <4>2 DEF ScanInit
        <3>2. 0 \in 0..Len(blocks)
            BY <3>1
        <3> QED
            BY <3>1, <3>2 DEF ScanInit, ScanTypes
    <2>2. Best(results, 0)
        BY DEF ScanInit, Best
    <2> QED
        BY <2>1, <2>2 DEF ScanInit, ScanIInv, Intact, Pending, ScanKeepsStrongest
<1>2. ScanIInv /\ [Next]_vars => ScanIInv'
    <2> SUFFICES ASSUME ScanIInv, [ScanNext]_scan_vars PROVE ScanIInv'
        BY DEF Next, Answer, vars
    <2>1. CASE StationLine
        <3>1. /\ Entered \in Seq(Found) /\ Best(Entered, station) /\ ScanTypes
              /\ results' = Entered /\ UNCHANGED <<blocks, cut>> /\ phase' = "read"
              /\ station' = station + 1 /\ station < Len(blocks) /\ station \in Nat
            BY <2>1, FlushIsBest DEF StationLine, Flush, ScanIInv, ScanTypes
        <3>2. ScanTypes' /\ station' # 0 /\ station' - 1 = station
            BY <3>1 DEF ScanTypes
        <3>3. Best(results, IF station = 0 THEN 0 ELSE station - 1)'
            BY <3>1, <3>2 DEF Best, Explains, IsBest, Heard
        <3>4. Pending'
            <4>1. blocks[station + 1] \in Station
                <5>1. station + 1 \in 1..Len(blocks)
                    BY <3>1
                <5> QED
                    BY <3>1, <5>1, ElementOfSeq DEF ScanTypes
            <4> QED
                BY <2>1, <3>1, <3>2, <4>1 DEF StationLine, Flush, NewStation, Told, Pending, Station
        <3> QED
            BY <3>1, <3>2, <3>3, <3>4 DEF ScanIInv, Intact, ScanKeepsStrongest
    <2>2. CASE SignalLine \/ NameLine \/ SecurityLine
        BY <2>2, LineKeeps
    <2>6. CASE LoadLine
        BY <2>6, LoadKeeps
    <2>3. CASE LastFlush
        <3>1. /\ Entered \in Seq(Found) /\ Best(Entered, Len(blocks)) /\ ScanTypes
              /\ results' = Entered /\ UNCHANGED <<blocks, station, cut>> /\ phase' = "sort"
            BY <2>3, FlushIsBest DEF LastFlush, Flush, ScanIInv
        <3>2. Best(results, Len(blocks))'
            BY <3>1 DEF Best, Explains, IsBest, Heard
        <3> QED
            BY <3>1, <3>2 DEF ScanIInv, ScanTypes, ScanKeepsStrongest
    <2>4. CASE Sort
        <3>1. results' \in Seq(Found) /\ ScanKeepsStrongest'
            BY <2>4, SortIsRight
        <3> QED
            BY <2>4, <3>1 DEF Sort, ScanIInv, ScanTypes
    <2>5. CASE UNCHANGED scan_vars
        <3>1. ScanTypes' <=> ScanTypes
            BY <2>5 DEF scan_vars, ScanTypes
        <3>2. /\ Intact' <=> Intact
              /\ Ended' <=> Ended
              /\ Spoiled' <=> Spoiled
            <4>1. Pending' <=> Pending
                BY <2>5 DEF scan_vars, Pending
            <4>2. (Known' <=> Known) /\ (Partly(results)' <=> Partly(results))
                BY <2>5 DEF scan_vars, Known, Partly, IsBest, Heard
            <4>3. /\ Best(results, station)' <=> Best(results, station)
                  /\ Best(results, IF station = 0 THEN 0 ELSE station - 1)'
                        <=> Best(results, IF station = 0 THEN 0 ELSE station - 1)
                BY <2>5 DEF scan_vars, Best, Explains, IsBest, Heard
            <4> QED
                BY <2>5, <4>1, <4>2, <4>3 DEF scan_vars, Intact, Ended, Spoiled
        <3>3. ScanKeepsStrongest' <=> ScanKeepsStrongest
            BY <2>5 DEF scan_vars, ScanKeepsStrongest, Explains, IsBest, Heard
        <3>4. Best(results, Len(blocks))' <=> Best(results, Len(blocks))
            BY <2>5 DEF scan_vars, Best, Explains, IsBest, Heard
        <3>5. phase' = phase
            BY <2>5 DEF scan_vars
        <3> QED
            BY <3>1, <3>2, <3>3, <3>4, <3>5 DEF ScanIInv
    <2> QED
        BY <2>1, <2>2, <2>3, <2>4, <2>5, <2>6 DEF ScanNext
<1> QED
    BY <1>1, <1>2, PTL DEF Spec

\* "Keep the strongest entry per SSID" (net.rs:247), for any number of stations, names and signals,
\* whatever is missing and in whatever order it comes, except that a name one of whose blocks had a
\* "BSS Load:" between the lines that are told may be listed with a wrong signal, or as open.
THEOREM ScanStaysRight == Spec => []ScanKeepsStrongest
<1>1. ScanIInv => ScanKeepsStrongest
    BY DEF ScanIInv
<1> QED
    BY <1>1, ScanInvariance, PTL

----------------------------------------------------------------------------
(* The loops of reconcile.                                                 *)

\* A camera as reconcile finds and leaves it: it has a port while it streams.
LoopFields == [cam : {TheCamera}, id : {TheId}, enabled : BOOLEAN,
               port : Port \cup {NoPort}, desired_port : Port \cup {NoPort},
               streaming : BOOLEAN, mode : {ConfigMode}, auth : {NoAuth}]
LoopRecord == {c \in LoopFields : c.streaming <=> c.port # NoPort}

IsLoopRegistry(reg) == IsPartial(reg, Path, LoopRecord)

LoopTypeOK ==
    /\ IsLoopRegistry(given) /\ IsLoopRegistry(cams)
    /\ DOMAIN cams = DOMAIN given
    /\ pass \in 1..3
    /\ todo \subseteq DOMAIN given

\* A pass has visited the lower nodes, and made of them what Reconcile says of
\* its part; it has not touched the others.
Progress(before, after) ==
    /\ \A q \in DOMAIN given \ todo, p \in todo : q < p
    /\ \A p \in DOMAIN given : cams[p] = IF p \in todo THEN before[p] ELSE after[p]

LoopInv ==
    /\ LoopTypeOK
    /\ UsedIsExact
    /\ pass = 1 => Progress(given, ReclaimSticky(given))
    /\ pass = 2 => Progress(ReclaimSticky(given), Reconcile(given))
    /\ pass = 3 => cams = Reconcile(given)

LEMMA LoopStart ==
    ASSUME NEW c \in LoopRecord, NEW port \in Port
    PROVE  LET s == StartStream(c, port) IN
           /\ s \in LoopRecord /\ s.port = port /\ s.streaming = TRUE
PROOF
  <1>1. c \in LoopFields /\ port # NoPort
    BY DEF LoopRecord, Port, NoPort
  <1>2. LET s == StartStream(c, port) IN
        s \in LoopFields /\ s.port = port /\ s.streaming = TRUE
    BY <1>1 DEF LoopFields, StartStream
  <1> QED
    BY <1>1, <1>2 DEF LoopRecord

LEMMA SamePartial ==
    ASSUME NEW f, NEW g, NEW S, NEW T, IsPartial(f, S, T), DOMAIN g = DOMAIN f,
           g = [x \in DOMAIN g |-> g[x]], \A x \in DOMAIN f : f[x] = g[x]
    PROVE  f = g
BY DEF IsPartial

\* The lowest camera that is left is visited next.
LEMMA VisitsLowest ==
    ASSUME LoopTypeOK, NEW p \in todo, Visit(p)
    PROVE  \A q \in todo : p <= q
PROOF
  <1>1. todo \in SUBSET Nat
    BY PathAssumption DEF LoopTypeOK, IsLoopRegistry, IsPartial
  <1>2. \E x \in todo : \A y \in todo : x <= y
    BY <1>1, LowestExists
  <1> QED
    BY <1>2 DEF Visit, Min

\* Giving a port that is not in use to a camera that waits keeps count of it.
LEMMA StartCounts ==
    ASSUME LoopTypeOK, UsedIsExact, NEW p \in DOMAIN cams, ~cams[p].streaming,
           NEW port \in Port, port \notin used, Start(p, port)
    PROVE  /\ UsedIsExact'
           /\ IsLoopRegistry(cams') /\ DOMAIN cams' = DOMAIN cams
           /\ cams'[p] = StartStream(cams[p], port)
           /\ \A q \in DOMAIN cams \ {p} : cams'[q] = cams[q]
PROOF
  <1>1. /\ cams[p] \in LoopRecord /\ cams[p].port = NoPort
        /\ \A q \in DOMAIN cams : cams[q].streaming <=> cams[q].port # NoPort
        /\ cams = [q \in DOMAIN cams |-> cams[q]]
    BY DEF LoopTypeOK, IsLoopRegistry, IsPartial, LoopRecord, LoopFields
  <1>2. LET s == StartStream(cams[p], port) IN
        s \in LoopRecord /\ s.port = port /\ s.streaming = TRUE
    BY <1>1, LoopStart
  <1>3. /\ DOMAIN cams' = DOMAIN cams
        /\ cams'[p] = StartStream(cams[p], port)
        /\ \A q \in DOMAIN cams \ {p} : cams'[q] = cams[q]
        /\ cams' = [q \in DOMAIN cams' |-> cams'[q]]
        /\ used' = used \cup {port}
    BY <1>1 DEF Start
  <1>4. cams'[p] \in LoopRecord /\ cams'[p].port = port
    BY <1>2, <1>3
  <1>5. IsLoopRegistry(cams')
    BY <1>3, <1>4 DEF LoopTypeOK, IsLoopRegistry, IsPartial
  <1>6. port # NoPort
    BY DEF Port, NoPort
  <1>7. used' = Used(cams')
    <2>1. \A x : x \in Used(cams') <=> x \in Used(cams) \/ x = port
      BY <1>1, <1>3, <1>4, <1>6 DEF Used
    <2> QED
      BY <1>3, <2>1 DEF UsedIsExact
  <1>8. Callable(cams')
    <2> SUFFICES ASSUME NEW q \in DOMAIN cams, NEW r \in DOMAIN cams, q # r,
                        cams'[q].streaming
                 PROVE  cams'[q].port # cams'[r].port
      BY <1>3 DEF Callable
    <2>1. \A x \in DOMAIN cams : cams[x].port # port
      BY <1>6 DEF UsedIsExact, Used
    <2> QED
      BY <1>3, <1>4, <2>1 DEF UsedIsExact, Callable
  <1> QED
    BY <1>3, <1>5, <1>7, <1>8 DEF UsedIsExact

\* A port is in use in pass 1 if it was from the start or a visited camera has
\* reclaimed it; and then a visited camera that remembers it has.
LEMMA StickyIsReclaims ==
    ASSUME LoopTypeOK, UsedIsExact, Progress(given, ReclaimSticky(given)),
           NEW p \in todo, Visit(p)
    PROVE  /\ (Waits(p) /\ StickyPortFree(p)) <=> Reclaims(given, p)
           /\ cams[p] = given[p]
PROOF
  <1>1. /\ cams[p] = given[p] /\ p \in DOMAIN given
        /\ DOMAIN cams = DOMAIN given /\ DOMAIN given \in SUBSET Nat
        /\ \A q \in DOMAIN given : given[q] \in LoopRecord
    BY PathAssumption DEF Progress, LoopTypeOK, IsLoopRegistry, IsPartial
  <1> DEFINE want == given[p].desired_port
  <1>2. Waits(p) <=> p \in Waiting(given)
    BY <1>1 DEF Waits, Waiting
  <1>3. \A q \in Waiting(given) : q < p <=> q \notin todo
    BY <1>1, VisitsLowest DEF Progress, Waiting
  <1>4. ASSUME NEW q \in Waiting(given) PROVE q \in DOMAIN given /\ given[q].port = NoPort
    BY <1>1, <1>4 DEF Waiting, LoopRecord
  <1>5. ASSUME NEW q \in DOMAIN given, q \notin todo, Reclaims(given, q)
        PROVE  cams[q].port = given[q].desired_port
    <2>1. cams[q] = StartStream(given[q], given[q].desired_port)
      BY <1>5 DEF Progress, ReclaimSticky
    <2>2. given[q].desired_port \in Port
      BY <1>1, <1>5 DEF Reclaims, LoopRecord, LoopFields
    <2>3. given[q] \in LoopRecord
      BY <1>1, <1>5
    <2>4. StartStream(given[q], given[q].desired_port).port = given[q].desired_port
      BY <2>2, <2>3, LoopStart
    <2> QED
      BY <2>1, <2>4
  <1>6. ASSUME NEW q \in DOMAIN given, q \in todo \/ ~Reclaims(given, q)
        PROVE  cams[q] = given[q]
    BY <1>6 DEF Progress, ReclaimSticky
  <1> SUFFICES ASSUME p \in Waiting(given), want # NoPort, InPool(want)
               PROVE  want \notin used <=>
                         /\ want \notin Used(given)
                         /\ \A q \in Waiting(given) : q < p => given[q].desired_port # want
    BY <1>1, <1>2 DEF Reclaims, StickyPortFree
  <1>7. ASSUME want \in Used(given) PROVE want \in used
    <2>1. PICK q \in DOMAIN given : given[q].port = want
      BY <1>7 DEF Used
    <2>2. cams[q] = given[q]
      BY <1>4, <1>6, <2>1 DEF Reclaims
    <2> QED
      BY <1>1, <2>1, <2>2 DEF UsedIsExact, Used
  <1>8. ASSUME NEW q \in Waiting(given), q < p, given[q].desired_port = want,
               want \notin Used(given)
        PROVE  want \in used
    <2> DEFINE S == {x \in Waiting(given) : given[x].desired_port = want}
    <2>1. S \in SUBSET Nat /\ q \in S
      BY <1>1, <1>4, <1>8
    <2>2. PICK x \in S : \A y \in S : x <= y
      <3> HIDE DEF S
      <3> QED
        BY <2>1, LowestExists
    <2>3. x \in Nat /\ q \in Nat /\ x <= q
      BY <2>1, <2>2
    <2>4. \A y \in Waiting(given) : y < x => given[y].desired_port # want
      <3>1. \A y \in S : y \in Nat
        BY <2>1
      <3> QED
        BY <2>2, <2>3, <3>1
    <2>5. Reclaims(given, x)
      BY <1>8, <2>2, <2>4 DEF Reclaims
    <2>6. p \in Nat /\ x < p
      BY <1>1, <1>8, <2>3
    <2>7. x \in DOMAIN given /\ x \notin todo
      BY <1>3, <1>4, <2>2, <2>6
    <2>8. cams[x].port = want
      BY <1>5, <2>2, <2>5, <2>7
    <2> QED
      BY <1>1, <2>7, <2>8 DEF UsedIsExact, Used
  <1>9. ASSUME want \in used, want \notin Used(given)
        PROVE  \E q \in Waiting(given) : q < p /\ given[q].desired_port = want
    <2>1. PICK q \in DOMAIN given : cams[q].port = want
      BY <1>1, <1>9 DEF UsedIsExact, Used
    <2>2. given[q].port # want
      BY <1>9, <2>1 DEF Used
    <2>3. q \notin todo /\ Reclaims(given, q)
      BY <1>6, <2>1, <2>2
    <2>4. given[q].desired_port = want /\ q \in Waiting(given)
      BY <1>5, <2>1, <2>3 DEF Reclaims
    <2> QED
      BY <1>3, <2>3, <2>4
  <1> QED
    BY <1>7, <1>8, <1>9

LEMMA StickyRegistry ==
    ASSUME IsLoopRegistry(given)
    PROVE  IsLoopRegistry(ReclaimSticky(given)) /\ DOMAIN ReclaimSticky(given) = DOMAIN given
PROOF
  <1>1. ASSUME NEW p \in DOMAIN given PROVE ReclaimSticky(given)[p] \in LoopRecord
    <2>1. given[p] \in LoopRecord
      BY DEF IsLoopRegistry, IsPartial
    <2>2. Reclaims(given, p) => given[p].desired_port \in Port
      BY <2>1 DEF Reclaims, LoopRecord, LoopFields
    <2>3. CASE Reclaims(given, p)
      <3>1. StartStream(given[p], given[p].desired_port) \in LoopRecord
        BY <2>1, <2>2, <2>3, LoopStart
      <3> QED
        BY <2>3, <3>1 DEF ReclaimSticky
    <2>4. CASE ~Reclaims(given, p)
      BY <2>1, <2>4 DEF ReclaimSticky
    <2> QED
      BY <2>3, <2>4
  <1>2. ReclaimSticky(given) = [p \in DOMAIN given |-> ReclaimSticky(given)[p]]
    BY DEF ReclaimSticky
  <1>3. DOMAIN ReclaimSticky(given) = DOMAIN given
    BY DEF ReclaimSticky
  <1> QED
    BY <1>1, <1>2, <1>3 DEF IsLoopRegistry, IsPartial

\* A port that was free before pass 2 is in use at a camera's turn if it was
\* offered to a waiter below it.
LEMMA InUseIsOffered ==
    ASSUME LoopTypeOK, UsedIsExact, NEW mid, IsLoopRegistry(mid), DOMAIN mid = DOMAIN given,
           Progress(mid, AssignLowest(mid)), NEW p \in todo, Visit(p), NEW port \in Pool
    PROVE  port \in used <=> \/ port \notin FreePorts(mid)
                             \/ \E q \in Waiting(mid) : q < p /\ Offered(mid, q, port)
PROOF
  <1>1. /\ DOMAIN cams = DOMAIN mid /\ DOMAIN mid \subseteq Path /\ DOMAIN mid \in SUBSET Nat
        /\ \A q \in DOMAIN mid : mid[q] \in LoopRecord
        /\ used = Used(cams) /\ p \in DOMAIN mid /\ port # NoPort
    BY PathAssumption, PoolPorts DEF LoopTypeOK, IsLoopRegistry, IsPartial, UsedIsExact
  <1>2. \A q \in DOMAIN mid : q < p <=> q \notin todo
    BY <1>1, VisitsLowest DEF Progress
  <1>3. ASSUME NEW q \in DOMAIN mid, q \notin todo, NEW s, Offered(mid, q, s)
        PROVE  cams[q].port = s
    <2>1. cams[q] = StartStream(mid[q], s)
      BY <1>1, <1>3, AssignsOffered DEF Progress
    <2>2. mid[q] \in LoopRecord /\ s \in Port
      BY <1>1, <1>3, PoolPorts DEF Offered, FreePorts
    <2>3. StartStream(mid[q], s).port = s
      BY <2>2, LoopStart
    <2> QED
      BY <2>1, <2>3
  <1>4. ASSUME NEW q \in DOMAIN mid, q \in todo \/ \A s \in Pool : ~Offered(mid, q, s)
        PROVE  cams[q] = mid[q]
    BY <1>1, <1>4 DEF Progress, AssignLowest
  <1>5. ASSUME port \notin FreePorts(mid) PROVE port \in used
    <2>1. PICK q \in DOMAIN mid : mid[q].port = port
      BY <1>5 DEF FreePorts, Used
    <2>2. q \notin Waiting(mid)
      BY <1>1, <2>1 DEF Waiting, LoopRecord
    <2>3. cams[q] = mid[q]
      BY <1>4, <2>2 DEF Offered
    <2> QED
      BY <1>1, <2>1, <2>3 DEF Used
  <1>6. ASSUME NEW q \in Waiting(mid), q < p, Offered(mid, q, port) PROVE port \in used
    <2>1. q \in DOMAIN mid /\ q \notin todo
      BY <1>2, <1>6 DEF Waiting
    <2> QED
      BY <1>1, <1>3, <1>6, <2>1 DEF Used
  <1>7. ASSUME port \in used, port \in FreePorts(mid)
        PROVE  \E q \in Waiting(mid) : q < p /\ Offered(mid, q, port)
    <2>1. PICK q \in DOMAIN mid : cams[q].port = port
      BY <1>1, <1>7 DEF Used
    <2>2. mid[q].port # port
      BY <1>1, <1>7, <2>1 DEF FreePorts, Used
    <2>3. q \notin todo /\ \E s \in Pool : Offered(mid, q, s)
      BY <1>4, <2>1, <2>2
    <2>4. PICK s \in Pool : Offered(mid, q, s)
      BY <2>3
    <2>5. Offered(mid, q, port) /\ q \in Waiting(mid)
      BY <1>3, <2>1, <2>3, <2>4 DEF Offered
    <2> QED
      BY <1>2, <2>3, <2>5
  <1> QED
    BY <1>5, <1>6, <1>7

\* At a waiter's turn the waiters below it have been given as many of the lowest
\* free ports: the lowest that is left is the one it is offered.
LEMMA LowestIsOffered ==
    ASSUME LoopTypeOK, UsedIsExact, NEW mid, IsLoopRegistry(mid), DOMAIN mid = DOMAIN given,
           Progress(mid, AssignLowest(mid)), NEW p \in todo, Visit(p)
    PROVE  /\ cams[p] = mid[p]
           /\ Waits(p) /\ Pool \ used # {} =>
                 /\ Min(Pool \ used) \in Pool \ used
                 /\ AssignLowest(mid)[p] = StartStream(cams[p], Min(Pool \ used))
           /\ ~(Waits(p) /\ Pool \ used # {}) => AssignLowest(mid)[p] = cams[p]
PROOF
  <1> DEFINE W == Waiting(mid)
             F == FreePorts(mid)
             left == Pool \ used
  <1>1. /\ DOMAIN cams = DOMAIN mid /\ DOMAIN mid \subseteq Path /\ p \in DOMAIN mid
        /\ cams[p] = mid[p]
    BY DEF LoopTypeOK, IsLoopRegistry, IsPartial, Progress
  <1>2. Waits(p) <=> p \in W
    BY <1>1 DEF Waits, Waiting
  <1>3. W \in SUBSET Nat /\ IsFiniteSet(W) /\ F \in SUBSET Nat /\ IsFiniteSet(F)
    BY <1>1, FiniteSupply
  <1>4. /\ Cardinality(W) \in Nat /\ Cardinality(F) \in Nat
        /\ \A q \in W : Below(W, q) \in Nat /\ Below(W, q) < Cardinality(W)
        /\ \A r \in F : Below(F, r) \in Nat /\ Below(F, r) < Cardinality(F)
    BY <1>3, FS_CardinalityType, RankBounds
  <1>5. ASSUME p \notin W PROVE AssignLowest(mid)[p] = cams[p]
    BY <1>1, <1>5 DEF AssignLowest, Offered
  <1>6. ASSUME p \in W, NEW port
        PROVE  port \in left <=> port \in F /\ Below(W, p) <= Below(F, port)
    <2>1. port \in left <=> port \in F /\ ~\E q \in W : q < p /\ Offered(mid, q, port)
      BY InUseIsOffered DEF FreePorts
    <2>2. ASSUME port \in F, Below(F, port) < Below(W, p)
          PROVE  \E q \in W : q < p /\ Offered(mid, q, port)
      <3>1. Below(F, port) < Cardinality(W)
        BY <1>4, <1>6, <2>2
      <3>2. PICK q \in W : Below(W, q) = Below(F, port)
        <4> HIDE DEF W, F
        <4> QED
          BY <1>3, <1>4, <2>2, <3>1, RanksFill
      <3>3. q < p
        <4> HIDE DEF W, F
        <4>1. ~(p < q) /\ q # p
          BY <1>3, <1>4, <1>6, <2>2, <3>2, RanksAscend
        <4> QED
          BY <1>3, <1>6, <4>1
      <3> QED
        BY <2>2, <3>2, <3>3 DEF Offered
    <2>3. ASSUME port \in F, NEW q \in W, q < p, Offered(mid, q, port)
          PROVE  Below(F, port) < Below(W, p)
      <3>1. Below(W, q) < Below(W, p)
        <4> HIDE DEF W
        <4> QED
          BY <1>3, <1>6, <2>3, RanksAscend
      <3> QED
        BY <2>3, <3>1 DEF Offered
    <2> QED
      BY <1>4, <1>6, <2>1, <2>2, <2>3
  <1>7. ASSUME p \in W, left = {} PROVE AssignLowest(mid)[p] = cams[p]
    <2>1. ASSUME NEW port \in Pool, Offered(mid, p, port) PROVE FALSE
      <3>1. port \in F /\ Below(W, p) <= Below(F, port)
        BY <1>4, <1>7, <2>1 DEF Offered
      <3> QED
        BY <1>6, <1>7, <3>1
    <2> QED
      BY <1>1, <2>1 DEF AssignLowest
  <1>8. ASSUME p \in W, left # {}
        PROVE  Min(left) \in left /\ AssignLowest(mid)[p] = StartStream(cams[p], Min(left))
    <2> DEFINE m == Min(left)
    <2>1. left \in SUBSET Nat
      BY <1>3, <1>6, <1>8
    <2>2. \E x \in left : \A y \in left : x <= y
      <3> HIDE DEF left
      <3> QED
        BY <1>8, <2>1, LowestExists
    <2>3. m \in left /\ \A y \in left : m <= y
      <3> HIDE DEF left
      <3> QED
        BY <2>2 DEF Min
    <2> HIDE DEF m
    <2>4. m \in F /\ Below(W, p) <= Below(F, m)
      BY <1>6, <1>8, <2>3
    <2>5. Below(F, m) = Below(W, p)
      <3> SUFFICES ASSUME Below(W, p) < Below(F, m) PROVE FALSE
        BY <1>4, <1>8, <2>4
      <3>1. PICK r \in F : Below(F, r) = Below(W, p)
        <4>1. Below(W, p) < Cardinality(F)
          BY <1>4, <1>8, <2>4
        <4> HIDE DEF W, F
        <4> QED
          BY <1>3, <1>4, <1>8, <4>1, RanksFill
      <3>2. r \in left
        BY <1>4, <1>6, <1>8, <3>1
      <3>3. m <= r
        BY <2>3, <3>2
      <3>4. ~(m < r) /\ m # r
        <4> HIDE DEF W, F
        <4> QED
          BY <1>3, <1>4, <1>8, <2>4, <3>1, RanksAscend
      <3> QED
        BY <1>3, <2>4, <3>1, <3>3, <3>4
    <2>6. Offered(mid, p, m)
      BY <1>8, <2>4, <2>5 DEF Offered
    <2> QED
      BY <1>1, <2>3, <2>6, AssignsOffered DEF m
  <1> QED
    BY <1>1, <1>2, <1>5, <1>7, <1>8

LEMMA LoopInvInit == LoopInit => LoopInv
PROOF
  <1> SUFFICES ASSUME LoopInit PROVE LoopInv
    OBVIOUS
  <1>1. Records \subseteq LoopRecord
    <2>1. \A port \in Pool : Streaming(port) \in LoopRecord
      BY PoolPorts DEF Streaming, LoopRecord, LoopFields
    <2>2. \A on \in BOOLEAN, want \in Port \cup {NoPort} : NotStreaming(on, want) \in LoopRecord
      BY DEF NotStreaming, LoopRecord, LoopFields
    <2> QED
      BY <2>1, <2>2, RememberedAssumption DEF Records
  <1>2. IsLoopRegistry(given) /\ Callable(given)
    BY <1>1 DEF LoopInit, IsLoopRegistry, IsPartial
  <1> QED
    BY <1>2 DEF LoopInit, LoopInv, LoopTypeOK, UsedIsExact, Progress

\* A visit that makes of a camera what after says is progress.
LEMMA VisitProgresses ==
    ASSUME LoopTypeOK, NEW before, NEW after, Progress(before, after),
           NEW p \in todo, Visit(p), given' = given, cams'[p] = after[p],
           \A q \in DOMAIN given \ {p} : cams'[q] = cams[q]
    PROVE  /\ \A q \in DOMAIN given \ todo', r \in todo' : q < r
           /\ \A q \in DOMAIN given : cams'[q] = IF q \in todo' THEN before[q] ELSE after[q]
           /\ todo' \subseteq DOMAIN given
PROOF
  <1>1. todo' = todo \ {p} /\ todo \subseteq DOMAIN given /\ DOMAIN given \in SUBSET Nat
    BY PathAssumption DEF Visit, LoopTypeOK, IsLoopRegistry, IsPartial
  <1>2. \A r \in todo' : p < r
    BY <1>1, VisitsLowest
  <1> QED
    BY <1>1, <1>2 DEF Progress

LEMMA Pass1Keeps == LoopInv /\ Pass1Step => LoopInv'
PROOF
  <1> SUFFICES ASSUME LoopInv, Pass1Step PROVE LoopInv'
    OBVIOUS
  <1>1. PICK p \in todo : /\ Visit(p)
                          /\ IF Waits(p) /\ StickyPortFree(p)
                             THEN Start(p, cams[p].desired_port)
                             ELSE UNCHANGED <<cams, used>>
    BY DEF Pass1Step
  <1>2. /\ LoopTypeOK /\ UsedIsExact /\ pass = 1 /\ pass' = 1 /\ given' = given
        /\ Progress(given, ReclaimSticky(given))
    BY DEF LoopInv, Pass1Step
  <1>3. (Waits(p) /\ StickyPortFree(p)) <=> Reclaims(given, p)
    BY <1>1, <1>2, StickyIsReclaims
  <1>4. cams[p] = given[p] /\ p \in DOMAIN given /\ DOMAIN cams = DOMAIN given
    BY <1>1, <1>2, StickyIsReclaims DEF LoopTypeOK
  <1>5. /\ UsedIsExact' /\ IsLoopRegistry(cams') /\ DOMAIN cams' = DOMAIN cams
        /\ cams'[p] = ReclaimSticky(given)[p]
        /\ \A q \in DOMAIN given \ {p} : cams'[q] = cams[q]
    <2>1. CASE Waits(p) /\ StickyPortFree(p)
      <3>1. cams[p].desired_port \in Port /\ cams[p].desired_port \notin used /\ ~cams[p].streaming
        <4>1. cams[p] \in LoopRecord
          BY <1>2, <1>4 DEF LoopTypeOK, IsLoopRegistry, IsPartial
        <4> QED
          BY <2>1, <4>1 DEF LoopRecord, LoopFields, StickyPortFree, Waits
      <3>2. ReclaimSticky(given)[p] = StartStream(cams[p], cams[p].desired_port)
        BY <1>3, <1>4, <2>1 DEF ReclaimSticky
      <3> QED
        BY <1>1, <1>2, <1>4, <2>1, <3>1, <3>2, StartCounts
    <2>2. CASE ~(Waits(p) /\ StickyPortFree(p))
      BY <1>1, <1>2, <1>3, <1>4, <2>2 DEF ReclaimSticky, UsedIsExact, LoopTypeOK
    <2> QED
      BY <2>1, <2>2
  <1>6. /\ \A q \in DOMAIN given \ todo', r \in todo' : q < r
        /\ \A q \in DOMAIN given : cams'[q] = IF q \in todo' THEN given[q] ELSE ReclaimSticky(given)[q]
        /\ todo' \subseteq DOMAIN given
    BY <1>1, <1>2, <1>5, VisitProgresses
  <1> QED
    BY <1>2, <1>4, <1>5, <1>6 DEF LoopInv, LoopTypeOK, Progress

LEMMA Pass2Keeps == LoopInv /\ Pass2Step => LoopInv'
PROOF
  <1> SUFFICES ASSUME LoopInv, Pass2Step PROVE LoopInv'
    OBVIOUS
  <1> DEFINE mid == ReclaimSticky(given)
  <1>1. PICK p \in todo : /\ Visit(p)
                          /\ IF Waits(p) /\ Pool \ used # {}
                             THEN Start(p, Min(Pool \ used))
                             ELSE UNCHANGED <<cams, used>>
    BY DEF Pass2Step
  <1>2. /\ LoopTypeOK /\ UsedIsExact /\ pass = 2 /\ pass' = 2 /\ given' = given
        /\ Progress(mid, AssignLowest(mid)) /\ p \in DOMAIN given /\ DOMAIN cams = DOMAIN given
    BY DEF LoopInv, Pass2Step, Reconcile, LoopTypeOK
  <1>3. IsLoopRegistry(mid) /\ DOMAIN mid = DOMAIN given
    BY <1>2, StickyRegistry DEF LoopTypeOK
  <1> HIDE DEF mid
  <1>4. /\ Waits(p) /\ Pool \ used # {} =>
              /\ Min(Pool \ used) \in Pool \ used
              /\ AssignLowest(mid)[p] = StartStream(cams[p], Min(Pool \ used))
        /\ ~(Waits(p) /\ Pool \ used # {}) => AssignLowest(mid)[p] = cams[p]
    BY <1>1, <1>2, <1>3, LowestIsOffered
  <1>5. /\ UsedIsExact' /\ IsLoopRegistry(cams') /\ DOMAIN cams' = DOMAIN cams
        /\ cams'[p] = AssignLowest(mid)[p]
        /\ \A q \in DOMAIN given \ {p} : cams'[q] = cams[q]
    <2>1. CASE Waits(p) /\ Pool \ used # {}
      <3>1. /\ Min(Pool \ used) \in Port /\ Min(Pool \ used) \notin used
            /\ ~cams[p].streaming
        BY <1>4, <2>1, PoolPorts DEF Waits
      <3> QED
        BY <1>1, <1>2, <1>4, <2>1, <3>1, StartCounts
    <2>2. CASE ~(Waits(p) /\ Pool \ used # {})
      BY <1>1, <1>2, <1>4, <2>2 DEF UsedIsExact, LoopTypeOK
    <2> QED
      BY <2>1, <2>2
  <1>6. /\ \A q \in DOMAIN given \ todo', r \in todo' : q < r
        /\ \A q \in DOMAIN given : cams'[q] = IF q \in todo' THEN mid[q] ELSE AssignLowest(mid)[q]
        /\ todo' \subseteq DOMAIN given
    BY <1>1, <1>2, <1>5, VisitProgresses
  <1> QED
    BY <1>2, <1>5, <1>6 DEF LoopInv, LoopTypeOK, Progress, Reconcile, mid

\* With nobody left to visit the registry is what the pass makes of all.
LEMMA PassIsDone ==
    ASSUME LoopInv, todo = {}
    PROVE  /\ pass = 1 => cams = ReclaimSticky(given)
           /\ pass = 2 => cams = Reconcile(given)
PROOF
  <1>1. IsPartial(cams, Path, LoopRecord) /\ DOMAIN cams = DOMAIN given
    BY DEF LoopInv, LoopTypeOK, IsLoopRegistry
  <1>2. /\ DOMAIN ReclaimSticky(given) = DOMAIN given
        /\ ReclaimSticky(given) = [p \in DOMAIN ReclaimSticky(given) |-> ReclaimSticky(given)[p]]
    BY DEF ReclaimSticky
  <1>3. /\ DOMAIN Reconcile(given) = DOMAIN given
        /\ Reconcile(given) = [p \in DOMAIN Reconcile(given) |-> Reconcile(given)[p]]
    BY ReconcileDomain DEF Reconcile, AssignLowest
  <1>4. CASE pass = 1
    <2>1. \A p \in DOMAIN cams : cams[p] = ReclaimSticky(given)[p]
      BY <1>1, <1>4 DEF LoopInv, Progress
    <2> QED
      BY <1>1, <1>2, <1>4, <2>1, SamePartial
  <1>5. CASE pass = 2
    <2>1. \A p \in DOMAIN cams : cams[p] = Reconcile(given)[p]
      BY <1>1, <1>5 DEF LoopInv, Progress
    <2> QED
      BY <1>1, <1>3, <1>5, <2>1, SamePartial
  <1> QED
    BY <1>4, <1>5

LEMMA NextPassKeeps == LoopInv /\ NextPass => LoopInv'
PROOF
  <1> SUFFICES ASSUME LoopInv, NextPass PROVE LoopInv'
    OBVIOUS
  <1>1. /\ LoopTypeOK /\ UsedIsExact /\ todo = {}
        /\ UNCHANGED <<given, cams, used>> /\ pass' = pass + 1
        /\ todo' = IF pass = 1 THEN DOMAIN cams ELSE {}
        /\ pass \in {1, 2} /\ DOMAIN cams = DOMAIN given
    BY DEF LoopInv, LoopTypeOK, NextPass
  <1>2. LoopTypeOK' /\ UsedIsExact'
    BY <1>1 DEF LoopTypeOK, UsedIsExact
  <1>3. CASE pass = 1
    <2>1. cams = ReclaimSticky(given)
      BY <1>1, <1>3, PassIsDone
    <2> QED
      BY <1>1, <1>2, <1>3, <2>1 DEF LoopInv, Progress
  <1>4. CASE pass = 2
    <2>1. cams = Reconcile(given)
      BY <1>1, <1>4, PassIsDone
    <2> QED
      BY <1>1, <1>2, <1>4, <2>1 DEF LoopInv
  <1> QED
    BY <1>1, <1>3, <1>4

THEOREM LoopInvariance == LoopSpec => []LoopInv
PROOF
  <1>1. LoopInv /\ UNCHANGED loop_vars => LoopInv'
    BY DEF loop_vars, LoopInv, LoopTypeOK, UsedIsExact, Progress
  <1>2. LoopInv /\ [LoopNext]_loop_vars => LoopInv'
    BY <1>1, Pass1Keeps, Pass2Keeps, NextPassKeeps DEF LoopNext
  <1> QED
    BY <1>2, LoopInvInit, PTL DEF LoopSpec

\* While reconcile runs no two streams have one port, and its Vec of ports in use
\* holds those of all streams and no other.
THEOREM UsedStaysExact == LoopSpec => []UsedIsExact
PROOF
  <1>1. LoopInv => UsedIsExact
    BY DEF LoopInv
  <1> QED
    BY <1>1, LoopInvariance, PTL

\* The two loops of reconcile compute Reconcile, for every registry it may find:
\* any number of cameras, any pool, and any ports that they remember.
THEOREM LoopsComputeReconcile == LoopSpec => []LoopComputesReconcile
PROOF
  <1>1. LoopInv => LoopComputesReconcile
    BY PassIsDone DEF LoopInv, LoopComputesReconcile
  <1> QED
    BY <1>1, LoopInvariance, PTL

=============================================================================
