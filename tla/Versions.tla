------------------------------ MODULE Versions ------------------------------
(***************************************************************************)
(* Which release is newer (update::parse_ver and version_gt).  A tag is    *)
(* the sequence of its parts between dots, dashes and plus signs, without  *)
(* the leading v; a part that is not a u64 is Word.                        *)
(***************************************************************************)
EXTENDS Integers, Sequences

Word == -1

\* The first three numbers; what is not one is passed over, what is missing is 0.
ParseVer(tag) ==
    LET numbers  == {k \in DOMAIN tag : tag[k] # Word}
        first(S) == CHOOSE k \in S : \A j \in S : k <= j
        next(S)  == IF S = {} THEN 0 ELSE tag[first(S)]
        rest(S)  == IF S = {} THEN {} ELSE S \ {first(S)}
    IN  <<next(numbers), next(rest(numbers)), next(rest(rest(numbers)))>>

\* Mutant: each part on its own.
VersionGtAny(a, b) ==
    LET u == ParseVer(a)
        v == ParseVer(b)
    IN  u[1] > v[1] \/ u[2] > v[2] \/ u[3] > v[3]

VersionGt(a, b) ==
    LET u == ParseVer(a)
        v == ParseVer(b)
    IN  \/ u[1] > v[1]
        \/ u[1] = v[1] /\ u[2] > v[2]
        \/ u[1] = v[1] /\ u[2] = v[2] /\ u[3] > v[3]

\* A tag X.Y.Z, or X.Y.Z-word..., read as a number in a base none of its parts reaches.
Release(tag)      == Len(tag) >= 3 /\ \A i \in 1..3 : tag[i] # Word
Weight(tag, base) == (tag[1] * base + tag[2]) * base + tag[3]

=============================================================================
