---- MODULE MCAccessPoint ----
(* AccessPoint with the requests at work, and the networks, interchangeable. *)
EXTENDS AccessPoint, TLC

Symmetry == Permutations(Task) \cup Permutations(Net)

====
