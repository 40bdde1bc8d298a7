--------------------------- MODULE HotspotAddress ---------------------------
(***************************************************************************)
(* The address of the hotspot: what validate_ap_ip accepts, and the leases *)
(* that dhcp_range_of derives from it.                                     *)
(*                                                                         *)
(* An octet is the number its text parses to, and whether the text has the *)
(* plus sign that u16::from_str takes; text that does not parse is Word.   *)
(***************************************************************************)
EXTENDS Integers, Sequences

Word == [plus |-> FALSE, n |-> -1]

Parses(o) == o # Word /\ o.n < 65536

\* Mutant: the end of the range of leases is left out.
InLeasesBut(host) == host \in 100..199
InLeases(host)    == host \in 100..200

\* a is [octets, prefix]: the texts between the dots, and what follows the slash.
Accepts(a) ==
    /\ a.prefix = "24"
    /\ Len(a.octets) = 4
    /\ \A i \in 1..4 : Parses(a.octets[i]) /\ a.octets[i].n <= 255
    /\ LET host == a.octets[4].n
       IN  host # 0 /\ host < 255 /\ ~InLeases(host)

\* <net>.100,<net>.200, where <net> is the text before the last dot.
DhcpRange(a) ==
    LET net == SubSeq(a.octets, 1, Len(a.octets) - 1)
    IN  [net |-> net, first |-> 100, last |-> 200]

\* An address that was accepted is a host of the subnet it leases from, and not one of the leases.
AddressIsRight(a, accepted, range) ==
    accepted => LET host == a.octets[4].n
                IN  /\ host \in 1..254
                    /\ \A i \in 1..4 : a.octets[i].n \in 0..255
                    /\ range.net = SubSeq(a.octets, 1, 3)
                    /\ host < range.first \/ range.last < host

=============================================================================
