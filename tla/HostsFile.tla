----------------------------- MODULE HostsFile -----------------------------
(***************************************************************************)
(* update_etc_hosts: the line of /etc/hosts that names the box itself.  A  *)
(* line is its address and its name; the code knows the one to replace by  *)
(* how it starts, so an address that only starts like it is taken for it.  *)
(***************************************************************************)
EXTENDS Integers, Sequences

Own      == "127.0.1.1"
LikeOwn  == "127.0.1.10"
IsOwn(l) == l.addr \in {Own, LikeOwn}

\* Mutant: the line is added each time.
UpdateEtcHostsAdd(content, name) ==
    Append(content, [addr |-> Own, name |-> name])

UpdateEtcHosts(content, name) ==
    LET line == [addr |-> Own, name |-> name]
        out  == [k \in DOMAIN content |-> IF IsOwn(content[k]) THEN line ELSE content[k]]
    IN  IF \E k \in DOMAIN content : IsOwn(content[k]) THEN out ELSE Append(out, line)

\* The box has one name, its own; the other lines stay as they are and where they are, and there
\* are no new ones; and to do it again changes nothing.
HostsAreRight(content, name, out) ==
    /\ {out[k].name : k \in {j \in DOMAIN out : out[j].addr = Own}} = {name}
    /\ \A k \in DOMAIN content : content[k].addr # Own => k \in DOMAIN out /\ out[k] = content[k]
    /\ \A k \in DOMAIN out : out[k].addr # Own => k \in DOMAIN content /\ out[k] = content[k]
    /\ UpdateEtcHosts(out, name) = out

=============================================================================
