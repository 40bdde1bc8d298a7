------------------------------ MODULE PortLease ------------------------------
(***************************************************************************)
(* What the registry promises about stream ports, whatever reconcile does  *)
(* to keep it: a camera that is to stream keeps the port it was given for  *)
(* as long as it wants to stream, no port is given twice, and nobody waits *)
(* while a port is free.  Which port is given to whom is left open.        *)
(***************************************************************************)
EXTENDS Functions

CONSTANTS Holder, LeasePort

VARIABLES wants,  \* the holders that are to stream
          lease   \* the ports given, a partial function from holders to ports

vars == <<wants, lease>>

Leased ==
    /\ wants \subseteq Holder
    /\ DOMAIN lease \subseteq wants
    /\ lease \in [DOMAIN lease -> LeasePort]
    /\ IsInjective(lease)
    /\ wants # DOMAIN lease => Range(lease) = LeasePort

Init == wants = {} /\ lease = [h \in {} |-> h]

\* Any number of holders come and go at once; those that stay keep their port.
Change ==
    /\ Leased'
    /\ \A h \in DOMAIN lease \cap wants' :
         h \in DOMAIN lease' /\ lease'[h] = lease[h]

Spec == Init /\ [][Change]_vars
=============================================================================
