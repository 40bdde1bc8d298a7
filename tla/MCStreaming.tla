----------------------------- MODULE MCStreaming -----------------------------
(***************************************************************************)
(* Small instances of Streaming for TLC.                                   *)
(***************************************************************************)
EXTENDS Streaming

MCCabling == {[cam |-> "cam1", id |-> "usb1"],
              [cam |-> "cam2", id |-> "usb2"]} \cap Device

MCAdvertised == [c \in Camera |-> Mode]
MCFirstMode  == [c \in Camera |-> ConfigMode]

\* cam1 was streaming on the first port of the pool.
MCKnown == [id \in {"usb1"} |->
              [enabled |-> TRUE, mode |-> ConfigMode, auth |-> NoAuth, port |-> BasePort]]
=============================================================================
