------------------------------ MODULE MCHotplug ------------------------------
(***************************************************************************)
(* Small instances of Hotplug for TLC: cameras cam1 and cam2, and a node   *)
(* that no camera has (a metadata node, or the board's own codec).         *)
(***************************************************************************)
EXTENDS Hotplug

MCUsable == Gadget \ {"codec"}
=============================================================================
