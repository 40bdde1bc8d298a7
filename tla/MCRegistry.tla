----------------------------- MODULE MCRegistry -----------------------------
(***************************************************************************)
(* Small instances of Registry for TLC.                                    *)
(***************************************************************************)
EXTENDS Registry

\* Every camera stays in a USB port of its own.
FixedCabling ==
    {[cam |-> "cam1", id |-> "usb1"],
     [cam |-> "cam2", id |-> "usb2"],
     [cam |-> "cam3", id |-> "usb3"]} \cap Device

\* Any camera may be found in any USB port.
AnyCabling == Device

\* One port is the place of two cameras.
SharedCabling == {[cam |-> "cam1", id |-> "usb1"],
                  [cam |-> "cam2", id |-> "usb2"],
                  [cam |-> "cam4", id |-> "usb2"]}

\* cam1 has every mode, cam2 only one, cam3 enumerates no size, and the first size
\* of cam4, which is that of config.toml, has no rate.
MCAdvertised == [c \in Camera |-> CASE c = "cam1" -> Mode
                                    [] c = "cam2" -> {"480p"} \cap Mode
                                    [] OTHER -> {}]
MCFirstMode  == [c \in Camera |-> CASE c \in {"cam1", "cam2"} -> "480p"
                                    [] c = "cam4" -> ConfigMode
                                    [] OTHER -> NoMode]

=============================================================================
