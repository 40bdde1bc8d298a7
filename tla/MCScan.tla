------------------------------- MODULE MCScan -------------------------------
(* A scan of up to two stations by itself, for TLC. *)
EXTENDS WifiScan, SequencesExt

MCBlocks == SeqOf([ssid : {"a", NoName}, signal : {NoSignal, -60, -50}, secured : BOOLEAN,
                   load : BOOLEAN], 2)
=============================================================================
