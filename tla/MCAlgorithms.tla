---------------------------- MODULE MCAlgorithms ----------------------------
(***************************************************************************)
(* The inputs of Algorithms for TLC, all the short ones around each edge,  *)
(* and beside its functions the loops of reconcile, one of them at a time. *)
(***************************************************************************)
EXTENDS Algorithms, ReconcileLoop, SequencesExt

NoFunction == fn = "reconcile" /\ input = None /\ output = None /\ ScanInit /\ phase = "idle"
NoLoop     == given = Empty /\ cams = Empty /\ used = {} /\ pass = 3 /\ todo = {}

MCInit == \/ Init /\ NoLoop
          \/ LoopInit /\ NoFunction
MCNext == \/ Next /\ UNCHANGED loop_vars
          \/ LoopNext /\ UNCHANGED vars
MCSpec == MCInit /\ [][MCNext]_<<vars, loop_vars>>

MCAdvertised == [c \in Camera |-> Mode]
MCFirstMode  == [c \in Camera |-> ConfigMode]

Stations(loads) == [ssid : {"a", "b", NoName}, signal : {NoSignal, -60, -50}, secured : BOOLEAN,
                    load : loads]
MCBlocks == SeqOf(Stations({FALSE}), 3) \cup SeqOf(Stations(BOOLEAN), 2)

Number(n)   == [plus |-> FALSE, n |-> n]
Host        == {Number(n) : n \in {0, 1, 99, 100, 200, 201, 254, 255, 256, 65536}} \cup
               {[plus |-> TRUE, n |-> 7], [plus |-> FALSE, n |-> -1]}
Net         == {Number(0), Number(255), Number(256), [plus |-> FALSE, n |-> -1]}
MCAddresses == [octets : UNION {[1..3 -> Net], {n \o <<h>> : n \in [1..3 -> Net], h \in Host},
                                {<<n, n, n, n, h>> : n \in Net, h \in Host}},
                prefix : {"24", "16"}]

MCTags == UNION {[1..k -> {-1, 0, 1, 2}] : k \in 2..3} \cup {t \o <<-1, 1>> : t \in [1..3 -> {-1, 1}]}

Intervals  == [num : {0, 1, 2}, den : {1, 31, 60}, discrete : {TRUE}]
              \cup {[num |-> 1, den |-> 90, discrete |-> FALSE]}
Frames     == {<<>>} \cup {<<i>> : i \in Intervals} \cup {<<i, [num |-> 1, den |-> 30, discrete |-> TRUE]>> : i \in Intervals}
              \cup {<<[num |-> 2, den |-> 31, discrete |-> TRUE], i, [num |-> 1, den |-> 99, discrete |-> TRUE]>> : i \in Intervals}
Listed(s, f) == [size |-> s, intervals |-> f, discrete |-> TRUE]
Sizes      == {<<>>, <<[size |-> "480p", intervals |-> <<>>, discrete |-> FALSE]>>}
              \cup {<<Listed("480p", f)>> : f \in Frames}
              \cup {<<Listed("480p", f), Listed("720p", <<[num |-> 1, den |-> 30, discrete |-> TRUE]>>)>> : f \in Frames}
Raw        == [format |-> "YUYV", sizes |-> <<Listed("480p", <<[num |-> 1, den |-> 30, discrete |-> TRUE]>>)>>]
MCDrivers  == {<<>>, <<Raw>>}
              \cup {<<[format |-> "MJPEG", sizes |-> s]>> : s \in Sizes}
              \cup {<<Raw, [format |-> "MJPEG", sizes |-> s]>> : s \in Sizes}
              \cup {<<[format |-> "H264", sizes |-> s], Raw, [format |-> "MJPEG", sizes |-> <<>>]>> : s \in Sizes}
MCConfigured == [size : {"480p", "720p"}, fps : {30, 15}]

MCContents == SeqOf([addr : {"127.0.0.1", "127.0.1.1", "127.0.1.10"}, name : {"old", "nas"}], 4)

=============================================================================
