------------------------------ MODULE WifiScan ------------------------------
(***************************************************************************)
(* net::scan: the lines that `iw dev <iface> scan` prints become one entry *)
(* for each network name, the strongest first.                             *)
(*                                                                         *)
(* One line is read at a time.  Each station begins with a line "BSS ...", *)
(* and its signal, its name and its security follow in any order.  Of the  *)
(* other lines of its block, "BSS Load:" is taken for a new station, and   *)
(* the others change nothing.                                              *)
(***************************************************************************)
EXTENDS Integers, Sequences

CONSTANT Blocks  \* sequences of stations that a scan may hear

NoName   == "none"
NoSignal == -100

\* load: its block has lines that begin with "BSS " besides the first one.
Station == [ssid : STRING, signal : Int, secured : BOOLEAN, load : BOOLEAN]
ASSUME BlocksAssumption == \A b \in Blocks : b \in Seq(Station)

VARIABLES
    blocks,    \* the stations that iw prints
    station,   \* how many of them have begun
    unread,    \* the lines of the last of these that are still to come
    ssid, signal, secured, results,
    phase,     \* "idle" while there is no scan, "read", "sort", "done"
    cut        \* the names whose blocks had a "BSS Load:" among the lines that are told (history)

scan_vars == <<blocks, station, unread, ssid, signal, secured, results, phase, cut>>

\* A hidden name is trimmed with its line, and there is no name; none need have a signal.
Told(b) ==
    (IF b.signal = NoSignal THEN {} ELSE {"signal"})
    \cup (IF b.ssid = NoName THEN {} ELSE {"SSID"})
    \cup (IF b.secured THEN {"RSN"} ELSE {})

ScanInit ==
    /\ \/ phase = "idle" /\ blocks = <<>>
       \/ phase = "read" /\ blocks \in Blocks
    /\ station = 0 /\ unread = {}
    /\ ssid = NoName /\ signal = NoSignal /\ secured = FALSE
    /\ results = <<>> /\ cut = {}

Entry == [ssid |-> ssid, signal |-> signal, secured |-> secured]

\* A name is entered once, with the strongest of its stations.
Entered ==
    IF ssid = NoName THEN results
    ELSE IF \A k \in DOMAIN results : results[k].ssid # ssid THEN Append(results, Entry)
    ELSE [k \in DOMAIN results |->
             IF results[k].ssid = ssid /\ signal > results[k].signal THEN Entry ELSE results[k]]

\* The closure flush, which takes the name.
Flush == results' = Entered /\ ssid' = NoName

\* Mutant: the next station starts with what was known of the one before.
NewStationKept == UNCHANGED <<signal, secured>>
NewStation     == signal' = NoSignal /\ secured' = FALSE

StationLine ==
    /\ phase = "read" /\ unread = {} /\ station < Len(blocks)
    /\ station' = station + 1
    /\ unread' = Told(blocks[station + 1])
    /\ Flush
    /\ NewStation
    /\ UNCHANGED <<blocks, phase, cut>>

\* The same branch, for a line of the station's own block (net.rs:265). What was read of the station
\* is entered and forgotten, and what is still to be read makes another entry, or none without the name.
LoadLine ==
    /\ phase = "read" /\ station > 0 /\ blocks[station].load
    /\ Flush
    /\ NewStation
    /\ cut' = IF unread \in {{}, Told(blocks[station])} THEN cut ELSE cut \cup {blocks[station].ssid}
    /\ UNCHANGED <<blocks, station, unread, phase>>

\* A line of the station that is being read.
Read(l) ==
    /\ phase = "read" /\ l \in unread
    /\ unread' = unread \ {l}
    /\ UNCHANGED <<blocks, station, results, phase, cut>>

SignalLine   == Read("signal") /\ signal' = blocks[station].signal /\ UNCHANGED <<ssid, secured>>
NameLine     == Read("SSID") /\ ssid' = blocks[station].ssid /\ UNCHANGED <<signal, secured>>
SecurityLine == Read("RSN") /\ secured' = TRUE /\ UNCHANGED <<ssid, signal>>

LastFlush ==
    /\ phase = "read" /\ unread = {} /\ station = Len(blocks)
    /\ Flush
    /\ phase' = "sort"
    /\ UNCHANGED <<blocks, station, unread, signal, secured, cut>>

\* sort_by is stable.
Before(i, j) == results[i].signal > results[j].signal
                \/ (results[i].signal = results[j].signal /\ i < j)

Sort ==
    /\ phase = "sort"
    /\ phase' = "done"
    /\ \E order \in [DOMAIN results -> DOMAIN results] :
          /\ \A k \in DOMAIN results : \E i \in DOMAIN results : order[i] = k
          /\ \A i, j \in DOMAIN results : i < j => Before(order[i], order[j])
          /\ results' = [i \in DOMAIN results |-> results[order[i]]]
    /\ UNCHANGED <<blocks, station, unread, ssid, signal, secured, cut>>

ScanNext == StationLine \/ LoadLine \/ SignalLine \/ NameLine \/ SecurityLine \/ LastFlush \/ Sort

ScanSpec == ScanInit /\ [][ScanNext]_scan_vars

----------------------------------------------------------------------------
Heard(b) == [ssid |-> blocks[b].ssid, signal |-> blocks[b].signal, secured |-> blocks[b].secured]

\* The station an entry is about: of the first n with its name, the first of the strongest.
IsBest(b, e, n) ==
    /\ Heard(b) = e
    /\ \A c \in 1..n :
          blocks[c].ssid = e.ssid => \/ blocks[c].signal < e.signal
                                     \/ blocks[c].signal = e.signal /\ b <= c

\* A station that explains an entry. Of a name whose block was cut, signals may be missing and a
\* network may pass for an open one, but no open network passes for a secured one.
Explains(b, e, n) ==
    /\ blocks[b].ssid = e.ssid
    /\ e.secured => blocks[b].secured
    /\ e.ssid \notin cut => IsBest(b, e, n)

\* "Keep the strongest entry per SSID" (net.rs:247): a scan lists every named network once, and
\* unless a "BSS Load:" came between the lines that tell of it, as the strongest station that was
\* heard of it says; in whatever order those lines are and whichever is missing from a block, the
\* strongest network first.
ScanKeepsStrongest == phase = "done" =>
    /\ \A i \in DOMAIN results :
          \E b \in DOMAIN blocks : Explains(b, results[i], Len(blocks)) /\ blocks[b].ssid # NoName
    /\ \A b \in DOMAIN blocks :
          blocks[b].ssid # NoName => \E i \in DOMAIN results : results[i].ssid = blocks[b].ssid
    /\ \A i, j \in DOMAIN results :
          i < j => results[i].ssid # results[j].ssid /\ results[i].signal >= results[j].signal

\* The same comment, of all networks: the entry of a name is what its strongest station says. It is
\* not for a network whose "BSS Load:" comes before its security, as iw prints them.
EntriesAreStrongest == phase = "done" =>
    \A i \in DOMAIN results : \E b \in DOMAIN blocks : IsBest(b, results[i], Len(blocks))

=============================================================================
