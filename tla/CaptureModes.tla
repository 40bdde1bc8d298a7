---------------------------- MODULE CaptureModes ----------------------------
(***************************************************************************)
(* The formats, sizes and rates a camera's driver lists (camera::probe and *)
(* the enumerations below it), and the settings a camera is given first.   *)
(***************************************************************************)
EXTENDS Integers, Sequences, FiniteSets

\* How many entries of each list are asked for. In the code 64.
CONSTANT MaxIndex

ASSUME MaxIndexAssumption == MaxIndex \in Nat \ {0}

NoFormat == "none"
MJPEG    == "MJPEG"

\* The entries an enumeration sees: up to the first that is not discrete, and MaxIndex at most.
Seen(list) ==
    LET n == CHOOSE n \in 0..Len(list) :
                /\ \A k \in 1..n : list[k].discrete /\ k <= MaxIndex
                /\ n = Len(list) \/ ~list[n + 1].discrete \/ n = MaxIndex
    IN  SubSeq(list, 1, n)

PickFormat(formats) ==
    LET asked == SubSeq(formats, 1, IF Len(formats) < MaxIndex THEN Len(formats) ELSE MaxIndex)
    IN  IF asked = <<>> THEN NoFormat
        ELSE IF \E k \in DOMAIN asked : asked[k] = MJPEG THEN MJPEG
        ELSE asked[1]

\* In whole frames per second.
Rates(seen) == {seen[k].den \div seen[k].num : k \in {j \in DOMAIN seen : seen[j].num > 0}}

\* Mutant: the lowest rate first.
EnumFrameRatesUp(intervals) ==
    LET rates == Rates(Seen(intervals))
    IN  [i \in 1..Cardinality(rates) |->
            CHOOSE r \in rates : Cardinality({s \in rates : s < r}) = i - 1]

\* Each rate once, the highest first.
EnumFrameRates(intervals) ==
    LET rates == Rates(Seen(intervals))
    IN  [i \in 1..Cardinality(rates) |->
            CHOOSE r \in rates : Cardinality({s \in rates : s > r}) = i - 1]

EnumModes(sizes) ==
    LET seen == Seen(sizes)
    IN  [k \in DOMAIN seen |-> [size |-> seen[k].size, fps |-> EnumFrameRates(seen[k].intervals)]]

Offers(modes, s) ==
    \E k \in DOMAIN modes : modes[k].size = s.size /\ \E j \in DOMAIN modes[k].fps : modes[k].fps[j] = s.fps

\* initial_settings.
FirstSettings(modes, config) ==
    IF Offers(modes, config) \/ modes = <<>> THEN config
    ELSE [size |-> modes[1].size,
          fps  |-> IF modes[1].fps = <<>> THEN config.fps ELSE modes[1].fps[1]]

\* A camera starts with the configured settings if it has them, or lists no size. Otherwise it
\* starts with its first size, at the highest of its rates. A first size without a rate gets the rate
\* of the configuration, which the camera does not offer and set_mode would refuse (camera.rs:462),
\* unless that size is listed a second time: also when a later size has rates.
InitialIsRight(sizes, modes, config, settings) ==
    /\ Offers(modes, config) \/ modes = <<>> => settings = config
    /\ \/ Offers(modes, settings)
       \/ modes = <<>>
       \/ modes[1].fps = <<>> /\ settings = [size |-> modes[1].size, fps |-> config.fps]
    /\ settings # config /\ modes # <<>> =>
          \A k \in DOMAIN Seen(sizes[1].intervals) :
             LET i == sizes[1].intervals[k]
             IN  i.num > 0 => i.den < (settings.fps + 1) * i.num

=============================================================================
