----------------------------- MODULE Algorithms -----------------------------
(***************************************************************************)
(* The pure functions of the daemon: one of them is called with an input   *)
(* and returns an output.  The other modules say what the functions        *)
(* compute and what is right; the scan parser does it line by line.        *)
(***************************************************************************)
EXTENDS CaptureModes, WifiScan

CONSTANTS
    Addresses,  \* addresses a user may give the hotspot
    Tags,       \* release tags
    Base,       \* above every number in a tag; in the code 2^64
    Drivers,    \* what a camera's driver lists, by format and size
    Configured, \* the size and rate of config.toml
    Contents    \* contents of /etc/hosts

Address  == INSTANCE HotspotAddress
Version  == INSTANCE Versions
Hosts    == INSTANCE HostsFile

\* A text between two dots that parses is not negative.
Octet == [plus : BOOLEAN, n : Nat]
ASSUME AddressAssumption == \A a \in Addresses : a.octets \in Seq(Octet \cup {Address!Word})
ASSUME TagAssumption ==
    /\ Base \in Nat \ {0}
    /\ \A t \in Tags : t \in Seq(0..(Base - 1) \cup {Version!Word})

\* Discrete entries and others, in the driver's order.
Interval == [num : Nat, den : Nat, discrete : BOOLEAN]
Size     == [size : STRING, intervals : Seq(Interval), discrete : BOOLEAN]
ASSUME DriverAssumption == \A d \in Drivers : d \in Seq([format : STRING, sizes : Seq(Size)])
ASSUME ContentAssumption == \A c \in Contents : c \in Seq([addr : STRING, name : STRING])

VARIABLES fn, input, output
vars == <<fn, input, output, scan_vars>>

None == <<>>

Init ==
    /\ output = None
    /\ \/ fn = "scan"     /\ input = None
       \/ fn = "address"  /\ input \in [a : Addresses]
       \/ fn = "version"  /\ input \in [a : Tags, b : Tags]
       \/ fn = "settings" /\ input \in [formats : Drivers, config : Configured]
       \/ fn = "hosts"    /\ input \in [content : Contents]
    /\ ScanInit
    /\ (fn = "scan") <=> (phase = "read")

\* probe, then the settings for a camera that was never seen.
Settings(formats, config) ==
    LET format == PickFormat([k \in DOMAIN formats |-> formats[k].format])
        sizes  == IF format = NoFormat THEN <<>>
                  ELSE formats[CHOOSE k \in DOMAIN formats :
                                  /\ formats[k].format = format
                                  /\ \A j \in 1..k - 1 : formats[j].format # format].sizes
        modes  == EnumModes(sizes)
    IN  [sizes |-> sizes, modes |-> modes, settings |-> FirstSettings(modes, config)]

AddressAnswers  == fn = "address"  /\ output' = [ok    |-> Address!Accepts(input.a),
                                                 range |-> Address!DhcpRange(input.a)]
VersionAnswers  == fn = "version"  /\ output' = [gt |-> Version!VersionGt(input.a, input.b)]
SettingsAnswers == fn = "settings" /\ output' = Settings(input.formats, input.config)
HostsAnswers    == fn = "hosts"    /\ output' = [out |-> Hosts!UpdateEtcHosts(input.content, "box")]

Answer ==
    /\ output = None
    /\ AddressAnswers \/ VersionAnswers \/ SettingsAnswers \/ HostsAnswers
    /\ UNCHANGED <<fn, input, scan_vars>>

Next == Answer \/ (ScanNext /\ UNCHANGED <<fn, input, output>>)

Spec == Init /\ [][Next]_vars

Answered(f) == fn = f /\ output # None

----------------------------------------------------------------------------
(* Properties.                                                             *)

\* "So the gateway can't collide with a lease" (net.rs:378-379): an address that is accepted is a
\* host of the subnet that it leases addresses of, and is not one of those.
GatewayIsNoLease == Answered("address") => Address!AddressIsRight(input.a, output.ok, output.range)

\* "Is version a strictly newer than b?" (update.rs:255): on tags X.Y.Z, with or without a suffix,
\* the order of the numbers.
NewerIsNumeric ==
    Answered("version") /\ Version!Release(input.a) /\ Version!Release(input.b) =>
        (output.gt <=> Version!Weight(input.a, Base) > Version!Weight(input.b, Base))

\* "The configured resolution/fps if the camera supports it, else its first advertised mode, else the
\* config values as-is" (camera.rs:627-628): except that the first size of a camera need not have a
\* rate, and is then not an advertised mode with the rate it gets (camera.rs:640).
InitialSettingsWork ==
    Answered("settings") =>
        InitialIsRight(output.sizes, output.modes, input.config, output.settings)

\* "Point the 127.0.1.1 line at the new hostname" (net.rs:787): and no other line, as long as no
\* other address starts like it.
HostsKeepOthers ==
    Answered("hosts") /\ (\A k \in DOMAIN input.content : input.content[k].addr # Hosts!LikeOwn) =>
        Hosts!HostsAreRight(input.content, "box", output.out)

=============================================================================
