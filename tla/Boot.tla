--------------------------------- MODULE Boot ---------------------------------
(***************************************************************************)
(* From power-on to a running loop(): setup() of main.cpp with the SoftAP  *)
(* brought up by softap.cpp, while the driver starts the interface in its  *)
(* own time; then what loop() makes the LED show of it.  Any call may be   *)
(* refused: begin() gives up at those it looks at, and drops the errors of *)
(* applyDnsOffer() (softap.cpp:77-109).                                    *)
(*                                                                         *)
(* External: the AP interface and its DHCP server, which starts with the   *)
(* interface and forgets the DNS offer then (softap.cpp:62-66), and takes  *)
(* options only while it is stopped (softap.cpp:66-68).                    *)
(***************************************************************************)
EXTENDS StatusLed

CONSTANTS
  Brightnesses,  \* config::settings.ledBrightness
  LastOctets     \* the last octet of config::settings.apIp

ASSUME SettingsAssumption == Brightnesses \cup LastOctets \subseteq 0..255

VARIABLES
  pc,            \* where setup() or loop() is
  ledBrightness, \* the saved brightness
  apOctet,       \* the saved address
  softApFailed,
  portalUp,      \* portal::begin() has run
  ap,            \* AP interface: "off", "ready", "configured", "created", "started"
  leaseStart,    \* first address of the DHCP server's range, by its last octet
  dhcps,         \* the server: "init", "started", "stopped"
  offersDns,
  longLease,     \* kLeaseMinutes is set
  refused,       \* options the driver has refused for reasons of its own
  uplinkReady,
  radioStations  \* 0, or 1 for any more

settings == <<ledBrightness, apOctet>>
netifVars == <<ap, leaseStart, dhcps, offersDns, longLease, refused>>
linkVars == <<uplinkReady, radioStations>>
outcome == <<softApFailed, portalUp>>
vars == <<pc, settings, outcome, netifVars, linkVars, ledVars>>

Bytes == 0..255
Options == {"lease", "dns"}

TypeOK ==
  /\ pc \in {"led", "white", "begin", "config", "create", "wait", "stop", "options",
             "start", "portal", "loop"}
  /\ ledBrightness \in Brightnesses /\ apOctet \in LastOctets
  /\ {softApFailed, portalUp, offersDns, longLease, uplinkReady} \subseteq BOOLEAN
  /\ ap \in {"off", "ready", "configured", "created", "started"}
  /\ dhcps \in {"init", "started", "stopped"}
  /\ leaseStart \in Bytes
  /\ refused \subseteq Options
  /\ radioStations \in 0..1
  /\ brightness \in Bytes
  /\ led \in [1..3 -> Bytes]
  /\ lastWrittenPacked = Unknown \/ lastWrittenPacked = led

Init ==
  /\ pc = "led"
  /\ ledBrightness \in Brightnesses /\ apOctet \in LastOctets
  /\ softApFailed = FALSE /\ portalUp = FALSE
  /\ ap = "off" /\ leaseStart = 0 /\ dhcps = "init"
  /\ offersDns = FALSE /\ longLease = FALSE /\ refused = {}
  /\ uplinkReady = FALSE /\ radioStations = 0
  /\ brightness = 64
  /\ lastWrittenPacked = Unknown
  /\ led \in {Off, Dimmed(Hue["Connected"], 255)}

-----------------------------------------------------------------------------
(* External: the driver and the links.                                     *)

ApStarts ==
  /\ ap = "created"
  /\ ap' = "started"
  /\ dhcps' = "started"
  /\ offersDns' = FALSE
  /\ UNCHANGED <<pc, settings, outcome, leaseStart, longLease, refused, linkVars, ledVars>>

\* Joined, left, leased, lost, once the handler of events is registered.
LinkChanges ==
  /\ pc = "loop"
  /\ \/ uplinkReady' = ~uplinkReady /\ UNCHANGED radioStations
     \/ /\ ap = "started"
        /\ radioStations' = 1 - radioStations
        /\ UNCHANGED uplinkReady
  /\ UNCHANGED <<pc, settings, outcome, netifVars, ledVars>>

-----------------------------------------------------------------------------
(* setup() and softap::begin().                                            *)

Step(from, to) == pc = from /\ pc' = to

LedBrightness ==
  /\ Step("led", "white")
  /\ SetBrightness(ledBrightness)
  /\ UNCHANGED <<settings, outcome, netifVars, linkVars>>

LedBegin ==
  /\ Step("white", "begin")
  /\ Begin
  /\ UNCHANGED <<settings, outcome, netifVars, linkVars>>

\* Every call before the DHCP options that is refused, or the 1 s of waiting.
BeginFails ==
  /\ pc \in {"begin", "config", "create", "wait"}
  /\ pc' = "loop"
  /\ softApFailed' = TRUE
  /\ UNCHANGED <<settings, portalUp, netifVars, linkVars, ledVars>>

ApBegin ==
  /\ Step("begin", "config")
  /\ ap' = "ready"
  /\ UNCHANGED <<settings, outcome, leaseStart, dhcps, offersDns, longLease, refused, linkVars,
                 ledVars>>

leaseStartFor(octet) == IF octet < 254 THEN octet + 1 ELSE octet - 1

ApConfig ==
  /\ Step("config", "create")
  /\ ap' = "configured"
  /\ leaseStart' = leaseStartFor(apOctet)
  /\ offersDns' = TRUE
  /\ UNCHANGED <<settings, outcome, dhcps, longLease, refused, linkVars, ledVars>>

ApCreate ==
  /\ Step("create", "wait")
  /\ ap' = "created"
  /\ UNCHANGED <<settings, outcome, leaseStart, dhcps, offersDns, longLease, refused, linkVars,
                 ledVars>>

\* A slip: nobody waits for the interface.
StartedAssumed == TRUE

Started == ap = "started"

WaitStarted ==
  /\ Step("wait", "stop")
  /\ Started
  /\ UNCHANGED <<settings, outcome, netifVars, linkVars, ledVars>>

\* No interface is found: applyDnsOffer() does nothing, and says so to nobody.
NoNetif ==
  /\ Step("stop", "portal")
  /\ refused' = Options
  /\ UNCHANGED <<settings, outcome, ap, leaseStart, dhcps, offersDns, longLease, linkVars,
                 ledVars>>

DhcpsStop ==
  /\ Step("stop", "options")
  /\ \/ dhcps' = "stopped" /\ UNCHANGED refused
     \/ refused' = Options /\ UNCHANGED dhcps
  /\ UNCHANGED <<settings, outcome, ap, leaseStart, offersDns, longLease, linkVars, ledVars>>

\* dns: the address and the offer of it.  Should the driver take one of the two
\* only, no resolver is counted on.
DhcpsOptions ==
  /\ Step("options", "start")
  /\ \E now \in SUBSET Options :
       /\ refused' = refused \cup now
       /\ longLease' = (longLease \/ (dhcps # "started" /\ "lease" \notin now))
       /\ offersDns' = (offersDns \/ (dhcps # "started" /\ "dns" \notin now))
  /\ UNCHANGED <<settings, outcome, ap, leaseStart, dhcps, linkVars, ledVars>>

DhcpsStart ==
  /\ Step("start", "portal")
  /\ dhcps' \in {dhcps, "started"}
  /\ UNCHANGED <<settings, outcome, ap, leaseStart, offersDns, longLease, refused, linkVars,
                 ledVars>>

PortalBegin ==
  /\ Step("portal", "loop")
  /\ portalUp' = TRUE
  /\ UNCHANGED <<settings, softApFailed, netifVars, linkVars, ledVars>>

Setup ==
  \/ LedBrightness \/ LedBegin \/ ApBegin \/ ApConfig \/ ApCreate \/ BeginFails
  \/ WaitStarted \/ NoNetif \/ DhcpsStop \/ DhcpsOptions \/ DhcpsStart \/ PortalBegin

-----------------------------------------------------------------------------
(* The end of loop().                                                      *)

\* A slip: the uplink is asked about first.
LedStateUplinkFirst ==
  CASE ~uplinkReady -> "UpstreamDown"
    [] uplinkReady /\ softApFailed -> "Fault"
    [] uplinkReady /\ ~softApFailed /\ radioStations = 0 -> "NoClients"
    [] OTHER -> "Connected"

LedState ==
  CASE softApFailed -> "Fault"
    [] ~softApFailed /\ ~uplinkReady -> "UpstreamDown"
    [] ~softApFailed /\ uplinkReady /\ radioStations = 0 -> "NoClients"
    [] OTHER -> "Connected"

ShowState(phaseOn) ==
  /\ pc = "loop"
  /\ Update(LedState, phaseOn)
  /\ UNCHANGED <<pc, settings, outcome, netifVars, linkVars>>

Next ==
  \/ Setup
  \/ ApStarts
  \/ LinkChanges
  \/ \E phaseOn \in BOOLEAN : ShowState(phaseOn)

Spec == Init /\ [][Next]_vars

\* setup() and loop() go on, and loop() sees both halves of the period.
FairSpec ==
  /\ Spec
  /\ WF_vars(Setup)
  /\ \A phaseOn \in BOOLEAN : SF_vars(ShowState(phaseOn))

-----------------------------------------------------------------------------
(* Properties.                                                             *)

\* A router that is up offers its clients a resolver, and a lease that needs no
\* renewal, but for what the driver itself has refused: the interface's start does
\* not undo the options, nor does the server's running keep them from being taken
\* (softap.cpp:58-70), and one that is refused does not cost the other.
ResolverOffered ==
  portalUp /\ dhcps = "started" =>
    /\ offersDns \/ "dns" \in refused
    /\ longLease \/ "lease" \in refused

\* Once the links stay as they are, the LED shows the colour that statusled.h:8-13
\* gives them again and again and, but for that, only darkness: a fault is not
\* taken for anything else and the cache of write() hides no change.
Means(s) ==
  \/ s = "Fault"        /\ softApFailed
  \/ s = "UpstreamDown" /\ ~softApFailed /\ ~uplinkReady
  \/ s = "NoClients"    /\ ~softApFailed /\ uplinkReady /\ radioStations = 0
  \/ s = "Connected"    /\ ~softApFailed /\ uplinkReady /\ radioStations > 0
LedTells ==
  \A s \in {"Fault", "UpstreamDown", "NoClients", "Connected"} :
    <>[](pc = "loop" /\ Means(s)) =>
      /\ []<>(led = Dimmed(Hue[s], ledBrightness))
      /\ <>[](led \in {Off, Dimmed(Hue[s], ledBrightness)})

\* A router whose LED is not as good as off shows no two states alike: below 3
\* the green of amber is lost, and amber is red (main.cpp:322, statusled.cpp:29, 42).
StatesTellApart ==
  brightness >= 3 =>
    \A s, t \in States : s # t => Scaled(Hue[s]) # Scaled(Hue[t])
===============================================================================
