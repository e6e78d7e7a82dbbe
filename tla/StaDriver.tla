------------------------------ MODULE StaDriver ------------------------------
(***************************************************************************)
(* The station side of esp_wifi and of the Arduino network layer, modelled *)
(* from how src/main.cpp and src/net/uplink.cpp use them: the two calls    *)
(* the firmware makes (WiFi.disconnect, WiFi.begin), and the events the    *)
(* driver raises.  Events go through one FIFO and are handled later, by    *)
(* the event task, so the firmware always learns about the past.           *)
(*                                                                         *)
(* main.cpp:20-25 fixes what an attempt looks like from the outside: one   *)
(* WiFi.begin makes the driver work through the access points (BSSIDs)     *)
(* behind the SSID, raising a disconnect event for each one it fails on,   *)
(* "while remaining in the connecting state throughout"; main.cpp:466-469  *)
(* adds that an early failure may raise no event at all.                   *)
(***************************************************************************)
EXTENDS Integers, Sequences

CONSTANTS
  MaxBssids,  \* access points behind the SSID the driver may fail on per dial
  QueueLen    \* bound of the event queue; whoever posts waits for room

ASSUME MaxBssidsAssumption == MaxBssids \in Nat
ASSUME QueueLenAssumption  == QueueLen \in Nat \ {0}

VARIABLES
  sta,           \* what the radio is really doing
  bssidsFailed,  \* candidates the driver has failed on since WiFi.begin
  ipLostArmed,   \* lwIP's IP-lost timer is running
  events         \* STA events posted and not yet handled, oldest first

driverVars == <<sta, bssidsFailed, ipLostArmed, events>>

StaStates == {"idle", "connecting", "associated", "up"}

Associated   == "STA_CONNECTED"
GotIp        == "STA_GOT_IP"
Disconnected == "STA_DISCONNECTED"
LostIp       == "STA_LOST_IP"
StaEvents    == {Associated, GotIp, Disconnected, LostIp}

DriverTypeOK ==
  /\ sta \in StaStates
  /\ bssidsFailed \in 0..MaxBssids
  /\ ipLostArmed \in BOOLEAN
  /\ events \in Seq(StaEvents)
  /\ Len(events) <= QueueLen

DriverInit ==
  /\ sta = "idle"
  /\ bssidsFailed = 0
  /\ ipLostArmed = FALSE
  /\ events = <<>>

Room == Len(events) < QueueLen

Post(e) == Room /\ events' = Append(events, e)

-----------------------------------------------------------------------------
(* Calls made by the firmware.                                             *)

\* The disconnect event an abort of this much work raises: none if idle.
AbortEvents == IF sta = "idle" THEN <<>> ELSE <<Disconnected>>

\* WiFi.disconnect(false, false, 0): asynchronous, so the driver is idle at
\* once and the event that says so comes through the queue.
WiFiDisconnect ==
  /\ sta = "idle" \/ Room
  /\ sta' = "idle"
  /\ events' = events \o AbortEvents
  /\ ipLostArmed' = (ipLostArmed \/ sta = "up")
  /\ UNCHANGED bssidsFailed

\* WiFi.disconnect followed by WiFi.begin: the abort makes the driver accept
\* the new configuration, so the dial is never refused.
WiFiRedial ==
  /\ sta = "idle" \/ Room
  /\ sta' = "connecting"
  /\ bssidsFailed' = 0
  /\ events' = events \o AbortEvents
  /\ ipLostArmed' = (ipLostArmed \/ sta = "up")

-----------------------------------------------------------------------------
(* What the driver does on its own.                                        *)

Associate ==
  /\ sta = "connecting"
  /\ sta' = "associated"
  /\ Post(Associated)
  /\ UNCHANGED <<bssidsFailed, ipLostArmed>>

AcquireIp ==
  /\ sta = "associated"
  /\ sta' = "up"
  /\ ipLostArmed' = FALSE
  /\ Post(GotIp)
  /\ UNCHANGED bssidsFailed

\* One candidate refuses us or times out; the driver moves to the next.
BssidFails ==
  /\ sta \in {"connecting", "associated"}
  /\ bssidsFailed < MaxBssids
  /\ sta' = "connecting"
  /\ bssidsFailed' = bssidsFailed + 1
  /\ Post(Disconnected)
  /\ UNCHANGED ipLostArmed

\* The last candidate fails: the driver raises its event and goes quiet.
OutOfCandidates ==
  /\ sta \in {"connecting", "associated"}
  /\ sta' = "idle"
  /\ Post(Disconnected)
  /\ UNCHANGED <<bssidsFailed, ipLostArmed>>

\* An early failure, such as no matching SSID, that raises no event.
SilentFailure ==
  /\ sta = "connecting"
  /\ sta' = "idle"
  /\ UNCHANGED <<bssidsFailed, ipLostArmed, events>>

LinkDrops ==
  /\ sta = "up"
  /\ sta' = "idle"
  /\ ipLostArmed' = TRUE
  /\ Post(Disconnected)
  /\ UNCHANGED bssidsFailed

\* The uplink's DHCP lease goes away while the association stays.
LeaseExpires ==
  /\ sta = "up"
  /\ sta' = "associated"
  /\ Post(LostIp)
  /\ UNCHANGED <<bssidsFailed, ipLostArmed>>

\* The IP-lost timer started by an earlier drop fires while there is no IP,
\* whatever the driver is doing by then.
IpLostTimerFires ==
  /\ ipLostArmed
  /\ sta # "up"
  /\ ipLostArmed' = FALSE
  /\ Post(LostIp)
  /\ UNCHANGED <<sta, bssidsFailed>>

DriverNext ==
  \/ Associate
  \/ AcquireIp
  \/ BssidFails
  \/ OutOfCandidates
  \/ SilentFailure
  \/ LinkDrops
  \/ LeaseExpires
  \/ IpLostTimerFires
=============================================================================
