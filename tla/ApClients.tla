------------------------------ MODULE ApClients ------------------------------
(***************************************************************************)
(* The downstream side of src/main.cpp: the clients on the SoftAP, the     *)
(* events they raise, what the event task keeps of them (leaseSeen,        *)
(* lastApAssocMs, clientIp) and the station count loopTask samples.        *)
(*                                                                         *)
(* An address is the client it was leased to.  millis() is a counter that  *)
(* wraps, because 0 is a value of it and also the sentinel of              *)
(* lastApAssocMs.                                                          *)
(***************************************************************************)
EXTENDS Integers, Sequences, FiniteSets

CONSTANTS
  Clients,
  NoClient,     \* 0.0.0.0
  W,            \* values of millis()
  RadioPoll,    \* kRadioPollMs
  ApQueueLen    \* bound of the event queue; whoever posts waits for room

ASSUME ClientsAssumption == NoClient \notin Clients /\ IsFiniteSet(Clients)
ASSUME ClockAssumption == W \in Nat \ {0} /\ RadioPoll \in Nat
ASSUME ApQueueLenAssumption == ApQueueLen \in Nat \ {0}

VARIABLES
  now,            \* millis()
  stations,       \* clients really associated
  apEvents,       \* AP events posted and not yet handled, oldest first
  lastApAssocMs,
  leaseSeen,
  clientIp,
  radioStations,
  radioAge        \* millis() - lastRadioPollMs, as far as the test can tell

apVars == <<now, stations, apEvents, lastApAssocMs, leaseSeen, clientIp,
            radioStations, radioAge>>

ApEvent == [type : {"connected", "ipAssigned", "disconnected"}, client : Clients]

ApTypeOK ==
  /\ now \in 0..W-1
  /\ stations \subseteq Clients
  /\ apEvents \in Seq(ApEvent)
  /\ Len(apEvents) <= ApQueueLen
  /\ lastApAssocMs \in 0..W-1
  /\ leaseSeen \in BOOLEAN
  /\ clientIp \in Clients \cup {NoClient}
  /\ radioStations \in 0..Cardinality(Clients)
  /\ radioAge \in 0..RadioPoll

ApInit ==
  /\ now \in 0..W-1
  /\ stations = {}
  /\ apEvents = <<>>
  /\ lastApAssocMs = 0
  /\ leaseSeen = FALSE
  /\ clientIp = NoClient
  /\ radioStations = 0
  /\ radioAge = RadioPoll

\* Unsigned subtraction.
Elapsed(later, earlier) == (later - earlier) % W

-----------------------------------------------------------------------------
(* The clients and the driver.                                             *)

Post(type, c) ==
  /\ Len(apEvents) < ApQueueLen
  /\ apEvents' = Append(apEvents, [type |-> type, client |-> c])
  /\ UNCHANGED <<now, lastApAssocMs, leaseSeen, clientIp, radioStations, radioAge>>

Join(c) ==
  /\ c \notin stations
  /\ stations' = stations \cup {c}
  /\ Post("connected", c)

Leave(c) ==
  /\ c \in stations
  /\ stations' = stations \ {c}
  /\ Post("disconnected", c)

\* The DHCP server completes an exchange: a first lease, or a renewal.
Lease(c) ==
  /\ c \in stations
  /\ Post("ipAssigned", c)
  /\ UNCHANGED stations

Tick ==
  /\ now' = (now + 1) % W
  /\ radioAge' = IF radioAge < RadioPoll THEN radioAge + 1 ELSE radioAge
  /\ UNCHANGED <<stations, apEvents, lastApAssocMs, leaseSeen, clientIp, radioStations>>

-----------------------------------------------------------------------------
(* The event task.                                                         *)

NextApEvent(type, c) ==
  /\ apEvents # <<>>
  /\ Head(apEvents) = [type |-> type, client |-> c]
  /\ apEvents' = Tail(apEvents)
  /\ UNCHANGED <<now, stations, radioStations, radioAge>>

\* A slip: the lease of an earlier association still counts.
OnApStaConnectedKeepsLease(c) ==
  /\ NextApEvent("connected", c)
  /\ lastApAssocMs' = now
  /\ UNCHANGED <<leaseSeen, clientIp>>

\* A slip: stepping off the sentinel runs over the wrap.
OnApStaConnectedNudged(c) ==
  /\ NextApEvent("connected", c)
  /\ lastApAssocMs' = now + 1
  /\ leaseSeen' = FALSE
  /\ UNCHANGED clientIp

OnApStaConnected(c) ==
  /\ NextApEvent("connected", c)
  /\ lastApAssocMs' = now
  /\ leaseSeen' = FALSE
  /\ UNCHANGED clientIp

OnApStaIpAssigned(c) ==
  /\ NextApEvent("ipAssigned", c)
  /\ clientIp' = c
  /\ leaseSeen' = TRUE
  /\ UNCHANGED lastApAssocMs

\* The handler asks the driver who is there now, not who was when the event
\* was raised.
OnApStaDisconnected(c) ==
  /\ NextApEvent("disconnected", c)
  /\ IF stations = {}
       THEN /\ leaseSeen' = FALSE
            /\ lastApAssocMs' = 0
            /\ clientIp' = NoClient
       ELSE UNCHANGED <<leaseSeen, lastApAssocMs, clientIp>>

-----------------------------------------------------------------------------
(* loopTask.                                                               *)

pollRadio ==
  /\ IF radioAge < RadioPoll
       THEN UNCHANGED <<radioStations, radioAge>>
       ELSE /\ radioStations' = Cardinality(stations)
            /\ radioAge' = 0
  /\ UNCHANGED <<now, stations, apEvents, lastApAssocMs, leaseSeen, clientIp>>
=============================================================================
