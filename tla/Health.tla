-------------------------------- MODULE Health --------------------------------
(***************************************************************************)
(* Reachability probes and what they trigger: health.cpp, and the two      *)
(* recoveries in loop() of main.cpp.                                       *)
(*                                                                         *)
(* A round probes the gateway and the client last seen to get a lease.  A  *)
(* probe runs in a ping task of its own, which counts replies and sets     *)
(* finished; loopTask collects it.  Of the number of replies only "any"    *)
(* matters.                                                                *)
(*                                                                         *)
(* loopTask is cut where it reads what the event task writes.  update() is *)
(* one step: past its arguments it touches nothing of the event task, and  *)
(* of the ping tasks only finished, once for each probe.  Uplink events    *)
(* come in any order, as in Napt.                                          *)
(***************************************************************************)
EXTENDS ApClients

CONSTANTS
  Gateway,           \* a host, as the clients are
  Mute,              \* hosts that never answer a ping
  RoundInterval,     \* kRoundIntervalMs
  UplinkFailStreak,  \* kUplinkFailStreak
  ClientFailStreak,  \* kClientFailStreak
  MaxStreak          \* 255

Hosts == Clients \cup {Gateway}

ASSUME GatewayAssumption == Gateway \notin Clients \cup {NoClient}
ASSUME MuteAssumption == Mute \subseteq Hosts
ASSUME RoundAssumption == RoundInterval \in Nat
ASSUME StreakAssumption ==
  /\ MaxStreak \in Nat
  /\ UplinkFailStreak \in 1..MaxStreak
  /\ ClientFailStreak \in 1..MaxStreak

VARIABLES
  uplinkReady,
  up, down,         \* g_up and g_down
  roundAge,         \* time since g_lastRoundMs, as far as the test can tell
  loopAt,           \* next step of loopTask
  clientProbeable,  \* local of loop()
  pinging,          \* probes whose ping task still pings
  heard,            \* probes whose ping task has had a reply
  target,           \* the host each probe pings
  kicked,           \* stations the driver has been told to deauth
  silence           \* rounds really without a reply, in a row

probeVars == <<up, down, roundAge>>
pingVars  == <<pinging, heard, target>>
vars == <<apVars, uplinkReady, probeVars, loopAt, clientProbeable, pingVars, kicked, silence>>

Probe == [running : BOOLEAN, finished : BOOLEAN, replies : BOOLEAN,
          failStreak : 0..MaxStreak, everOk : BOOLEAN]
Directions == {"up", "down"}
LoopSteps  == {"poll", "probeable", "update", "recoverUplink", "recoverClient"}

TypeOK ==
  /\ ApTypeOK
  /\ uplinkReady \in BOOLEAN
  /\ up \in Probe /\ down \in Probe
  /\ roundAge \in 0..RoundInterval
  /\ loopAt \in LoopSteps
  /\ clientProbeable \in BOOLEAN
  /\ pinging \subseteq Directions
  /\ heard \subseteq Directions
  /\ target \in [Directions -> Hosts]
  /\ kicked \subseteq stations
  /\ silence \in [Directions -> 0..MaxStreak]

IdleProbe == [running |-> FALSE, finished |-> FALSE, replies |-> FALSE,
              failStreak |-> 0, everOk |-> FALSE]

Init ==
  /\ ApInit
  /\ uplinkReady = FALSE
  /\ up = IdleProbe /\ down = IdleProbe
  /\ roundAge = RoundInterval
  /\ loopAt = "poll"
  /\ clientProbeable = FALSE
  /\ pinging = {} /\ heard = {}
  /\ target = [d \in Directions |-> Gateway]
  /\ kicked = {}
  /\ silence = [d \in Directions |-> 0]

-----------------------------------------------------------------------------
(* The clients, time and the uplink.                                       *)

AllButClients == <<uplinkReady, probeVars, loopAt, clientProbeable, pingVars, silence>>

ClientMoves ==
  /\ \E c \in Clients : \/ (Join(c) \/ Lease(c)) /\ UNCHANGED kicked
                        \/ Leave(c) /\ kicked' = kicked \ {c}
  /\ UNCHANGED AllButClients

\* The driver carries out a deauthentication.
Kick ==
  /\ \E c \in kicked : Leave(c) /\ kicked' = kicked \ {c}
  /\ UNCHANGED AllButClients

Time ==
  /\ Tick
  /\ roundAge' = IF roundAge < RoundInterval THEN roundAge + 1 ELSE RoundInterval
  /\ UNCHANGED <<uplinkReady, up, down, loopAt, clientProbeable, pingVars, kicked, silence>>

ClientEvent ==
  /\ \E c \in Clients : OnApStaConnected(c) \/ OnApStaIpAssigned(c) \/ OnApStaDisconnected(c)
  /\ UNCHANGED <<uplinkReady, probeVars, loopAt, clientProbeable, pingVars, kicked, silence>>

\* STA_GOT_IP, or STA_DISCONNECTED and STA_LOST_IP.
UplinkEvent ==
  /\ uplinkReady' \in BOOLEAN
  /\ UNCHANGED <<apVars, probeVars, loopAt, clientProbeable, pingVars, kicked, silence>>

-----------------------------------------------------------------------------
(* The ping tasks.                                                         *)

\* A host that can answer a ping: whether it does is open.
Reachable(h) == h \notin Mute /\ IF h = Gateway THEN uplinkReady ELSE h \in stations

onPingSuccess(d) ==
  /\ d \in pinging
  /\ Reachable(target[d])
  /\ heard' = heard \cup {d}
  /\ up' = IF d = "up" THEN [up EXCEPT !.replies = TRUE] ELSE up
  /\ down' = IF d = "down" THEN [down EXCEPT !.replies = TRUE] ELSE down
  /\ UNCHANGED <<apVars, uplinkReady, roundAge, loopAt, clientProbeable, pinging, target,
                 kicked, silence>>

onPingEnd(d) ==
  /\ d \in pinging
  /\ pinging' = pinging \ {d}
  /\ up' = IF d = "up" THEN [up EXCEPT !.finished = TRUE] ELSE up
  /\ down' = IF d = "down" THEN [down EXCEPT !.finished = TRUE] ELSE down
  /\ UNCHANGED <<apVars, uplinkReady, roundAge, loopAt, clientProbeable, heard, target,
                 kicked, silence>>

-----------------------------------------------------------------------------
(* update().                                                               *)

\* A slip: the streak of a host that never answers runs on.
WorseUncapped(p) == [p EXCEPT !.failStreak = @ + 1]

Worse(p) == [p EXCEPT !.failStreak = IF @ < MaxStreak THEN @ + 1 ELSE @]

harvest(p) ==
  IF ~(p.running /\ p.finished) THEN p
  ELSE [IF p.replies THEN [p EXCEPT !.everOk = TRUE, !.failStreak = 0] ELSE Worse(p)
          EXCEPT !.running = FALSE]

\* A slip: the flag of the round before is not cleared.
startProbeStale(p, ok) == [p EXCEPT !.replies = FALSE, !.running = p.running \/ ok]

\* A slip: a session that could not be made is waited for.
startProbeNoCleanup(p, ok) == [p EXCEPT !.replies = FALSE, !.finished = FALSE, !.running = TRUE]

\* ok: the ping session could be made and started.
startProbe(p, ok) == [p EXCEPT !.replies = FALSE, !.finished = FALSE, !.running = ok]

\* What really became of the round that harvest() collects.
Silence(d, p) ==
  IF ~(p.running /\ p.finished) THEN silence[d]
  ELSE IF d \in pinging \cup heard THEN 0
  ELSE IF silence[d] < MaxStreak THEN silence[d] + 1 ELSE MaxStreak

RoundDue ==
  /\ uplinkReady
  /\ roundAge = RoundInterval
  /\ ~harvest(up).running /\ ~harvest(down).running

\* A round asks both directions, or only upstream while no client is there to
\* be asked.
Asked(client) == IF client = NoClient THEN {"up"} ELSE Directions

\* made: directions whose ping session can be made and started.  A gateway of
\* 0.0.0.0 comes to the same as a refused session.
StartRound(client, made) ==
  LET asked   == Asked(client)
      started == asked \cap made
  IN /\ RoundDue
     /\ up' = startProbe(harvest(up), "up" \in made)
     /\ down' = IF "down" \in asked THEN startProbe(harvest(down), "down" \in made)
                                    ELSE harvest(down)
     /\ roundAge' = 0
     /\ pinging' = pinging \cup started
     /\ heard' = heard \ asked
     /\ target' = [d \in Directions |-> IF d \notin started THEN target[d]
                                        ELSE IF d = "up" THEN Gateway ELSE client]
     /\ silence' = [silence EXCEPT !["up"] = Silence("up", up), !["down"] = Silence("down", down)]

NoRound ==
  /\ ~RoundDue
  /\ up' = IF uplinkReady THEN harvest(up) ELSE [harvest(up) EXCEPT !.failStreak = 0]
  /\ down' = harvest(down)
  /\ silence' = [silence EXCEPT !["up"] = IF uplinkReady THEN Silence("up", up) ELSE 0,
                                !["down"] = Silence("down", down)]
  /\ UNCHANGED <<roundAge, pingVars>>

-----------------------------------------------------------------------------
(* loop().                                                                 *)

LoopStep(from, to) == loopAt = from /\ loopAt' = to

Poll ==
  /\ LoopStep("poll", "probeable")
  /\ pollRadio
  /\ UNCHANGED <<uplinkReady, probeVars, clientProbeable, pingVars, kicked, silence>>

Probeable ==
  /\ LoopStep("probeable", "update")
  /\ clientProbeable' = (radioStations > 0 /\ leaseSeen)
  /\ UNCHANGED <<apVars, uplinkReady, probeVars, pingVars, kicked, silence>>

Updated == LoopStep("update", "recoverUplink") /\ UNCHANGED <<apVars, uplinkReady, clientProbeable, kicked>>

Client == IF clientProbeable THEN clientIp ELSE NoClient

UpdateStarts(made) == Updated /\ StartRound(Client, made)

Update == (\E made \in SUBSET Directions : UpdateStarts(made)) \/ (Updated /\ NoRound)

resetStreaks ==
  /\ up' = [up EXCEPT !.failStreak = 0]
  /\ down' = [down EXCEPT !.failStreak = 0]
  /\ silence' = [d \in Directions |-> 0]

\* What follows the disconnect is in module Uplink.
RecoverUplink ==
  /\ LoopStep("recoverUplink", "recoverClient")
  /\ uplinkReady /\ up.everOk /\ up.failStreak >= UplinkFailStreak
  /\ resetStreaks
  /\ uplinkReady' = FALSE
  /\ UNCHANGED <<apVars, roundAge, clientProbeable, pingVars, kicked>>

UplinkFine ==
  /\ LoopStep("recoverUplink", "recoverClient")
  /\ ~(uplinkReady /\ up.everOk /\ up.failStreak >= UplinkFailStreak)
  /\ UNCHANGED <<apVars, uplinkReady, probeVars, clientProbeable, pingVars, kicked, silence>>

RecoverClient ==
  /\ LoopStep("recoverClient", "poll")
  /\ clientProbeable /\ down.everOk /\ down.failStreak >= ClientFailStreak
  /\ resetStreaks
  /\ kicked' = stations
  /\ UNCHANGED <<apVars, uplinkReady, roundAge, clientProbeable, pingVars>>

ClientFine ==
  /\ LoopStep("recoverClient", "poll")
  /\ ~(clientProbeable /\ down.everOk /\ down.failStreak >= ClientFailStreak)
  /\ UNCHANGED <<apVars, uplinkReady, probeVars, clientProbeable, pingVars, kicked, silence>>

Loop == Poll \/ Probeable \/ Update \/ RecoverUplink \/ UplinkFine \/ RecoverClient \/ ClientFine

Next ==
  \/ ClientMoves \/ Kick \/ Time
  \/ ClientEvent \/ UplinkEvent
  \/ \E d \in Directions : onPingSuccess(d) \/ onPingEnd(d)
  \/ Loop

Spec == Init /\ [][Next]_vars

\* The tasks run, time passes, a ping session ends and a deauthentication is
\* carried out even if the queue of its event is often full.  No host need
\* answer, no event need come and no ping session need be made.
FairSpec ==
  /\ Spec
  /\ WF_vars(Loop) /\ WF_vars(Time) /\ WF_vars(ClientEvent) /\ SF_vars(Kick)
  /\ \A d \in Directions : WF_vars(onPingEnd(d))

-----------------------------------------------------------------------------
(* Properties.                                                             *)

\* A recovery acts on rounds that really brought no reply, as many as it
\* asks for, in a row, and none of them counted for an earlier recovery or
\* before the uplink was last seen down (main.cpp:43-46, health.h:47-49).
RecoveryNeedsSilence ==
  [][/\ RecoverUplink => silence["up"] >= UplinkFailStreak
     /\ RecoverClient => silence["down"] >= ClientFailStreak]_vars

UplinkWedged == uplinkReady /\ up.everOk /\ "up" \notin heard

ClientWedged(c) ==
  /\ uplinkReady /\ down.everOk /\ "down" \notin heard
  /\ stations = {c} /\ clientIp = c /\ leaseSeen

\* In the end no round that asks direction d is refused its ping session.
SessionsMade(d) ==
  <>[][\A made \in SUBSET Directions : UpdateStarts(made) /\ d \in Asked(Client) => d \in made]_vars

\* No mute is left alone for ever: neither a gateway that used to answer while
\* the uplink stays ready, it is reconnected (main.cpp:363-366), with clients or
\* without, nor a client that holds its lease, once clients have answered and as
\* long as the uplink is up, it is deauthed (main.cpp:376-379).  Each takes ping
\* sessions of its own direction only: those of the other one, and the recovery
\* that clears both streaks, do not keep it from its threshold (health.cpp:86-98).
WedgesEnd ==
  /\ SessionsMade("up") => ~<>[]UplinkWedged
  /\ SessionsMade("down") => \A c \in Clients : ~<>[]ClientWedged(c)

\* main.cpp:376-379: "gated on it having answered before, so a client that
\* never replies to ICMP is never deauthed on suspicion."
MuteClientSpared == [][RecoverClient => target["down"] \notin Mute]_vars
=============================================================================
