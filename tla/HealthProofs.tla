----------------------------- MODULE HealthProofs -----------------------------
(***************************************************************************)
(* Proofs about Health, for any clients, thresholds and timing: a recovery *)
(* acts only on rounds that really stayed silent.                          *)
(***************************************************************************)
EXTENDS Health, FiniteSetTheorems, TLAPS

-----------------------------------------------------------------------------
(* The types of ApClients, action by action: as in NaptProofs, which cannot  *)
(* be extended beside Health.                                              *)

LEMMA ApInitTypes == ApInit => ApTypeOK
<1>1. <<>> \in Seq(ApEvent) /\ Len(<<>>) = 0
  OBVIOUS
<1>2. Cardinality(Clients) \in Nat
  BY ClientsAssumption, FS_CardinalityType
<1>3. /\ 0 \in 0..Cardinality(Clients) /\ 0 <= ApQueueLen
      /\ 0 \in 0..W-1 /\ RadioPoll \in 0..RadioPoll
  BY <1>2, ClockAssumption, ApQueueLenAssumption
<1> QED BY <1>1, <1>3 DEF ApInit, ApTypeOK

LEMMA InClock ==
  ASSUME NEW n \in Int
  PROVE  n % W \in 0..W-1
BY ClockAssumption

LEMMA PostTypes ==
  ASSUME ApTypeOK, NEW c \in Clients,
         NEW type \in {"connected", "ipAssigned", "disconnected"},
         Post(type, c), stations' \subseteq Clients
  PROVE  ApTypeOK'
<1>1. [type |-> type, client |-> c] \in ApEvent
  BY DEF ApEvent
<1>2. apEvents' \in Seq(ApEvent) /\ Len(apEvents') <= ApQueueLen
  BY <1>1, ApQueueLenAssumption DEF ApTypeOK, Post
<1> QED BY <1>2 DEF ApTypeOK, Post

LEMMA TickTypes == ApTypeOK /\ Tick => ApTypeOK'
<1> SUFFICES ASSUME ApTypeOK, Tick PROVE ApTypeOK'
  OBVIOUS
<1>1. now' \in 0..W-1
  <2>1. now + 1 \in Int
    BY DEF ApTypeOK
  <2> QED BY <2>1, InClock DEF Tick
<1>2. radioAge' \in 0..RadioPoll
  BY ClockAssumption DEF ApTypeOK, Tick
<1> QED BY <1>1, <1>2 DEF ApTypeOK, Tick

LEMMA PollTypes == ApTypeOK /\ pollRadio => ApTypeOK'
<1> SUFFICES ASSUME ApTypeOK, pollRadio PROVE ApTypeOK'
  OBVIOUS
<1>1. /\ Cardinality(stations) \in Nat /\ Cardinality(Clients) \in Nat
      /\ Cardinality(stations) <= Cardinality(Clients)
  BY ClientsAssumption, FS_Subset, FS_CardinalityType DEF ApTypeOK
<1>2. radioStations' \in 0..Cardinality(Clients) /\ radioAge' \in 0..RadioPoll
  BY <1>1, ClockAssumption DEF ApTypeOK, pollRadio
<1> QED BY <1>2 DEF ApTypeOK, pollRadio

LEMMA HandlerTypes ==
  ASSUME ApTypeOK, NEW c \in Clients,
         OnApStaConnected(c) \/ OnApStaIpAssigned(c) \/ OnApStaDisconnected(c)
  PROVE  ApTypeOK'
<1>1. PICK type : NextApEvent(type, c)
  BY DEF OnApStaConnected, OnApStaIpAssigned, OnApStaDisconnected
<1>2. apEvents' \in Seq(ApEvent) /\ Len(apEvents') <= ApQueueLen
  BY <1>1, ApQueueLenAssumption DEF ApTypeOK, NextApEvent
<1>3. UNCHANGED <<now, stations, radioStations, radioAge>>
  BY <1>1 DEF NextApEvent
<1>4. /\ lastApAssocMs' \in 0..W-1 /\ leaseSeen' \in BOOLEAN
      /\ clientIp' \in Clients \cup {NoClient}
  <2> USE DEF ApTypeOK
  <2>1. 0 \in 0..W-1
    BY ClockAssumption
  <2>2. CASE OnApStaConnected(c)
    BY <2>2 DEF OnApStaConnected
  <2>3. CASE OnApStaIpAssigned(c)
    BY <2>3 DEF OnApStaIpAssigned
  <2>4. CASE OnApStaDisconnected(c) /\ stations = {}
    BY <2>1, <2>4 DEF OnApStaDisconnected
  <2>5. CASE OnApStaDisconnected(c) /\ stations # {}
    BY <2>5 DEF OnApStaDisconnected
  <2> QED BY <2>2, <2>3, <2>4, <2>5
<1> QED BY <1>2, <1>3, <1>4 DEF ApTypeOK

-----------------------------------------------------------------------------
(* The inductive invariant.                                                *)

\* What ties a Probe to its ping task.  While the task pings, nobody takes the
\* probe for finished; what the task has heard, the probe counts; and the
\* streak is no longer than the silence.
Linked(d, p) ==
  /\ d \in pinging => p.running /\ ~p.finished
  /\ p.running /\ d \in heard => p.replies
  /\ p.failStreak <= silence[d]

IInv == TypeOK /\ Linked("up", up) /\ Linked("down", down)

-----------------------------------------------------------------------------
(* harvest() and startProbe().                                             *)

LEMMA WorseCounts ==
  ASSUME NEW p \in Probe
  PROVE  /\ Worse(p) \in Probe
         /\ Worse(p).failStreak = IF p.failStreak < MaxStreak THEN p.failStreak + 1
                                                              ELSE p.failStreak
BY StreakAssumption DEF Worse, Probe

LEMMA HarvestCounts ==
  ASSUME NEW d \in Directions, NEW p \in Probe,
         silence[d] \in 0..MaxStreak, Linked(d, p)
  PROVE  /\ harvest(p) \in Probe
         /\ harvest(p).running => harvest(p) = p /\ ~p.finished
         /\ ~harvest(p).running => d \notin pinging
         /\ Silence(d, p) \in 0..MaxStreak
         /\ harvest(p).failStreak <= Silence(d, p)
<1>1. CASE ~(p.running /\ p.finished)
  BY <1>1 DEF harvest, Silence, Linked
<1>2. CASE p.running /\ p.finished /\ p.replies
  <2>1. d \notin pinging
    BY <1>2 DEF Linked
  <2>2. /\ harvest(p) \in Probe /\ ~harvest(p).running
        /\ harvest(p).failStreak = 0
    <3> DEFINE better == [p EXCEPT !.everOk = TRUE, !.failStreak = 0]
    <3>1. better \in Probe /\ better.failStreak = 0
      <4>1. 0 \in 0..MaxStreak
        BY StreakAssumption
      <4> QED BY <4>1 DEF Probe
    <3>2. harvest(p) = [better EXCEPT !.running = FALSE]
      BY <1>2 DEF harvest
    <3> HIDE DEF better
    <3> QED BY <3>1, <3>2 DEF Probe
  <2>3. Silence(d, p) \in 0..MaxStreak
    BY <1>2, StreakAssumption DEF Silence
  <2> QED BY <2>1, <2>2, <2>3
<1>3. CASE p.running /\ p.finished /\ ~p.replies
  <2>1. d \notin pinging \cup heard
    BY <1>3 DEF Linked
  <2>2. harvest(p) = [Worse(p) EXCEPT !.running = FALSE]
    BY <1>3 DEF harvest
  <2>3. Silence(d, p) = IF silence[d] < MaxStreak THEN silence[d] + 1 ELSE MaxStreak
    BY <1>3, <2>1 DEF Silence
  <2>4. harvest(p) \in Probe /\ ~harvest(p).running /\ harvest(p).failStreak = Worse(p).failStreak
    BY <2>2, WorseCounts DEF Probe
  <2>5. p.failStreak <= silence[d] /\ p.failStreak \in 0..MaxStreak
    BY DEF Linked, Probe
  <2>6. harvest(p).failStreak <= Silence(d, p) /\ Silence(d, p) \in 0..MaxStreak
    BY <2>3, <2>4, <2>5, WorseCounts, StreakAssumption
  <2> QED BY <2>1, <2>4, <2>6
<1> QED BY <1>1, <1>2, <1>3

LEMMA StartProbeClean ==
  ASSUME NEW p \in Probe, NEW ok \in BOOLEAN
  PROVE  /\ startProbe(p, ok) \in Probe
         /\ startProbe(p, ok).running = ok
         /\ ~startProbe(p, ok).finished
         /\ startProbe(p, ok).failStreak = p.failStreak
BY DEF startProbe, Probe

-----------------------------------------------------------------------------
(* The invariant.                                                          *)

LEMMA InitHolds == Init => IInv
<1> SUFFICES ASSUME Init PROVE IInv
  OBVIOUS
<1>1. ApTypeOK
  BY ApInitTypes DEF Init
<1>2. 0 \in 0..MaxStreak /\ RoundInterval \in 0..RoundInterval
  BY StreakAssumption, RoundAssumption
<1>3. IdleProbe \in Probe
  BY <1>2 DEF IdleProbe, Probe
<1>4. silence \in [Directions -> 0..MaxStreak] /\ target \in [Directions -> Hosts]
  BY <1>2 DEF Init, Hosts
<1>5. TypeOK
  BY <1>1, <1>2, <1>3, <1>4 DEF Init, TypeOK, LoopSteps
<1>6. Linked("up", up) /\ Linked("down", down)
  BY DEF Init, Linked, IdleProbe, Directions
<1> QED BY <1>5, <1>6 DEF IInv

\* The clients, time and the events touch neither a probe nor its ping task.
LEMMA SurroundingsHold ==
  IInv /\ (ClientMoves \/ Kick \/ Time \/ ClientEvent \/ UplinkEvent) => IInv'
<1> SUFFICES ASSUME IInv, ClientMoves \/ Kick \/ Time \/ ClientEvent \/ UplinkEvent
             PROVE  IInv'
  OBVIOUS
<1>1. ApTypeOK' /\ kicked' \subseteq stations'
  <2>1. CASE ClientMoves \/ Kick
    <3>1. PICK c \in Clients : \/ (Join(c) \/ Lease(c)) /\ UNCHANGED kicked
                               \/ Leave(c) /\ kicked' = kicked \ {c}
      <4>1. CASE ClientMoves
        BY <4>1 DEF ClientMoves
      <4>2. CASE Kick
        <5>1. PICK c \in kicked : Leave(c) /\ kicked' = kicked \ {c}
          BY <4>2 DEF Kick
        <5>2. c \in Clients
          BY DEF IInv, TypeOK, ApTypeOK
        <5> QED BY <5>1, <5>2
      <4> QED BY <2>1, <4>1, <4>2
    <3>2. stations' \subseteq Clients /\ kicked' \subseteq stations'
      BY <3>1 DEF IInv, TypeOK, ApTypeOK, Join, Leave, Lease
    <3>3. PICK type \in {"connected", "ipAssigned", "disconnected"} : Post(type, c)
      BY <3>1 DEF Join, Leave, Lease
    <3> QED BY <3>2, <3>3, PostTypes DEF IInv, TypeOK
  <2>2. CASE Time
    BY <2>2, TickTypes DEF Time, Tick, IInv, TypeOK
  <2>3. CASE ClientEvent
    <3>1. PICK c \in Clients : OnApStaConnected(c) \/ OnApStaIpAssigned(c) \/ OnApStaDisconnected(c)
      BY <2>3 DEF ClientEvent
    <3>2. UNCHANGED stations
      BY <3>1 DEF OnApStaConnected, OnApStaIpAssigned, OnApStaDisconnected, NextApEvent
    <3> QED BY <2>3, <3>1, <3>2, HandlerTypes DEF ClientEvent, IInv, TypeOK
  <2>4. CASE UplinkEvent
    BY <2>4 DEF UplinkEvent, apVars, ApTypeOK, IInv, TypeOK
  <2> QED BY <2>1, <2>2, <2>3, <2>4
<1>2. UNCHANGED <<up, down, loopAt, clientProbeable, pingVars, silence>>
  BY DEF ClientMoves, Kick, Time, ClientEvent, UplinkEvent, AllButClients, probeVars
<1>3. uplinkReady' \in BOOLEAN
  BY DEF ClientMoves, Kick, Time, ClientEvent, UplinkEvent, AllButClients, IInv, TypeOK
<1>4. roundAge' \in 0..RoundInterval
  <2>1. CASE Time
    BY <2>1, RoundAssumption DEF Time, IInv, TypeOK
  <2>2. CASE ~Time
    BY <2>2 DEF ClientMoves, Kick, ClientEvent, UplinkEvent, AllButClients, probeVars, IInv, TypeOK
  <2> QED BY <2>1, <2>2
<1>5. TypeOK'
  BY <1>1, <1>2, <1>3, <1>4 DEF IInv, TypeOK, pingVars
<1>6. Linked("up", up)' /\ Linked("down", down)'
  BY <1>2 DEF IInv, Linked, pingVars
<1> QED BY <1>5, <1>6 DEF IInv

LEMMA PingHolds ==
  ASSUME IInv, NEW d \in Directions, onPingSuccess(d) \/ onPingEnd(d)
  PROVE  IInv'
<1>1. ApTypeOK'
  BY DEF onPingSuccess, onPingEnd, apVars, ApTypeOK, IInv, TypeOK
<1>2. CASE onPingSuccess(d)
  <2>1. up' \in Probe /\ down' \in Probe
    BY <1>2 DEF onPingSuccess, IInv, TypeOK, Probe
  <2>2. /\ up'.running = up.running /\ up'.finished = up.finished
        /\ up'.failStreak = up.failStreak
        /\ d = "up" => up'.replies
        /\ d # "up" => up' = up
        /\ down'.running = down.running /\ down'.finished = down.finished
        /\ down'.failStreak = down.failStreak
        /\ d = "down" => down'.replies
        /\ d # "down" => down' = down
    BY <1>2 DEF onPingSuccess, IInv, TypeOK, Probe
  <2>3. /\ heard' = heard \cup {d} /\ pinging' = pinging /\ silence' = silence
        /\ target' = target /\ kicked' = kicked /\ loopAt' = loopAt /\ roundAge' = roundAge
        /\ uplinkReady' = uplinkReady /\ clientProbeable' = clientProbeable
        /\ stations' = stations
    BY <1>2 DEF onPingSuccess, apVars
  <2>4. TypeOK'
    BY <1>1, <2>1, <2>3 DEF IInv, TypeOK
  <2>5. Linked("up", up)' /\ Linked("down", down)'
    BY <2>2, <2>3 DEF IInv, Linked
  <2> QED BY <2>4, <2>5 DEF IInv
<1>3. CASE onPingEnd(d)
  <2>1. up' \in Probe /\ down' \in Probe
    BY <1>3 DEF onPingEnd, IInv, TypeOK, Probe
  <2>2. /\ up'.running = up.running /\ up'.replies = up.replies
        /\ up'.failStreak = up.failStreak
        /\ d # "up" => up' = up
        /\ down'.running = down.running /\ down'.replies = down.replies
        /\ down'.failStreak = down.failStreak
        /\ d # "down" => down' = down
    BY <1>3 DEF onPingEnd, IInv, TypeOK, Probe
  <2>3. /\ heard' = heard /\ pinging' = pinging \ {d} /\ silence' = silence
        /\ target' = target /\ kicked' = kicked /\ loopAt' = loopAt /\ roundAge' = roundAge
        /\ uplinkReady' = uplinkReady /\ clientProbeable' = clientProbeable
        /\ stations' = stations
    BY <1>3 DEF onPingEnd, apVars
  <2>4. TypeOK'
    BY <1>1, <2>1, <2>3 DEF IInv, TypeOK
  <2>5. Linked("up", up)' /\ Linked("down", down)'
    BY <2>2, <2>3 DEF IInv, Linked
  <2> QED BY <2>4, <2>5 DEF IInv
<1> QED BY <1>2, <1>3

LEMMA UpdateHolds == IInv /\ Update => IInv'
<1> SUFFICES ASSUME IInv, Update PROVE IInv'
  OBVIOUS
<1>1. Updated
  BY DEF Update, UpdateStarts
<1>2. ApTypeOK'
  BY <1>1 DEF Updated, apVars, ApTypeOK, IInv, TypeOK
<1>3. /\ loopAt' \in LoopSteps /\ uplinkReady' = uplinkReady
      /\ clientProbeable' = clientProbeable /\ kicked' = kicked /\ stations' = stations
  BY <1>1 DEF Updated, LoopStep, LoopSteps, apVars
<1>4. /\ up \in Probe /\ down \in Probe
      /\ "up" \in Directions /\ "down" \in Directions
      /\ silence["up"] \in 0..MaxStreak /\ silence["down"] \in 0..MaxStreak
      /\ silence \in [Directions -> 0..MaxStreak]
      /\ Linked("up", up) /\ Linked("down", down)
  BY DEF IInv, TypeOK, Directions
<1>5. /\ harvest(up) \in Probe
      /\ harvest(up).running => harvest(up) = up /\ ~up.finished
      /\ ~harvest(up).running => "up" \notin pinging
      /\ Silence("up", up) \in 0..MaxStreak
      /\ harvest(up).failStreak <= Silence("up", up)
  BY <1>4, HarvestCounts
<1>6. /\ harvest(down) \in Probe
      /\ harvest(down).running => harvest(down) = down /\ ~down.finished
      /\ ~harvest(down).running => "down" \notin pinging
      /\ Silence("down", down) \in 0..MaxStreak
      /\ harvest(down).failStreak <= Silence("down", down)
  BY <1>4, HarvestCounts
<1>7. CASE \E made \in SUBSET Directions : UpdateStarts(made)
  <2> DEFINE client == Client
             asked  == Asked(client)
  <2>1. PICK made \in SUBSET Directions : StartRound(client, made)
    BY <1>7 DEF UpdateStarts
  <2> DEFINE started == asked \cap made
  <2>2. ~harvest(up).running /\ ~harvest(down).running
    BY <2>1 DEF StartRound, RoundDue
  <2>3. /\ silence' = [silence EXCEPT !["up"] = Silence("up", up), !["down"] = Silence("down", down)]
        /\ pinging' = pinging \cup started
        /\ heard' = heard \ asked
        /\ roundAge' = 0
        /\ target' = [d \in Directions |-> IF d \notin started THEN target[d]
                                          ELSE IF d = "up" THEN Gateway ELSE client]
        /\ up' = startProbe(harvest(up), "up" \in made)
        /\ down' = IF "down" \in asked THEN startProbe(harvest(down), "down" \in made)
                                       ELSE harvest(down)
    BY <2>1 DEF StartRound
  <2>4. /\ silence' \in [Directions -> 0..MaxStreak]
        /\ silence'["up"] = Silence("up", up) /\ silence'["down"] = Silence("down", down)
    BY <1>4, <1>5, <1>6, <2>3 DEF Directions
  <2>5. /\ up' \in Probe /\ ~up'.finished
        /\ up'.running = ("up" \in made)
        /\ up'.failStreak = harvest(up).failStreak
    <3>1. ("up" \in made) \in BOOLEAN
      OBVIOUS
    <3> DEFINE ok == "up" \in made
    <3> HIDE DEF ok
    <3>2. /\ startProbe(harvest(up), ok) \in Probe
          /\ startProbe(harvest(up), ok).running = ok
          /\ ~startProbe(harvest(up), ok).finished
          /\ startProbe(harvest(up), ok).failStreak = harvest(up).failStreak
      <4>1. ok \in BOOLEAN
        BY <3>1 DEF ok
      <4> QED BY <4>1, <1>5, StartProbeClean
    <3>3. up' = startProbe(harvest(up), ok)
      BY <2>3 DEF ok
    <3>4. up'.running = ok
      BY <3>2, <3>3
    <3>5. up'.running = ("up" \in made)
      BY <3>4, Zenon DEF ok
    <3> QED BY <3>2, <3>3, <3>5
  <2>6. /\ down' \in Probe
        /\ down'.failStreak = harvest(down).failStreak
        /\ "down" \in asked => ~down'.finished /\ down'.running = ("down" \in made)
        /\ "down" \notin asked => ~down'.running
    <3>1. CASE "down" \in asked
      <4>1. ("down" \in made) \in BOOLEAN
        OBVIOUS
      <4> DEFINE ok == "down" \in made
      <4> HIDE DEF ok
      <4>2. /\ startProbe(harvest(down), ok) \in Probe
            /\ startProbe(harvest(down), ok).running = ok
            /\ ~startProbe(harvest(down), ok).finished
            /\ startProbe(harvest(down), ok).failStreak = harvest(down).failStreak
        <5>1. ok \in BOOLEAN
          BY <4>1 DEF ok
        <5> QED BY <5>1, <1>6, StartProbeClean
      <4>3. down' = startProbe(harvest(down), ok)
        BY <3>1, <2>3 DEF ok
      <4>4. down'.running = ok
        BY <4>2, <4>3
      <4>5. down'.running = ("down" \in made)
        BY <4>4, Zenon DEF ok
      <4> QED BY <3>1, <4>2, <4>3, <4>5
    <3>2. CASE "down" \notin asked
      BY <3>2, <1>6, <2>2, <2>3
    <3> QED BY <3>1, <3>2
  <2>7. Linked("up", up)'
    <3>0. "up" \in asked
      BY DEF Asked, Directions
    <3>1. "up" \in asked /\ "up" \notin heard' /\ ("up" \in pinging' => "up" \in made)
      BY <1>5, <2>2, <2>3, <3>0
    <3>2. up'.failStreak <= silence'["up"]
      BY <1>5, <2>4, <2>5
    <3> QED BY <2>5, <3>1, <3>2 DEF Linked
  <2>8. Linked("down", down)'
    <3>1. "down" \in pinging' => "down" \in asked /\ "down" \in made
      BY <1>6, <2>2, <2>3
    <3>2. "down" \in heard' => "down" \notin asked
      BY <2>3
    <3>3. down'.failStreak <= silence'["down"]
      BY <1>6, <2>4, <2>6
    <3> QED BY <2>6, <3>1, <3>2, <3>3 DEF Linked
  <2>9. target' \in [Directions -> Hosts]
    <3>1. "down" \in started => client \in Hosts
      BY DEF IInv, TypeOK, ApTypeOK, Hosts, Asked, Client
    <3>2. \A d \in Directions : target[d] \in Hosts
      BY DEF IInv, TypeOK
    <3>3. Gateway \in Hosts
      BY DEF Hosts
    <3> QED BY <2>3, <3>1, <3>2, <3>3 DEF Directions
  <2>10. pinging' \subseteq Directions /\ heard' \subseteq Directions
    BY <2>3 DEF IInv, TypeOK
  <2>11. roundAge' \in 0..RoundInterval
    BY <2>3, RoundAssumption
  <2>12. TypeOK'
    BY <1>2, <1>3, <2>4, <2>5, <2>6, <2>9, <2>10, <2>11 DEF IInv, TypeOK
  <2> QED BY <2>7, <2>8, <2>12 DEF IInv
<1>8. CASE NoRound
  <2>1. UNCHANGED <<roundAge, pinging, heard, target>>
    BY <1>8 DEF NoRound, pingVars
  <2>2. down' = harvest(down) /\ silence'["down"] = Silence("down", down)
    BY <1>4, <1>8 DEF NoRound
  <2>3. /\ up' \in Probe /\ up'.running = harvest(up).running
        /\ up'.finished = harvest(up).finished /\ up'.replies = harvest(up).replies
        /\ silence'["up"] \in 0..MaxStreak
        /\ up'.failStreak <= silence'["up"]
    <3>1. CASE uplinkReady
      BY <1>4, <1>5, <1>8, <3>1 DEF NoRound
    <3>2. CASE ~uplinkReady
      BY <1>4, <1>5, <1>8, <3>2, StreakAssumption DEF NoRound, Probe
    <3> QED BY <3>1, <3>2
  <2>4. silence' \in [Directions -> 0..MaxStreak]
    <3>1. CASE uplinkReady
      BY <1>4, <1>5, <1>6, <1>8, <3>1 DEF NoRound
    <3>2. CASE ~uplinkReady
      BY <1>4, <1>6, <1>8, <3>2, StreakAssumption DEF NoRound
    <3> QED BY <3>1, <3>2
  <2>5. Linked("up", up)'
    BY <1>4, <1>5, <2>1, <2>3 DEF Linked
  <2>6. Linked("down", down)'
    BY <1>4, <1>6, <2>1, <2>2 DEF Linked
  <2>7. TypeOK'
    BY <1>2, <1>3, <1>6, <2>1, <2>2, <2>3, <2>4 DEF IInv, TypeOK
  <2> QED BY <2>5, <2>6, <2>7 DEF IInv
<1> QED BY <1>7, <1>8 DEF Update

LEMMA RecoveryHolds == IInv /\ (RecoverUplink \/ RecoverClient) => IInv'
<1> SUFFICES ASSUME IInv, RecoverUplink \/ RecoverClient PROVE IInv'
  OBVIOUS
<1>1. ApTypeOK' /\ stations' = stations
  BY DEF RecoverUplink, RecoverClient, apVars, ApTypeOK, IInv, TypeOK
<1>2. resetStreaks
  BY DEF RecoverUplink, RecoverClient
<1>3. 0 \in 0..MaxStreak
  BY StreakAssumption
<1>4. /\ up' \in Probe /\ up'.running = up.running /\ up'.finished = up.finished
      /\ up'.replies = up.replies /\ up'.failStreak = 0
      /\ down' \in Probe /\ down'.running = down.running /\ down'.finished = down.finished
      /\ down'.replies = down.replies /\ down'.failStreak = 0
  BY <1>2, <1>3 DEF resetStreaks, IInv, TypeOK, Probe
<1>5. /\ silence' \in [Directions -> 0..MaxStreak]
      /\ silence'["up"] = 0 /\ silence'["down"] = 0
  BY <1>2, <1>3 DEF resetStreaks, Directions
<1>6. UNCHANGED <<roundAge, clientProbeable, pinging, heard, target>>
  BY DEF RecoverUplink, RecoverClient, pingVars
<1>7. /\ uplinkReady' \in BOOLEAN /\ loopAt' \in LoopSteps
      /\ kicked' \subseteq stations'
  BY <1>1 DEF RecoverUplink, RecoverClient, LoopStep, LoopSteps, IInv, TypeOK
<1>8. Linked("up", up)' /\ Linked("down", down)'
  BY <1>4, <1>5, <1>6 DEF IInv, Linked
<1>9. TypeOK'
  BY <1>1, <1>4, <1>5, <1>6, <1>7 DEF IInv, TypeOK
<1> QED BY <1>8, <1>9 DEF IInv

LEMMA PassingHolds == IInv /\ (Poll \/ Probeable \/ UplinkFine \/ ClientFine) => IInv'
<1> SUFFICES ASSUME IInv, Poll \/ Probeable \/ UplinkFine \/ ClientFine PROVE IInv'
  OBVIOUS
<1>1. ApTypeOK' /\ stations' = stations
  <2>1. CASE Poll
    BY <2>1, PollTypes DEF Poll, pollRadio, IInv, TypeOK
  <2>2. CASE Probeable \/ UplinkFine \/ ClientFine
    BY <2>2 DEF Probeable, UplinkFine, ClientFine, apVars, ApTypeOK, IInv, TypeOK
  <2> QED BY <2>1, <2>2
<1>2. UNCHANGED <<uplinkReady, up, down, roundAge, pinging, heard, target, kicked, silence>>
  BY DEF Poll, Probeable, UplinkFine, ClientFine, probeVars, pingVars
<1>3. loopAt' \in LoopSteps /\ clientProbeable' \in BOOLEAN
  BY DEF Poll, Probeable, UplinkFine, ClientFine, LoopStep, LoopSteps, IInv, TypeOK
<1>4. Linked("up", up)' /\ Linked("down", down)'
  BY <1>2 DEF IInv, Linked
<1>5. TypeOK'
  BY <1>1, <1>2, <1>3 DEF IInv, TypeOK
<1> QED BY <1>4, <1>5 DEF IInv

LEMMA NextHolds == IInv /\ [Next]_vars => IInv'
<1> SUFFICES ASSUME IInv, [Next]_vars PROVE IInv'
  OBVIOUS
<1>1. CASE ClientMoves \/ Kick \/ Time \/ ClientEvent \/ UplinkEvent
  BY <1>1, SurroundingsHold
<1>2. CASE \E d \in Directions : onPingSuccess(d) \/ onPingEnd(d)
  BY <1>2, PingHolds
<1>3. CASE Update
  BY <1>3, UpdateHolds
<1>4. CASE RecoverUplink \/ RecoverClient
  BY <1>4, RecoveryHolds
<1>5. CASE Poll \/ Probeable \/ UplinkFine \/ ClientFine
  BY <1>5, PassingHolds
<1>6. CASE UNCHANGED vars
  BY <1>6 DEF vars, apVars, probeVars, pingVars, IInv, TypeOK, ApTypeOK, Linked
<1> QED BY <1>1, <1>2, <1>3, <1>4, <1>5, <1>6 DEF Next, Loop

-----------------------------------------------------------------------------
(* Results.                                                                *)

\* The types of Health and ApClients, among them the cap of the streaks.
THEOREM TypeCorrect == Spec => []TypeOK
<1>1. IInv => TypeOK
  BY DEF IInv
<1> QED BY <1>1, InitHolds, NextHolds, PTL DEF Spec

\* Whatever the ping tasks and the events do, a recovery has its number of
\* really silent rounds behind it, none of them used before
\* (main.cpp:367-384, health.cpp:101-125).
THEOREM RecoveryJustified == Spec => RecoveryNeedsSilence
<1>1. IInv /\ RecoverUplink => silence["up"] >= UplinkFailStreak
  <2> SUFFICES ASSUME IInv, RecoverUplink PROVE silence["up"] >= UplinkFailStreak
    OBVIOUS
  <2>1. up.failStreak >= UplinkFailStreak /\ up.failStreak <= silence["up"]
    BY DEF IInv, Linked, RecoverUplink
  <2>2. up.failStreak \in Int /\ silence["up"] \in Int /\ UplinkFailStreak \in Int
    BY StreakAssumption DEF IInv, TypeOK, Probe, Directions
  <2> QED BY <2>1, <2>2
<1>2. IInv /\ RecoverClient => silence["down"] >= ClientFailStreak
  <2> SUFFICES ASSUME IInv, RecoverClient PROVE silence["down"] >= ClientFailStreak
    OBVIOUS
  <2>1. down.failStreak >= ClientFailStreak /\ down.failStreak <= silence["down"]
    BY DEF IInv, Linked, RecoverClient
  <2>2. down.failStreak \in Int /\ silence["down"] \in Int /\ ClientFailStreak \in Int
    BY StreakAssumption DEF IInv, TypeOK, Probe, Directions
  <2> QED BY <2>1, <2>2
<1>3. IInv => [/\ RecoverUplink => silence["up"] >= UplinkFailStreak
               /\ RecoverClient => silence["down"] >= ClientFailStreak]_vars
  BY <1>1, <1>2
<1> QED BY <1>3, InitHolds, NextHolds, PTL DEF Spec, RecoveryNeedsSilence
=============================================================================
