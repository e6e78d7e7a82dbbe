---------------------------- MODULE WatchdogProofs ----------------------------
(***************************************************************************)
(* Proofs about Watchdog: a stalled loop() and a reported outage both end  *)
(* in a reboot on time, and nothing else does, for every modulus of        *)
(* millis() that is larger than the times compared.                        *)
(***************************************************************************)
EXTENDS Watchdog, TLAPS

-----------------------------------------------------------------------------
(* The inductive invariant: how the three words stand for the truth, and   *)
(* how far a poll that is under way can have let the ages run.             *)

WordsTellTruth ==
  /\ loopAge < Horizon => Elapsed(now, lastLoopMs) = loopAge
  /\ outage = Up <=> downSinceMs = 0
  /\ outage # Up /\ outage < Horizon
       => downSinceMs = StallStart(Elapsed(now, outage))

Polling == sup \in {"loopTest", "uplinkTest"}

PollOnTime ==
  /\ armed <=> sup # "absent"
  /\ Polling => SampleAge + pollIn <= 0
  /\ Guarding => /\ loopAge + pollIn < LoopStall + Lateness + Poll
                 /\ outage + pollIn < UplinkStall + Lateness + Poll + 1
  /\ sup = "uplinkTest" => loopAge < LoopStall + SampleAge

IInv == TypeOK /\ WordsTellTruth /\ PollOnTime

\* The constants, in the form the provers need.
LEMMA Constants ==
  /\ W \in Nat /\ Lateness \in Nat /\ Horizon \in Nat
  /\ LoopStall \in Nat /\ UplinkStall \in Nat /\ Poll \in Nat
  /\ LoopStall >= 1 /\ UplinkStall >= 1 /\ Poll >= 1
  /\ LoopStall + Poll + 2*Lateness < Horizon
  /\ UplinkStall + Poll + 2*Lateness + 1 < Horizon
  /\ Horizon < W
BY WatchdogAssumption

\* Booting starts both clocks at the truth.
LEMMA Booted == Init => IInv
<1> SUFFICES ASSUME NEW t \in {0, 1}, NEW created \in BOOLEAN, Begin(t, created)
             PROVE  IInv
  BY DEF Init
<1>1. TypeOK
  <2>1. now \in 0..W-1 /\ lastLoopMs \in 0..W-1 /\ downSinceMs \in 0..W-1
    BY Constants DEF Begin, StallStart
  <2>2. supNow \in 0..W-1 /\ pollIn \in -Lateness..Poll
    BY Constants DEF Begin
  <2>3. loopAge \in 0..Horizon /\ outage \in {Up} \cup 0..Horizon
    BY Constants DEF Begin
  <2> QED BY <2>1, <2>2, <2>3 DEF Begin, TypeOK
<1>2. WordsTellTruth
  BY Constants DEF Begin, WordsTellTruth, Elapsed, StallStart, Up
<1>3. PollOnTime
  <2>1. armed <=> sup # "absent"
    BY DEF Begin
  <2> QED BY <2>1, Constants DEF Begin, PollOnTime, Polling, Guarding
<1> QED BY <1>1, <1>2, <1>3 DEF IInv

\* esp_restart leaves what begin() leaves.
LEMMA Rebooted == ASSUME Restart PROVE IInv'
<1> PICK t \in {0, 1}, created \in BOOLEAN :
      /\ now' = t
      /\ lastLoopMs' = t
      /\ downSinceMs' = StallStart(t)
      /\ armed' = created
      /\ sup' = IF created THEN "asleep" ELSE "absent"
  BY DEF Restart
<1>1. TypeOK'
  <2>1. now' \in 0..W-1 /\ lastLoopMs' \in 0..W-1 /\ downSinceMs' \in 0..W-1
    BY Constants DEF StallStart
  <2>2. supNow' \in 0..W-1 /\ pollIn' \in -Lateness..Poll
    BY Constants DEF Restart
  <2>3. loopAge' \in 0..Horizon /\ outage' \in {Up} \cup 0..Horizon
    BY Constants DEF Restart
  <2> QED BY <2>1, <2>2, <2>3 DEF Restart, TypeOK
<1>2. WordsTellTruth'
  BY Constants DEF Restart, WordsTellTruth, Elapsed, StallStart, Up
<1>3. PollOnTime'
  <2>1. armed' <=> sup' # "absent"
    OBVIOUS
  <2> QED BY <2>1, Constants DEF Restart, PollOnTime, Polling, Guarding
<1> QED BY <1>1, <1>2, <1>3 DEF IInv

\* One more millisecond ages every difference by one, up to the wrap.
LEMMA ElapsedTicks ==
  ASSUME NEW a \in 0..W-1, NEW b \in 0..W-1, Elapsed(a, b) < W - 1
  PROVE  Elapsed(IF a = W - 1 THEN 0 ELSE a + 1, b) = Elapsed(a, b) + 1
BY Constants DEF Elapsed

LEMMA ElapsedTyped ==
  ASSUME NEW a \in 0..W-1, NEW b \in 0..W-1
  PROVE  Elapsed(a, b) \in 0..W-1
BY Constants DEF Elapsed

\* Moving both ends of an interval leaves its start where it was.
LEMMA StartStays ==
  ASSUME NEW a \in 0..W-1, NEW age \in 0..W-2
  PROVE  Elapsed(IF a = W - 1 THEN 0 ELSE a + 1, age + 1) = Elapsed(a, age)
BY Constants DEF Elapsed

\* A sum of an age that grows and a delay that runs down does not grow.
LEMMA Balance ==
  ASSUME NEW x \in Int, NEW y \in Int, NEW p \in Int, NEW bound \in Int,
         x + p < bound, y <= x + 1
  PROVE  y + (p - 1) < bound
OBVIOUS

LEMMA Bounds ==
  /\ LoopStall + Lateness + Poll \in Int
  /\ UplinkStall + Lateness + Poll + 1 \in Int
BY Constants

\* A clock that has just started is within its bound.
LEMMA FreshClock ==
  ASSUME NEW x \in Int, NEW p \in Int, x <= 0, p <= Poll
  PROVE  x + p < UplinkStall + Lateness + Poll + 1
BY Constants

LEMMA TickKeeps == IInv /\ Tick => IInv'
<1> SUFFICES ASSUME IInv, Tick PROVE IInv'
  OBVIOUS
<1> USE Constants
<1>1. /\ now \in 0..W-1 /\ lastLoopMs \in 0..W-1 /\ supNow \in 0..W-1
      /\ loopAge \in 0..Horizon /\ outage \in {Up} \cup 0..Horizon
      /\ pollIn \in -Lateness..Poll
  BY DEF IInv, TypeOK
<1>2. /\ now' = IF now = W - 1 THEN 0 ELSE now + 1
      /\ UNCHANGED <<lastLoopMs, downSinceMs, armed, sup, supNow>>
  BY DEF Tick, wordVars
<1>3. TypeOK'
  <2>1. now' \in 0..W-1 /\ pollIn' \in -Lateness..Poll
    BY <1>1, <1>2 DEF Tick
  <2>2. loopAge' \in 0..Horizon /\ outage' \in {Up} \cup 0..Horizon
    BY <1>1 DEF Tick, Older, Up
  <2> QED BY <2>1, <2>2 DEF IInv, TypeOK, Tick, wordVars, loopVars
<1>4. WordsTellTruth'
  <2>1. loopAge' < Horizon => Elapsed(now', lastLoopMs') = loopAge'
    BY <1>1, <1>2, ElapsedTicks DEF IInv, WordsTellTruth, Tick, Older
  <2>2. outage' = Up <=> downSinceMs' = 0
    BY <1>1, <1>2 DEF IInv, WordsTellTruth, Tick, Older, Up
  <2>3. outage' # Up /\ outage' < Horizon
          => downSinceMs' = StallStart(Elapsed(now', outage'))
    BY <1>1, <1>2, StartStays DEF IInv, WordsTellTruth, Tick, Older, Up
  <2> QED BY <2>1, <2>2, <2>3 DEF WordsTellTruth
<1>5. PollOnTime'
  <2>1. armed' <=> sup' # "absent"
    BY <1>2 DEF IInv, PollOnTime
  <2>2. Polling => SampleAge' = SampleAge + 1 /\ pollIn' = pollIn - 1
    <3> SUFFICES ASSUME Polling
                 PROVE  SampleAge' = SampleAge + 1 /\ pollIn' = pollIn - 1
      OBVIOUS
    <3>1. pollIn' = pollIn - 1
      BY <1>1 DEF Polling, Tick
    <3>2. Elapsed(now, supNow) < W - 1
      BY <1>1, ElapsedTyped DEF IInv, PollOnTime, SampleAge
    <3>3. Elapsed(now', supNow) = Elapsed(now, supNow) + 1
      BY <1>1, <1>2, <3>2, ElapsedTicks
    <3> QED BY <1>2, <3>1, <3>3 DEF SampleAge
  <2>3. Guarding => pollIn' = pollIn - 1
    BY DEF Guarding, Tick
  <2>4. loopAge' <= loopAge + 1 /\ outage' <= outage + 1
    BY <1>1 DEF Tick, Older, Up
  <2>5. Polling' => SampleAge' + pollIn' <= 0
    <3>1. Polling' => Polling
      BY <1>2 DEF Polling
    <3>2. SampleAge \in Int
      BY <1>1, ElapsedTyped DEF SampleAge
    <3> QED BY <1>1, <2>2, <3>1, <3>2 DEF IInv, PollOnTime
  <2>6. Guarding' => /\ loopAge' + pollIn' < LoopStall + Lateness + Poll
                     /\ outage' + pollIn' < UplinkStall + Lateness + Poll + 1
    <3> SUFFICES ASSUME Guarding'
                 PROVE  /\ loopAge' + pollIn' < LoopStall + Lateness + Poll
                        /\ outage' + pollIn' < UplinkStall + Lateness + Poll + 1
      OBVIOUS
    <3>1. Guarding
      BY <1>2 DEF Guarding
    <3>2. /\ loopAge' \in Int /\ outage' \in Int
          /\ loopAge \in Int /\ outage \in Int /\ pollIn \in Int
      BY <1>1, <1>3 DEF TypeOK, Up
    <3>3. /\ loopAge + pollIn < LoopStall + Lateness + Poll
          /\ outage + pollIn < UplinkStall + Lateness + Poll + 1
      BY <3>1 DEF IInv, PollOnTime
    <3>4. loopAge' + (pollIn - 1) < LoopStall + Lateness + Poll
      BY <2>4, <3>2, <3>3, Bounds, Balance
    <3>5. outage' + (pollIn - 1) < UplinkStall + Lateness + Poll + 1
      BY <2>4, <3>2, <3>3, Bounds, Balance
    <3> QED BY <2>3, <3>1, <3>4, <3>5
  <2>7. sup' = "uplinkTest" => loopAge' < LoopStall + SampleAge'
    <3>1. SampleAge \in Int /\ loopAge' \in Int
      BY <1>1, <1>3, ElapsedTyped DEF SampleAge, TypeOK
    <3> QED BY <1>1, <1>2, <2>2, <2>4, <3>1 DEF IInv, PollOnTime, Polling
  <2> QED BY <2>1, <2>5, <2>6, <2>7 DEF PollOnTime
<1> QED BY <1>3, <1>4, <1>5 DEF IInv

LEMMA StepKeeps == IInv /\ [Next]_vars => IInv'
<1> SUFFICES ASSUME IInv, [Next]_vars PROVE IInv'
  OBVIOUS
<1> USE Constants DEF clockVars, wordVars, loopVars, supVars, truthVars
<1>1. CASE UpdateAlive
  <2>1. TypeOK'
    BY <1>1 DEF UpdateAlive, IInv, TypeOK
  <2>2. WordsTellTruth'
    BY <1>1 DEF UpdateAlive, IInv, TypeOK, WordsTellTruth, Elapsed
  <2>3. PollOnTime'
    <3>1. SampleAge' = SampleAge /\ SampleAge \in 0..W-1
      BY <1>1, ElapsedTyped DEF UpdateAlive, SampleAge, IInv, TypeOK
    <3> QED
      BY <1>1, <3>1 DEF UpdateAlive, IInv, TypeOK, PollOnTime, Polling, Guarding
  <2> QED BY <2>1, <2>2, <2>3 DEF IInv
<1>2. CASE UpdateUplink
  <2>1. TypeOK'
    <3>1. downSinceMs' \in 0..W-1 /\ outage' \in {Up} \cup 0..Horizon
      BY <1>2 DEF UpdateUplink, ClockStopped, markUplinkDown, IInv, TypeOK, StallStart
    <3> QED BY <1>2, <3>1 DEF UpdateUplink, ClockStopped, markUplinkDown, IInv, TypeOK
  <2>2. WordsTellTruth'
    BY <1>2 DEF UpdateUplink, ClockStopped, markUplinkDown, IInv, TypeOK, WordsTellTruth, Elapsed, StallStart, Up
  <2>3. PollOnTime'
    <3>1. SampleAge' = SampleAge
      BY <1>2 DEF UpdateUplink, ClockStopped, markUplinkDown, SampleAge
    <3>2. outage' \in {Up, 0, outage}
      BY <1>2 DEF UpdateUplink, ClockStopped, markUplinkDown
    <3>3. Guarding => outage' + pollIn < UplinkStall + Lateness + Poll + 1
      <4>1. pollIn \in Int /\ pollIn <= Poll
        BY DEF IInv, TypeOK
      <4>2. Guarding => outage + pollIn < UplinkStall + Lateness + Poll + 1
        BY DEF IInv, PollOnTime
      <4>3. CASE outage' = outage
        BY <4>2, <4>3
      <4>4. CASE outage' \in {Up, 0}
        <5>1. outage' \in Int /\ outage' <= 0
          BY <4>4 DEF Up
        <5> QED BY <4>1, <5>1, FreshClock
      <4> QED BY <3>2, <4>3, <4>4
    <3> QED
      BY <1>2, <3>1, <3>3 DEF UpdateUplink, ClockStopped, markUplinkDown, IInv, PollOnTime, Polling, Guarding
  <2> QED BY <2>1, <2>2, <2>3 DEF IInv
<1>3. CASE Wake
  <2>1. TypeOK'
    BY <1>3 DEF Wake, IInv, TypeOK
  <2>2. WordsTellTruth'
    BY <1>3 DEF Wake, IInv, WordsTellTruth
  <2>3. armed /\ sup' = "loopTest" /\ supNow' = now /\ pollIn' = pollIn /\ pollIn <= 0
    BY <1>3 DEF Wake, IInv, PollOnTime
  <2>4. SampleAge' = 0
    BY <1>3, <2>3 DEF Wake, SampleAge, Elapsed, IInv, TypeOK
  <2>5. PollOnTime'
    BY <1>3, <2>3, <2>4 DEF Wake, IInv, TypeOK, PollOnTime, Polling, Guarding
  <2> QED BY <2>1, <2>2, <2>5 DEF IInv
<1>4. CASE LoopTest
  <2>1. TypeOK'
    BY <1>4 DEF LoopTest, IInv, TypeOK
  <2>2. WordsTellTruth'
    BY <1>4 DEF LoopTest, IInv, WordsTellTruth
  <2>3. PollOnTime'
    <3>1. SampleAge' = SampleAge /\ SampleAge \in 0..W-1
      BY <1>4, ElapsedTyped DEF LoopTest, SampleAge, IInv, TypeOK
    <3>2. sup' = "uplinkTest" => loopAge' < LoopStall + SampleAge'
      <4> SUFFICES ASSUME sup' = "uplinkTest"
                   PROVE  loopAge < LoopStall + SampleAge
        BY <1>4, <3>1 DEF LoopTest
      <4>1. Elapsed(supNow, lastLoopMs) < LoopStall
        BY <1>4, ElapsedTyped DEF LoopTest, IInv, TypeOK
      <4>2. SampleAge <= Lateness
        BY <1>4, <3>1 DEF LoopTest, IInv, TypeOK, PollOnTime, Polling
      <4>3. loopAge < Horizon
        BY <1>4, <4>2 DEF LoopTest, IInv, TypeOK, PollOnTime, Guarding
      <4>4. loopAge = Elapsed(now, lastLoopMs)
        BY <4>3 DEF IInv, WordsTellTruth
      <4> QED BY <4>1, <4>2, <4>3, <4>4 DEF SampleAge, Elapsed, IInv, TypeOK
    <3> QED
      BY <1>4, <3>1, <3>2 DEF LoopTest, IInv, PollOnTime, Polling, Guarding
  <2> QED BY <2>1, <2>2, <2>3 DEF IInv
<1>5. CASE UplinkTest
  <2>1. TypeOK'
    BY <1>5 DEF UplinkTest, IInv, TypeOK
  <2>2. WordsTellTruth'
    BY <1>5 DEF UplinkTest, IInv, WordsTellTruth
  <2>3. PollOnTime'
    <3>1. SampleAge \in 0..W-1 /\ SampleAge <= Lateness
      BY <1>5, ElapsedTyped DEF UplinkTest, SampleAge, IInv, TypeOK, PollOnTime, Polling
    <3>2. CASE sup' = "rebooting"
      BY <1>5, <3>2 DEF UplinkTest, IInv, PollOnTime, Polling, Guarding
    <3>3. CASE sup' = "asleep" /\ pollIn' = Poll
      <4>1. outage < UplinkStall + SampleAge + 1
        <5>1. CASE outage = Up
          BY <5>1, <3>1 DEF Up
        <5>2. CASE outage # Up
          <6>1. downSinceMs # 0 /\ Elapsed(supNow, downSinceMs) < UplinkStall
            BY <1>5, <3>3, <5>2, ElapsedTyped
            DEF UplinkTest, IInv, TypeOK, WordsTellTruth
          <6>2. outage \in 0..Horizon /\ outage < Horizon
            BY <1>5, <5>2 DEF UplinkTest, IInv, TypeOK, PollOnTime, Guarding
          <6>3. downSinceMs = StallStart(Elapsed(now, outage))
            BY <5>2, <6>2 DEF IInv, WordsTellTruth
          <6> QED
            BY <3>1, <6>1, <6>2, <6>3
            DEF SampleAge, Elapsed, StallStart, IInv, TypeOK
        <5> QED BY <5>1, <5>2
      <4>2. loopAge < LoopStall + SampleAge
        BY <1>5 DEF UplinkTest, IInv, PollOnTime
      <4>3. loopAge \in Int /\ outage \in Int
        BY DEF IInv, TypeOK, Up
      <4>4. /\ loopAge' + pollIn' < LoopStall + Lateness + Poll
            /\ outage' + pollIn' < UplinkStall + Lateness + Poll + 1
        BY <1>5, <3>1, <3>3, <4>1, <4>2, <4>3 DEF UplinkTest
      <4>5. armed' <=> sup' # "absent"
        BY <1>5 DEF UplinkTest, IInv, PollOnTime
      <4> QED BY <3>3, <4>4, <4>5 DEF PollOnTime, Polling
    <3> QED BY <1>5, <3>2, <3>3 DEF UplinkTest
  <2> QED BY <2>1, <2>2, <2>3 DEF IInv
<1>6. CASE UplinkChanges
  BY <1>6 DEF UplinkChanges, IInv, TypeOK, WordsTellTruth, PollOnTime, Polling,
              Guarding, SampleAge
<1>7. CASE UNCHANGED vars
  BY <1>7 DEF vars, IInv, TypeOK, WordsTellTruth, PollOnTime, Polling, Guarding,
              SampleAge
<1> QED
  BY <1>1, <1>2, <1>3, <1>4, <1>5, <1>6, <1>7, Rebooted, TickKeeps DEF Next

LEMMA Inductive == Spec => []IInv
BY Booted, StepKeeps, PTL DEF Spec

-----------------------------------------------------------------------------
(* What follows from it.                                                   *)

\* Every variable keeps its type: the words stay words, and no poll is ever later
\* than the supervisor's priority allows.
THEOREM TypeCorrect == Spec => []TypeOK
BY Inductive, PTL DEF IInv

\* A loop() that stops coming round is ended on time (watchdog.cpp:19-21).
THEOREM StallEnded == Spec => []StallIsBounded
<1>1. IInv => StallIsBounded
  BY Constants DEF IInv, TypeOK, PollOnTime, StallIsBounded
<1> QED BY <1>1, Inductive, PTL

\* So is an outage loop() keeps reporting, whatever the phase of millis().
THEOREM OutageEnded == Spec => []OutageIsBounded
<1>1. IInv => OutageIsBounded
  BY Constants DEF IInv, TypeOK, PollOnTime, OutageIsBounded, Up
<1> QED BY <1>1, Inductive, PTL

\* No reboot without a stall or an outage of the full length, unless core 1
\* overtook the sample: the only way for the unlocked words to mislead.
THEOREM OnlyJustifiedReboots == Spec => RebootJustified
<1> DEFINE
      LoopJustified ==
        LoopTest /\ sup' = "rebooting" => loopAge >= LoopStall \/ LoopOvertook
      UplinkJustified ==
        UplinkTest /\ sup' = "rebooting"
          => outage # Up /\ (outage >= UplinkStall \/ UplinkOvertook)
<1>1. IInv => LoopJustified
  <2> SUFFICES ASSUME IInv, LoopTest, sup' = "rebooting", ~LoopOvertook
               PROVE  loopAge >= LoopStall
    BY Constants DEF IInv, TypeOK
  <2>1. /\ SampleAge <= Lateness /\ SampleAge \in 0..W-1 /\ SampleAge <= loopAge
        /\ loopAge < Horizon /\ loopAge \in 0..Horizon
    <3>1. /\ pollIn \in Int /\ pollIn >= -Lateness
          /\ loopAge \in 0..Horizon /\ SampleAge \in 0..W-1
      BY Constants, ElapsedTyped DEF IInv, TypeOK, SampleAge
    <3>2. SampleAge + pollIn <= 0 /\ loopAge + pollIn < LoopStall + Lateness + Poll
      BY DEF IInv, PollOnTime, Polling, Guarding, LoopTest
    <3> QED BY <3>1, <3>2, Constants DEF LoopOvertook
  <2>2. Elapsed(supNow, lastLoopMs) >= LoopStall
    BY DEF LoopTest
  <2>3. Elapsed(now, lastLoopMs) = loopAge
    BY <2>1 DEF IInv, WordsTellTruth
  <2> QED BY <2>1, <2>2, <2>3, Constants DEF SampleAge, Elapsed, IInv, TypeOK
<1>2. IInv => UplinkJustified
  <2> SUFFICES ASSUME IInv, UplinkTest, sup' = "rebooting"
               PROVE  outage # Up /\ (outage >= UplinkStall \/ UplinkOvertook)
    OBVIOUS
  <2>1. downSinceMs # 0 /\ Elapsed(supNow, downSinceMs) >= UplinkStall
    BY DEF UplinkTest
  <2>2. outage # Up /\ outage \in 0..Horizon
    BY <2>1 DEF IInv, TypeOK, WordsTellTruth
  <2>3. SampleAge <= Lateness /\ SampleAge \in 0..W-1
    BY Constants, ElapsedTyped DEF IInv, TypeOK, PollOnTime, Polling, UplinkTest, SampleAge
  <2>4. outage < Horizon
    <3>1. pollIn \in Int /\ pollIn >= -Lateness
      BY Constants DEF IInv, TypeOK
    <3>2. outage + pollIn < UplinkStall + Lateness + Poll + 1
      BY DEF IInv, PollOnTime, Guarding, UplinkTest
    <3> QED BY <2>2, <3>1, <3>2, Constants
  <2>5. downSinceMs = StallStart(Elapsed(now, outage))
    BY <2>2, <2>4 DEF IInv, WordsTellTruth
  <2>6. ASSUME ~UplinkOvertook PROVE outage >= UplinkStall
    <3>1. SampleAge <= outage /\ ~(supNow = 0 /\ outage = SampleAge)
      BY <2>2, <2>3, <2>6 DEF UplinkOvertook
    <3> QED
      BY <2>1, <2>2, <2>3, <2>4, <2>5, <3>1, Constants
      DEF SampleAge, Elapsed, StallStart, IInv, TypeOK
  <2> QED BY <2>2, <2>6
<1>3. IInv => LoopJustified /\ UplinkJustified
  BY <1>1, <1>2
<1> QED BY <1>3, Inductive, PTL DEF RebootJustified
=============================================================================
