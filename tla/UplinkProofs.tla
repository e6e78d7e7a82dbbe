----------------------------- MODULE UplinkProofs -----------------------------
(***************************************************************************)
(* Proofs about Uplink, for every value of its constants: the types, that  *)
(* the router is never left without somebody to redial, that the flag the  *)
(* firmware acts on never loses track of the radio, and what stale events  *)
(* can do to an attempt.  At the end, that Router implements Uplink: the   *)
(* supervisor that shares its two tasks with the switching of NAPT, and    *)
(* whose handler of a loss is interrupted by it, is this one.              *)
(***************************************************************************)
EXTENDS Router, TLAPS

\* What AtMost needs to do for the timers and the backoff.
LEMMA AtMostBounds ==
  ASSUME NEW lo \in Int, NEW x \in Int, NEW y \in Int, lo <= x, lo <= y
  PROVE  AtMost(x, y) \in lo..y
BY DEF AtMost

\* The values the timers and the backoff start from.
LEMMA StartValues ==
  /\ BackoffInitial \in BackoffInitial..BackoffMax
  /\ 0 \in 0..BackoffMax
  /\ 0 \in 0..AttemptTimeout
  /\ 0 \in 0..AttemptQuiet
BY TimingAssumption

\* One more retry keeps the retry variables within their bounds.
LEMMA ScheduleTyped ==
  ASSUME TypeOK
  PROVE  /\ SetRetry => reconnectPending' \in BOOLEAN /\ reconnectIn' \in 0..BackoffMax
         /\ BackOff => backoff' \in BackoffInitial..BackoffMax
<1>1. /\ backoff \in Int
      /\ BackoffInitial <= backoff
      /\ backoff <= BackoffMax
      /\ BackoffInitial >= 0
      /\ BackoffInitial \in Int /\ BackoffMax \in Int
  BY TimingAssumption DEF TypeOK
<1>2. BackOff => backoff' \in BackoffInitial..BackoffMax
  BY <1>1, AtMostBounds DEF BackOff, AtMost
<1>3. SetRetry => reconnectPending' \in BOOLEAN /\ reconnectIn' \in 0..BackoffMax
  BY <1>1 DEF SetRetry
<1> QED BY <1>2, <1>3

-----------------------------------------------------------------------------
(* Type correctness.                                                       *)

\* The driver's own steps and the firmware's two calls keep its types.
LEMMA PostTyped ==
  ASSUME DriverTypeOK, NEW e \in StaEvents, Post(e)
  PROVE  events' \in Seq(StaEvents) /\ Len(events') <= QueueLen
BY QueueLenAssumption DEF DriverTypeOK, Post, Room

LEMMA DriverNextTyped ==
  ASSUME DriverTypeOK, DriverNext
  PROVE  DriverTypeOK'
<1> USE MaxBssidsAssumption, PostTyped
        DEF StaEvents, Associated, GotIp, Disconnected, LostIp, StaStates
<1>1. CASE Associate BY <1>1 DEF Associate, DriverTypeOK
<1>2. CASE AcquireIp BY <1>2 DEF AcquireIp, DriverTypeOK
<1>3. CASE BssidFails BY <1>3 DEF BssidFails, DriverTypeOK
<1>4. CASE OutOfCandidates BY <1>4 DEF OutOfCandidates, DriverTypeOK
<1>5. CASE SilentFailure BY <1>5 DEF SilentFailure, DriverTypeOK
<1>6. CASE LinkDrops BY <1>6 DEF LinkDrops, DriverTypeOK
<1>7. CASE LeaseExpires BY <1>7 DEF LeaseExpires, DriverTypeOK
<1>8. CASE IpLostTimerFires BY <1>8 DEF IpLostTimerFires, DriverTypeOK
<1> QED BY <1>1, <1>2, <1>3, <1>4, <1>5, <1>6, <1>7, <1>8 DEF DriverNext

LEMMA AbortTyped ==
  ASSUME DriverTypeOK, sta = "idle" \/ Room, events' = events \o AbortEvents
  PROVE  events' \in Seq(StaEvents) /\ Len(events') <= QueueLen
<1>1. CASE sta = "idle"
  BY <1>1 DEF DriverTypeOK, AbortEvents
<1>2. CASE sta # "idle"
  <2>1. AbortEvents = <<Disconnected>> /\ Disconnected \in StaEvents
    BY <1>2 DEF AbortEvents, StaEvents
  <2> QED BY <1>2, <2>1, QueueLenAssumption DEF DriverTypeOK, Room
<1> QED BY <1>1, <1>2

LEMMA HandlerTyped ==
  ASSUME TypeOK, NEW e, NextEvent(e)
  PROVE  DriverTypeOK' /\ loopAt' \in LoopSteps
<1>1. events \in Seq(StaEvents) /\ events # <<>> BY DEF TypeOK, DriverTypeOK, NextEvent
<1>2. Tail(events) \in Seq(StaEvents) /\ Len(Tail(events)) = Len(events) - 1 BY <1>1
<1> QED BY <1>2, QueueLenAssumption DEF TypeOK, DriverTypeOK, NextEvent

LEMMA InitTyped == Init => TypeOK
<1> SUFFICES ASSUME Init PROVE TypeOK
  OBVIOUS
<1>1. events = <<>> /\ events \in Seq(StaEvents)
  BY DEF Init, DriverInit
<1>2. Len(events) <= QueueLen
  BY <1>1, QueueLenAssumption
<1>3. bssidsFailed \in 0..MaxBssids
  BY MaxBssidsAssumption DEF Init, DriverInit
<1>4. sta \in StaStates /\ ipLostArmed \in BOOLEAN
  BY DEF Init, DriverInit, StaStates
<1>5. DriverTypeOK
  BY <1>1, <1>2, <1>3, <1>4 DEF DriverTypeOK
<1> QED BY <1>5, StartValues DEF Init, TypeOK, LoopSteps

LEMMA StepTyped == TypeOK /\ [Next]_vars => TypeOK'
<1> SUFFICES ASSUME TypeOK, [Next]_vars PROVE TypeOK'
  OBVIOUS
<1> USE DEF flagVars, timerVars, retryVars, driverVars, AttemptOver, FlagAfterLoss,
            LossNoted, RetryUnlessDialling
<1>1. CASE OnStaConnected
  <2>1. NextEvent(Associated) BY <1>1 DEF OnStaConnected
  <2> QED BY <1>1, <2>1, HandlerTyped DEF OnStaConnected, TypeOK
<1>2. CASE OnStaGotIp
  <2>1. DriverTypeOK' /\ loopAt' \in LoopSteps
    BY <1>2, HandlerTyped DEF OnStaGotIp
  <2> QED BY <1>2, <2>1, StartValues DEF OnStaGotIp, TypeOK
<1>3. CASE OnUplinkLost
  <2>1. DriverTypeOK' /\ loopAt' \in LoopSteps
    BY <1>3, HandlerTyped DEF OnUplinkLost
  <2>2. /\ reconnectPending' \in BOOLEAN
        /\ reconnectIn' \in 0..BackoffMax
        /\ backoff' \in BackoffInitial..BackoffMax
    BY <1>3, ScheduleTyped DEF OnUplinkLost, scheduleReconnect, TypeOK
  <2> QED BY <1>3, <2>1, <2>2, StartValues DEF OnUplinkLost, TypeOK
<1>4. CASE RecoverTest
  BY <1>4 DEF RecoverTest, Goto, LoopSteps, TypeOK, DriverTypeOK
<1>5. CASE Recover
  BY <1>5, AbortTyped DEF Recover, WiFiDisconnect, Goto, LoopSteps, TypeOK, DriverTypeOK, StaStates
<1>6. CASE ScheduleLost
  BY <1>6, ScheduleTyped DEF ScheduleLost, Goto, LoopSteps, TypeOK, DriverTypeOK
<1>7. CASE DeadlineTest
  <2>1. gaveUp' \in BOOLEAN
    <3>1. \/ gaveUp' = gaveUp
          \/ gaveUp' = (quietFor >= AttemptQuiet)
      BY <1>7 DEF DeadlineTest
    <3>2. (quietFor >= AttemptQuiet) \in BOOLEAN
      OBVIOUS
    <3> QED BY <3>1, <3>2 DEF TypeOK
  <2>2. loopAt' \in LoopSteps
    BY <1>7 DEF DeadlineTest, Goto, LoopSteps
  <2>3. UNCHANGED <<flagVars, attemptAge, quietFor, retryVars, driverVars>>
    BY <1>7 DEF DeadlineTest
  <2> QED BY <2>1, <2>2, <2>3 DEF TypeOK, DriverTypeOK
<1>8. CASE QuietTest
  BY <1>8 DEF QuietTest, Goto, LoopSteps, TypeOK, DriverTypeOK
<1>9. CASE Abandon
  BY <1>9 DEF Abandon, Goto, LoopSteps, TypeOK, DriverTypeOK
<1>10. CASE ScheduleAbandoned
  BY <1>10, ScheduleTyped DEF ScheduleAbandoned, Goto, LoopSteps, TypeOK, DriverTypeOK
<1>11. CASE BackOffLost \/ BackOffAbandoned
  BY <1>11, ScheduleTyped DEF BackOffLost, BackOffAbandoned, Goto, LoopSteps, TypeOK,
                              DriverTypeOK
<1>12. CASE RetryDue
  BY <1>12 DEF RetryDue, Goto, LoopSteps, TypeOK, DriverTypeOK
<1>13. CASE StartAttempt
  BY <1>13 DEF StartAttempt, Goto, LoopSteps, TypeOK, DriverTypeOK
<1>14. CASE ResetAttempt
  BY <1>14, StartValues DEF ResetAttempt, Goto, LoopSteps, TypeOK, DriverTypeOK
<1>15. CASE Dial
  BY <1>15, AbortTyped, MaxBssidsAssumption
  DEF Dial, WiFiRedial, Goto, LoopSteps, TypeOK, DriverTypeOK, StaStates
<1>16. CASE Tick
  BY <1>16, TimingAssumption DEF Tick, AtMost, Never, TypeOK, DriverTypeOK
<1>17. CASE Driver
  BY <1>17, DriverNextTyped DEF Driver, TypeOK
<1>18. CASE UNCHANGED vars
  BY <1>18 DEF vars, TypeOK, DriverTypeOK
<1> QED
  BY <1>1, <1>2, <1>3, <1>4, <1>5, <1>6, <1>7, <1>8, <1>9, <1>10, <1>11, <1>12,
     <1>13, <1>14, <1>15, <1>16, <1>17, <1>18 DEF Next, onWiFiEvent, loop

\* Every variable keeps its type: the timers stay within their bounds and no
\* failure, however often repeated, takes the backoff over its cap
\* (main.cpp:229-234).
THEOREM TypeCorrect == Spec => []TypeOK
BY InitTyped, StepTyped, PTL DEF Spec

-----------------------------------------------------------------------------
(* Somebody always redials.                                                *)

\* While the uplink is down an attempt runs, a retry is pending or loopTask is
\* about to make one of the two, in every interleaving of the event task with
\* loopTask.  NoLimbo is inductive by itself.
THEOREM SomebodyRedials == Spec => []NoLimbo
<1>1. Init => NoLimbo
  BY DEF Init, NoLimbo, NobodyIdle
<1>2. NoLimbo /\ [Next]_vars => NoLimbo'
  <2> SUFFICES ASSUME NoLimbo, [Next]_vars PROVE NoLimbo'
    OBVIOUS
  <2> USE DEF NoLimbo, NobodyIdle, flagVars, timerVars, retryVars, driverVars,
              AttemptOver, FlagAfterLoss, LossNoted, RetryUnlessDialling
  <2>1. CASE onWiFiEvent
    BY <2>1 DEF onWiFiEvent, OnStaConnected, OnStaGotIp, OnUplinkLost, NextEvent,
                scheduleReconnect, SetRetry
  <2>2. CASE RecoverTest \/ Recover \/ DeadlineTest \/ QuietTest \/ Abandon
    BY <2>2 DEF RecoverTest, Recover, DeadlineTest, QuietTest, Abandon, Goto
  <2>3. CASE ScheduleLost \/ BackOffLost \/ ScheduleAbandoned \/ BackOffAbandoned
    BY <2>3 DEF ScheduleLost, BackOffLost, ScheduleAbandoned, BackOffAbandoned, SetRetry,
                Goto
  <2>4. CASE RetryDue \/ StartAttempt \/ ResetAttempt \/ Dial
    BY <2>4 DEF RetryDue, StartAttempt, ResetAttempt, Dial, Goto
  <2>5. CASE Tick \/ Driver \/ UNCHANGED vars
    BY <2>5 DEF Tick, Driver, vars
  <2> QED BY <2>1, <2>2, <2>3, <2>4, <2>5 DEF Next, loop
<1> QED BY <1>1, <1>2, PTL DEF Spec

-----------------------------------------------------------------------------
(* Who schedules a retry beside an attempt.                                *)

\* loopTask schedules a retry only after it has ended the attempt, and nobody
\* but loopTask begins one.
EndedFirst == loopAt \in {"scheduleLost", "scheduleAbandoned"} => ~attemptActive

\* A retry comes to stand beside a running attempt only where loopTask starts
\* one over a retry that was scheduled since it took its own.
THEOREM RetryClashContained == Spec => RetryClashOnlyAtStart
<1> USE DEF EndedFirst, flagVars, timerVars, retryVars, driverVars
<1>1. Init => EndedFirst
  BY DEF Init
<1>2. EndedFirst /\ [Next]_vars
        => /\ EndedFirst'
           /\ [~(attemptActive /\ reconnectPending) /\ (attemptActive /\ reconnectPending)'
               => StartAttempt]_vars
  <2> SUFFICES ASSUME EndedFirst, [Next]_vars
               PROVE  /\ EndedFirst'
                      /\ \/ attemptActive /\ reconnectPending
                         \/ ~(attemptActive' /\ reconnectPending')
                         \/ StartAttempt
    BY DEF vars
  <2>1. CASE OnStaConnected \/ OnStaGotIp
    BY <2>1 DEF OnStaConnected, OnStaGotIp, NextEvent, AttemptOver
  <2>2. CASE OnUplinkLost
    BY <2>2 DEF OnUplinkLost, NextEvent, RetryUnlessDialling
  <2>3. CASE RecoverTest \/ Recover \/ DeadlineTest \/ QuietTest \/ Abandon
    BY <2>3 DEF RecoverTest, Recover, DeadlineTest, QuietTest, Abandon, Goto
  <2>4. CASE ScheduleLost \/ BackOffLost \/ ScheduleAbandoned \/ BackOffAbandoned
    BY <2>4 DEF ScheduleLost, BackOffLost, ScheduleAbandoned, BackOffAbandoned, Goto
  <2>5. CASE RetryDue \/ StartAttempt \/ ResetAttempt \/ Dial
    BY <2>5 DEF RetryDue, StartAttempt, ResetAttempt, Dial, Goto
  <2>6. CASE Tick \/ Driver \/ UNCHANGED vars
    BY <2>6 DEF Tick, Driver, vars
  <2> QED BY <2>1, <2>2, <2>3, <2>4, <2>5, <2>6 DEF Next, loop, onWiFiEvent
<1> QED BY <1>1, <1>2, PTL DEF Spec, RetryClashOnlyAtStart

-----------------------------------------------------------------------------
(* What the firmware believes about the radio.                             *)

\* The steps of loopTask that call no driver.
LoopOnly ==
  \/ RecoverTest \/ ScheduleLost \/ BackOffLost \/ DeadlineTest \/ QuietTest \/ Abandon
  \/ ScheduleAbandoned \/ BackOffAbandoned \/ RetryDue \/ StartAttempt \/ ResetAttempt

\* They touch neither the radio nor the ready flag, and but for the reset not
\* the association flag.
LEMMA LoopOnlyKeeps ==
  ASSUME LoopOnly
  PROVE  /\ UNCHANGED <<sta, events, uplinkReady>>
         /\ attemptAssociated' = attemptAssociated \/ attemptAssociated' = FALSE
         /\ ~ResetAttempt => UNCHANGED attemptAssociated
BY DEF LoopOnly, RecoverTest, ScheduleLost, BackOffLost, DeadlineTest, QuietTest, Abandon,
       ScheduleAbandoned, BackOffAbandoned, RetryDue, StartAttempt, ResetAttempt, flagVars,
       driverVars

USE DEF IpEvents, FlagAfterQueue, LastIpEvent

\* An event about the IP, once queued, decides what will be believed.
LEMMA PostIpEvent ==
  ASSUME events \in Seq(StaEvents), NEW e \in IpEvents,
         events' = Append(events, e), NEW up, up = (e = GotIp)
  PROVE  FlagAfterQueue(up)'
<1>1. /\ Len(events') = Len(events) + 1
      /\ Len(events) \in Nat
      /\ events'[Len(events) + 1] = e
  OBVIOUS
<1>2. ASSUME NEW k \in 1..Len(events'), LastIpEvent(k)'
      PROVE  k = Len(events) + 1
  BY <1>1, <1>2
<1> QED BY <1>1, <1>2

\* One that is not about the IP changes nothing.
LEMMA PostOther ==
  ASSUME events \in Seq(StaEvents), NEW e, e \notin IpEvents,
         events' = Append(events, e), uplinkReady' = uplinkReady,
         NEW up, FlagAfterQueue(up)
  PROVE  FlagAfterQueue(up)'
<1>1. /\ Len(events') = Len(events) + 1
      /\ Len(events) \in Nat
      /\ events'[Len(events) + 1] = e
      /\ \A k \in 1..Len(events) : events'[k] = events[k]
  OBVIOUS
<1>2. ASSUME NEW k \in 1..Len(events'), LastIpEvent(k)'
      PROVE  k \in 1..Len(events) /\ LastIpEvent(k)
  BY <1>1, <1>2
<1>3. ASSUME NEW k \in 1..Len(events'), LastIpEvent(k)'
      PROVE  (events'[k] = GotIp) = up
  BY <1>1, <1>2, <1>3
<1>4. ASSUME \A k \in 1..Len(events') : events'[k] \notin IpEvents
      PROVE  uplinkReady' = up
  BY <1>1, <1>4
<1> QED BY <1>3, <1>4

\* Handling the oldest event, by a handler that takes it at its word.
LEMMA HandleEvent ==
  ASSUME events \in Seq(StaEvents), events # <<>>, events' = Tail(events),
         Head(events) \in IpEvents => uplinkReady' = (Head(events) = GotIp),
         Head(events) \notin IpEvents => uplinkReady' = uplinkReady,
         NEW up, FlagAfterQueue(up)
  PROVE  FlagAfterQueue(up)'
<1>1. /\ Len(events) \in Nat
      /\ Len(events') = Len(events) - 1
      /\ \A k \in 1..Len(events') : events'[k] = events[k + 1]
      /\ Head(events) = events[1]
      /\ Len(events) >= 1
  OBVIOUS
<1>2. ASSUME NEW k \in 1..Len(events'), LastIpEvent(k)'
      PROVE  (events'[k] = GotIp) = up
  <2>1. k + 1 \in 1..Len(events) /\ events[k + 1] \in IpEvents
    BY <1>1, <1>2
  <2>2. ASSUME NEW j \in 1..Len(events), j > k + 1
        PROVE  events[j] \notin IpEvents
    <3>1. j - 1 \in 1..Len(events') /\ j - 1 > k /\ events'[j - 1] = events[j]
      BY <1>1, <2>2
    <3> QED BY <1>2, <3>1
  <2>3. LastIpEvent(k + 1)
    BY <2>1, <2>2
  <2> QED BY <1>1, <2>1, <2>3
<1>3. ASSUME \A k \in 1..Len(events') : events'[k] \notin IpEvents
      PROVE  uplinkReady' = up
  <2>1. \A j \in 1..Len(events) : j > 1 => events[j] \notin IpEvents
    <3> TAKE j \in 1..Len(events)
    <3> HAVE j > 1
    <3>1. j - 1 \in 1..Len(events') /\ events'[j - 1] = events[j]
      BY <1>1
    <3> QED BY <1>3, <3>1
  <2>2. CASE Head(events) \in IpEvents
    <3>1. 1 \in 1..Len(events) /\ LastIpEvent(1)
      BY <1>1, <2>1, <2>2
    <3> QED BY <1>1, <2>2, <3>1
  <2>3. CASE Head(events) \notin IpEvents
    <3>1. \A j \in 1..Len(events) : events[j] \notin IpEvents
      BY <1>1, <2>1, <2>3
    <3> QED BY <2>3, <3>1
  <2> QED BY <2>2, <2>3
<1> QED BY <1>2, <1>3

HIDE DEF IpEvents, FlagAfterQueue, LastIpEvent

\* Which events are about the IP.
LEMMA IpEventKinds ==
  /\ GotIp \in IpEvents /\ Disconnected \in IpEvents /\ LostIp \in IpEvents
  /\ Associated \notin IpEvents
  /\ Disconnected # GotIp /\ LostIp # GotIp
BY DEF IpEvents, Associated, GotIp, Disconnected, LostIp

\* The driver posts an event about the IP whenever it gets or loses one.
LEMMA DriverBelieved ==
  ASSUME TypeOK, BeliefTracksDriver, DriverNext, uplinkReady' = uplinkReady
  PROVE  BeliefTracksDriver'
<1> DEFINE up == sta' = "up"
<1>1. events \in Seq(StaEvents)
  BY DEF TypeOK, DriverTypeOK
<1>2. CASE \E e \in IpEvents : Post(e) /\ up = (e = GotIp)
  BY <1>1, <1>2, PostIpEvent DEF BeliefTracksDriver, Post
<1>3. CASE Associate
  <2>1. FlagAfterQueue(FALSE)
    BY <1>3 DEF BeliefTracksDriver, Associate
  <2>2. FlagAfterQueue(FALSE)'
    BY <1>1, <1>3, <2>1, PostOther, IpEventKinds DEF Associate, Post
  <2> QED BY <1>3, <2>2 DEF BeliefTracksDriver, Associate
<1>4. CASE SilentFailure
  BY <1>4 DEF SilentFailure, BeliefTracksDriver, FlagAfterQueue, LastIpEvent
<1> QED
  BY <1>2, <1>3, <1>4, IpEventKinds
  DEF DriverNext, AcquireIp, BssidFails, OutOfCandidates, LinkDrops, LeaseExpires,
      IpLostTimerFires

\* So does an abort, unless the radio was idle and there is nothing to report.
LEMMA AbortBelieved ==
  ASSUME TypeOK, BeliefTracksDriver, events' = events \o AbortEvents, sta' # "up",
         uplinkReady' = uplinkReady \/ uplinkReady' = FALSE
  PROVE  BeliefTracksDriver'
<1>1. events \in Seq(StaEvents)
  BY DEF TypeOK, DriverTypeOK
<1>2. CASE sta = "idle"
  <2>1. events' = events
    BY <1>1, <1>2 DEF AbortEvents
  <2> QED
    BY <1>2, <2>1 DEF BeliefTracksDriver, FlagAfterQueue, LastIpEvent
<1>3. CASE sta # "idle"
  <2>1. events' = Append(events, Disconnected)
    BY <1>1, <1>3 DEF AbortEvents
  <2>2. FlagAfterQueue(FALSE)'
    BY <1>1, <2>1, PostIpEvent, IpEventKinds
  <2> QED BY <2>2 DEF BeliefTracksDriver
<1> QED BY <1>2, <1>3

\* A handler that does what the event says leaves the belief consistent.
LEMMA HandlerBelieved ==
  ASSUME TypeOK, BeliefTracksDriver, onWiFiEvent
  PROVE  BeliefTracksDriver'
<1>1. /\ events \in Seq(StaEvents) /\ events # <<>>
      /\ events' = Tail(events) /\ sta' = sta
  BY DEF TypeOK, DriverTypeOK, onWiFiEvent, OnStaConnected, OnStaGotIp, OnUplinkLost,
         NextEvent
<1>2. /\ Head(events) \in IpEvents => uplinkReady' = (Head(events) = GotIp)
      /\ Head(events) \notin IpEvents => uplinkReady' = uplinkReady
  BY IpEventKinds
  DEF onWiFiEvent, OnStaConnected, OnStaGotIp, OnUplinkLost, NextEvent, FlagAfterLoss
<1> QED
  BY <1>1, <1>2, HandleEvent DEF BeliefTracksDriver

\* uplinkReady never loses track of the radio: whatever the two tasks and the
\* driver do, handling the events still queued makes it exact.
THEOREM BeliefCorrect == Spec => []BeliefTracksDriver
<1>1. Init => BeliefTracksDriver
  <2> SUFFICES ASSUME Init PROVE BeliefTracksDriver
    OBVIOUS
  <2>1. Len(events) = 0
    BY DEF Init, DriverInit
  <2>2. uplinkReady = FALSE /\ sta # "up"
    BY DEF Init, DriverInit
  <2>3. 1..Len(events) = {}
    BY <2>1
  <2> QED BY <2>2, <2>3 DEF BeliefTracksDriver, FlagAfterQueue
<1>2. TypeOK /\ BeliefTracksDriver /\ [Next]_vars => BeliefTracksDriver'
  <2> SUFFICES ASSUME TypeOK, BeliefTracksDriver, [Next]_vars
               PROVE  BeliefTracksDriver'
    OBVIOUS
  <2>1. CASE onWiFiEvent
    BY <2>1, HandlerBelieved
  <2>2. CASE Driver
    BY <2>2, DriverBelieved DEF Driver, flagVars
  <2>3. CASE Recover
    BY <2>3, AbortBelieved DEF Recover, WiFiDisconnect
  <2>4. CASE Dial
    BY <2>4, AbortBelieved DEF Dial, WiFiRedial, flagVars
  <2>5. CASE LoopOnly \/ Tick \/ UNCHANGED vars
    <3>1. UNCHANGED <<sta, events, uplinkReady>>
      BY <2>5, LoopOnlyKeeps DEF Tick, vars, flagVars, driverVars
    <3> QED BY <3>1 DEF BeliefTracksDriver, FlagAfterQueue, LastIpEvent
  <2> QED BY <2>1, <2>2, <2>3, <2>4, <2>5 DEF Next, loop, LoopOnly
<1> QED BY <1>1, <1>2, TypeCorrect, PTL DEF Spec

-----------------------------------------------------------------------------
(* What the firmware believes about the association.                       *)

\* Every queued event of A has one of B behind it.
Followed(A, B) ==
  \A k \in 1..Len(events) : events[k] \in A =>
    \E j \in 1..Len(events) : j > k /\ events[j] \in B

\* Handling the oldest event keeps what stands behind the others.
LEMMA TailFollowed ==
  ASSUME events \in Seq(StaEvents), events # <<>>, events' = Tail(events),
         NEW A, NEW B, Followed(A, B)
  PROVE  Followed(A, B)'
<1>1. /\ Len(events) \in Nat
      /\ Len(events') = Len(events) - 1
      /\ \A k \in 1..Len(events') : events'[k] = events[k + 1]
  OBVIOUS
<1> SUFFICES ASSUME NEW k \in 1..Len(events'), events'[k] \in A
             PROVE  \E j \in 1..Len(events') : j > k /\ events'[j] \in B
  BY DEF Followed
<1>2. k + 1 \in 1..Len(events) /\ events[k + 1] \in A
  BY <1>1
<1>3. PICK j \in 1..Len(events) : j > k + 1 /\ events[j] \in B
  BY <1>2 DEF Followed
<1>4. j - 1 \in 1..Len(events') /\ j - 1 > k /\ events'[j - 1] = events[j]
  BY <1>1, <1>3
<1> QED BY <1>3, <1>4

\* So does posting one that is of B, or that is not of A.
LEMMA PostFollowed ==
  ASSUME events \in Seq(StaEvents), NEW e, events' = Append(events, e),
         NEW A, NEW B, e \notin A, e \in B \/ Followed(A, B)
  PROVE  Followed(A, B)'
<1>1. /\ Len(events) \in Nat
      /\ Len(events') = Len(events) + 1
      /\ events'[Len(events) + 1] = e
      /\ \A k \in 1..Len(events) : events'[k] = events[k]
  OBVIOUS
<1> SUFFICES ASSUME NEW k \in 1..Len(events'), events'[k] \in A
             PROVE  \E j \in 1..Len(events') : j > k /\ events'[j] \in B
  BY DEF Followed
<1>2. k \in 1..Len(events) /\ events[k] \in A
  BY <1>1
<1>3. CASE e \in B
  <2>1. Len(events) + 1 \in 1..Len(events') /\ Len(events) + 1 > k
    BY <1>1, <1>2
  <2> QED BY <1>1, <1>3, <2>1
<1>4. CASE Followed(A, B)
  <2>1. PICK j \in 1..Len(events) : j > k /\ events[j] \in B
    BY <1>2, <1>4 DEF Followed
  <2>2. j \in 1..Len(events') /\ events'[j] = events[j]
    BY <1>1, <2>1
  <2> QED BY <2>1, <2>2
<1> QED BY <1>3, <1>4

\* An abort posts a Disconnected, or nothing if the radio was idle.
LEMMA AbortPosts ==
  ASSUME events \in Seq(StaEvents), events' = events \o AbortEvents
  PROVE  \/ sta = "idle" /\ events' = events
         \/ sta # "idle" /\ events' = Append(events, Disconnected)
BY DEF AbortEvents

\* The queued events that end an association.
Drops == {Disconnected, LostIp}

LEMMA AssociationKinds ==
  /\ Drops \subseteq StaEvents
  /\ Disconnected \in Drops /\ LostIp \in Drops
  /\ Associated \notin Drops /\ GotIp \notin Drops
  /\ AssociationEvents = {Associated} \cup Drops
  /\ Disconnected # Associated /\ GotIp # Associated /\ LostIp # Associated
  /\ Disconnected # GotIp /\ Disconnected # LostIp
BY DEF Drops, StaEvents, AssociationEvents, Associated, GotIp, Disconnected, LostIp

DropQueued == \E k \in 1..Len(events) : events[k] \in Drops

\* The inductive form of AssociationNotInvented: with no association, the end of
\* every one the firmware has heard of, or is about to hear of, is queued.
EndQueued ==
  sta \notin {"associated", "up"} =>
    Followed({Associated}, Drops) /\ (attemptAssociated => DropQueued)

\* And with one, no end of an earlier one stands last in the queue.
BeginQueued == sta \in {"associated", "up"} => Followed({Disconnected}, {Associated})

\* The handlers keep both: each does to attemptAssociated what its event says.
LEMMA HandlerAssociation ==
  ASSUME TypeOK, EndQueued, BeginQueued, onWiFiEvent
  PROVE  EndQueued' /\ BeginQueued'
<1>1. /\ events \in Seq(StaEvents) /\ events # <<>>
      /\ events' = Tail(events) /\ sta' = sta
  BY DEF TypeOK, DriverTypeOK, onWiFiEvent, OnStaConnected, OnStaGotIp, OnUplinkLost,
         NextEvent
<1>2. BeginQueued'
  BY <1>1, TailFollowed DEF BeginQueued
<1>3. ASSUME sta \notin {"associated", "up"}
      PROVE  Followed({Associated}, Drops)' /\ (attemptAssociated' => DropQueued')
  <2>1. Followed({Associated}, Drops) /\ (attemptAssociated => DropQueued)
    BY <1>3 DEF EndQueued
  <2>2. Followed({Associated}, Drops)'
    BY <1>1, <2>1, TailFollowed
  <2>3. /\ Len(events) \in Nat /\ Len(events) >= 1
        /\ Len(events') = Len(events) - 1
        /\ \A k \in 1..Len(events') : events'[k] = events[k + 1]
        /\ Head(events) = events[1]
    BY <1>1
  <2>4. ASSUME NEW k \in 1..Len(events), k > 1, events[k] \in Drops
        PROVE  DropQueued'
    <3>1. k - 1 \in 1..Len(events') /\ events'[k - 1] = events[k]
      BY <2>3, <2>4
    <3> QED BY <2>4, <3>1 DEF DropQueued
  <2>5. CASE OnStaConnected
    <3>1. events[1] = Associated
      BY <2>3, <2>5 DEF OnStaConnected, NextEvent
    <3>2. 1 \in 1..Len(events)
      BY <2>3
    <3>3. PICK k \in 1..Len(events) : k > 1 /\ events[k] \in Drops
      BY <2>1, <3>1, <3>2 DEF Followed
    <3> QED BY <2>2, <2>4, <3>3
  <2>6. CASE OnStaGotIp
    <3>1. events[1] \notin Drops /\ attemptAssociated' = attemptAssociated
      BY <2>3, <2>6, AssociationKinds DEF OnStaGotIp, NextEvent, AttemptOver
    <3>2. ASSUME attemptAssociated PROVE DropQueued'
      <4>1. PICK k \in 1..Len(events) : events[k] \in Drops
        BY <2>1, <3>2 DEF DropQueued
      <4>2. k > 1
        BY <3>1, <4>1
      <4> QED BY <2>4, <4>1, <4>2
    <3> QED BY <2>2, <3>1, <3>2
  <2>7. CASE OnUplinkLost
    BY <2>2, <2>7 DEF OnUplinkLost, LossNoted
  <2> QED BY <2>5, <2>6, <2>7 DEF onWiFiEvent
<1> QED BY <1>1, <1>2, <1>3 DEF EndQueued

\* Posting the end of an association, the radio leaving it with the same step.
LEMMA EndPosted ==
  ASSUME events \in Seq(StaEvents), events' = Append(events, Disconnected),
         sta' \notin {"associated", "up"}
  PROVE  EndQueued' /\ BeginQueued'
<1>1. Followed({Associated}, Drops)'
  BY PostFollowed, AssociationKinds
<1>2. Len(events) + 1 \in 1..Len(events') /\ events'[Len(events) + 1] = Disconnected
  OBVIOUS
<1>3. DropQueued'
  BY <1>2, AssociationKinds DEF DropQueued
<1> QED BY <1>1, <1>3 DEF EndQueued, BeginQueued

\* The driver's own steps keep both.
LEMMA DriverAssociation ==
  ASSUME TypeOK, EndQueued, BeginQueued, DriverNext,
         attemptAssociated' = attemptAssociated
  PROVE  EndQueued' /\ BeginQueued'
<1>1. events \in Seq(StaEvents)
  BY DEF TypeOK, DriverTypeOK
<1>2. CASE Associate
  <2>1. sta' = "associated" /\ events' = Append(events, Associated)
    BY <1>2 DEF Associate, Post
  <2>2. Followed({Disconnected}, {Associated})'
    BY <1>1, <2>1, PostFollowed, AssociationKinds
  <2> QED BY <2>1, <2>2 DEF EndQueued, BeginQueued
<1>3. CASE AcquireIp \/ LeaseExpires
  <2>1. /\ sta \in {"associated", "up"} /\ sta' \in {"associated", "up"}
        /\ events' = Append(events, GotIp) \/ events' = Append(events, LostIp)
    BY <1>3 DEF AcquireIp, LeaseExpires, Post
  <2>2. Followed({Disconnected}, {Associated})'
    BY <1>1, <2>1, PostFollowed, AssociationKinds DEF BeginQueued
  <2> QED BY <2>1, <2>2 DEF EndQueued, BeginQueued
<1>4. CASE BssidFails \/ OutOfCandidates \/ LinkDrops
  <2>1. sta' \notin {"associated", "up"} /\ events' = Append(events, Disconnected)
    BY <1>4 DEF BssidFails, OutOfCandidates, LinkDrops, Post
  <2> QED BY <1>1, <2>1, EndPosted
<1>5. CASE SilentFailure
  BY <1>5 DEF SilentFailure, EndQueued, BeginQueued, Followed, DropQueued
<1>6. CASE IpLostTimerFires
  <2>1. sta' = sta /\ events' = Append(events, LostIp)
    BY <1>6 DEF IpLostTimerFires, Post
  <2>2. BeginQueued'
    BY <1>1, <2>1, PostFollowed, AssociationKinds DEF BeginQueued
  <2>3. Followed({Associated}, Drops)'
    BY <1>1, <2>1, PostFollowed, AssociationKinds
  <2>4. Len(events) + 1 \in 1..Len(events') /\ events'[Len(events) + 1] = LostIp
    BY <1>1, <2>1
  <2>5. DropQueued'
    BY <2>4, AssociationKinds DEF DropQueued
  <2> QED BY <2>2, <2>3, <2>5 DEF EndQueued
<1> QED BY <1>2, <1>3, <1>4, <1>5, <1>6 DEF DriverNext

\* So do the firmware's two aborts.
LEMMA AbortAssociation ==
  ASSUME TypeOK, EndQueued, events' = events \o AbortEvents,
         sta' \notin {"associated", "up"}, attemptAssociated' = attemptAssociated
  PROVE  EndQueued' /\ BeginQueued'
<1>1. events \in Seq(StaEvents)
  BY DEF TypeOK, DriverTypeOK
<1>2. CASE sta = "idle" /\ events' = events
  BY <1>2 DEF EndQueued, BeginQueued, Followed, DropQueued
<1>3. CASE sta # "idle" /\ events' = Append(events, Disconnected)
  BY <1>1, <1>3, EndPosted
<1> QED BY <1>1, <1>2, <1>3, AbortPosts

LEMMA AssociationStep ==
  ASSUME TypeOK, EndQueued, BeginQueued, [Next]_vars
  PROVE  EndQueued' /\ BeginQueued'
<1>1. CASE onWiFiEvent
  BY <1>1, HandlerAssociation
<1>2. CASE Driver
  BY <1>2, DriverAssociation DEF Driver, flagVars
<1>3. CASE Recover
  <2>1. /\ events' = events \o AbortEvents
        /\ sta' = "idle" /\ attemptAssociated' = attemptAssociated
    BY <1>3 DEF Recover, WiFiDisconnect
  <2> QED BY <2>1, AbortAssociation
<1>4. CASE Dial
  <2>1. /\ events' = events \o AbortEvents
        /\ sta' = "connecting" /\ attemptAssociated' = attemptAssociated
    BY <1>4 DEF Dial, WiFiRedial, flagVars
  <2> QED BY <2>1, AbortAssociation
<1>5. CASE LoopOnly \/ Tick \/ UNCHANGED vars
  <2>1. /\ UNCHANGED <<sta, events>>
        /\ attemptAssociated' = attemptAssociated \/ attemptAssociated' = FALSE
    BY <1>5, LoopOnlyKeeps DEF Tick, vars, flagVars, driverVars
  <2> QED BY <2>1 DEF EndQueued, BeginQueued, Followed, DropQueued
<1> QED BY <1>1, <1>2, <1>3, <1>4, <1>5 DEF Next, loop, LoopOnly

\* Both hold of every reachable state.
LEMMA AssociationInvariant == Spec => [](EndQueued /\ BeginQueued)
<1>1. Init => EndQueued /\ BeginQueued
  <2> SUFFICES ASSUME Init PROVE EndQueued /\ BeginQueued
    OBVIOUS
  <2>1. Len(events) = 0 /\ sta = "idle" /\ ~attemptAssociated
    BY DEF Init, DriverInit
  <2> QED BY <2>1 DEF EndQueued, BeginQueued, Followed
<1> QED BY <1>1, AssociationStep, TypeCorrect, PTL DEF Spec

\* No event of an earlier link or candidate makes the supervisor take an attempt
\* for an associated one, whatever is still queued (main.cpp:238-241, 274, 487).
THEOREM NoInventedAssociation == Spec => []AssociationNotInvented
<1>1. TypeOK /\ EndQueued => AssociationNotInvented
  <2> SUFFICES ASSUME TypeOK, EndQueued, sta \notin {"associated", "up"}
      PROVE /\ \A k \in 1..Len(events) : LastAssociationEvent(k) => events[k] # Associated
            /\ (\A k \in 1..Len(events) : events[k] \notin AssociationEvents)
                  => ~attemptAssociated
    BY DEF AssociationNotInvented
  <2>1. Followed({Associated}, Drops) /\ (attemptAssociated => DropQueued)
    BY DEF EndQueued
  <2>2. ASSUME NEW k \in 1..Len(events), LastAssociationEvent(k), events[k] = Associated
        PROVE  FALSE
    <3>1. PICK j \in 1..Len(events) : j > k /\ events[j] \in Drops
      BY <2>1, <2>2 DEF Followed
    <3> QED BY <2>2, <3>1, AssociationKinds DEF LastAssociationEvent
  <2>3. ASSUME \A k \in 1..Len(events) : events[k] \notin AssociationEvents,
               attemptAssociated
        PROVE  FALSE
    BY <2>1, <2>3, AssociationKinds DEF DropQueued
  <2> QED BY <2>2, <2>3
<1> QED BY <1>1, TypeCorrect, AssociationInvariant, PTL

\* An association is forgotten only by a LOST_IP, by the next attempt or with its
\* own STA_CONNECTED still queued (main.cpp:181-188, 261-274).
THEOREM ForgottenOnlyByLostIp == Spec => AssociationForgotten
<1>1. TypeOK /\ EndQueued /\ BeginQueued /\ [Next]_vars
        => [/\ attemptAssociated /\ ~attemptAssociated'
            /\ sta' \in {"associated", "up"}
            => \/ NextEvent(LostIp)
               \/ ResetAttempt
               \/ \E k \in 1..Len(events') : events'[k] = Associated]_vars
  <2> SUFFICES ASSUME TypeOK, BeginQueued, [Next]_vars,
                      attemptAssociated, ~attemptAssociated', sta' \in {"associated", "up"},
                      ~NextEvent(LostIp), ~ResetAttempt
               PROVE  \E k \in 1..Len(events') : events'[k] = Associated
    OBVIOUS
  <2>1. OnUplinkLost
    BY LoopOnlyKeeps
    DEF Next, onWiFiEvent, loop, LoopOnly, OnStaConnected, OnStaGotIp, AttemptOver, Recover,
        Dial, Tick, Driver, vars, flagVars
  <2>2. /\ events \in Seq(StaEvents) /\ events # <<>>
        /\ events' = Tail(events) /\ sta' = sta /\ Head(events) = Disconnected
    BY <2>1 DEF OnUplinkLost, NextEvent, TypeOK, DriverTypeOK
  <2>3. /\ Len(events) \in Nat /\ Len(events) >= 1
        /\ Len(events') = Len(events) - 1
        /\ \A k \in 1..Len(events') : events'[k] = events[k + 1]
        /\ events[1] = Disconnected
    BY <2>2
  <2>4. PICK j \in 1..Len(events) : j > 1 /\ events[j] = Associated
    BY <2>2, <2>3 DEF BeginQueued, Followed
  <2>5. j - 1 \in 1..Len(events') /\ events'[j - 1] = Associated
    BY <2>3, <2>4
  <2> QED BY <2>5
<1> QED BY <1>1, TypeCorrect, AssociationInvariant, PTL DEF Spec, AssociationForgotten

-----------------------------------------------------------------------------
(* The composition with the switching of NAPT.                             *)

\* What the mapping to Uplink counts on.  Only a handler that was interrupted
\* remembers the flag it found, and till it ends nobody raises the flag: the one
\* handler that does would have to run in its place.
Apart ==
  /\ uplinkReady \in BOOLEAN /\ readyBefore \in BOOLEAN
  /\ handling \in {Idle, Disconnected, LostIp}
  /\ handling = Idle => ~readyBefore
  /\ handling # Idle => ~uplinkReady

Mappable == events \in Seq(StaEvents) /\ Apart

LEMMA Kinds ==
  /\ {Associated, GotIp, Disconnected, LostIp} = StaEvents
  /\ Disconnected # Idle /\ LostIp # Idle
BY DEF StaEvents, Associated, GotIp, Disconnected, LostIp, Idle

\* The queue holds events, whoever writes to it.
LEMMA QueueKept ==
  ASSUME events \in Seq(StaEvents), RouterNext
  PROVE  events' \in Seq(StaEvents)
<1>1. CASE DriverNext
  <2>1. \/ events' = events
        \/ \E e \in StaEvents : events' = Append(events, e)
    BY <1>1, Kinds DEF DriverNext, Associate, AcquireIp, BssidFails, OutOfCandidates,
                       SilentFailure, LinkDrops, LeaseExpires, IpLostTimerFires, Post
  <2> QED BY <2>1
<1>2. CASE \E e : NextEvent(e)
  BY <1>2 DEF NextEvent
<1>3. CASE Recover \/ Dial
  <2>1. events' = events \o AbortEvents
    BY <1>3 DEF Recover, Dial, WiFiDisconnect, WiFiRedial
  <2>2. AbortEvents \in Seq(StaEvents)
    BY Kinds DEF AbortEvents
  <2> QED BY <2>1, <2>2
<1>4. CASE UNCHANGED events
  BY <1>4
<1>5. CASE Outside
  BY <1>1, <1>4, <1>5 DEF Outside, Driver, Tick, vars, driverVars
<1>6. CASE EventTask
  BY <1>2, <1>4, <1>6 DEF EventTask, HandleAtOnce, LossBegins, LossEnds, OnStaConnected,
                          OnStaGotIp, OnUplinkLost, driverVars
<1>7. CASE Reconcile
  BY <1>4, <1>7 DEF Reconcile, Decide, EnableFails, EnableWorks, Enabled, Disable,
                    Disabled, NaptStep, vars, driverVars
<1>8. CASE Supervise
  BY <1>3, <1>4, <1>8, LoopOnlyKeeps DEF Supervise, loop, LoopOnly
<1> QED BY <1>5, <1>6, <1>7, <1>8 DEF RouterNext, RouterLoop

\* Who writes the flag, and who remembers what it was.
LEMMA ApartKept ==
  ASSUME Apart, [RouterNext]_routerVars
  PROVE  Apart'
<1> USE DEF Apart, handlerVars, flagVars
<1>1. CASE Outside
  BY <1>1 DEF Outside, Driver, Tick, vars
<1>2. CASE HandleAtOnce
  BY <1>2 DEF HandleAtOnce, OnStaConnected, OnStaGotIp, OnUplinkLost, FlagAfterLoss
<1>3. CASE LossBegins
  BY <1>3, Kinds DEF LossBegins
<1>4. CASE LossEnds
  BY <1>4 DEF LossEnds
<1>5. CASE Reconcile
  BY <1>5 DEF Reconcile, Decide, EnableFails, EnableWorks, Enabled, Disable,
              Disabled, NaptStep, vars
<1>6. CASE Supervise
  <2>1. handling' = handling /\ readyBefore' = (readyBefore /\ loopAt # "recover")
    BY <1>6 DEF Supervise
  <2>2. uplinkReady' = uplinkReady \/ uplinkReady' = FALSE
    BY <1>6, LoopOnlyKeeps DEF Supervise, loop, LoopOnly, Recover, Dial
  <2>3. readyBefore' \in BOOLEAN /\ (readyBefore' => readyBefore)
    BY <2>1
  <2>4. uplinkReady' \in BOOLEAN /\ (uplinkReady' => uplinkReady)
    <3>1. CASE uplinkReady' = uplinkReady
      BY <3>1
    <3>2. CASE uplinkReady' = FALSE
      BY <3>2
    <3> QED BY <2>2, <3>1, <3>2
  <2>5. handling' = handling
    BY <2>1
  <2> HIDE <2>1, <2>2
  <2> QED BY <2>3, <2>4, <2>5
<1>7. CASE UNCHANGED routerVars
  BY <1>7 DEF routerVars, vars
<1> QED BY <1>1, <1>2, <1>3, <1>4, <1>5, <1>6, <1>7 DEF RouterNext, EventTask, RouterLoop

LEMMA MappableHolds == RouterSpec => []Mappable
<1>1. RouterInit => Mappable
  <2> SUFFICES ASSUME RouterInit PROVE Mappable
    OBVIOUS
  <2>1. events = <<>>
    BY DEF RouterInit, Init, DriverInit
  <2>2. Apart
    BY DEF RouterInit, Init, Apart
  <2> QED BY <2>1, <2>2 DEF Mappable
<1>2. Mappable /\ [RouterNext]_routerVars => Mappable'
  <2>1. CASE UNCHANGED routerVars
    BY <2>1, ApartKept DEF Mappable, routerVars, vars, driverVars
  <2> QED BY <2>1, QueueKept, ApartKept DEF Mappable
<1> QED BY <1>1, <1>2, PTL DEF RouterSpec

-----------------------------------------------------------------------------
(* Each step is one of Uplink's, or none.                                  *)

\* The supervisor's flag as Uplink sees it.
Ready == uplinkReady \/ readyBefore

\* What the steps that leave the handler alone do to the queue.
LEMMA QueueMapped ==
  ASSUME events \in Seq(StaEvents), UNCHANGED handling
  PROVE  /\ events' = events => Unhandled' = Unhandled
         /\ \A e \in StaEvents : events' = Append(events, e)
                                  => Unhandled' = Append(Unhandled, e)
         /\ events' = events \o AbortEvents => Unhandled' = Unhandled \o AbortEvents
         /\ Room => Len(Unhandled) < QueueLen + 1
<1> Len(events) \in Nat
  OBVIOUS
<1>1. CASE handling = Idle
  BY <1>1, QueueLenAssumption DEF Unhandled, Room
<1>2. CASE handling # Idle
  <2>1. Unhandled = <<handling>> \o events /\ Unhandled' = <<handling>> \o events'
    BY <1>2 DEF Unhandled
  <2>2. Room => Len(Unhandled) < QueueLen + 1
    BY <2>1, QueueLenAssumption DEF Room
  <2>3. ASSUME NEW e \in StaEvents, events' = Append(events, e)
        PROVE  Unhandled' = Append(Unhandled, e)
    BY <2>1, <2>3
  <2>4. ASSUME events' = events \o AbortEvents
        PROVE  Unhandled' = Unhandled \o AbortEvents
    <3>1. CASE sta = "idle"
      BY <2>1, <2>4, <3>1 DEF AbortEvents
    <3>2. CASE sta # "idle"
      BY <2>1, <2>4, <3>2 DEF AbortEvents
    <3> QED BY <3>1, <3>2
  <2> QED BY <2>1, <2>2, <2>3, <2>4
<1> QED BY <1>1, <1>2

LEMMA DriverMapped ==
  ASSUME Mappable, Driver, UNCHANGED handlerVars
  PROVE  AtOnce!Driver
<1>1. events \in Seq(StaEvents) /\ UNCHANGED <<handling, Ready>>
  BY DEF Mappable, Driver, handlerVars, flagVars, Ready
<1>2. ASSUME NEW e \in StaEvents, Post(e) PROVE AtOnce!Post(e)
  BY <1>1, <1>2, QueueMapped DEF Post, AtOnce!Post, AtOnce!Room
<1>3. AtOnce!DriverNext
  <2> USE <1>2, Kinds DEF Associated, GotIp, Disconnected, LostIp,
          AtOnce!Associated, AtOnce!GotIp, AtOnce!Disconnected, AtOnce!LostIp,
          AtOnce!DriverNext
  <2>1. CASE Associate
    BY <2>1 DEF Associate, AtOnce!Associate
  <2>2. CASE AcquireIp
    BY <2>2 DEF AcquireIp, AtOnce!AcquireIp
  <2>3. CASE BssidFails
    BY <2>3 DEF BssidFails, AtOnce!BssidFails
  <2>4. CASE OutOfCandidates
    BY <2>4 DEF OutOfCandidates, AtOnce!OutOfCandidates
  <2>5. CASE SilentFailure
    BY <1>1, <2>5, QueueMapped DEF SilentFailure, AtOnce!SilentFailure
  <2>6. CASE LinkDrops
    BY <2>6 DEF LinkDrops, AtOnce!LinkDrops
  <2>7. CASE LeaseExpires
    BY <2>7 DEF LeaseExpires, AtOnce!LeaseExpires
  <2>8. CASE IpLostTimerFires
    BY <2>8 DEF IpLostTimerFires, AtOnce!IpLostTimerFires
  <2> QED BY <2>1, <2>2, <2>3, <2>4, <2>5, <2>6, <2>7, <2>8 DEF Driver, DriverNext
<1> QED
  BY <1>1, <1>3 DEF Driver, AtOnce!Driver, Ready, flagVars, timerVars, retryVars,
                    AtOnce!flagVars, AtOnce!timerVars, AtOnce!retryVars

\* A handler in one step, or the first half of one, which changes nothing yet.
LEMMA EventMapped ==
  ASSUME Mappable, EventTask
  PROVE  \/ AtOnce!onWiFiEvent
         \/ UNCHANGED <<Unhandled, Ready>> /\ LossBegins
<1>1. events \in Seq(StaEvents) /\ Apart
  BY DEF Mappable
<1>2. CASE HandleAtOnce
  <2>1. /\ Unhandled = events /\ Unhandled' = events'
        /\ ~readyBefore /\ ~readyBefore' /\ readyBefore' = readyBefore
    BY <1>1, <1>2 DEF HandleAtOnce, handlerVars, Unhandled, Apart
  <2>2. ASSUME NEW e, NextEvent(e) PROVE AtOnce!NextEvent(e)
    BY <2>1, <2>2 DEF NextEvent, AtOnce!NextEvent
  <2>3. CASE OnStaConnected
    BY <2>1, <2>2, <2>3
    DEF OnStaConnected, AtOnce!OnStaConnected, AtOnce!onWiFiEvent, Associated,
        AtOnce!Associated, timerVars, retryVars, AtOnce!timerVars, AtOnce!retryVars
  <2>4. CASE OnStaGotIp
    BY <2>1, <2>2, <2>4
    DEF OnStaGotIp, AtOnce!OnStaGotIp, AtOnce!onWiFiEvent, GotIp, AtOnce!GotIp,
        AttemptOver, AtOnce!AttemptOver, timerVars, AtOnce!timerVars
  <2>5. CASE OnUplinkLost
    <3>1. AtOnce!NextEvent(Disconnected) \/ AtOnce!NextEvent(LostIp)
      BY <2>2, <2>5 DEF OnUplinkLost
    <3>2. (uplinkReady \/ readyBefore)' = FALSE
      BY <2>1, <2>5 DEF OnUplinkLost, FlagAfterLoss
    <3> QED
      BY <2>5, <3>1, <3>2
      DEF OnUplinkLost, AtOnce!OnUplinkLost, AtOnce!onWiFiEvent, Disconnected, LostIp,
          AtOnce!Disconnected, AtOnce!LostIp, LossNoted, AtOnce!LossNoted,
          RetryUnlessDialling, AtOnce!RetryUnlessDialling, scheduleReconnect,
          AtOnce!scheduleReconnect, SetRetry, AtOnce!SetRetry, BackOff, AtOnce!BackOff,
          AtMost, AtOnce!AtMost, AtOnce!FlagAfterLoss,
          retryVars, AtOnce!retryVars
  <2> QED BY <1>2, <2>3, <2>4, <2>5 DEF HandleAtOnce
<1>3. CASE LossBegins
  <2>1. PICK e \in {Disconnected, LostIp} : NextEvent(e) /\ handling' = e
    BY <1>3 DEF LossBegins
  <2>2. Unhandled = events /\ Unhandled' = <<e>> \o Tail(events) /\ events = <<e>> \o Tail(events)
    BY <1>1, <1>3, <2>1, Kinds DEF LossBegins, NextEvent, Unhandled
  <2>3. ~readyBefore /\ ~uplinkReady' /\ readyBefore' = uplinkReady
    BY <1>1, <1>3 DEF LossBegins, Apart
  <2>4. UNCHANGED Ready
    BY <1>1, <2>3 DEF Ready, Apart
  <2> QED BY <1>3, <2>2, <2>4
<1>4. CASE LossEnds
  <2>1. /\ handling \in {Disconnected, LostIp}
        /\ Unhandled = <<handling>> \o events /\ Unhandled' = events
    BY <1>1, <1>4 DEF LossEnds, Apart, Unhandled, driverVars
  <2>2. Unhandled # <<>> /\ Head(Unhandled) = handling /\ Tail(Unhandled) = events
    BY <1>1, <2>1
  <2>3. AtOnce!NextEvent(handling)
    BY <1>4, <2>1, <2>2 DEF AtOnce!NextEvent, LossEnds, driverVars
  <2>4. (uplinkReady \/ readyBefore)' = FALSE
    BY <1>1, <1>4 DEF LossEnds, Apart
  <2> QED
    BY <1>4, <2>1, <2>3, <2>4
    DEF LossEnds, NoteLoss, AtOnce!OnUplinkLost, AtOnce!onWiFiEvent, Disconnected, LostIp,
        AtOnce!Disconnected, AtOnce!LostIp, LossNoted, AtOnce!LossNoted,
        RetryUnlessDialling, AtOnce!RetryUnlessDialling, scheduleReconnect,
        AtOnce!scheduleReconnect, SetRetry, AtOnce!SetRetry, BackOff, AtOnce!BackOff,
        AtMost, AtOnce!AtMost, AtOnce!FlagAfterLoss,
        retryVars, AtOnce!retryVars
<1> QED BY <1>2, <1>3, <1>4 DEF EventTask

\* A step of loop() after reconcileNapt.  Its flag test may find a loss that
\* Uplink has not handled yet: there the probes' verdict decides instead.
LEMMA LoopMapped ==
  ASSUME Mappable, Supervise
  PROVE  AtOnce!loop
<1> USE DEF Goto, AtOnce!Goto, AtOnce!loop, flagVars, timerVars, retryVars, driverVars,
        AtOnce!flagVars, AtOnce!timerVars, AtOnce!retryVars, AtOnce!driverVars
<1>1. /\ events \in Seq(StaEvents) /\ Apart
      /\ handling' = handling /\ readyBefore' = (readyBefore /\ loopAt # "recover")
  BY DEF Mappable, Supervise
<1>2. loopAt # "recover" => readyBefore' = readyBefore
  BY <1>1 DEF Apart
<1>3. events' = events => Unhandled' = Unhandled
  BY <1>1, QueueMapped
<1>4. CASE RecoverTest
  <2>1. UNCHANGED <<uplinkReady, readyBefore, Unhandled>>
    BY <1>2, <1>3, <1>4 DEF RecoverTest
  <2>2. CASE uplinkReady /\ loopAt' = "recover"
    BY <1>4, <2>1, <2>2 DEF RecoverTest, AtOnce!RecoverTest
  <2>3. CASE loopAt' = "deadline"
    <3>1. loopAt = "recoverTest" /\ UNCHANGED <<flagVars, timerVars, retryVars, driverVars>>
      BY <1>4 DEF RecoverTest
    <3>2. \E unreachable \in BOOLEAN :
            IF (uplinkReady \/ readyBefore) /\ unreachable
              THEN AtOnce!Goto("recoverTest", "recover")
              ELSE AtOnce!Goto("recoverTest", "deadline")
      <4> WITNESS FALSE \in BOOLEAN
      <4> QED BY <2>3, <3>1
    <3> QED BY <2>1, <3>1, <3>2 DEF AtOnce!RecoverTest
  <2>4. \/ uplinkReady /\ loopAt' = "recover"
        \/ loopAt' = "deadline"
    <3>1. PICK unreachable \in BOOLEAN :
            IF uplinkReady /\ unreachable THEN Goto("recoverTest", "recover")
                                          ELSE Goto("recoverTest", "deadline")
      BY <1>4 DEF RecoverTest
    <3>2. CASE uplinkReady /\ unreachable
      BY <3>1, <3>2
    <3>3. CASE ~(uplinkReady /\ unreachable)
      BY <3>1, <3>3
    <3> QED BY <3>2, <3>3
  <2> QED BY <2>2, <2>3, <2>4
<1>5. CASE Recover
  <2>1. ~uplinkReady' /\ ~readyBefore'
    BY <1>1, <1>5 DEF Recover
  <2>2. AtOnce!WiFiDisconnect
    BY <1>1, <1>5, QueueMapped
    DEF Recover, WiFiDisconnect, AtOnce!WiFiDisconnect, AtOnce!Room, AbortEvents,
        AtOnce!AbortEvents, Disconnected, AtOnce!Disconnected
  <2> QED BY <1>5, <2>1, <2>2 DEF Recover, AtOnce!Recover
<1>6. CASE ScheduleLost
  BY <1>2, <1>3, <1>6 DEF ScheduleLost, AtOnce!ScheduleLost, SetRetry, AtOnce!SetRetry
<1>7. CASE BackOffLost \/ BackOffAbandoned
  BY <1>2, <1>3, <1>7
  DEF BackOffLost, AtOnce!BackOffLost, BackOffAbandoned, AtOnce!BackOffAbandoned, BackOff,
      AtOnce!BackOff, AtMost, AtOnce!AtMost
<1>8. CASE DeadlineTest
  BY <1>2, <1>3, <1>8 DEF DeadlineTest, AtOnce!DeadlineTest, HardTimeout, AskQuiet, Never,
                     AtOnce!HardTimeout, AtOnce!AskQuiet, AtOnce!Never
<1>9. CASE QuietTest
  BY <1>2, <1>3, <1>9 DEF QuietTest, AtOnce!QuietTest
<1>10. CASE Abandon
  BY <1>2, <1>3, <1>10 DEF Abandon, AtOnce!Abandon
<1>11. CASE ScheduleAbandoned
  BY <1>2, <1>3, <1>11 DEF ScheduleAbandoned, AtOnce!ScheduleAbandoned, SetRetry,
                     AtOnce!SetRetry
<1>12. CASE RetryDue
  BY <1>2, <1>3, <1>12 DEF RetryDue, AtOnce!RetryDue
<1>13. CASE StartAttempt
  BY <1>2, <1>3, <1>13 DEF StartAttempt, AtOnce!StartAttempt
<1>14. CASE ResetAttempt
  BY <1>2, <1>3, <1>14 DEF ResetAttempt, AtOnce!ResetAttempt, Never, AtOnce!Never
<1>15. CASE Dial
  <2>1. UNCHANGED <<uplinkReady, readyBefore>>
    BY <1>2, <1>15 DEF Dial
  <2>2. AtOnce!WiFiRedial
    BY <1>1, <1>15, QueueMapped
    DEF Dial, WiFiRedial, AtOnce!WiFiRedial, AtOnce!Room, AbortEvents,
        AtOnce!AbortEvents, Disconnected, AtOnce!Disconnected
  <2> QED BY <1>15, <2>1, <2>2 DEF Dial, AtOnce!Dial
<1> QED
  BY <1>4, <1>5, <1>6, <1>7, <1>8, <1>9, <1>10, <1>11, <1>12, <1>13, <1>14, <1>15
     DEF Supervise, loop

\* Whatever interrupts the handler of a loss, the supervisor does what it does in
\* module Uplink, where no handler is interrupted.
THEOREM CompositionKeepsSupervisor == RouterSpec => SupervisorKept
<1>1. RouterInit => AtOnce!Init
  <2> SUFFICES ASSUME RouterInit PROVE AtOnce!Init
    OBVIOUS
  <2>1. Unhandled = <<>> /\ (uplinkReady \/ readyBefore) = FALSE
    BY DEF RouterInit, Init, DriverInit, Unhandled
  <2> QED BY <2>1 DEF RouterInit, Init, DriverInit, AtOnce!Init, AtOnce!DriverInit,
                      Never, AtOnce!Never
<1>2. Mappable /\ [RouterNext]_routerVars => [AtOnce!Next]_AtOnce!vars
  <2> SUFFICES ASSUME Mappable, [RouterNext]_routerVars
               PROVE  AtOnce!Next \/ UNCHANGED AtOnce!vars
    BY DEF AtOnce!vars
  <2> USE DEF AtOnce!vars, AtOnce!flagVars, AtOnce!timerVars, AtOnce!retryVars,
              AtOnce!driverVars
  <2>1. CASE UNCHANGED vars /\ UNCHANGED handlerVars
    BY <2>1 DEF vars, flagVars, timerVars, retryVars, driverVars, handlerVars, Unhandled
  <2>2. CASE Outside
    <3>1. CASE Driver /\ UNCHANGED handlerVars
      BY <3>1, DriverMapped DEF AtOnce!Next
    <3>2. CASE Tick /\ UNCHANGED handlerVars
      BY <3>2 DEF Tick, AtOnce!Tick, AtOnce!Next, AtMost, AtOnce!AtMost, Never, AtOnce!Never,
                  flagVars, driverVars, handlerVars, Unhandled
    <3> QED BY <2>1, <2>2, <3>1, <3>2 DEF Outside
  <2>3. CASE EventTask
    <3>1. CASE AtOnce!onWiFiEvent
      BY <3>1 DEF AtOnce!Next
    <3>2. CASE UNCHANGED <<Unhandled, Ready>> /\ LossBegins
      BY <3>2 DEF LossBegins, NextEvent, Ready, timerVars, retryVars
    <3> QED BY <2>3, <3>1, <3>2, EventMapped
  <2>4. CASE Reconcile
    BY <2>1, <2>4 DEF Reconcile, Decide, EnableFails, EnableWorks, Enabled, Disable,
                      Disabled, NaptStep
  <2>5. CASE Supervise
    BY <2>5, LoopMapped DEF AtOnce!Next
  <2> QED BY <2>1, <2>2, <2>3, <2>4, <2>5 DEF RouterNext, RouterLoop, routerVars
<1> QED BY <1>1, <1>2, MappableHolds, PTL DEF RouterSpec, SupervisorKept, AtOnce!Spec

-----------------------------------------------------------------------------
(* The switching of NAPT beside the supervisor.                            *)

\* Whenever neither task is inside a call of napt.cpp, its flag says what the
\* interface does (napt.cpp:11-30).
FlagFollowsDriver ==
  handling = Idle /\ naptAt \notin {"enabled", "disabled"} => (s_enabled <=> driverNapt)

\* A handler inside napt::disable() meets no iteration that is about to enable:
\* it would have found the flag unset, and till it ends none begins.
CallsApart ==
  /\ handling # Idle => ~driverNapt /\ naptAt \notin {"enable", "enabled"}
  /\ naptAt = "enable" => ~s_enabled /\ ~driverNapt
  /\ naptAt = "enabled" => ~s_enabled /\ (ok <=> driverNapt)
  /\ naptAt = "disabled" => ~driverNapt
  /\ FlagFollowsDriver

LEMMA ReconcileApart ==
  ASSUME Apart, CallsApart, Reconcile
  PROVE  CallsApart'
<1> USE DEF CallsApart, FlagFollowsDriver, NaptStep, handlerVars
<1>1. UNCHANGED handling
  BY DEF Reconcile, Decide, EnableFails, EnableWorks, Enabled, Disable, Disabled
<1>2. CASE Decide
  <2>1. UNCHANGED <<s_enabled, driverNapt, ok>> /\ naptAt = "decide"
    BY <1>2 DEF Decide
  <2>2. CASE naptAt' \in {"rest", "disable"}
    BY <1>1, <2>1, <2>2
  <2>3. CASE naptAt' = "enable" /\ Want /\ ~s_enabled
    <3>1. handling = Idle /\ ~driverNapt
      BY <2>1, <2>3 DEF Want, Apart
    <3> QED BY <1>1, <2>1, <2>3, <3>1
  <2> QED BY <1>2, <2>2, <2>3 DEF Decide
<1>3. CASE EnableFails
  BY <1>1, <1>3 DEF EnableFails
<1>4. CASE EnableWorks
  BY <1>1, <1>4 DEF EnableWorks
<1>5. CASE Enabled
  <2>1. /\ naptAt = "enabled" /\ naptAt' = "rest" /\ handling = Idle
        /\ s_enabled' = ok /\ driverNapt' = driverNapt
    BY <1>5 DEF Enabled, Result
  <2>2. s_enabled' <=> driverNapt'
    BY <2>1
  <2> QED BY <1>1, <2>1, <2>2
<1>6. CASE Disable
  BY <1>1, <1>6 DEF Disable
<1>7. CASE Disabled
  BY <1>1, <1>7 DEF Disabled
<1> QED BY <1>2, <1>3, <1>4, <1>5, <1>6, <1>7 DEF Reconcile

\* The flag of napt.cpp follows the driver also while the supervisor dials,
\* abandons and recovers in the middle of a handler, for every value of the
\* constants: what the next reconcileNapt finds set, it can end.
THEOREM CompositionKeepsFlag == RouterSpec => []FlagFollowsDriver
<1>1. RouterInit => CallsApart
  BY DEF RouterInit, CallsApart, FlagFollowsDriver
<1>2. Apart /\ CallsApart /\ [RouterNext]_routerVars => CallsApart'
  <2> SUFFICES ASSUME Apart, CallsApart, [RouterNext]_routerVars PROVE CallsApart'
    OBVIOUS
  <2>1. CASE UNCHANGED <<switchVars, handling>>
    BY <2>1 DEF CallsApart, FlagFollowsDriver, switchVars
  <2>2. CASE Outside \/ HandleAtOnce \/ UNCHANGED routerVars
    BY <2>1, <2>2 DEF Outside, HandleAtOnce, handlerVars, routerVars
  <2>3. CASE LossBegins
    <3>1. /\ handling' # Idle /\ driverNapt' = FALSE
          /\ s_enabled /\ UNCHANGED <<s_enabled, naptAt, ok>>
      BY <2>3, Kinds DEF LossBegins
    <3>2. naptAt \notin {"enable", "enabled"}
      BY <3>1 DEF CallsApart
    <3> QED BY <3>1, <3>2 DEF CallsApart, FlagFollowsDriver
  <2>4. CASE LossEnds
    BY <2>4 DEF LossEnds, CallsApart, FlagFollowsDriver
  <2>5. CASE Supervise
    <3>1. naptAt = "rest" /\ naptAt' \in {"rest", "decide"}
          /\ UNCHANGED <<s_enabled, driverNapt, ok, handling>>
      BY <2>5 DEF Supervise
    <3> QED BY <3>1 DEF CallsApart, FlagFollowsDriver
  <2> QED BY <2>2, <2>3, <2>4, <2>5, ReconcileApart DEF RouterNext, EventTask, RouterLoop
<1>3. CallsApart => FlagFollowsDriver
  BY DEF CallsApart
<1> QED BY <1>1, <1>2, <1>3, MappableHolds, PTL DEF RouterSpec, Mappable
=============================================================================
