------------------------------ MODULE NaptProofs ------------------------------
(***************************************************************************)
(* Proofs about Napt, for any number of clients, any clock and any grace   *)
(* period: the flag of napt.cpp follows the driver, and an uplink that is  *)
(* down does not leave an iteration with NAPT on.                          *)
(***************************************************************************)
EXTENDS Napt, FiniteSetTheorems, TLAPS

-----------------------------------------------------------------------------
(* The types of ApClients, action by action.                               *)

LEMMA ApInitTypes == ApInit => ApTypeOK
<1>1. <<>> \in Seq(ApEvent) /\ Len(<<>>) = 0
  OBVIOUS
<1>2. Cardinality(Clients) \in Nat
  BY ClientsAssumption, FS_CardinalityType
<1>3. /\ 0 \in 0..Cardinality(Clients) /\ 0 <= ApQueueLen
      /\ 0 \in 0..W-1 /\ RadioPoll \in 0..RadioPoll
  BY <1>2, ClockAssumption, ApQueueLenAssumption
<1> QED BY <1>1, <1>3 DEF ApInit, ApTypeOK

LEMMA InClock ==
  ASSUME NEW n \in Int
  PROVE  n % W \in 0..W-1
BY ClockAssumption

LEMMA PostTypes ==
  ASSUME ApTypeOK, NEW c \in Clients,
         NEW type \in {"connected", "ipAssigned", "disconnected"},
         Post(type, c), stations' \subseteq Clients
  PROVE  ApTypeOK'
<1>1. [type |-> type, client |-> c] \in ApEvent
  BY DEF ApEvent
<1>2. apEvents' \in Seq(ApEvent) /\ Len(apEvents') <= ApQueueLen
  BY <1>1, ApQueueLenAssumption DEF ApTypeOK, Post
<1> QED BY <1>2 DEF ApTypeOK, Post

LEMMA TickTypes == ApTypeOK /\ Tick => ApTypeOK'
<1> SUFFICES ASSUME ApTypeOK, Tick PROVE ApTypeOK'
  OBVIOUS
<1>1. now' \in 0..W-1
  <2>1. now + 1 \in Int
    BY DEF ApTypeOK
  <2> QED BY <2>1, InClock DEF Tick
<1>2. radioAge' \in 0..RadioPoll
  BY ClockAssumption DEF ApTypeOK, Tick
<1> QED BY <1>1, <1>2 DEF ApTypeOK, Tick

LEMMA PollTypes == ApTypeOK /\ pollRadio => ApTypeOK'
<1> SUFFICES ASSUME ApTypeOK, pollRadio PROVE ApTypeOK'
  OBVIOUS
<1>1. /\ Cardinality(stations) \in Nat /\ Cardinality(Clients) \in Nat
      /\ Cardinality(stations) <= Cardinality(Clients)
  BY ClientsAssumption, FS_Subset, FS_CardinalityType DEF ApTypeOK
<1>2. radioStations' \in 0..Cardinality(Clients) /\ radioAge' \in 0..RadioPoll
  BY <1>1, ClockAssumption DEF ApTypeOK, pollRadio
<1> QED BY <1>2 DEF ApTypeOK, pollRadio

LEMMA HandlerTypes ==
  ASSUME ApTypeOK, NEW c \in Clients,
         OnApStaConnected(c) \/ OnApStaIpAssigned(c) \/ OnApStaDisconnected(c)
  PROVE  ApTypeOK'
<1>1. PICK type : NextApEvent(type, c)
  BY DEF OnApStaConnected, OnApStaIpAssigned, OnApStaDisconnected
<1>2. apEvents' \in Seq(ApEvent) /\ Len(apEvents') <= ApQueueLen
  BY <1>1, ApQueueLenAssumption DEF ApTypeOK, NextApEvent
<1>3. UNCHANGED <<now, stations, radioStations, radioAge>>
  BY <1>1 DEF NextApEvent
<1>4. /\ lastApAssocMs' \in 0..W-1 /\ leaseSeen' \in BOOLEAN
      /\ clientIp' \in Clients \cup {NoClient}
  <2> USE DEF ApTypeOK
  <2>1. 0 \in 0..W-1
    BY ClockAssumption
  <2>2. CASE OnApStaConnected(c)
    BY <2>2 DEF OnApStaConnected
  <2>3. CASE OnApStaIpAssigned(c)
    BY <2>3 DEF OnApStaIpAssigned
  <2>4. CASE OnApStaDisconnected(c) /\ stations = {}
    BY <2>1, <2>4 DEF OnApStaDisconnected
  <2>5. CASE OnApStaDisconnected(c) /\ stations # {}
    BY <2>5 DEF OnApStaDisconnected
  <2> QED BY <2>2, <2>3, <2>4, <2>5
<1> QED BY <1>2, <1>3, <1>4 DEF ApTypeOK

-----------------------------------------------------------------------------
(* The inductive invariant.                                                *)

\* What the steps of the two tasks count on.  While the event task is inside
\* disable() the uplink is down, so loopTask cannot be about to enable.
CallsApart ==
  /\ eventAt = "clear" => /\ ~uplinkReady /\ ~driverNapt
                          /\ loopAt \notin {"enable", "enabled"}
  /\ loopAt = "enable" => ~s_enabled /\ ~driverNapt
  /\ loopAt = "enabled" => ~s_enabled /\ (ok <=> driverNapt)
  /\ loopAt = "disabled" => ~driverNapt
  /\ eventAt = "idle" /\ loopAt \notin {"enabled", "disabled"}
       => (s_enabled <=> driverNapt)

\* An iteration that began to read with the uplink down, and has seen it down
\* since, is not on its way to enable.
DownStaysOff ==
  downAtRead => ~uplinkReady /\ loopAt \notin {"poll", "sample", "enable", "enabled"}

IInv == TypeOK /\ CallsApart /\ DownStaysOff /\ BlackholeEnds

LEMMA InitHolds == Init => IInv
<1> SUFFICES ASSUME Init PROVE IInv
  OBVIOUS
<1>1. ApTypeOK
  BY ApInitTypes DEF Init
<1>2. TypeOK
  <2>1. 0 \in 0..W-1 /\ 0 \in 0..LoopStall /\ LeaseGrace \in 0..LeaseGrace
    BY LeaseGraceAssumption, LoopStallAssumption, ClockAssumption
  <2>2. freshFor \in [Clients -> 0..LeaseGrace]
    BY <2>1 DEF Init
  <2> QED BY <1>1, <2>1, <2>2 DEF Init, TypeOK, LoopSteps
<1>3. CallsApart /\ DownStaysOff /\ BlackholeEnds
  BY DEF Init, CallsApart, DownStaysOff, BlackholeEnds
<1> QED BY <1>2, <1>3 DEF IInv

-----------------------------------------------------------------------------
(* Each kind of step preserves the invariant.                              *)

\* None of these touches NAPT or where the tasks are.
LEMMA SurroundingsHold ==
  IInv /\ (Environment \/ Time \/ ClientEvent) => IInv'
<1> SUFFICES ASSUME IInv, Environment \/ Time \/ ClientEvent PROVE IInv'
  OBVIOUS
<1>1. ApTypeOK'
  <2>1. CASE Environment
    <3>1. PICK c \in Clients : Join(c) \/ Leave(c) \/ Lease(c)
      BY <2>1 DEF Environment
    <3>2. stations' \subseteq Clients
      BY <3>1 DEF IInv, TypeOK, ApTypeOK, Join, Leave, Lease
    <3>3. PICK type \in {"connected", "ipAssigned", "disconnected"} : Post(type, c)
      BY <3>1 DEF Join, Leave, Lease
    <3> QED BY <3>2, <3>3, PostTypes DEF IInv, TypeOK
  <2>2. CASE Time
    BY <2>2, TickTypes DEF Time, IInv, TypeOK
  <2>3. CASE ClientEvent
    BY <2>3, HandlerTypes DEF ClientEvent, IInv, TypeOK
  <2> QED BY <2>1, <2>2, <2>3
<1>2. freshFor' \in [Clients -> 0..LeaseGrace] /\ freshAtRead' \subseteq Clients
  BY LeaseGraceAssumption, ClockAssumption
  DEF IInv, TypeOK, Environment, Time, ClientEvent, Handled
<1>3. loopAge' \in 0..LoopStall
  <2>1. CASE Time
    BY <2>1, LoopStallAssumption DEF IInv, TypeOK, Time
  <2>2. CASE Environment \/ ClientEvent
    BY <2>2 DEF IInv, TypeOK, Environment, ClientEvent, Handled
  <2> QED BY <2>1, <2>2
<1>4. UNCHANGED <<uplinkReady, naptVars, loopAt, eventAt, localVars, downAtRead>>
  BY DEF Environment, Time, ClientEvent, Handled
<1>5. TypeOK'
  <2>1. /\ sampled' \in 0..W-1
        /\ loopAt' \in LoopSteps /\ eventAt' \in {"idle", "clear"}
    BY <1>4 DEF IInv, TypeOK, localVars
  <2> QED BY <1>1, <1>2, <1>3, <1>4, <2>1 DEF IInv, TypeOK, naptVars, localVars
<1>6. CallsApart' /\ DownStaysOff' /\ BlackholeEnds'
  BY <1>4 DEF IInv, CallsApart, DownStaysOff, BlackholeEnds, naptVars, localVars
<1> QED BY <1>5, <1>6 DEF IInv

LEMMA UplinkEventsHold ==
  IInv /\ (OnStaGotIp \/ OnUplinkLost \/ EventDisabled) => IInv'
<1> SUFFICES ASSUME IInv, OnStaGotIp \/ OnUplinkLost \/ EventDisabled PROVE IInv'
  OBVIOUS
<1>1. UNCHANGED <<apVars, loopAt, loopAge, localVars, freshFor, freshAtRead>>
  BY DEF OnStaGotIp, OnUplinkLost, EventDisabled, ghostVars
<1>2. TypeOK'
  <2>1. ApTypeOK'
    BY <1>1 DEF IInv, TypeOK, ApTypeOK, apVars
  <2>2. /\ uplinkReady' \in BOOLEAN /\ s_enabled' \in BOOLEAN
        /\ driverNapt' \in BOOLEAN /\ eventAt' \in {"idle", "clear"}
        /\ downAtRead' \in BOOLEAN
    BY DEF IInv, TypeOK, OnStaGotIp, OnUplinkLost, EventDisabled, naptVars, ghostVars
  <2> QED BY <1>1, <2>1, <2>2 DEF IInv, TypeOK, localVars
<1>3. CallsApart'
  BY <1>1 DEF IInv, TypeOK, CallsApart, OnStaGotIp, OnUplinkLost, EventDisabled,
              naptVars, localVars
<1>4. DownStaysOff' /\ BlackholeEnds'
  BY <1>1 DEF IInv, TypeOK, DownStaysOff, BlackholeEnds, OnStaGotIp, OnUplinkLost,
              EventDisabled, naptVars, ghostVars
<1> QED BY <1>2, <1>3, <1>4 DEF IInv

\* What loopTask keeps within its types.
LEMMA LoopTypes == IInv /\ Loop => TypeOK'
<1> SUFFICES ASSUME IInv, Loop PROVE TypeOK'
  OBVIOUS
<1> USE DEF IInv, TypeOK, naptVars, localVars, ghostVars
<1>1. ApTypeOK'
  <2>1. CASE Poll
    BY <2>1, PollTypes DEF Poll
  <2>2. CASE ~Poll
    <3>1. UNCHANGED apVars
      BY <2>2 DEF Loop, SampleSettled, SampleTime, Settle, Decide, EnableFails,
                  EnableWorks, Enabled, DisableDone, Disable, Disabled, RestOfLoop
    <3> QED BY <3>1 DEF apVars, ApTypeOK
  <2> QED BY <2>1, <2>2
<1>2. PICK from \in LoopSteps, to \in LoopSteps : LoopStep(from, to)
  BY DEF LoopSteps, Loop, Poll, SampleSettled, SampleTime, Settle, Decide,
         EnableFails, EnableWorks, Enabled, DisableDone, Disable, Disabled, RestOfLoop
<1>3. loopAt' \in LoopSteps /\ loopAge' \in 0..LoopStall /\ eventAt' = eventAt
  BY <1>2, LoopStallAssumption DEF LoopStep
<1>4. sampled' \in 0..W-1
  <2>1. 0 \in 0..W-1 /\ now \in 0..W-1
    BY ClockAssumption DEF ApTypeOK
  <2>2. sampled' \in {sampled, 0, now}
    BY DEF Loop, Poll, SampleSettled, SampleTime, Settle, Decide, EnableFails,
           EnableWorks, Enabled, DisableDone, Disable, Disabled, RestOfLoop
  <2> QED BY <2>1, <2>2
<1>5. /\ uplinkReady' \in BOOLEAN /\ s_enabled' \in BOOLEAN
      /\ driverNapt' \in BOOLEAN /\ leaseSettled' \in BOOLEAN /\ ok' \in BOOLEAN
  <2>1. CASE Poll \/ SampleSettled \/ SampleTime
    BY <2>1 DEF ApTypeOK, Poll, SampleSettled, SampleTime
  <2>2. CASE Settle
    BY <2>2 DEF Settle
  <2>3. CASE Decide
    BY <2>3 DEF Decide
  <2>4. CASE EnableFails \/ EnableWorks
    BY <2>4 DEF EnableFails, EnableWorks
  <2>5. CASE Enabled
    BY <2>5 DEF Enabled, Result
  <2>6. CASE DisableDone \/ Disable \/ Disabled \/ RestOfLoop
    BY <2>6 DEF DisableDone, Disable, Disabled, RestOfLoop
  <2> QED BY <2>1, <2>2, <2>3, <2>4, <2>5, <2>6 DEF Loop
<1>6. /\ freshFor' \in [Clients -> 0..LeaseGrace] /\ freshAtRead' \subseteq Clients
      /\ downAtRead' \in BOOLEAN
  BY DEF ApTypeOK, ReadBegins, Loop, Poll, SampleSettled, SampleTime, Settle, Decide,
         EnableFails, EnableWorks, Enabled, DisableDone, Disable, Disabled, RestOfLoop
<1> QED BY <1>1, <1>3, <1>4, <1>5, <1>6

LEMMA LoopHolds == IInv /\ Loop => CallsApart' /\ DownStaysOff' /\ BlackholeEnds'
<1> SUFFICES ASSUME IInv, Loop PROVE CallsApart' /\ DownStaysOff' /\ BlackholeEnds'
  OBVIOUS
<1> USE DEF IInv, TypeOK, CallsApart, DownStaysOff, BlackholeEnds, LoopStep,
            naptVars, localVars, ghostVars
<1>1. CASE Poll
  BY <1>1 DEF Poll
<1>2. CASE SampleSettled
  BY <1>2 DEF SampleSettled, ReadBegins
<1>3. CASE SampleTime
  BY <1>3 DEF SampleTime, ReadBegins
<1>4. CASE Settle
  BY <1>4 DEF Settle
<1>5. CASE Decide
  BY <1>5 DEF Decide, Want
<1>6. CASE EnableFails
  BY <1>6 DEF EnableFails
<1>7. CASE EnableWorks
  BY <1>7 DEF EnableWorks
<1>8. CASE Enabled
  BY <1>8 DEF Enabled, Result
<1>9. CASE DisableDone
  BY <1>9 DEF DisableDone
<1>10. CASE Disable
  BY <1>10 DEF Disable
<1>11. CASE Disabled
  BY <1>11 DEF Disabled
<1>12. CASE RestOfLoop
  <2>1. ~uplinkReady => ~uplinkReady'
    BY <1>12 DEF RestOfLoop
  <2>2. /\ loopAt = "rest" /\ loopAt' = "poll" /\ ~downAtRead'
        /\ UNCHANGED <<eventAt, s_enabled, driverNapt, ok>>
    BY <1>12 DEF RestOfLoop
  <2> QED BY <2>1, <2>2
<1> QED
  BY <1>1, <1>2, <1>3, <1>4, <1>5, <1>6, <1>7, <1>8, <1>9, <1>10, <1>11, <1>12
  DEF Loop

LEMMA StepHolds == IInv /\ [Next]_vars => IInv'
<1> SUFFICES ASSUME IInv, [Next]_vars PROVE IInv'
  OBVIOUS
<1>1. CASE UNCHANGED vars
  BY <1>1 DEF vars, apVars, naptVars, localVars, ghostVars, IInv, TypeOK, ApTypeOK,
              CallsApart, DownStaysOff, BlackholeEnds
<1>2. CASE Loop
  BY <1>2, LoopTypes, LoopHolds DEF IInv
<1> QED
  BY <1>1, <1>2, SurroundingsHold, UplinkEventsHold DEF Next, EventTask

LEMMA Inductive == Spec => []IInv
BY InitHolds, StepHolds, PTL DEF Spec

-----------------------------------------------------------------------------
(* What follows from it.                                                   *)

\* The types of Napt and ApClients: the times are values of millis(), ages stop at
\* the grace period, and the queue of events does not outgrow its bound
\* (main.cpp:283-305, 203-226).
THEOREM TypeCorrect == Spec => []TypeOK
BY Inductive, PTL DEF IInv

\* Whenever no call is under way, napt.cpp's flag is what the driver does.
THEOREM FlagCorrect == Spec => []FlagFollowsDriver
<1>1. IInv => FlagFollowsDriver
  BY DEF IInv, TypeOK, CallsApart, FlagFollowsDriver
<1> QED BY <1>1, Inductive, PTL

\* An iteration that found the uplink down leaves NAPT off.
THEOREM NoLastingBlackhole == Spec => []BlackholeEnds
BY Inductive, PTL DEF IInv

-----------------------------------------------------------------------------
(* The window of a client.                                                 *)

\* There is one lastApAssocMs for all clients.  It is never older than the
\* association of a client in its window, so that others only lengthen it.
FreshIsKnown ==
  \A c \in Clients : freshFor[c] < LeaseGrace
    => ~leaseSeen /\ Elapsed(now, lastApAssocMs) <= freshFor[c]

\* An iteration that began to read while a client was in its window, and no
\* event has ended that window, is not on its way to enable.
FreshStaysOff ==
  \A c \in freshAtRead :
    /\ loopAt \notin {"poll", "sample", "enable", "enabled"}
    /\ loopAt = "settle" => Elapsed(sampled, lastApAssocMs) < LeaseGrace
    /\ loopAt = "decide" => ~leaseSettled
    /\ loopAt = "rest" => ~driverNapt

WInv == FreshIsKnown /\ FreshStaysOff

\* Remainders of the differences that occur: a clock against itself, and a clock
\* that moves on, over the wrap or not.
LEMMA Remainders ==
  /\ \A n \in 0..W-1 : n % W = n
  /\ \A n \in (1-W)..(-1) : n % W = n + W
  /\ W % W = 0
<1>1. \A n \in 0..W-1 : n % W = n
  BY ClockAssumption
<1>2. \A n \in (1-W)..(-1) : n % W = n + W
  BY ClockAssumption
<1>3. W % W = 0
  BY ClockAssumption
<1> QED BY <1>1, <1>2, <1>3

LEMMA ElapsedNone == ASSUME NEW a \in 0..W-1 PROVE Elapsed(a, a) = 0
<1>1. a - a = 0 /\ 0 \in 0..W-1
  BY ClockAssumption
<1> QED BY <1>1, Remainders DEF Elapsed

\* The difference of two values of millis(), without its remainder.
LEMMA ElapsedIs ==
  ASSUME NEW a \in 0..W-1, NEW b \in 0..W-1
  PROVE  Elapsed(a, b) = IF a >= b THEN a - b ELSE a - b + W
<1>1. CASE a >= b
  <2>1. a - b \in 0..W-1
    BY <1>1, ClockAssumption
  <2> QED BY <1>1, <2>1, Remainders DEF Elapsed
<1>2. CASE ~(a >= b)
  <2>1. a - b \in (1-W)..(-1)
    BY <1>2, ClockAssumption
  <2> QED BY <1>2, <2>1, Remainders DEF Elapsed
<1> QED BY <1>1, <1>2

LEMMA NextTime ==
  ASSUME NEW a \in 0..W-1
  PROVE  (a + 1) % W = IF a = W - 1 THEN 0 ELSE a + 1
<1>1. CASE a = W - 1
  <2>1. a + 1 = W
    BY <1>1, ClockAssumption
  <2> QED BY <1>1, <2>1, Remainders
<1>2. CASE a # W - 1
  <2>1. a + 1 \in 0..W-1
    BY <1>2, ClockAssumption
  <2> QED BY <1>2, <2>1, Remainders
<1> QED BY <1>1, <1>2

\* A tick ages every association by one, up to the wrap of the age itself.
LEMMA ElapsedTicks ==
  ASSUME NEW a \in 0..W-1, NEW b \in 0..W-1, Elapsed(a, b) < W - 1
  PROVE  Elapsed((a + 1) % W, b) = Elapsed(a, b) + 1
<1> DEFINE next == (a + 1) % W
<1>1. next = IF a = W - 1 THEN 0 ELSE a + 1
  BY NextTime
<1>2. next \in 0..W-1
  BY <1>1, ClockAssumption
<1> HIDE DEF next
<1>3. /\ Elapsed(a, b) = IF a >= b THEN a - b ELSE a - b + W
      /\ Elapsed(next, b) = IF next >= b THEN next - b ELSE next - b + W
  BY <1>2, ElapsedIs
<1>4. Elapsed(next, b) = Elapsed(a, b) + 1
  BY <1>1, <1>3, ClockAssumption
<1> QED BY <1>4 DEF next

\* Who is in the window, and since when.
LEMMA WindowSurroundings ==
  ASSUME IInv, WInv, Environment \/ Time \/ ClientEvent
  PROVE  WInv'
<1>0. UNCHANGED <<loopAt, sampled, leaseSettled, driverNapt>>
  BY DEF Environment, Time, ClientEvent, Handled, naptVars, localVars
<1>1. CASE Environment
  <2>1. UNCHANGED <<now, leaseSeen, lastApAssocMs, freshFor, freshAtRead>>
    BY <1>1 DEF Environment, Join, Leave, Lease, Post
  <2> QED BY <1>0, <2>1 DEF WInv, FreshIsKnown, FreshStaysOff
<1>2. CASE Time
  <2>1. /\ now' = (now + 1) % W
        /\ UNCHANGED <<leaseSeen, lastApAssocMs, freshAtRead>>
        /\ freshFor' = [c \in Clients |-> IF freshFor[c] < LeaseGrace
                                            THEN freshFor[c] + 1 ELSE LeaseGrace]
    BY <1>2 DEF Time, Tick
  <2>2. ASSUME NEW c \in Clients, freshFor'[c] < LeaseGrace
        PROVE  ~leaseSeen' /\ Elapsed(now', lastApAssocMs') <= freshFor'[c]
    <3>1. freshFor[c] < LeaseGrace /\ freshFor'[c] = freshFor[c] + 1
      BY <2>1, <2>2, LeaseGraceAssumption
    <3>2. ~leaseSeen /\ Elapsed(now, lastApAssocMs) <= freshFor[c]
      BY <3>1 DEF WInv, FreshIsKnown
    <3>3. /\ now \in 0..W-1 /\ lastApAssocMs \in 0..W-1
          /\ freshFor[c] \in 0..LeaseGrace
      BY DEF IInv, TypeOK, ApTypeOK
    <3>4. Elapsed(now, lastApAssocMs) \in Int
      BY <3>3, ElapsedIs, ClockAssumption
    <3>5. Elapsed(now, lastApAssocMs) < W - 1
      BY <2>2, <3>1, <3>2, <3>3, <3>4, LeaseGraceAssumption, ClockAssumption
    <3>6. Elapsed(now', lastApAssocMs') = Elapsed(now, lastApAssocMs) + 1
      BY <2>1, <3>3, <3>5, ElapsedTicks
    <3> QED BY <2>1, <3>1, <3>2, <3>3, <3>4, <3>6
  <2>3. FreshIsKnown'
    BY <2>2 DEF FreshIsKnown
  <2> QED BY <1>0, <2>1, <2>3 DEF WInv, FreshStaysOff
<1>3. ASSUME NEW c \in Clients, OnApStaConnected(c),
             Handled([freshFor EXCEPT ![c] = 0], {})
      PROVE  WInv'
  <2>1. /\ ~leaseSeen' /\ lastApAssocMs' = now /\ now' = now /\ now \in 0..W-1
        /\ freshFor \in [Clients -> 0..LeaseGrace]
        /\ freshFor' = [freshFor EXCEPT ![c] = 0] /\ freshAtRead' = {}
    BY <1>3 DEF OnApStaConnected, NextApEvent, Handled, IInv, TypeOK, ApTypeOK
  <2>2. Elapsed(now', lastApAssocMs') = 0
    BY <2>1, ElapsedNone
  <2>3. \A d \in Clients : freshFor'[d] \in 0..LeaseGrace
    BY <2>1, LeaseGraceAssumption
  <2>4. \A d \in Clients : 0 <= freshFor'[d]
    BY <2>3
  <2> QED BY <2>1, <2>2, <2>4 DEF WInv, FreshIsKnown, FreshStaysOff
<1>4. ASSUME NEW c \in Clients, OnApStaIpAssigned(c),
             Handled([d \in Clients |-> LeaseGrace], {})
      PROVE  WInv'
  <2>1. freshAtRead' = {} /\ \A d \in Clients : ~(freshFor'[d] < LeaseGrace)
    BY <1>4, LeaseGraceAssumption DEF Handled
  <2> QED BY <2>1 DEF WInv, FreshIsKnown, FreshStaysOff
<1>5. ASSUME NEW c \in Clients, OnApStaDisconnected(c), NEW gone,
             gone = {d \in Clients : d = c \/ d \notin stations},
             Handled([d \in Clients |-> IF d \in gone THEN LeaseGrace ELSE freshFor[d]],
                     freshAtRead \ gone)
      PROVE  WInv'
  <2>1. /\ freshFor' = [d \in Clients |-> IF d \in gone THEN LeaseGrace ELSE freshFor[d]]
        /\ freshAtRead' = freshAtRead \ gone /\ freshAtRead \subseteq Clients
        /\ now' = now
        /\ UNCHANGED <<loopAt, sampled, leaseSettled, driverNapt>>
    BY <1>5 DEF OnApStaDisconnected, NextApEvent, Handled, IInv, TypeOK, naptVars, localVars
  <2>2. ~(LeaseGrace < LeaseGrace)
    BY LeaseGraceAssumption
  <2>3. CASE stations = {}
    <3>1. gone = Clients
      BY <1>5, <2>3
    <3>2. freshAtRead' = {} /\ \A d \in Clients : ~(freshFor'[d] < LeaseGrace)
      BY <2>1, <2>2, <3>1
    <3> QED BY <3>2 DEF WInv, FreshIsKnown, FreshStaysOff
  <2>4. CASE stations # {}
    <3>1. UNCHANGED <<leaseSeen, lastApAssocMs>>
      BY <1>5, <2>4 DEF OnApStaDisconnected
    <3>2. \A d \in Clients : freshFor'[d] < LeaseGrace => freshFor'[d] = freshFor[d]
      BY <2>1, <2>2
    <3>3. FreshIsKnown'
      BY <2>1, <3>1, <3>2 DEF WInv, FreshIsKnown
    <3>4. FreshStaysOff'
      BY <2>1, <3>1 DEF WInv, FreshStaysOff
    <3> QED BY <3>3, <3>4 DEF WInv
  <2> QED BY <2>3, <2>4
<1> QED BY <1>1, <1>2, <1>3, <1>4, <1>5 DEF ClientEvent

LEMMA WindowUplinkEvents ==
  ASSUME WInv, OnStaGotIp \/ OnUplinkLost \/ EventDisabled
  PROVE  WInv'
<1>1. /\ UNCHANGED <<now, leaseSeen, lastApAssocMs, freshFor, freshAtRead, loopAt,
                     sampled, leaseSettled>>
      /\ driverNapt' = driverNapt \/ driverNapt' = FALSE
  BY DEF OnStaGotIp, OnUplinkLost, EventDisabled, apVars, naptVars, localVars, ghostVars
<1>2. driverNapt' => driverNapt
  BY <1>1
<1> QED BY <1>1, <1>2 DEF WInv, FreshIsKnown, FreshStaysOff

LEMMA WindowLoop ==
  ASSUME IInv, WInv, Loop
  PROVE  WInv'
<1>1. UNCHANGED <<now, leaseSeen, lastApAssocMs, freshFor>>
  BY DEF Loop, Poll, pollRadio, SampleSettled, SampleTime, Settle, Decide, EnableFails,
         EnableWorks, Enabled, DisableDone, Disable, Disabled, RestOfLoop, ReadBegins,
         apVars, ghostVars
<1>2. FreshIsKnown'
  BY <1>1 DEF WInv, FreshIsKnown
<1>3. FreshStaysOff'
  <2> USE DEF WInv, FreshStaysOff, LoopStep, naptVars, localVars, ghostVars
  <2>1. CASE Poll
    BY <2>1 DEF Poll
  <2>2. CASE SampleSettled \/ SampleTime
    <3>1. /\ freshAtRead' = {c \in stations : freshFor[c] < LeaseGrace}
          /\ stations \subseteq Clients
      BY <2>2 DEF SampleSettled, SampleTime, ReadBegins, IInv, TypeOK, ApTypeOK
    <3>2. ASSUME NEW c \in freshAtRead'
          PROVE  /\ freshFor[c] < LeaseGrace
                 /\ ~leaseSeen /\ Elapsed(now, lastApAssocMs) < LeaseGrace
      <4>1. freshFor[c] < LeaseGrace /\ c \in Clients
        BY <3>1, <3>2
      <4>2. ~leaseSeen /\ Elapsed(now, lastApAssocMs) <= freshFor[c]
        BY <4>1 DEF FreshIsKnown
      <4>3. /\ now \in 0..W-1 /\ lastApAssocMs \in 0..W-1
            /\ freshFor[c] \in 0..LeaseGrace
        BY <4>1 DEF IInv, TypeOK, ApTypeOK
      <4>4. Elapsed(now, lastApAssocMs) \in Int
        BY <4>3, ElapsedIs, ClockAssumption
      <4> QED BY <4>1, <4>2, <4>3, <4>4, LeaseGraceAssumption
    <3>3. CASE SampleSettled
      BY <3>2, <3>3 DEF SampleSettled
    <3>4. CASE SampleTime
      <4>1. loopAt' = "settle" /\ sampled' = now
        BY <3>4 DEF SampleTime
      <4> QED BY <1>1, <3>2, <4>1
    <3> QED BY <2>2, <3>3, <3>4
  <2>3. CASE Settle
    <3>1. /\ loopAt = "settle" /\ loopAt' = "decide" /\ freshAtRead' = freshAtRead
          /\ leaseSettled' <=> Elapsed(sampled, lastApAssocMs) >= LeaseGrace
      BY <2>3 DEF Settle
    <3>2. ASSUME NEW c \in freshAtRead
          PROVE  ~(Elapsed(sampled, lastApAssocMs) >= LeaseGrace)
      <4>1. Elapsed(sampled, lastApAssocMs) < LeaseGrace
        BY <3>1
      <4>2. Elapsed(sampled, lastApAssocMs) \in Int
        BY ElapsedIs, ClockAssumption DEF IInv, TypeOK, ApTypeOK
      <4> QED BY <4>1, <4>2, LeaseGraceAssumption
    <3> QED BY <3>1, <3>2
  <2>4. CASE Decide
    <3>1. /\ loopAt = "decide" /\ UNCHANGED <<freshAtRead, driverNapt>>
          /\ \/ loopAt' = "rest" /\ Want = s_enabled
             \/ loopAt' = "enable" /\ Want
             \/ loopAt' = "disable"
      BY <2>4 DEF Decide
    <3>2. ASSUME NEW c \in freshAtRead PROVE ~Want
      BY <3>1 DEF Want
    <3>3. (s_enabled <=> driverNapt) \/ ~driverNapt
      BY <3>1 DEF IInv, TypeOK, CallsApart
    <3> QED BY <3>1, <3>2, <3>3
  <2>5. CASE EnableFails \/ EnableWorks \/ Enabled
    <3>1. loopAt \in {"enable", "enabled"} /\ freshAtRead' = freshAtRead
      BY <2>5 DEF EnableFails, EnableWorks, Enabled
    <3> QED BY <3>1
  <2>6. CASE DisableDone
    <3>1. /\ loopAt = "disable" /\ loopAt' = "rest" /\ ~s_enabled
          /\ UNCHANGED <<freshAtRead, driverNapt>>
      BY <2>6 DEF DisableDone
    <3>2. ~driverNapt
      BY <3>1 DEF IInv, TypeOK, CallsApart
    <3> QED BY <3>1, <3>2
  <2>7. CASE Disable
    BY <2>7 DEF Disable
  <2>8. CASE Disabled
    <3>1. /\ loopAt = "disabled" /\ loopAt' = "rest"
          /\ UNCHANGED <<freshAtRead, driverNapt>>
      BY <2>8 DEF Disabled
    <3>2. ~driverNapt
      BY <3>1 DEF IInv, CallsApart
    <3> QED BY <3>1, <3>2
  <2>9. CASE RestOfLoop
    BY <2>9 DEF RestOfLoop
  <2> QED BY <2>1, <2>2, <2>3, <2>4, <2>5, <2>6, <2>7, <2>8, <2>9 DEF Loop
<1> QED BY <1>2, <1>3 DEF WInv

\* A client that is in its window when reconcileNapt begins to read, and whose
\* window no event has ended since, leaves the iteration with NAPT off, whatever
\* else the event task does meanwhile, for any number of clients and wherever
\* millis() stands (main.cpp:191-215).
THEOREM WindowKept == Spec => []WindowRespected
<1>1. Init => WInv
  <2> SUFFICES ASSUME Init PROVE WInv
    OBVIOUS
  <2>1. /\ \A c \in Clients : ~(freshFor[c] < LeaseGrace)
        /\ freshAtRead = {}
    BY LeaseGraceAssumption DEF Init
  <2> QED BY <2>1 DEF WInv, FreshIsKnown, FreshStaysOff
<1>2. IInv /\ WInv /\ [Next]_vars => WInv'
  <2> SUFFICES ASSUME IInv, WInv, [Next]_vars PROVE WInv'
    OBVIOUS
  <2>1. CASE UNCHANGED vars
    BY <2>1 DEF vars, apVars, naptVars, localVars, ghostVars, WInv, FreshIsKnown, FreshStaysOff
  <2> QED BY <2>1, WindowSurroundings, WindowUplinkEvents, WindowLoop DEF Next, EventTask
<1>3. WInv => WindowRespected
  BY DEF WInv, FreshStaysOff, WindowRespected
<1> QED BY <1>1, <1>2, <1>3, Inductive, PTL DEF Spec
=============================================================================
