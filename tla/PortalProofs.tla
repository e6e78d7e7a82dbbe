----------------------------- MODULE PortalProofs -----------------------------
(***************************************************************************)
(* Proofs about Portal, for any browsers, delays and clock: the speed test *)
(* gives loop() back in time and a session lasts as it is used, wherever   *)
(* millis() stands.                                                        *)
(***************************************************************************)
EXTENDS Portal, TLAPS

Clock == 0..W-1

Typed ==
  /\ {now, sessionExpiry, speedFrom} \subseteq Clock
  /\ loopAt \in SpeedTest \cup {"serve", "reboot"}
  /\ stepAge \in 0..StepTime
  /\ idleFor \in 0..SessionTtl + 1
  /\ useWraps \in BOOLEAN
  /\ speedFor \in 0..SpeedMax + 3 * StepTime

\* The test's own clock: what its start and millis() say.
Ran == (now - speedFrom) % W

\* The speed test has kept loop() for the header's time and what its own clock
\* says, and when the block under way began the limit had not been reached.
SpeedOnTime ==
  /\ loopAt = "header" => speedFor = stepAge
  /\ loopAt = "speed" => speedFor <= StepTime + Ran /\ Ran < SpeedMax + stepAge
  /\ loopAt = "closing" => speedFor <= SpeedMax + 2 * StepTime + stepAge
  /\ loopAt \notin SpeedTest => speedFor = 0

\* With no wrap in the way, the deadline stands at the end of the session's time.
DeadlineSlides ==
  session # Nobody /\ ~useWraps =>
    IF idleFor <= SessionTtl THEN now + SessionTtl = sessionExpiry + idleFor
                             ELSE sessionExpiry < now

IInv == Typed /\ SpeedOnTime /\ DeadlineSlides

LEMMA Constants ==
  /\ W \in Nat /\ SessionTtl \in Nat /\ RebootDelay \in Nat /\ SpeedMax \in Nat
  /\ StepTime \in Nat
  /\ SessionTtl >= 1 /\ SpeedMax >= 1 /\ SpeedMax + StepTime < W
BY TimesAssumption

\* The clock moves on, or wraps.
LEMMA Ticks ==
  ASSUME NEW a \in Clock
  PROVE  (a + 1) % W = IF a = W - 1 THEN 0 ELSE a + 1
<1>1. CASE a = W - 1
  <2>1. a + 1 = W
    BY <1>1, Constants
  <2>2. W % W = 0
    BY Constants
  <2> QED BY <1>1, <2>1, <2>2
<1>2. CASE a # W - 1
  <2>1. a + 1 \in 0..W-1
    BY <1>2, Constants DEF Clock
  <2> QED BY <1>2, <2>1, Constants
<1> QED BY <1>1, <1>2

LEMMA InClock == ASSUME NEW n \in Int PROVE n % W \in Clock
BY Constants DEF Clock

\* What passes between two values of it ages by one.
LEMMA Ages ==
  ASSUME NEW a \in Clock, NEW b \in Clock, (a - b) % W < W - 1
  PROVE  (((a + 1) % W) - b) % W = ((a - b) % W) + 1
<1>1. ASSUME NEW x \in Clock PROVE (x - b) % W = IF x >= b THEN x - b ELSE x - b + W
  <2>1. CASE x >= b
    <3>1. x - b \in 0..W-1
      BY <2>1, Constants DEF Clock
    <3> QED BY <2>1, <3>1, Constants
  <2>2. CASE ~(x >= b)
    <3>1. x - b \in (1-W)..(-1)
      BY <2>2, Constants DEF Clock
    <3>2. (x - b) % W = x - b + W
      BY <3>1, Constants
    <3> QED BY <2>2, <3>2
  <2> QED BY <2>1, <2>2
<1> DEFINE next == (a + 1) % W
<1>2. next \in Clock /\ next = IF a = W - 1 THEN 0 ELSE a + 1
  BY Ticks, Constants DEF Clock
<1> HIDE DEF next
<1>3. /\ (a - b) % W = IF a >= b THEN a - b ELSE a - b + W
      /\ (next - b) % W = IF next >= b THEN next - b ELSE next - b + W
  BY <1>1, <1>2
<1>4. (next - b) % W = ((a - b) % W) + 1
  BY <1>2, <1>3, Constants DEF Clock
<1> QED BY <1>4 DEF next

LEMMA Booted == Init => IInv
<1> SUFFICES ASSUME Init PROVE IInv
  OBVIOUS
<1>1. Typed
  <2>1. /\ 0 \in Clock /\ 0 \in 0..StepTime /\ 0 \in 0..SpeedMax + 3 * StepTime
        /\ SessionTtl + 1 \in 0..SessionTtl + 1
    BY Constants DEF Clock
  <2> QED BY <2>1 DEF Init, Typed
<1>2. SpeedOnTime /\ DeadlineSlides
  BY DEF Init, SpeedOnTime, SpeedTest, DeadlineSlides
<1> QED BY <1>1, <1>2 DEF IInv

-----------------------------------------------------------------------------
(* Time and the session.                                                   *)

LEMMA TimeKeeps == IInv /\ Time => IInv'
<1> SUFFICES ASSUME IInv, Time PROVE IInv'
  OBVIOUS
<1> USE DEF IInv, Typed
<1>1. now' = IF now = W - 1 THEN 0 ELSE now + 1
  BY Ticks DEF Time
<1>2. SpeedOnTime' /\ speedFor' \in 0..SpeedMax + 3 * StepTime
  <2>0. /\ stepAge' = stepAge + 1 /\ stepAge \in Nat /\ stepAge' <= StepTime
        /\ speedFor \in Nat /\ loopAt' = loopAt /\ speedFrom' = speedFrom
    BY Constants DEF Time
  <2>1. CASE loopAt = "speed"
    <3>1. Ran \in Nat
      BY InClock, Constants DEF Ran, Clock
    <3>2. /\ speedFor <= StepTime + Ran /\ Ran < SpeedMax + stepAge
          /\ speedFor < SpeedMax + 3 * StepTime
      BY <2>0, <2>1, <3>1, Constants DEF SpeedOnTime
    <3>3. speedFor' = speedFor + 1
      BY <2>0, <2>1, <3>2, Constants DEF Time, UpTo, SpeedTest
    <3>4. Ran' = Ran + 1
      <4>1. (now - speedFrom) % W < W - 1
        BY <2>0, <3>1, <3>2, Constants DEF Ran
      <4>2. (((now + 1) % W) - speedFrom) % W = ((now - speedFrom) % W) + 1
        BY <4>1, Ages
      <4> QED BY <2>0, <4>2 DEF Ran, Time
    <3> QED BY <2>0, <2>1, <3>1, <3>2, <3>3, <3>4, Constants DEF SpeedOnTime, SpeedTest
  <2>2. CASE loopAt \in {"header", "closing"}
    <3>1. /\ speedFor < SpeedMax + 3 * StepTime
          /\ loopAt = "header" => speedFor = stepAge
          /\ loopAt = "closing" => speedFor <= SpeedMax + 2 * StepTime + stepAge
      BY <2>0, <2>2, Constants DEF SpeedOnTime
    <3>2. speedFor' = speedFor + 1
      BY <2>0, <2>2, <3>1, Constants DEF Time, UpTo, SpeedTest
    <3> QED BY <2>0, <2>2, <3>1, <3>2, Constants DEF SpeedOnTime, SpeedTest
  <2>3. CASE loopAt \notin SpeedTest
    BY <2>0, <2>3, Constants DEF SpeedOnTime, SpeedTest, Time
  <2> QED BY <2>1, <2>2, <2>3 DEF SpeedTest
<1>3. DeadlineSlides'
  <2>1. CASE now = W - 1
    BY <2>1 DEF DeadlineSlides, Time
  <2>2. CASE now # W - 1 /\ idleFor <= SessionTtl
    <3>1. now' = now + 1 /\ idleFor' = idleFor + 1
      BY <1>1, <2>2, Constants DEF Time, UpTo
    <3>2. now \in Int /\ sessionExpiry \in Int /\ idleFor \in Int
      BY Constants DEF Clock
    <3> QED BY <2>2, <3>1, <3>2, Constants DEF DeadlineSlides, Time
  <2>3. CASE now # W - 1 /\ ~(idleFor <= SessionTtl)
    <3>1. now' = now + 1 /\ idleFor' = SessionTtl + 1
      BY <1>1, <2>3, Constants DEF Time, UpTo
    <3>2. now \in Int /\ sessionExpiry \in Int
      BY Constants DEF Clock
    <3> QED BY <2>3, <3>1, <3>2, Constants DEF DeadlineSlides, Time
  <2> QED BY <2>1, <2>2, <2>3
<1>4. Typed'
  <2>1. now' \in Clock /\ stepAge' \in 0..StepTime
    BY <1>1, Constants DEF Time, Clock
  <2>2. idleFor' \in 0..SessionTtl + 1
    BY Constants DEF Time, UpTo
  <2>3. useWraps' \in BOOLEAN
    BY DEF Time
  <2> QED BY <1>2, <2>1, <2>2, <2>3 DEF Time
<1> QED BY <1>2, <1>3, <1>4

\* A use of the session, or a login, moves its deadline.
LEMMA DeadlineSet ==
  ASSUME Typed, now' = now, sessionExpiry' = (now + SessionTtl) % W, idleFor' = 0,
         useWraps' = (now + SessionTtl >= W)
  PROVE  /\ sessionExpiry' \in Clock /\ idleFor' \in 0..SessionTtl + 1
         /\ useWraps' \in BOOLEAN
         /\ DeadlineSlides'
<1>1. now \in Clock /\ now \in Nat
  BY Constants DEF Typed, Clock
<1>2. sessionExpiry' \in Clock
  BY <1>1, InClock, Constants
<1>3. ASSUME ~useWraps' PROVE now' + SessionTtl = sessionExpiry' + idleFor'
  <2>1. ~(now + SessionTtl >= W)
    BY <1>3
  <2>2. now + SessionTtl \in 0..W-1
    BY <1>1, <2>1, Constants
  <2>3. (now + SessionTtl) % W = now + SessionTtl
    BY <2>2, Constants
  <2> QED BY <1>1, <2>3, Constants
<1>4. 0 \in 0..SessionTtl + 1 /\ 0 <= SessionTtl
  BY Constants
<1> QED BY <1>2, <1>3, <1>4 DEF DeadlineSlides

LEMMA ServeKeeps == IInv /\ Serve => IInv'
<1> SUFFICES ASSUME IInv, Serve PROVE IInv'
  OBVIOUS
<1> USE DEF IInv, Served, sessionVars, rebootVars, speedVars
<1>1. /\ loopAt = "serve" /\ stepAge' = 0 /\ now' = now
      /\ speedFrom' = speedFrom
      /\ \/ loopAt' = "reboot" /\ speedFor' = speedFor
         \/ loopAt' = "header" /\ speedFor' = 0
  BY DEF Serve, Used, ServeNothing, Logout, Page, SpeedDown, Save, ToLogin, Login
<1>2. /\ sessionExpiry' \in Clock /\ idleFor' \in 0..SessionTtl + 1
      /\ useWraps' \in BOOLEAN
      /\ DeadlineSlides'
  <2>1. CASE /\ UNCHANGED <<sessionExpiry, idleFor, useWraps>>
             /\ session' = session \/ session' = Nobody
    BY <1>1, <2>1 DEF Typed, DeadlineSlides
  <2>2. CASE /\ sessionExpiry' = (now + SessionTtl) % W /\ idleFor' = 0
             /\ useWraps' = (now + SessionTtl >= W)
    BY <1>1, <2>2, DeadlineSet
  <2> QED BY <2>1, <2>2 DEF Serve, Used, ServeNothing, Logout, Page, SpeedDown, Save,
                            ToLogin, Login, Slide
<1>3. Typed' /\ SpeedOnTime'
  <2>1. 0 \in 0..StepTime /\ 0 \in 0..SpeedMax + 3 * StepTime
    BY Constants
  <2> QED BY <1>1, <1>2, <2>1 DEF Typed, SpeedOnTime, SpeedTest
<1> QED BY <1>2, <1>3

\* The speed test goes on, or is over.
LEMMA SpeedKeeps == IInv /\ Speed => IInv'
<1> SUFFICES ASSUME IInv, Speed PROVE IInv'
  OBVIOUS
<1> USE DEF IInv, SpeedStep, sessionVars, rebootVars, speedVars
<1>1. /\ 0 \in 0..StepTime /\ 0 \in 0..SpeedMax + 3 * StepTime /\ 0 \in Clock
      /\ Ran \in Nat /\ stepAge \in Nat /\ stepAge <= StepTime /\ speedFor \in Nat
  BY InClock, Constants DEF Ran, Clock, Typed
<1>2. DeadlineSlides' /\ stepAge' = 0 /\ now' = now
  BY DEF DeadlineSlides, Speed, SpeedBegin, SpeedBlock, SpeedDone, SpeedClosed
<1>3. CASE SpeedBegin
  <2>1. Ran' = 0
    <3>1. now - now = 0
      BY Constants DEF Typed, Clock
    <3>2. 0 % W = 0
      BY Constants
    <3> QED BY <1>2, <1>3, <3>1, <3>2 DEF SpeedBegin, Ran
  <2>2. speedFor <= StepTime
    BY <1>1, <1>3 DEF SpeedBegin, SpeedOnTime
  <2> QED BY <1>1, <1>2, <1>3, <2>1, <2>2, Constants
          DEF SpeedBegin, SpeedOnTime, SpeedTest, Typed
<1>4. CASE SpeedBlock
  <2>1. ~(Ran >= SpeedMax) /\ Ran' = Ran
    BY <1>2, <1>4 DEF SpeedBlock, SpeedTimeUp, Ran
  <2> QED BY <1>1, <1>2, <1>4, <2>1, Constants
          DEF SpeedBlock, SpeedOnTime, SpeedTest, Typed
<1>5. CASE SpeedDone
  <2>1. speedFor <= SpeedMax + 2 * StepTime
    BY <1>1, <1>5, Constants DEF SpeedDone, SpeedOnTime
  <2> QED BY <1>1, <1>2, <1>5, <2>1, Constants
          DEF SpeedDone, SpeedOnTime, SpeedTest, Typed
<1>6. CASE SpeedClosed
  BY <1>1, <1>2, <1>6 DEF SpeedClosed, SpeedOnTime, SpeedTest, Typed
<1> QED BY <1>3, <1>4, <1>5, <1>6 DEF Speed

LEMMA RebootKeeps == IInv /\ (Restart \/ GoOn) => IInv'
<1> SUFFICES ASSUME IInv, Restart \/ GoOn PROVE IInv'
  OBVIOUS
<1>1. /\ 0 \in 0..StepTime /\ 0 \in 0..SpeedMax + 3 * StepTime /\ 0 \in Clock
      /\ SessionTtl + 1 \in 0..SessionTtl + 1
  BY Constants DEF Clock
<1>2. CASE Restart
  BY <1>1, <1>2 DEF IInv, Restart, Typed, SpeedOnTime, SpeedTest, DeadlineSlides
<1>3. CASE GoOn
  BY <1>1, <1>3 DEF IInv, GoOn, Typed, SpeedOnTime, SpeedTest, DeadlineSlides, sessionVars,
                    speedVars
<1> QED BY <1>2, <1>3

LEMMA StepKeeps == IInv /\ [Next]_vars => IInv'
<1>1. IInv /\ UNCHANGED vars => IInv'
  BY DEF IInv, Typed, SpeedOnTime, Ran, DeadlineSlides, vars, sessionVars, speedVars
<1> QED BY <1>1, TimeKeeps, ServeKeeps, SpeedKeeps, RebootKeeps DEF Next, Loop

LEMMA Inductive == Spec => []IInv
BY Booted, StepKeeps, PTL DEF Spec

-----------------------------------------------------------------------------
(* What follows from it.                                                   *)

\* The speed test holds loop() up for no longer than its limit and three sends,
\* also when millis() wraps while it runs (portal.cpp:37-44, 690-704).
THEOREM SpeedTestEnded == Spec => []SpeedTestEnds
<1>1. IInv => SpeedTestEnds
  BY Constants DEF IInv, Typed, SpeedTestEnds
<1> QED BY <1>1, Inductive, PTL

\* Used in time, a session lasts, and unused it is over: the deadline compared as
\* a value tells the two apart unless millis() wraps before it (portal.cpp:142, 162).
THEOREM SessionLasts == Spec => SessionLastsAsUsed
<1>1. ASSUME IInv, NEW b \in Browsers
      PROVE  /\ Used(b) => idleFor <= SessionTtl \/ useWraps
             /\ ToLogin(b) /\ session = b => idleFor > SessionTtl \/ useWraps
  <2>1. b # Nobody
    BY BrowsersAssumption
  <2>2. /\ now \in Int /\ sessionExpiry \in Int /\ idleFor \in Int /\ SessionTtl \in Int
        /\ useWraps \in BOOLEAN
    BY <1>1, Constants DEF IInv, Typed, Clock
  <2>3. ASSUME session = b, now <= sessionExpiry PROVE idleFor <= SessionTtl \/ useWraps
    BY <1>1, <2>1, <2>2, <2>3 DEF IInv, DeadlineSlides
  <2>4. ASSUME session = b, ~(now <= sessionExpiry) PROVE idleFor > SessionTtl \/ useWraps
    BY <1>1, <2>1, <2>2, <2>4 DEF IInv, DeadlineSlides
  <2> QED BY <2>3, <2>4 DEF Used, Page, SpeedDown, Save, ToLogin, Authed
<1>2. IInv => [\A b \in Browsers :
                 /\ Used(b) => idleFor <= SessionTtl \/ useWraps
                 /\ ToLogin(b) /\ session = b => idleFor > SessionTtl \/ useWraps]_vars
  BY <1>1
<1> QED BY <1>2, Inductive, PTL DEF SessionLastsAsUsed
===============================================================================
