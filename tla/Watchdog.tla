------------------------------- MODULE Watchdog -------------------------------
(***************************************************************************)
(* The recovery supervisor of src/watchdog.cpp: a task pinned to core 0    *)
(* that reboots the board when loop() (on core 1) has not come round for   *)
(* LoopStall, or has seen no uplink for UplinkStall.  loop() reports       *)
(* through three words that both cores touch without a lock.               *)
(*                                                                         *)
(* One unit of time is one value of millis(), which is a w-bit counter     *)
(* here too: W is its modulus and every elapsed time is the unsigned       *)
(* difference the code computes.  loopAge and outage are the truth the     *)
(* words stand for; no step of the program reads them.                     *)
(***************************************************************************)
EXTENDS Integers

CONSTANTS
  W,            \* modulus of millis() and of the arithmetic on it
  LoopStall,    \* kLoopStallMs
  UplinkStall,  \* kUplinkStallMs
  Poll,         \* kPollIntervalMs
  Lateness,     \* by how much a poll may end after its time (watchdog.cpp:28-29)
  Horizon       \* bound: from here on loopAge and outage stop counting

ASSUME WatchdogAssumption ==
  /\ {LoopStall, UplinkStall, Poll} \subseteq Nat \ {0}
  /\ {W, Lateness, Horizon} \subseteq Nat
  /\ LoopStall + Poll + 2*Lateness < Horizon
  /\ UplinkStall + Poll + 2*Lateness + 1 < Horizon
  /\ Horizon < W

VARIABLES
  now,          \* millis()
  uplinkReady,  \* main.cpp's flag, kept by module Uplink
  lastLoopMs,   \* g_lastLoopMs
  downSinceMs,  \* g_uplinkDownSinceMs, 0 when up
  armed,        \* g_armed
  loopAt,       \* where loopTask is: inside update(), or elsewhere
  reported,     \* the argument of the update() call in progress
  sup,          \* where the supervisor task is
  supNow,       \* its local `now`
  pollIn,       \* time until its delay ends; negative once it is late
  loopAge,      \* true time since loop() last called update()
  outage        \* true time since it first reported the uplink down, or Up

clockVars == <<now, uplinkReady>>
wordVars  == <<lastLoopMs, downSinceMs, armed>>
loopVars  == <<loopAt, reported>>
supVars   == <<sup, supNow, pollIn>>
truthVars == <<loopAge, outage>>
vars == <<clockVars, wordVars, loopVars, supVars, truthVars>>

Up == -1

TypeOK ==
  /\ now \in 0..W-1
  /\ uplinkReady \in BOOLEAN
  /\ lastLoopMs \in 0..W-1
  /\ downSinceMs \in 0..W-1
  /\ armed \in BOOLEAN
  /\ loopAt \in {"elsewhere", "update"}
  /\ reported \in BOOLEAN
  /\ sup \in {"absent", "asleep", "loopTest", "uplinkTest", "rebooting"}
  /\ supNow \in 0..W-1
  /\ pollIn \in -Lateness..Poll
  /\ loopAge \in 0..Horizon
  /\ outage \in {Up} \cup 0..Horizon

\* A slip: "has the deadline passed", which only works until millis() wraps.
ElapsedUnwrapped(a, b) == IF a >= b THEN a - b ELSE 0

\* Unsigned subtraction.
Elapsed(a, b) == IF a >= b THEN a - b ELSE a - b + W

\* A slip: the sentinel is stored like any other time.
StallStartUnnudged(t) == t

\* A slip: one is added to every time, also to the last one before the wrap.
StallStartShifted(t) == t + 1

\* The value markUplinkDown stores, kept off the sentinel.
StallStart(t) == IF t = 0 THEN 1 ELSE t

-----------------------------------------------------------------------------
(* begin(), early in setup(): both clocks run from here.  Creating the     *)
(* supervisor may fail, which leaves the router without it.                *)

Begin(t, created) ==
  /\ now = t
  /\ uplinkReady = FALSE
  /\ lastLoopMs = t
  /\ downSinceMs = StallStart(t)
  /\ armed = created
  /\ loopAt = "elsewhere"
  /\ reported = FALSE
  /\ sup = IF created THEN "asleep" ELSE "absent"
  /\ supNow = 0
  /\ pollIn = Poll
  /\ loopAge = 0
  /\ outage = 0

Init == \E t \in {0, 1}, created \in BOOLEAN : Begin(t, created)

\* esp_restart(): the board boots again and millis() starts over.
Restart ==
  /\ sup = "rebooting"
  /\ \E t \in {0, 1}, created \in BOOLEAN :
       /\ now' = t
       /\ lastLoopMs' = t
       /\ downSinceMs' = StallStart(t)
       /\ armed' = created
       /\ sup' = IF created THEN "asleep" ELSE "absent"
  /\ uplinkReady' = FALSE
  /\ loopAt' = "elsewhere"
  /\ reported' = FALSE
  /\ supNow' = 0
  /\ pollIn' = Poll
  /\ loopAge' = 0
  /\ outage' = 0

-----------------------------------------------------------------------------
(* loopTask: update(uplinkReady), at the head of every loop().             *)

UpdateAlive ==
  /\ loopAt = "elsewhere"
  /\ loopAt' = "update"
  /\ reported' = uplinkReady
  /\ lastLoopMs' = now
  /\ loopAge' = 0
  /\ UNCHANGED <<clockVars, downSinceMs, armed, supVars, outage>>

\* The clock starts unless it is already running.
markUplinkDown ==
  /\ downSinceMs' = IF downSinceMs = 0 THEN StallStart(now) ELSE downSinceMs
  /\ outage' = IF outage = Up THEN 0 ELSE outage

\* A slip: an uplink that is back does not stop the clock.
ClockStoppedNot == UNCHANGED downSinceMs

ClockStopped == downSinceMs' = 0

UpdateUplink ==
  /\ loopAt = "update"
  /\ loopAt' = "elsewhere"
  /\ IF reported THEN ClockStopped /\ outage' = Up ELSE markUplinkDown
  /\ UNCHANGED <<clockVars, lastLoopMs, armed, reported, supVars, loopAge>>

-----------------------------------------------------------------------------
(* The supervisor task.                                                    *)

\* The delay is over: `now` is sampled here, before either word is read.
Wake ==
  /\ sup = "asleep" /\ pollIn <= 0
  /\ IF armed THEN sup' = "loopTest" /\ supNow' = now /\ UNCHANGED pollIn
              ELSE pollIn' = Poll /\ UNCHANGED <<sup, supNow>>
  /\ UNCHANGED <<clockVars, wordVars, loopVars, truthVars>>

LoopTest ==
  /\ sup = "loopTest"
  /\ sup' = IF Elapsed(supNow, lastLoopMs) >= LoopStall THEN "rebooting"
                                                        ELSE "uplinkTest"
  /\ UNCHANGED <<clockVars, wordVars, loopVars, supNow, pollIn, truthVars>>

UplinkTest ==
  /\ sup = "uplinkTest"
  /\ IF downSinceMs # 0 /\ Elapsed(supNow, downSinceMs) >= UplinkStall
       THEN sup' = "rebooting" /\ UNCHANGED pollIn
       ELSE sup' = "asleep" /\ pollIn' = Poll
  /\ UNCHANGED <<clockVars, wordVars, loopVars, supNow, truthVars>>

-----------------------------------------------------------------------------
(* Time and the uplink.                                                    *)

UplinkChanges ==
  /\ uplinkReady' = ~uplinkReady
  /\ UNCHANGED <<now, wordVars, loopVars, supVars, truthVars>>

Older(age) == IF age = Horizon THEN age ELSE age + 1

\* The tasks above the supervisor "never crowd this out": a poll that is due
\* is over within Lateness.
Tick ==
  /\ sup \in {"absent", "rebooting"} \/ pollIn > -Lateness
  /\ now' = IF now = W - 1 THEN 0 ELSE now + 1
  /\ pollIn' = IF pollIn > -Lateness THEN pollIn - 1 ELSE pollIn
  /\ loopAge' = Older(loopAge)
  /\ outage' = IF outage = Up THEN Up ELSE Older(outage)
  /\ UNCHANGED <<uplinkReady, wordVars, loopVars, sup, supNow>>

Next ==
  \/ UpdateAlive
  \/ UpdateUplink
  \/ Wake
  \/ LoopTest
  \/ UplinkTest
  \/ Restart
  \/ UplinkChanges
  \/ Tick

Spec == Init /\ [][Next]_vars

-----------------------------------------------------------------------------
(* Properties.                                                             *)

\* While the supervisor guards the board, a loop() that stops coming round is
\* ended by a reboot no later than one poll past its threshold, across a wrap
\* of millis() too (watchdog.cpp:19-21, 90-96).
Guarding == sup \notin {"absent", "rebooting"}

StallIsBounded == Guarding => loopAge <= LoopStall + Poll + 2*Lateness

\* So is an outage that loop() keeps reporting, also one that starts in the
\* millisecond where millis() is 0 (watchdog.cpp:65-74, 98-101).
OutageIsBounded == Guarding => outage <= UplinkStall + Poll + 2*Lateness + 1

\* The board is rebooted only for a loop() that stalled or an uplink that
\* stayed down for the full time, except when core 1 overtook the supervisor:
\* it wrote its word after `now` was sampled, so that the unsigned difference
\* underflows (watchdog.cpp:92-101).  StallStart does that by itself at 0.
SampleAge == Elapsed(now, supNow)

LoopOvertook == loopAge < SampleAge

UplinkOvertook == outage < SampleAge \/ (supNow = 0 /\ outage = SampleAge)

RebootJustified ==
  [][/\ LoopTest /\ sup' = "rebooting" => loopAge >= LoopStall \/ LoopOvertook
     /\ UplinkTest /\ sup' = "rebooting"
          => outage # Up /\ (outage >= UplinkStall \/ UplinkOvertook)]_vars

\* watchdog.h:7 "loop() has not completed an iteration for kLoopStallMs" and
\* watchdog.cpp:35-37 "no lock is needed - the worst case is the supervisor
\* acting on a value up to one poll interval stale": without a lock, the board
\* is still rebooted only for a loop() that is within one poll of its threshold.
RebootOnlyForStall ==
  [][LoopTest /\ sup' = "rebooting" => loopAge + Poll >= LoopStall]_vars
=============================================================================
