-------------------------------- MODULE Portal --------------------------------
(***************************************************************************)
(* The admin portal of portal.cpp as a process in time: the one session    *)
(* and its sliding expiry, the restart a save schedules, and the speed     *)
(* test that keeps loop() busy.  What a save stores is in module Config.   *)
(*                                                                         *)
(* Deadlines are values of millis(), which wraps.  A token is the browser  *)
(* it was given to: a new one makes all earlier ones void.                 *)
(***************************************************************************)
EXTENDS Integers

CONSTANTS
  Browsers, Nobody,
  W,            \* values of millis()
  SessionTtl,   \* kSessionTtlMs
  RebootDelay,  \* the 1500 of handleSave()
  SpeedMax,     \* kSpeedMaxMs
  StepTime      \* bound on the time one step of loop(), or one send, takes

ASSUME BrowsersAssumption == Nobody \notin Browsers
ASSUME TimesAssumption ==
  /\ W \in Nat \ {0}
  /\ {SessionTtl, RebootDelay, SpeedMax} \subseteq 1..W-1
  /\ StepTime \in Nat
  /\ SpeedMax + StepTime < W  \* 20 s and the watchdog's 300 s against 2^32 ms

VARIABLES
  now,            \* millis()
  loopAt,         \* where portal::loop() is: "serve", "reboot", and in a speed test
                  \* "header", "speed", "closing"
  stepAge,        \* how long that step has been coming
  session,        \* whose token g_session is, or Nobody's
  sessionExpiry,  \* g_sessionExpiryMs
  rebootAt,       \* g_rebootAtMs
  apMoved,        \* the settings name another network than the SoftAP runs
  speedFrom,      \* local startMs of handleSpeedDown()
  idleFor,        \* time since the session was last used
  useWraps,       \* millis() wraps between that use and its deadline, or has since
  savedFor,       \* time since the last save, -1 if there was none
  saveUnseen,     \* no iteration can be counted on to see that deadline pass
  speedFor        \* how long the speed test has kept loop()

sessionVars == <<session, sessionExpiry, idleFor, useWraps>>
rebootVars  == <<rebootAt, apMoved, savedFor, saveUnseen>>
speedVars   == <<speedFrom, speedFor>>
vars == <<now, loopAt, stepAge, sessionVars, rebootVars, speedVars>>

Init ==
  /\ now = 0
  /\ loopAt = "serve"
  /\ stepAge = 0
  /\ session = Nobody
  /\ sessionExpiry = 0
  /\ rebootAt = 0
  /\ apMoved = FALSE
  /\ speedFrom = 0
  /\ idleFor = SessionTtl + 1 /\ useWraps = FALSE
  /\ savedFor = -1 /\ saveUnseen = FALSE
  /\ speedFor = 0

SpeedTest == {"header", "speed", "closing"}

UpTo(bound, n) == IF n < bound THEN n + 1 ELSE bound

Time ==
  /\ stepAge < StepTime
  /\ stepAge' = stepAge + 1
  /\ now' = (now + 1) % W
  /\ idleFor' = UpTo(SessionTtl + 1, idleFor)
  /\ savedFor' = IF savedFor = -1 THEN -1 ELSE UpTo(RebootDelay, savedFor)
  /\ useWraps' = (useWraps \/ now = W - 1)
  /\ speedFor' = IF loopAt \in SpeedTest THEN UpTo(SpeedMax + 3 * StepTime + 1, speedFor)
                                          ELSE speedFor
  /\ UNCHANGED <<loopAt, session, sessionExpiry, rebootAt, apMoved, saveUnseen, speedFrom>>

-----------------------------------------------------------------------------
(* The session.                                                            *)

Authed(b) == session = b /\ now <= sessionExpiry

\* A slip: the session runs out a fixed time after the login.
SlideNot == idleFor' = 0 /\ useWraps' = FALSE /\ UNCHANGED <<session, sessionExpiry>>

Slide ==
  /\ sessionExpiry' = (now + SessionTtl) % W
  /\ idleFor' = 0
  /\ useWraps' = (now + SessionTtl >= W)
  /\ UNCHANGED session

-----------------------------------------------------------------------------
(* handleClient(): at most one request.                                    *)

Served(next) ==
  /\ loopAt = "serve"
  /\ loopAt' = next
  /\ stepAge' = 0
  /\ UNCHANGED now

\* No request, one from another network, or one that needs no session.
ServeNothing ==
  Served("reboot") /\ UNCHANGED <<sessionVars, rebootVars, speedVars>>

\* Any page behind the session, a form that is rejected, a test there is no
\* memory for; GET /login and unknown paths look at the session as well.
Page(b) ==
  /\ Served("reboot")
  /\ ~apMoved /\ Authed(b)
  /\ Slide
  /\ UNCHANGED <<rebootVars, speedVars>>

ToLogin(b) ==
  /\ Served("reboot")
  /\ ~apMoved /\ ~Authed(b)
  /\ UNCHANGED <<sessionVars, rebootVars, speedVars>>

Login(b) ==
  /\ Served("reboot")
  /\ ~apMoved
  /\ session' = b
  /\ sessionExpiry' = (now + SessionTtl) % W
  /\ idleFor' = 0
  /\ useWraps' = (now + SessionTtl >= W)
  /\ UNCHANGED <<rebootVars, speedVars>>

Logout ==
  /\ Served("reboot")
  /\ ~apMoved
  /\ session' = Nobody
  /\ UNCHANGED <<sessionExpiry, idleFor, useWraps, rebootVars, speedVars>>

\* 0 means no deadline, and the last values pass between two looks at them.
Unseen == {0} \cup (W + 1 - SpeedMax - 5 * StepTime)..W - 1

SaveNoted ==
  /\ savedFor' = 0
  /\ saveUnseen' = ((now + RebootDelay) % W \in Unseen)

\* A form that is accepted; moves: it names another network.
Save(b, moves) ==
  /\ Served("reboot")
  /\ ~apMoved /\ Authed(b)
  /\ Slide
  /\ rebootAt' = (now + RebootDelay) % W
  /\ SaveNoted
  /\ apMoved' = moves
  /\ UNCHANGED speedVars

SpeedDown(b) ==
  /\ Served("header")
  /\ ~apMoved /\ Authed(b)
  /\ Slide
  /\ speedFor' = 0
  /\ UNCHANGED <<speedFrom, rebootVars>>

SpeedStep(from, to) ==
  /\ loopAt = from
  /\ loopAt' = to
  /\ stepAge' = 0
  /\ UNCHANGED <<now, sessionVars, rebootVars>>

\* The header is sent before the clock of the test starts.
SpeedBegin ==
  /\ SpeedStep("header", "speed")
  /\ speedFrom' = now
  /\ UNCHANGED speedFor

\* A slip: the deadline is compared, not the time that has passed.
SpeedTimeUpByDeadline == now > (speedFrom + SpeedMax) % W

SpeedTimeUp == (now - speedFrom) % W >= SpeedMax

SpeedBlock ==
  /\ SpeedStep("speed", "speed")
  /\ ~SpeedTimeUp
  /\ UNCHANGED speedVars

\* The time is up, everything has been sent, or the client has gone.
SpeedDone ==
  /\ SpeedStep("speed", "closing")
  /\ speedFrom' = 0
  /\ UNCHANGED speedFor

\* The last, empty chunk has been sent.
SpeedClosed ==
  /\ SpeedStep("closing", "reboot")
  /\ speedFor' = 0
  /\ UNCHANGED speedFrom

-----------------------------------------------------------------------------
(* The rest of portal::loop(), and of loop().                              *)

\* A slip: the restart is due at one value of the clock only.
RebootDueOnce == rebootAt # 0 /\ now = rebootAt

RebootDue == rebootAt # 0 /\ now > rebootAt

Restart ==
  /\ loopAt = "reboot"
  /\ RebootDue
  /\ now' = 0 /\ loopAt' = "serve" /\ stepAge' = 0
  /\ session' = Nobody /\ sessionExpiry' = 0
  /\ rebootAt' = 0 /\ apMoved' = FALSE /\ speedFrom' = 0
  /\ idleFor' = SessionTtl + 1 /\ useWraps' = FALSE
  /\ savedFor' = -1 /\ saveUnseen' = FALSE
  /\ speedFor' = 0

GoOn ==
  /\ loopAt = "reboot"
  /\ ~RebootDue
  /\ loopAt' = "serve"
  /\ stepAge' = 0
  /\ UNCHANGED <<now, sessionVars, rebootVars, speedVars>>

Used(b) == Page(b) \/ SpeedDown(b) \/ \E moves \in BOOLEAN : Save(b, moves)

Serve ==
  \/ ServeNothing \/ Logout
  \/ \E b \in Browsers : Used(b) \/ ToLogin(b) \/ Login(b)

Speed == SpeedBegin \/ SpeedBlock \/ SpeedDone \/ SpeedClosed

Loop == Serve \/ Speed \/ Restart \/ GoOn

Next == Time \/ Loop

Spec == Init /\ [][Next]_vars

\* Time passes, and loop() runs.
FairSpec == Spec /\ WF_vars(Time) /\ WF_vars(Loop)

-----------------------------------------------------------------------------
(* Properties.                                                             *)

\* portal.cpp:25, "15 min inactivity": no request is taken for the session's
\* after that time, and the session's own browser is not sent to the login page
\* before, as each use moves the deadline.  The exception is a wrap of millis()
\* between that use and now, or its deadline (portal.cpp:142, 162).
SessionLastsAsUsed ==
  [][\A b \in Browsers :
       /\ Used(b) => idleFor <= SessionTtl \/ useWraps
       /\ ToLogin(b) /\ session = b => idleFor > SessionTtl \/ useWraps]_vars

\* After a save the restart that its page announces comes, unless there is
\* another save within the delay: a portal that moved to the network of the new
\* settings is not left without the SoftAP of that network (portal.cpp:519-528,
\* 824).  Deadlines in Unseen are excluded.
RestartComes == []<>(savedFor < RebootDelay \/ saveUnseen)

\* portal.cpp:37-40: the speed test "must not be open-ended": it blocks loop()
\* for no longer than its limit, the block that runs over it, and the sends
\* before and after, wherever the clock stands (portal.cpp:690-704).
SpeedTestEnds == speedFor <= SpeedMax + 3 * StepTime
=============================================================================
