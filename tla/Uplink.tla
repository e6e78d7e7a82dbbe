-------------------------------- MODULE Uplink --------------------------------
(***************************************************************************)
(* The connection supervisor of src/main.cpp: how the firmware dials the   *)
(* upstream network, decides that an attempt or an established link is     *)
(* dead, backs off and dials again.                                        *)
(*                                                                         *)
(* Two tasks share its variables and take no lock:                         *)
(*   - the event task runs onWiFiEvent.  It has the higher priority, so a  *)
(*     handler is one step here;                                           *)
(*   - loopTask runs setup() and then loop() for ever.  It is cut into the *)
(*     steps loopAt names: between any two of them the event task may run  *)
(*     (each cut is a logLine, a driver call, a read of the clock or the   *)
(*     end of a test).                                                     *)
(*                                                                         *)
(* Timestamps are kept as what the code derives from them: attemptStartedMs*)
(* as the age of the attempt, lastDisconnectMs as the time since it (Never *)
(* for its 0), reconnectAtMs as the time left.  Each saturates at the      *)
(* value beyond which no test can tell it apart.                           *)
(***************************************************************************)
EXTENDS StaDriver

CONSTANTS
  BackoffInitial,  \* kBackoffInitialMs
  BackoffMax,      \* kBackoffMaxMs
  AttemptTimeout,  \* kAttemptTimeoutMs
  AttemptQuiet     \* kAttemptQuietMs

ASSUME TimingAssumption ==
  /\ BackoffInitial \in Nat \ {0}
  /\ BackoffMax \in Nat
  /\ BackoffInitial <= BackoffMax
  /\ AttemptTimeout \in Nat \ {0}
  /\ AttemptQuiet \in Nat \ {0}

VARIABLES
  uplinkReady,        \* the flag every other part of the firmware reads
  attemptActive,
  attemptAssociated,
  attemptAge,         \* millis() - attemptStartedMs
  quietFor,           \* millis() - lastDisconnectMs, or Never
  gaveUp,             \* local of loop's deadline test
  reconnectPending,
  reconnectIn,        \* reconnectAtMs - millis()
  backoff,            \* backoffMs
  loopAt              \* the next step of loopTask

flagVars  == <<uplinkReady, attemptActive, attemptAssociated>>
timerVars == <<attemptAge, quietFor, gaveUp>>
retryVars == <<reconnectPending, reconnectIn, backoff>>
vars == <<flagVars, timerVars, retryVars, loopAt, driverVars>>

Never == -1

LoopSteps == {"recoverTest", "recover", "scheduleLost", "backoffLost", "deadline",
              "quiet", "abandon", "scheduleAbandoned", "backoffAbandoned", "due",
              "start", "reset", "dial"}

AtMost(x, y) == IF x <= y THEN x ELSE y

TypeOK ==
  /\ DriverTypeOK
  /\ uplinkReady \in BOOLEAN
  /\ attemptActive \in BOOLEAN
  /\ attemptAssociated \in BOOLEAN
  /\ attemptAge \in 0..AttemptTimeout
  /\ quietFor \in {Never} \cup 0..AttemptQuiet
  /\ gaveUp \in BOOLEAN
  /\ reconnectPending \in BOOLEAN
  /\ reconnectIn \in 0..BackoffMax
  /\ backoff \in BackoffInitial..BackoffMax
  /\ loopAt \in LoopSteps

\* setup() has just reached its startAttempt() call.
Init ==
  /\ DriverInit
  /\ uplinkReady = FALSE
  /\ attemptActive = FALSE
  /\ attemptAssociated = FALSE
  /\ attemptAge = 0
  /\ quietFor = Never
  /\ gaveUp = FALSE
  /\ reconnectPending = FALSE
  /\ reconnectIn = 0
  /\ backoff = BackoffInitial
  /\ loopAt = "start"

-----------------------------------------------------------------------------
(* Retry scheduling, called from both tasks.                               *)

SetRetry ==
  /\ reconnectIn' = backoff
  /\ reconnectPending' = TRUE

\* A slip in the cap: the doubled backoff is stored unchecked.
BackOffUncapped == backoff' = backoff * 2

BackOff == backoff' = AtMost(backoff * 2, BackoffMax)

\* In a handler both halves are one step; on loopTask the log line between them
\* makes them two.
scheduleReconnect == SetRetry /\ BackOff

-----------------------------------------------------------------------------
(* The event task: onWiFiEvent.                                            *)

NextEvent(e) ==
  /\ events # <<>>
  /\ Head(events) = e
  /\ events' = Tail(events)
  /\ UNCHANGED <<sta, bssidsFailed, ipLostArmed, loopAt>>

OnStaConnected ==
  /\ NextEvent(Associated)
  /\ attemptAssociated' = TRUE
  /\ UNCHANGED <<uplinkReady, attemptActive, timerVars, retryVars>>

\* A slip: the attempt is over, so nothing of it is kept.
AttemptOverCleared ==
  /\ attemptActive' = FALSE
  /\ attemptAssociated' = FALSE

AttemptOver ==
  /\ attemptActive' = FALSE
  /\ UNCHANGED attemptAssociated

OnStaGotIp ==
  /\ NextEvent(GotIp)
  /\ uplinkReady' = TRUE
  /\ backoff' = BackoffInitial
  /\ reconnectPending' = FALSE
  /\ AttemptOver
  /\ UNCHANGED <<timerVars, reconnectIn>>

\* A slip: the flag is spared during an attempt, "informational only".
FlagAfterLossLate == uplinkReady /\ attemptActive

FlagAfterLoss == FALSE

\* A slip: the quiet clock restarts and the association is forgotten about.
LossNotedLate == quietFor' = 0 /\ UNCHANGED <<attemptAssociated, gaveUp>>

\* A deadline test that has read the clock but not yet lastDisconnectMs, or the
\* other way round, takes the difference of an old value and a new one: nothing,
\* or almost 2^32.
LossNoted ==
  /\ quietFor' = 0
  /\ attemptAssociated' = FALSE
  /\ gaveUp' \in IF loopAt = "quiet" THEN BOOLEAN ELSE {gaveUp}

\* A slip: a drop of an established link is left to the deadline, too.
NoRetry == UNCHANGED retryVars

RetryUnlessDialling == IF attemptActive THEN UNCHANGED retryVars ELSE scheduleReconnect

\* STA_DISCONNECTED and STA_LOST_IP share one case.  Its napt::disable(), which
\* lets loopTask run, is in modules Napt and Router.
OnUplinkLost ==
  /\ NextEvent(Disconnected) \/ NextEvent(LostIp)
  /\ uplinkReady' = FlagAfterLoss
  /\ LossNoted
  /\ RetryUnlessDialling
  /\ UNCHANGED <<attemptActive, attemptAge>>

onWiFiEvent == OnStaConnected \/ OnStaGotIp \/ OnUplinkLost

-----------------------------------------------------------------------------
(* loopTask.                                                               *)

Goto(from, to) == loopAt = from /\ loopAt' = to

\* Line 367.  The verdict of the probes is an input here; module Health says
\* when it can be given.
RecoverTest ==
  /\ \E unreachable \in BOOLEAN :
       IF uplinkReady /\ unreachable THEN Goto("recoverTest", "recover")
                                     ELSE Goto("recoverTest", "deadline")
  /\ UNCHANGED <<flagVars, timerVars, retryVars, driverVars>>

\* The uplink holds an IP but answers nothing: tear it down.
Recover ==
  /\ Goto("recover", "scheduleLost")
  /\ uplinkReady' = FALSE
  /\ attemptActive' = FALSE
  /\ WiFiDisconnect
  /\ UNCHANGED <<attemptAssociated, timerVars, retryVars>>

ScheduleLost ==
  /\ Goto("scheduleLost", "backoffLost")
  /\ SetRetry
  /\ UNCHANGED <<flagVars, timerVars, backoff, driverVars>>

BackOffLost ==
  /\ Goto("backoffLost", "deadline")
  /\ BackOff
  /\ UNCHANGED <<flagVars, timerVars, reconnectPending, reconnectIn, driverVars>>

\* A slip: only a driver that has said it failed is ever given up on.
HardTimeoutIgnored == FALSE /\ attemptAge >= AttemptTimeout

HardTimeout == attemptAge >= AttemptTimeout

\* The driver may have disconnected, then gone quiet without associating.
AskQuiet == attemptActive /\ ~HardTimeout /\ ~attemptAssociated /\ quietFor # Never

DeadlineTest ==
  /\ \/ Goto("deadline", "abandon") /\ attemptActive /\ HardTimeout /\ UNCHANGED gaveUp
     \/ Goto("deadline", "quiet") /\ AskQuiet /\ gaveUp' = (quietFor >= AttemptQuiet)
     \/ /\ Goto("deadline", "due")
        /\ ~(attemptActive /\ HardTimeout) /\ ~AskQuiet
        /\ UNCHANGED gaveUp
  /\ UNCHANGED <<flagVars, attemptAge, quietFor, retryVars, driverVars>>

QuietTest ==
  /\ \/ Goto("quiet", "abandon") /\ gaveUp
     \/ Goto("quiet", "due") /\ ~gaveUp
  /\ gaveUp' = FALSE
  /\ UNCHANGED <<flagVars, attemptAge, quietFor, retryVars, driverVars>>

Abandon ==
  /\ Goto("abandon", "scheduleAbandoned")
  /\ attemptActive' = FALSE
  /\ UNCHANGED <<uplinkReady, attemptAssociated, timerVars, retryVars, driverVars>>

ScheduleAbandoned ==
  /\ Goto("scheduleAbandoned", "backoffAbandoned")
  /\ SetRetry
  /\ UNCHANGED <<flagVars, timerVars, backoff, driverVars>>

BackOffAbandoned ==
  /\ Goto("backoffAbandoned", "due")
  /\ BackOff
  /\ UNCHANGED <<flagVars, timerVars, reconnectPending, reconnectIn, driverVars>>

\* Line 495: a retry that is due is taken and its flag cleared.
RetryDue ==
  /\ IF reconnectPending /\ reconnectIn = 0
       THEN Goto("due", "start") /\ reconnectPending' = FALSE
       ELSE Goto("due", "recoverTest") /\ UNCHANGED reconnectPending
  /\ UNCHANGED <<flagVars, timerVars, reconnectIn, backoff, driverVars>>

\* startAttempt(): the bookkeeping, set before the radio is touched.
StartAttempt ==
  /\ Goto("start", "reset")
  /\ attemptActive' = TRUE
  /\ UNCHANGED <<uplinkReady, attemptAssociated, timerVars, retryVars, driverVars>>

ResetAttempt ==
  /\ Goto("reset", "dial")
  /\ attemptAge' = 0
  /\ attemptAssociated' = FALSE
  /\ quietFor' = Never
  /\ UNCHANGED <<uplinkReady, attemptActive, gaveUp, retryVars, driverVars>>

\* uplink::begin(): abort whatever is in flight, then WiFi.begin.
Dial ==
  /\ Goto("dial", "recoverTest")
  /\ WiFiRedial
  /\ UNCHANGED <<flagVars, timerVars, retryVars>>

loop ==
  \/ RecoverTest
  \/ Recover
  \/ ScheduleLost
  \/ BackOffLost
  \/ DeadlineTest
  \/ QuietTest
  \/ Abandon
  \/ ScheduleAbandoned
  \/ BackOffAbandoned
  \/ RetryDue
  \/ StartAttempt
  \/ ResetAttempt
  \/ Dial

-----------------------------------------------------------------------------
(* Time, and the whole system.                                             *)

\* Time passes between any two steps, however long a step takes: a handler
\* may block loopTask for seconds (handleSpeedDown).
Tick ==
  /\ attemptAge' = AtMost(attemptAge + 1, AttemptTimeout)
  /\ quietFor' = IF quietFor = Never THEN Never ELSE AtMost(quietFor + 1, AttemptQuiet)
  /\ reconnectIn' = IF reconnectIn = 0 THEN 0 ELSE reconnectIn - 1
  /\ UNCHANGED <<flagVars, gaveUp, reconnectPending, backoff, loopAt, driverVars>>

Driver == DriverNext /\ UNCHANGED <<flagVars, timerVars, retryVars, loopAt>>

Next == onWiFiEvent \/ loop \/ Tick \/ Driver

Spec == Init /\ [][Next]_vars

\* Both tasks run for ever and time passes.  Nothing is promised about the
\* radio: no network need ever appear.
Fairness == WF_vars(onWiFiEvent) /\ WF_vars(loop) /\ WF_vars(Tick)

FairSpec == Spec /\ Fairness

-----------------------------------------------------------------------------
(* Properties.                                                             *)

\* With the uplink down there is always somebody who will dial: an attempt
\* in progress, a retry pending, or loopTask on its way to one of them.  No
\* order of events, deadlines and recoveries leaves the router down with
\* nothing scheduled (main.cpp:229-279, 367-374, 482-499).
NobodyIdle ==
  \/ attemptActive
  \/ reconnectPending
  \/ loopAt \in {"scheduleLost", "scheduleAbandoned", "start"}

NoLimbo == ~uplinkReady => NobodyIdle

\* uplinkReady may lag behind the radio but never loses track of it: once
\* the events still queued are handled it says exactly whether the station
\* holds an IP.  Recovery, which writes the flag from the other task, keeps
\* this (main.cpp:243-279, 370-372).
IpEvents == {GotIp, Disconnected, LostIp}

LastIpEvent(k) ==
  /\ events[k] \in IpEvents
  /\ \A j \in 1..Len(events) : j > k => events[j] \notin IpEvents

FlagAfterQueue(up) ==
  /\ \A k \in 1..Len(events) : LastIpEvent(k) => (events[k] = GotIp) = up
  /\ (\A k \in 1..Len(events) : events[k] \notin IpEvents) => uplinkReady = up

BeliefTracksDriver == FlagAfterQueue(sta = "up")

\* A station without an IP never stays so unattended: it gets one, or it is
\* dialled again.  This covers drops, refusals, an access point that never
\* answers DHCP and a driver that fails without an event (main.cpp:466-469,
\* 479-499).
NeverStranded == (sta # "up") ~> (sta = "up" \/ loopAt = "dial")

\* Once the queued events are handled the supervisor takes an attempt for an
\* associated one only if it is: no event of an earlier link or candidate makes
\* the quiet rule spare a dead attempt (main.cpp:238-241, 274, 487).
AssociationEvents == {Associated, Disconnected, LostIp}

LastAssociationEvent(k) ==
  /\ events[k] \in AssociationEvents
  /\ \A j \in 1..Len(events) : j > k => events[j] \notin AssociationEvents

AssociationNotInvented ==
  sta \notin {"associated", "up"} =>
    /\ \A k \in 1..Len(events) : LastAssociationEvent(k) => events[k] # Associated
    /\ (\A k \in 1..Len(events) : events[k] \notin AssociationEvents) => ~attemptAssociated

\* Nor is an associated attempt taken for an unassociated one, for which the
\* quiet rule would end it, unless the STA_CONNECTED that says otherwise is
\* still queued.  Two things may do that: a LOST_IP, which can be the previous
\* link's, and the next attempt, before its abort (main.cpp:181-188, 261-274).
AssociationForgotten ==
  [][/\ attemptAssociated /\ ~attemptAssociated'
     /\ sta' \in {"associated", "up"}
     => \/ NextEvent(LostIp)
        \/ ResetAttempt
        \/ \E k \in 1..Len(events') : events'[k] = Associated]_vars

\* A retry is pending beside a running attempt, into which it would fire, only
\* if it was scheduled after loopTask had taken its own and before it set the
\* attempt's flag (main.cpp:58-62, 276-278, 495-498).
RetryClashOnlyAtStart ==
  [][~(attemptActive /\ reconnectPending) /\ (attemptActive /\ reconnectPending)'
     => StartAttempt]_vars

-----------------------------------------------------------------------------
(* What the comments say and the interleavings above do not respect.       *)

\* main.cpp:479: "Abandon an attempt that has run past its deadline without
\* producing an IP, and fall into the normal backoff."
OnlyFailedAttemptsAbandoned == [][Abandon => ~uplinkReady]_vars
=============================================================================
