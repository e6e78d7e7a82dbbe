-------------------------------- MODULE Router --------------------------------
(***************************************************************************)
(* The supervisor of module Uplink and the switching of address            *)
(* translation on one loopTask and one event task.                         *)
(*                                                                         *)
(* Uplink takes the uplink-lost handler as one step, and Napt takes the    *)
(* station's events in any order.  Here the events come as the radio       *)
(* raises them, and the handler stops where the code's does: inside        *)
(* napt::disable(), whose driver call waits for the TCP/IP task.  By then  *)
(* uplinkReady is false and nothing else of the loss has been noted, and   *)
(* loopTask runs on, through recovery, deadlines and dials.                *)
(*                                                                         *)
(* Of the clients only the answer is kept that reconcileNapt wants of      *)
(* them; module Napt says how it comes about.                              *)
(***************************************************************************)
EXTENDS Uplink

VARIABLES
  clientSettled,  \* radioStations > 0 and leaseSettled
  s_enabled,      \* napt.cpp's idea of it
  driverNapt,     \* the interface really translates
  naptAt,         \* "decide", "enable", "enabled", "disable", "disabled": next step
                  \* of reconcileNapt; "rest" once it is over
  ok,             \* local of napt::enable
  handling,       \* the loss whose handler is inside napt::disable(), or Idle
  readyBefore     \* history: uplinkReady as that handler found it

switchVars  == <<s_enabled, driverNapt, naptAt, ok>>
handlerVars == <<handling, readyBefore>>
routerVars  == <<vars, clientSettled, switchVars, handlerVars>>

Idle == "idle"

RouterInit ==
  /\ Init
  /\ clientSettled = FALSE
  /\ s_enabled = FALSE
  /\ driverNapt = FALSE
  /\ naptAt = "rest"
  /\ ok = FALSE
  /\ handling = Idle
  /\ readyBefore = FALSE

-----------------------------------------------------------------------------
(* The outside.                                                            *)

Outside ==
  \/ /\ Driver \/ Tick
     /\ UNCHANGED <<clientSettled, switchVars, handlerVars>>
  \/ /\ clientSettled' = ~clientSettled
     /\ UNCHANGED <<vars, switchVars, handlerVars>>

-----------------------------------------------------------------------------
(* The event task.                                                         *)

\* A handler that does not come to napt::disable() is one step, as in Uplink.
HandleAtOnce ==
  /\ handling = Idle
  /\ OnStaConnected \/ OnStaGotIp \/ (~s_enabled /\ OnUplinkLost)
  /\ UNCHANGED <<clientSettled, switchVars, handlerVars>>

LossBegins ==
  /\ handling = Idle
  /\ s_enabled
  /\ \E e \in {Disconnected, LostIp} : NextEvent(e) /\ handling' = e
  /\ uplinkReady' = FALSE
  /\ readyBefore' = uplinkReady
  /\ driverNapt' = FALSE
  /\ UNCHANGED <<attemptActive, attemptAssociated, timerVars, retryVars,
                 clientSettled, s_enabled, naptAt, ok>>

\* A slip: the link is down, so a retry is scheduled whatever loopTask began.
NoteLossUnasked == LossNoted /\ scheduleReconnect

\* Whether an attempt is active is asked only now.
NoteLoss == LossNoted /\ RetryUnlessDialling

LossEnds ==
  /\ handling # Idle
  /\ handling' = Idle
  /\ readyBefore' = FALSE
  /\ s_enabled' = FALSE
  /\ NoteLoss
  /\ UNCHANGED <<uplinkReady, attemptActive, attemptAge, loopAt, driverVars,
                 clientSettled, driverNapt, naptAt, ok>>

EventTask == HandleAtOnce \/ LossBegins \/ LossEnds

-----------------------------------------------------------------------------
(* loopTask: reconcileNapt, then Uplink's steps, and round again.          *)

NaptStep(from, to) ==
  /\ loopAt = "recoverTest"
  /\ naptAt = from
  /\ naptAt' = to
  /\ UNCHANGED <<vars, clientSettled, handlerVars>>

\* A slip: NAPT, once on, is left to the handler.
WantOnce == (uplinkReady /\ clientSettled) \/ s_enabled

Want == uplinkReady /\ clientSettled

Decide ==
  /\ \/ NaptStep("decide", "rest") /\ Want = s_enabled
     \/ NaptStep("decide", "enable") /\ Want /\ ~s_enabled
     \/ NaptStep("decide", "disable") /\ ~Want /\ s_enabled
  /\ UNCHANGED <<s_enabled, driverNapt, ok>>

\* enableNAPT(true) may return false.
EnableFails ==
  /\ NaptStep("enable", "enabled")
  /\ ok' = FALSE
  /\ UNCHANGED <<s_enabled, driverNapt>>

EnableWorks ==
  /\ NaptStep("enable", "enabled")
  /\ ok' = TRUE
  /\ driverNapt' = TRUE
  /\ UNCHANGED s_enabled

\* A slip: enableNAPT's result is not looked at.
ResultUnread == TRUE

Result == ok

Enabled ==
  /\ NaptStep("enabled", "rest")
  /\ s_enabled' = Result
  /\ ok' = FALSE
  /\ UNCHANGED driverNapt

\* The event task may have got there first.
Disable ==
  /\ IF s_enabled THEN NaptStep("disable", "disabled") /\ driverNapt' = FALSE
                  ELSE NaptStep("disable", "rest") /\ UNCHANGED driverNapt
  /\ UNCHANGED <<s_enabled, ok>>

Disabled ==
  /\ NaptStep("disabled", "rest")
  /\ s_enabled' = FALSE
  /\ UNCHANGED <<driverNapt, ok>>

Reconcile == Decide \/ EnableFails \/ EnableWorks \/ Enabled \/ Disable \/ Disabled

Supervise ==
  /\ naptAt = "rest"
  /\ loop
  /\ naptAt' = IF loopAt' = "recoverTest" THEN "decide" ELSE "rest"
  /\ readyBefore' = (readyBefore /\ loopAt # "recover")
  /\ UNCHANGED <<clientSettled, s_enabled, driverNapt, ok, handling>>

RouterLoop == Reconcile \/ Supervise

RouterNext == Outside \/ EventTask \/ RouterLoop

RouterSpec == RouterInit /\ [][RouterNext]_routerVars

\* Both tasks are scheduled, time passes, enableNAPT does not fail for ever.
RouterFairSpec ==
  /\ RouterSpec
  /\ WF_routerVars(EventTask)
  /\ WF_routerVars(RouterLoop)
  /\ WF_routerVars(Tick /\ UNCHANGED <<clientSettled, switchVars, handlerVars>>)
  /\ SF_routerVars(EnableWorks)

-----------------------------------------------------------------------------
(* Properties.                                                             *)

\* What the split handler does to the supervisor is what a handler in one
\* step would: that step is its end, until which its event counts as queued
\* and uplinkReady as it was.  So the safety properties of Uplink hold of the
\* composed supervisor, seen this way (main.cpp:261-279 against 363-499).
Unhandled == IF handling = Idle THEN events ELSE <<handling>> \o events

AtOnce == INSTANCE Uplink WITH
  events      <- Unhandled,
  uplinkReady <- uplinkReady \/ readyBefore,
  QueueLen    <- QueueLen + 1

SupervisorKept == AtOnce!Spec

\* From the radio to the interface: an uplink that is really gone takes NAPT
\* with it, also if the loss is handled while loopTask is enabling, when the
\* handler finds nothing to disable (main.cpp:208-227, 263-267).
LostUplinkEndsNapt == (sta # "up" /\ driverNapt) ~> (sta = "up" \/ ~driverNapt)

\* While the radio holds its IP and a settled client stays, NAPT does not stay
\* off: no event left over from an earlier link, recovery or write-off keeps
\* the firmware from noticing the uplink it has (main.cpp:208-309).
HeldUplinkServes == ~<>[](sta = "up" /\ clientSettled /\ ~driverNapt)
=============================================================================
