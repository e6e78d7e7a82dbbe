--------------------------------- MODULE Napt ---------------------------------
(***************************************************************************)
(* Who switches address translation on and off: napt.cpp, reconcileNapt()  *)
(* in loopTask, and the uplink-lost handler in the event task.             *)
(*                                                                         *)
(* reconcileNapt is cut where it reads a variable the event task writes    *)
(* and around each call into the driver.  The uplink-lost handler is cut   *)
(* at its driver call, which waits for the TCP/IP task and lets loopTask   *)
(* run.  Uplink events come in any order here; module Uplink has their     *)
(* reasons.  An iteration takes a bounded time: module Watchdog ends one   *)
(* that does not.                                                          *)
(***************************************************************************)
EXTENDS ApClients

CONSTANTS
  LeaseGrace,  \* kNaptLeaseGraceMs
  LoopStall    \* bound on the time one iteration takes: the watchdog's patience

ASSUME LeaseGraceAssumption == LeaseGrace \in 1..W-1
ASSUME LoopStallAssumption == LoopStall \in Nat

VARIABLES
  uplinkReady,
  s_enabled,     \* napt.cpp's idea of it
  driverNapt,    \* the interface really translates
  loopAt,        \* next step of loopTask
  loopAge,       \* how long this iteration has taken
  eventAt,       \* "clear": the handler is inside napt::disable()
  sampled,       \* loopTask's value of millis()
  leaseSettled,  \* local of reconcileNapt
  ok,            \* local of napt::enable
  freshFor,      \* c's window: time since its association was handled;
                 \* LeaseGrace if it is over
  freshAtRead,   \* clients in their window when this iteration began to read,
                 \* if no client has associated since
  downAtRead     \* the uplink was down then and has been since

naptVars  == <<s_enabled, driverNapt>>
localVars == <<sampled, leaseSettled, ok>>
ghostVars == <<freshFor, freshAtRead, downAtRead>>
vars == <<apVars, uplinkReady, naptVars, loopAt, loopAge, eventAt, localVars,
          ghostVars>>

LoopSteps == {"poll", "sample", "settle", "decide", "enable", "enabled",
              "disable", "disabled", "rest"}

TypeOK ==
  /\ ApTypeOK
  /\ uplinkReady \in BOOLEAN
  /\ s_enabled \in BOOLEAN
  /\ driverNapt \in BOOLEAN
  /\ loopAt \in LoopSteps
  /\ loopAge \in 0..LoopStall
  /\ eventAt \in {"idle", "clear"}
  /\ sampled \in 0..W-1
  /\ leaseSettled \in BOOLEAN
  /\ ok \in BOOLEAN
  /\ freshFor \in [Clients -> 0..LeaseGrace]
  /\ freshAtRead \subseteq Clients
  /\ downAtRead \in BOOLEAN

Init ==
  /\ ApInit
  /\ uplinkReady = FALSE
  /\ s_enabled = FALSE
  /\ driverNapt = FALSE
  /\ loopAt = "poll"
  /\ loopAge = 0
  /\ eventAt = "idle"
  /\ sampled = 0
  /\ leaseSettled = FALSE
  /\ ok = FALSE
  /\ freshFor = [c \in Clients |-> LeaseGrace]
  /\ freshAtRead = {}
  /\ downAtRead = FALSE

-----------------------------------------------------------------------------
(* The environment.                                                        *)

\* "Enabling NAPT stops the SoftAP's DHCP server from completing leases"
\* (main.cpp:249-250).
Environment ==
  /\ \E c \in Clients : Join(c) \/ Leave(c) \/ (~driverNapt /\ Lease(c))
  /\ UNCHANGED <<uplinkReady, naptVars, loopAt, loopAge, eventAt, localVars,
                 freshFor, freshAtRead, downAtRead>>

Time ==
  /\ loopAge < LoopStall
  /\ loopAge' = loopAge + 1
  /\ Tick
  /\ freshFor' = [c \in Clients |-> IF freshFor[c] < LeaseGrace THEN freshFor[c] + 1
                                                                ELSE LeaseGrace]
  /\ UNCHANGED <<uplinkReady, naptVars, loopAt, eventAt, localVars, freshAtRead,
                 downAtRead>>

-----------------------------------------------------------------------------
(* The event task.                                                         *)

Handled(f, fresh) ==
  /\ eventAt = "idle"
  /\ freshFor' = f
  /\ freshAtRead' = fresh
  /\ UNCHANGED <<uplinkReady, naptVars, loopAt, loopAge, eventAt, localVars, downAtRead>>

\* leaseSeen and lastApAssocMs are one for all clients: a lease ends the window
\* of each of them.  Who has left has none.
ClientEvent ==
  \E c \in Clients :
    \/ /\ OnApStaConnected(c)
       /\ Handled([freshFor EXCEPT ![c] = 0], {})
    \/ /\ OnApStaIpAssigned(c)
       /\ Handled([d \in Clients |-> LeaseGrace], {})
    \/ /\ OnApStaDisconnected(c)
       /\ LET gone == {d \in Clients : d = c \/ d \notin stations}
          IN  Handled([d \in Clients |-> IF d \in gone THEN LeaseGrace ELSE freshFor[d]],
                      freshAtRead \ gone)

OnStaGotIp ==
  /\ eventAt = "idle"
  /\ uplinkReady' = TRUE
  /\ downAtRead' = FALSE
  /\ UNCHANGED <<apVars, naptVars, loopAt, loopAge, eventAt, localVars, freshFor,
                 freshAtRead>>

\* STA_DISCONNECTED and STA_LOST_IP, as far as NAPT goes.
OnUplinkLost ==
  /\ eventAt = "idle"
  /\ uplinkReady' = FALSE
  /\ IF s_enabled THEN driverNapt' = FALSE /\ eventAt' = "clear"
                  ELSE UNCHANGED <<driverNapt, eventAt>>
  /\ UNCHANGED <<apVars, s_enabled, loopAt, loopAge, localVars, freshFor,
                 freshAtRead, downAtRead>>

\* The handler's napt::disable() comes back from the driver.
EventDisabled ==
  /\ eventAt = "clear"
  /\ s_enabled' = FALSE
  /\ eventAt' = "idle"
  /\ UNCHANGED <<apVars, uplinkReady, driverNapt, loopAt, loopAge, localVars, ghostVars>>

-----------------------------------------------------------------------------
(* loopTask: pollRadio(), reconcileNapt(), the rest of loop().             *)

LoopStep(from, to) ==
  /\ loopAt = from
  /\ loopAt' = to
  /\ loopAge' = IF to = "poll" THEN 0 ELSE loopAge
  /\ UNCHANGED eventAt

Poll ==
  /\ LoopStep("poll", "sample")
  /\ pollRadio
  /\ UNCHANGED <<uplinkReady, naptVars, localVars, ghostVars>>

ReadBegins ==
  /\ freshAtRead' = {c \in stations : freshFor[c] < LeaseGrace}
  /\ downAtRead' = ~uplinkReady
  /\ UNCHANGED freshFor

\* leaseSeen || (lastApAssocMs != 0 && millis() - ...
SampleSettled ==
  /\ leaseSeen \/ lastApAssocMs = 0
  /\ LoopStep("sample", "decide")
  /\ leaseSettled' = leaseSeen
  /\ ReadBegins
  /\ UNCHANGED <<apVars, uplinkReady, naptVars, sampled, ok>>

SampleTime ==
  /\ ~leaseSeen /\ lastApAssocMs # 0
  /\ LoopStep("sample", "settle")
  /\ sampled' = now
  /\ ReadBegins
  /\ UNCHANGED <<apVars, uplinkReady, naptVars, leaseSettled, ok>>

\* ... lastApAssocMs >= kNaptLeaseGraceMs.
Settle ==
  /\ LoopStep("settle", "decide")
  /\ leaseSettled' = (Elapsed(sampled, lastApAssocMs) >= LeaseGrace)
  /\ sampled' = 0
  /\ UNCHANGED <<apVars, uplinkReady, naptVars, ok, ghostVars>>

\* A slip: NAPT follows the clients, whatever the uplink does.
WantWithoutUplink == radioStations > 0 /\ leaseSettled

\* A slip: only a lease seen counts, as before the grace period was added.
WantLeaseOnly == uplinkReady /\ radioStations > 0 /\ leaseSeen

Want == uplinkReady /\ radioStations > 0 /\ leaseSettled

Decide ==
  /\ \/ LoopStep("decide", "rest") /\ Want = s_enabled
     \/ LoopStep("decide", "enable") /\ Want /\ ~s_enabled
     \/ LoopStep("decide", "disable") /\ ~Want /\ s_enabled
  /\ leaseSettled' = FALSE
  /\ UNCHANGED <<apVars, uplinkReady, naptVars, sampled, ok, ghostVars>>

\* enableNAPT(true) returns false and leaves the interface as it was.
EnableFails ==
  /\ LoopStep("enable", "enabled")
  /\ ~s_enabled
  /\ ok' = FALSE
  /\ UNCHANGED <<apVars, uplinkReady, naptVars, sampled, leaseSettled, ghostVars>>

EnableWorks ==
  /\ LoopStep("enable", "enabled")
  /\ ~s_enabled
  /\ driverNapt' = TRUE
  /\ ok' = TRUE
  /\ UNCHANGED <<apVars, uplinkReady, s_enabled, sampled, leaseSettled, ghostVars>>

\* A slip: the result of enableNAPT is not looked at.
ResultUnread == TRUE

Result == ok

Enabled ==
  /\ LoopStep("enabled", "rest")
  /\ s_enabled' = Result
  /\ ok' = FALSE
  /\ UNCHANGED <<apVars, uplinkReady, driverNapt, sampled, leaseSettled, ghostVars>>

\* The event task got there first.
DisableDone ==
  /\ LoopStep("disable", "rest")
  /\ ~s_enabled
  /\ UNCHANGED <<apVars, uplinkReady, naptVars, localVars, ghostVars>>

Disable ==
  /\ LoopStep("disable", "disabled")
  /\ s_enabled
  /\ driverNapt' = FALSE
  /\ UNCHANGED <<apVars, uplinkReady, s_enabled, localVars, ghostVars>>

Disabled ==
  /\ LoopStep("disabled", "rest")
  /\ s_enabled' = FALSE
  /\ UNCHANGED <<apVars, uplinkReady, driverNapt, localVars, ghostVars>>

\* The rest of loop() touches none of this, unless recovery finds the uplink
\* wedged and declares it down.
RestOfLoop ==
  /\ LoopStep("rest", "poll")
  /\ uplinkReady' \in {uplinkReady, FALSE}
  /\ downAtRead' = FALSE
  /\ freshAtRead' = {}
  /\ UNCHANGED <<apVars, naptVars, localVars, freshFor>>

Loop ==
  \/ Poll \/ SampleSettled \/ SampleTime \/ Settle \/ Decide
  \/ EnableFails \/ EnableWorks \/ Enabled
  \/ DisableDone \/ Disable \/ Disabled \/ RestOfLoop

EventTask == ClientEvent \/ EventDisabled

Next == Environment \/ Time \/ EventTask \/ OnStaGotIp \/ OnUplinkLost \/ Loop

Spec == Init /\ [][Next]_vars

\* The tasks are scheduled and time passes; enableNAPT does not fail for ever.
FairSpec ==
  /\ Spec
  /\ WF_vars(Loop)
  /\ WF_vars(EventTask)
  /\ WF_vars(Time)
  /\ SF_vars(EnableWorks)

-----------------------------------------------------------------------------
(* Properties.                                                             *)

\* napt.cpp answers isEnabled() from its own flag and never asks the driver:
\* whenever no call is under way the two agree, although both tasks disable
\* and an enable may fail (napt.cpp:11-30).
FlagFollowsDriver ==
  \/ s_enabled = driverNapt
  \/ loopAt \in {"enabled", "disabled"}
  \/ eventAt = "clear"

\* An uplink that was down when reconcileNapt began to read, and stayed down,
\* leaves the iteration with NAPT off, whoever switched it on and whichever
\* handler found it off already (main.cpp:214-226, 263-267).
BlackholeEnds == loopAt = "rest" /\ downAtRead => ~driverNapt

\* A client in its window when reconcileNapt began to read leaves the iteration
\* with NAPT off, unless the window has ended since: the grace period is over, the
\* client has left, or a client, this one or another, was issued a lease
\* (main.cpp:211-214).  An association handled between the reads is left out: one
\* between the two of line 214 makes their difference wrap.
WindowRespected ==
  loopAt = "rest" /\ driverNapt => \A c \in freshAtRead : freshFor[c] = LeaseGrace

\* While the uplink is up and a client stays, NAPT does not stay off, whether
\* or not the client asks for a lease (main.cpp:191-196).  An association that
\* was recorded as 0, the value that means none, is the exception.
NeverStuckOff ==
  ~<>[](uplinkReady /\ stations # {} /\ lastApAssocMs # 0 /\ ~driverNapt)
=============================================================================
