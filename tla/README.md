# SpoolGate: verification project

SpoolGate turns an ESP32-S3 into a NAT router. Its station side joins an upstream
(often 802.1X) Wi-Fi network, its SoftAP side serves a printer or a few other
clients, and NAPT translates between the two. The firmware is one `loop()` task,
the framework's event task, a supervisor task on the other core and short-lived
ping tasks, which share plain variables without locks. This directory holds TLA+
models of that firmware, the TLC runs that check them on small instances, and the
theorems TLAPS proves about them for every value of their constants.

Paths below are relative to the firmware's repository (`src/main.cpp`, ...).

## 1. Inventory of the system

| component | source | state | operations |
|---|---|---|---|
| Connection supervisor | `src/main.cpp`, `src/net/uplink.cpp` | `uplinkReady`, `attemptActive`, `attemptAssociated`, `attemptStartedMs`, `lastDisconnectMs`, `reconnectPending`, `reconnectAtMs`, `backoffMs` | STA event handlers (event task); recovery, attempt deadline, retry, `startAttempt`, `uplink::begin` (loopTask) |
| Reboot watchdog | `src/watchdog.cpp` | `g_lastLoopMs`, `g_uplinkDownSinceMs`, `g_armed` | `begin`, `update` (loopTask, core 1), supervisor task (core 0) |
| Client tracking | `src/main.cpp` | `leaseSeen`, `lastApAssocMs`, `clientIp`, `radioStations` | AP event handlers (event task), `pollRadio` (loopTask) |
| NAPT | `src/net/napt.cpp`, `src/main.cpp` | `s_enabled`, the interface's translation | `reconcileNapt`, `enable` (loopTask), `disable` (both tasks) |
| Health probes and recovery | `src/net/health.cpp`, `src/main.cpp` | two `Probe`s, `g_lastRoundMs`, a ping task each | `update`, ping callbacks, the two recoveries |
| Configuration | `src/config.cpp` | `settings`, 13 NVS keys | `begin`, `save`, the overlay of `handleSave` |
| Portal | `src/web/portal.cpp` | session and expiry, reboot deadline, last speed test | page handlers, login and logout, save, speed test, `portal::loop` |
| Log ring | `src/logbuf.cpp` | 96 lines, head, count | `store` (any task), `render` (loopTask) |
| Log text and framework hook | `src/logbuf.cpp` | none | `printf`, `hookVprintf` and the clean-up in `store` |
| SoftAP and boot | `src/net/softap.cpp`, `src/main.cpp` | the AP interface and its DHCP server | `setup`, `softap::begin`, `applyDnsOffer` |
| Status LED | `src/statusled.cpp` | brightness, write cache | `setBrightness`, `begin`, `update` |
| Diagnostics | `src/main.cpp` under `NAT_DEBUG` | none the rest reads | scans, self tests, heartbeat |
| Throughput script | `tools/speedtest.ps1` | none of the firmware | |

**How they interact.** Everything meets in `uplinkReady`: the STA handlers set and
clear it, recovery clears it, `reconcileNapt`, `health::update`, `watchdog::update`
and the LED read it. `health` gives a verdict on which `main.cpp` tears the uplink
down or deauthenticates the clients. The AP handlers keep what `reconcileNapt` and
the downstream probe need. The portal changes `config::settings` under everybody
and restarts the board. The watchdog reboots it from outside. All of them log.

**What is hard here, and what makes each part correct.**

* *Interleaving.* The event task preempts `loop()` between any two of its
  statements. The supervisor must never end with the uplink down and neither an
  attempt nor a retry; NAPT's flag must follow the driver although both tasks
  switch it; a log rendering must not be torn by writers.
* *Two cores without a lock.* The supervisor's sample of the clock and the words it
  is compared with are not taken together. A healthy board should not be rebooted,
  a stalled one must be.
* *Ordering of events.* The driver's events arrive late: those of an aborted dial
  come when the next one runs, a disconnect of one association when the next one
  has begun. The flags must be right once the queue is handled.
* *Liveness.* An access point that never answers, a driver that fails without an
  event, a client that never asks for DHCP, a gateway that goes mute: none of them
  may leave the router waiting for ever.
* *Crash.* Power may fail between two NVS keys. What boots must be explainable.
* *Time.* `millis()` wraps, 0 is a sentinel for some times, and deadlines are
  compared in two ways, as differences and as values.
* *Partial failure.* `enableNAPT`, ping sessions, the supervisor's creation, SoftAP
  calls and the DHCP server's restart may fail.

`PROJECT.json` lists the single hazards at their lines with the properties that
cover them, or why none does.

## 2. Modules

| module | models | notes |
|---|---|---|
| `StaDriver` | the station side of esp_wifi as the code uses it (external) | extended by `Uplink` |
| `Uplink` | the connection supervisor | `UplinkProofs`, `MCUplink` |
| `Watchdog` | `watchdog.cpp` on a wrapping clock | `WatchdogProofs`, `MCWatchdog` |
| `LogTail`, `LogRing` | what `logbuf.h` promises, and the ring that implements it | `LogRingProofs` |
| `LogText` | the cut and the clean-up of a text, composed with `LogRing` | extends `LogRing`; `LogRingProofs`, `MCLogRing` |
| `ApClients` | clients, AP events and their handlers, `pollRadio` | extended by `Napt` and `Health`; the lemmas on its types are in the proofs of each, whose names cannot stand in one module |
| `Napt` | `reconcileNapt`, `napt.cpp`, the uplink-lost handler | `NaptProofs`, `MCNapt` |
| `Router` | the supervisor and `reconcileNapt` on one loopTask and one event task | extends `Uplink`, and implements an instance of it; `UplinkProofs`, `MCRouter` |
| `Health` | `health.cpp` and both recoveries | `HealthProofs`, `MCHealth` |
| `Config` | `config.cpp` and `handleSave` | `ConfigProofs`, `MCConfig` |
| `Portal` | session, speed test and restart on a wrapping clock | `PortalProofs`, `MCPortal` |
| `StatusLed`, `Boot` | `statusled.cpp`; `setup`, `softap.cpp` and the choice of the LED state | `BootProofs`, `MCBoot` |

Definitions carry the names of the functions and variables they translate where
TLA+ allows; `PROJECT.json` ("map") names the lines of each. An operator whose
comment begins "A slip:" is not part of a specification: it is a plausible mistake
in the definition that follows it, and putting it in that definition's place makes
TLC report the property it is paired with in `PROJECT.json` ("mutants").

**How state and steps correspond to the code**

* *Handlers of the event task* are one step: that task has priority 19 over
  loopTask's 1. `Napt` splits the uplink-lost handler at its driver call, which
  waits for the TCP/IP task and lets loopTask run. `Uplink` takes it as one step;
  `Router` splits it and shows that this makes no difference to the supervisor.
* *loopTask* is cut into the steps that `loopAt` names, wherever it reads what
  another task writes, around every driver call, and where a log line or a read of
  the clock stands between two accesses. Within a step the accesses are plain
  memory, a few instructions apart, and are taken together. `Health` keeps `update()` in
  one step, since past its arguments it shares only `finished` with the ping
  tasks, once for each probe.
* *Events* go through a bounded FIFO. Whoever posts to a full one waits. `Napt`
  and `Health` take the station's events in any order; `Uplink` and `Router` have
  the order in which the radio raises them.
* *Times* are kept as what the code derives from them where the wrap does not
  matter (`Uplink`: ages and remaining delays that saturate, so it does not see
  the wrap of `millis()` at `main.cpp:495`) and as values of a wrapping `millis()`
  where it does (`Watchdog`, `ApClients`, `Portal`).
* *Data* are what properties tell apart: a log line is its number, a character of
  a text one of the four kinds `store()` knows (`LogText`), an address the
  client it was leased to, a token the browser it was given to, a setting a model
  value, an AP address its /24 (`Config`) or its last octet (`Boot`), a ping round
  whether any reply came.
* *History variables*, which no step of the program reads, are named in the
  VARIABLES comments: `loopAge` and `outage` in `Watchdog`; `stored` and `startedAt`
  in `LogRing`; `freshFor`, `freshAtRead` and `downAtRead` in `Napt`; `heard`,
  `target` and `silence` in `Health` (`heard` and `target` belong to the ping
  tasks); `before` and `failed` in `Config`; `readyBefore` in `Router`; `idleFor`,
  `useWraps`, `savedFor`, `saveUnseen` and `speedFor` in `Portal`; `refused` in
  `Boot`.

**Assumed of the outside**

* The driver accepts a dial that follows its own abort (`uplink.cpp`), and fails on
  candidates with or without an event.
* Log output does not hold up a handler of the event task (`main.cpp:239`,
  `245-249`, `232`), so that nothing of loopTask comes between its writes.
* `enableNAPT(false)` does not fail. While NAPT is on, no DHCP exchange completes
  (`main.cpp:249-250`), so a client never gets a lease event then.
* A single NVS key is written atomically, and a put that fails leaves it as it was.
* A browser posts back the values the page showed it (`htmlEscape`, `portal.cpp:94-110`).
* The SoftAP's DHCP server starts with its interface and forgets the DNS offer
  then, and refuses options while it runs (`softap.cpp:62-69`); it may also refuse
  to stop, to start and to take any option for reasons of its own.
* The supervisor's poll is over at most `Lateness` after its time
  (`watchdog.cpp:28-29`).

## 3. Runs

State counts are TLC's distinct states.

| run | module | states | question | properties |
|---|---|---|---|---|
| `uplink` | `MCUplink` | 521 k | Can any order of events, deadlines and recoveries leave the router down for good or its flags wrong, and where can a retry meet an attempt? | `NoLimbo`, `BeliefTracksDriver`, `AssociationNotInvented`, `AssociationForgotten`, `RetryClashOnlyAtStart`, `NeverStranded` |
| `router` | `MCRouter` | 506 k | Is the supervisor's handler of a loss as good as one step, and does NAPT follow what the radio really does? | `SupervisorKept`, `LostUplinkEndsNapt`, `HeldUplinkServes` |
| `watchdog` | `MCWatchdog` | 768 k | Is every stall and every outage ended in time, across the wrap, and nothing else? | `StallIsBounded`, `OutageIsBounded`, `RebootJustified` |
| `log_ring` | `MCLogRing` | 1.4 M | Is the ring the promised tail of the log, what can a rendering under writers show, and what is left of a text? | `RingIsTail`, `RenderInOrder`, `RenderPlaced`, `TextKept` |
| `napt` | `MCNapt` | 310 k | Does NAPT follow uplink and client through every interleaving, and is a client in need of a lease left its window? | `FlagFollowsDriver`, `BlackholeEnds`, `WindowRespected`, `NeverStuckOff` |
| `health` | `MCHealth` | 657 k | Do recoveries act only on real silence, and do they act in the end? | `RecoveryNeedsSilence`, `WedgesEnd` |
| `config` | `MCConfig` | 648 k | What can saves, boots, failing puts and power losses between two keys leave, and does the page change what nobody touched? | `RestartChangesNothing`, `TornInOnePlace`, `CredentialsNeverBlanked`, `OnlyTornSaveStrands`, `UntouchedPageKeeps` |
| `portal` | `MCPortal` | 25 k | Do session, restart and speed test keep their times wherever the clock stands? | `SpeedTestEnds`, `SessionLastsAsUsed`, `RestartComes` |
| `boot` | `MCBoot` | 267 k | Is a resolver offered but for what the driver refuses, whenever the interface starts, and does the LED tell the state? | `ResolverOffered`, `StatesTellApart`, `LedTells` |

Each but `router` and `portal` also checks the module's `TypeOK`. Three runs refute
a sentence of the repository's comments; section 6 has them.

**Bounds, and why they are enough**

* `uplink`: two BSSIDs make "failed on one, still trying" differ from "out of
  candidates"; three queued events hold a whole failed dial and one late event;
  the backoff 1, 2, 3 doubles and then is capped; the timeout 4 exceeds the quiet
  time 1 and the backoff. Time may pass between any two steps, so larger values
  only add waiting.
* `watchdog`: the Horizon of 12 lies beyond both bounds and W = 14 beyond the
  Horizon, so the clock wraps in the middle of stalls and polls. Ages stop counting
  at the Horizon, which no invariant's bound reaches. The proof needs
  exactly this (`WatchdogAssumption`).
* `router`: `uplink`'s bounds but for one BSSID, two queued events, a backoff of 1
  and 2 and a timeout of 3, which still exceeds the quiet time and the backoff. A
  second event is what lets a LOST_IP, or the event of an earlier link, wait while
  the handler of the first is inside `napt::disable()`.
* `log_ring`: 3 slots and 7 lines turn the ring more than twice while a rendering is
  under way; the proof covers any number. The buffer of 4 holds three characters
  and texts reach five, so that the cut falls before, into and behind an escape.
* `napt`: W = 6 with a grace period of 2 and a radio poll of 1 lets the grace period
  end, the wrap come and the count go stale; an iteration takes at most 1.
  One client: with two that join and leave over and over `NeverStuckOff` is false
  (section 6); the invariants hold with two as well, and are proved for any number.
* `health`: one client, one queued event, streaks of 2 and their cap at 2: a
  threshold of 2 is the least at which a round that is lost or counted twice
  matters. The clock of `ApClients` is not needed (W = 1).
* `config`: each field has the values its branches tell apart (empty, Off, "ent");
  of 13 keys, 7 can differ. Four forms: one filled in for 802.1X, one as the page
  posts it with the passwords blank and the AP moved, a partial one, a bad one. One
  put at a time may have failed (`MaxFails`), so a save in which two fail is left
  to the proofs, which hold for any number.
* `portal`: two browsers, since the second one's login voids the first one's token;
  W = 14 exceeds the delays by enough that some deadlines do not wrap and are not
  `Unseen`. The set `Unseen` is tight: with one value fewer, `RestartComes` fails.
* `boot`: every brightness; last octets 0, 1, 253, 254, 255 are the edges of the
  address computation, and a value between; the proofs cover every octet. Nothing
  else of it is unbounded.

**Fairness**

* Both tasks run and time passes (weak fairness of `Loop`/`loop`, the event task
  and `Time`/`Tick`): FreeRTOS schedules a ready task, and nothing in these tasks
  waits for another for ever.
* Nothing is assumed of the radio in `Uplink`: no network need ever appear.
  `NeverStranded` therefore speaks of the next dial, not of success.
* `Napt`, `Router`: strong fairness of `EnableWorks`, the driver does not refuse for
  ever. `Router` assumes nothing else of the radio or the clients.
* `Health`: ping sessions end (`esp_ping` counts and times out each request), a
  deauthentication is carried out even if the event queue is often full (strong
  fairness of `Kick`). That ping sessions can be made is not part of the fairness
  but a hypothesis of `WedgesEnd`, for each direction by itself: `SessionsMade(d)`
  says that from some time on no round that asks d is refused its session. Rounds
  without a client, which ask upstream only, are included, and sessions of the
  other direction may be refused for ever. The weaker "sessions of d are not
  refused for ever" is not enough: as long as now and then only upstream sessions
  are refused, the recovery of a client clears both streaks first and the uplink's
  never reaches its threshold.
* `Boot`: `setup()` goes on, and `loop()` runs in both halves of the flashing period
  (strong fairness of each `ShowState`).

**Deadlock** is checked in every run. No system here may stop.

## 4. What the runs show, in the code's terms

* With the uplink down there is always an attempt, a pending retry, or loopTask on
  its way to one (`NoLimbo`), and the next dial comes (`NeverStranded`): the hard
  deadline covers an AP that never answers DHCP and a failure without any event.
* `uplinkReady` may lag but is right once the queued events are handled, although
  recovery writes it from the other task (`BeliefTracksDriver`).
* No stale event makes the quiet rule spare a dead attempt
  (`AssociationNotInvented`). That it ends an associated one takes a LOST_IP or the
  abort of the next dial (`AssociationForgotten`), and a retry meets a running
  attempt only through an event between `main.cpp:496` and the attempt's flag
  (`RetryClashOnlyAtStart`).
* `SupervisorKept` is a refinement: `Router` stops the handler inside
  `napt::disable()` while loopTask runs on, and what it does to the supervisor is a
  behaviour of `Uplink` in which the handler is one step, taken at its end. So the
  safety properties of `Uplink` hold with NAPT beside it, whose driver call comes in
  the middle of the handler; `uplinkReady` counts there as it was until the handler
  ends. The refinement says nothing of fairness, so `NeverStranded` is not carried
  over; `HeldUplinkServes` is a liveness property of its own. From the radio to the
  interface, a lost link takes NAPT with it and a held one is served
  (`LostUplinkEndsNapt`, `HeldUplinkServes`).
* `WatchdogAssumption` is all that the reboot bounds need. A reboot without cause
  takes a loop that wrote its word after the supervisor sampled the clock
  (`RebootJustified`).
* A rendering of the log is in order, and repeats nothing, whatever is logged
  meanwhile; the ring is the tail of the log at every moment. A line is what a
  terminal shows of those characters of its text that fit the buffer, each once,
  in order and no other, even if the buffer ends in the middle of an escape.
* `s_enabled` and the interface disagree only inside a call, even if `enableNAPT`
  fails. An uplink that is down throughout an iteration leaves it with NAPT off. A
  client that stays gets NAPT whether or not it asks for a lease.
* A recovery has its number of really silent rounds behind it, none used before,
  and a mute gateway or client that used to answer is acted on: the gateway with or
  without a client, each as long as sessions of its own direction can be made.
* A torn save is a prefix of the new settings and the rest of the old
  (`TornInOnePlace`), so it may join a new network's name with the old one's
  password; whether that pair can join is not the model's to say. That a save leaves
  the board asking for 802.1X without a username takes a power loss between mode and
  username, or a failed put of one of the two. Any other put that fails costs its
  own key at the next boot, except the first: without the SSID on a blank device
  everything saved is taken for unprovisioned, and the boot that stores the defaults
  again is the one way in which a stored credential is blanked. The page posted
  untouched changes nothing.
* A session lasts as long as it is used, and a save's restart comes, except where
  the wrap of `millis()` is in the way. A speed test keeps
  `loop()` no longer than its limit and three sends, those of the header, of the
  block that runs over and of the last chunk, wrap or not.
* The DNS offer survives only since `softap::begin` waits for the interface before
  it sets it. A router that is up then lacks the resolver or the long lease only if
  the driver refused it. From brightness 3 on the LED's states differ; at 1 and 2,
  amber loses its green and is the red of a dead uplink.

## 5. Proofs

Each theorem holds for every value of the constants that satisfies the module's
named assumptions. Those are facts about the code's constants (a positive timeout,
a backoff below its cap, a modulus above the times compared, bytes that are bytes),
finite client sets, and distinct model values. Two modules assume more:

* `Config`: `LegalAssumption`, `FormsAssumption` and `DefaultsAssumption` say what a
  setting and a posted value can be: no required field is legally empty, only the
  three fields that `handleSave` checks can be `Bad`, and secrets.h does not ask for
  802.1X without a username.
* `Portal`: `TimesAssumption` has the speed test's limit and one send below W
  (20 s and the 300 s after which the watchdog ends a loop(), against 49.7 days).

| module | theorems | argument |
|---|---|---|
| `UplinkProofs` | `TypeCorrect`, `SomebodyRedials`, `BeliefCorrect`, `RetryClashContained` | `TypeOK` and `NoLimbo` are inductive together, `BeliefTracksDriver` on its own: posting an IP event appends the last word on the radio's state, handling one moves the word into the flag. `EndedFirst`, that loopTask schedules a retry only for an attempt it has ended, is what confines the clash. |
| | `NoInventedAssociation`, `ForgottenOnlyByLostIp` | What follows the last STA_CONNECTED in the queue. `EndQueued`: while the radio is not associated, each STA_CONNECTED still queued, and the flag, has an end queued after it. `BeginQueued`: while it is, an end still queued is followed by a STA_CONNECTED, unless it is a LOST_IP. `Followed` and its lemmas say how appending and handling an event keep both. |
| | `CompositionKeepsSupervisor` | The refinement of `Uplink` by `Router`, one lemma for each kind of step. The mapping raises `uplinkReady` again while a handler is interrupted that found it set; `Apart`, that nobody else raises it meanwhile, is the invariant it needs. |
| | `CompositionKeepsFlag` | A statement about `Router` that no run checks: the flag of napt.cpp follows the driver beside the supervisor too. `CallsApart`: a handler inside `napt::disable()` meets no iteration on its way to enable. It leans on `Apart`. |
| `WatchdogProofs` | `TypeCorrect`, `StallEnded`, `OutageEnded`, `OnlyJustifiedReboots` | `IInv` adds `WordsTellTruth` (each word is the true age behind `now`, modulo W) and `PollOnTime` (how far the ages can have run given the time to the next poll). The bounds alone are not inductive, since they say nothing of the poll under way. |
| `LogRingProofs` | `TypeCorrect`, `OrderKept`, `PlaceKept`, `RingImplementsTail` | `Holds` says which line is in every slot. The refinement maps the ring to its lines from the oldest on; `store` is `LogTail!Log`, every other step a stutter. |
| | `EveryTextKept`, `EveryLineFits`, `TextIsRing` | `Kept` is the invariant of the loop in `store`: after n characters, it has kept those of them that are shown, and it is skipping exactly inside an escape. It needs the text to be shorter than the buffer, which the cut before sees to; so the loop's own test of the length never ends it. `TextIsRing` makes the theorems above hold of the ring with texts, which is what the run checks. |
| `NaptProofs` | `TypeCorrect`, `FlagCorrect`, `NoLastingBlackhole` | `CallsApart` (what holds while either task is inside a driver call) and `DownStaysOff` (an iteration that read the uplink as down is not on its way to enable). |
| | `WindowKept` | For any number of clients. `FreshIsKnown`: while a client is in its window no lease has been seen, and `lastApAssocMs` is at most its age behind `millis()`, wrap or not; another's association only makes it younger. `FreshStaysOff` carries that through the reads of `reconcileNapt`. |
| `HealthProofs` | `TypeCorrect`, `RecoveryJustified` | `Linked` ties a probe to its ping task: not finished while pinging, what was heard is counted, and the streak never exceeds the silence. |
| `ConfigProofs` | `TypeCorrect`, `RestartsChangeNothing`, `OneCut`, `CredentialsKept`, `OnlyTornStrands`, `UntouchedPageIsKept` | `CutKnown`: what the keys give is cut at one place (`Torn`) of the order in which `save` writes them, which is `written` while a save is under way. `SsidFirst`: from the first key of a save on, the SSID is stored unless its put failed. `NoBlankSaved`: a save under way is of no blank where a credential is stored, but for one whose put failed. |
| `PortalProofs` | `SpeedTestEnded`, `SessionLasts` | `SpeedOnTime`: once the header is sent, the difference of `millis()` and the start is what has passed since, and was below the limit when the block under way began. `DeadlineSlides`: with no wrap in the way, the deadline is the last use and the session's time. |
| `BootProofs` | `TypeCorrect`, `ResolverIsOffered`, `StatesAreTold`, `AmberIsRedBelow3` | `OptionsOutliveStart`: past the wait the interface is up, so that its start cannot undo the options any more, and what it lacks then has been refused, by the option's call or by the server that did not stop. `DimmedHue` computes each colour at each brightness; with `AmberIsRedBelow3` the bound of `StatesTellApart` is exact. |

What `store` makes of a text is a recursive function (`Loop`). The provers take no
induction rule with the formula as a parameter, so these proofs go by the least
counterexample: `LeastOf`, a first-order fact, says that a set of naturals that is
not empty has a least member, and a step of the loop shows that it is no
counterexample. The same argument shows that a function with the recursive
equation exists and is the only one (`LoopExists`, `LoopStep`).

Proof attempts that failed have changed the models. `CredentialsNeverBlanked` once
had no exception and passed its run, because the bound on failed puts cut off the
saves that refute it: if the SSID's put fails on every save of a blank device, the
next boot stores the defaults over the credentials. The bound is now on the keys
that have failed and the property names the exception. `SpeedTestEnds` rests on
the limit and a block being shorter than the wrap, which `Portal` did not say.
`TextKept` once said of a text that is too long only that its line is the beginning
of what is shown, which an empty line is as well; stated by positions, as the proof
wants it, it says where the line ends. And it holds only if the character that
begins an escape neither ends one nor ends a line (`EscapeAssumption`).

Only model-checked: every liveness property, which needs fairness that TLAPS does
not reason about (`NeverStranded`, `NeverStuckOff`, `LostUplinkEndsNapt`,
`HeldUplinkServes`, `WedgesEnd`, `RestartComes`, `LedTells`). Every invariant, action
property and refinement that a passing run checks is also proved.

## 6. Where comments and code disagree

Each of the first three has a run that TLC must refute.

| run | the comment | what happens |
|---|---|---|
| `uplink_abandon_established` | `main.cpp:479` "Abandon an attempt that has run past its deadline without producing an IP" | STA_GOT_IP between the deadline test and the write-off: a working uplink gets a retry, which tears it down. |
| `watchdog_false_reboot` | `watchdog.cpp:36-37` "the worst case is the supervisor acting on a value up to one poll interval stale" | A loop time newer than the sampled `now` underflows, and a healthy board reboots. |
| `health_mute_client` | `main.cpp:378-379` "a client that never replies to ICMP is never deauthed on suspicion" | `everOk` is one flag for all clients. |

Observed while modelling, without a run of their own:

* A late disconnect between the clearing of `reconnectPending` and the setting of
  `attemptActive` schedules a retry that fires into the running attempt, which
  `main.cpp:58-62` is meant to prevent. `RetryClashOnlyAtStart` shows that nothing
  else does, and `NeverStranded` still holds.
* `portal.cpp:482` says that every field is "applied only when the form actually
  carried a value for it"; a form without `ledBri` turns the LED dark (line 512).
* `health.h:28-29` says that a direction without an address "stays Unknown"; once a
  client has been probed, its result is shown after it has left (`health.cpp:107`).
* The disconnect event of `uplink::begin`'s own abort is not entirely "ignored"
  (`uplink.cpp:21-22`): it starts the quiet clock of the new attempt, which may then
  be written off although the driver has failed on nothing.
* The quiet rule reads `millis()` and `lastDisconnectMs` one after the other
  (`main.cpp:487`). A disconnect handled between the two makes the difference wrap,
  and the attempt is written off at once, however early it is.
* `scheduleReconnect` doubles `backoffMs` after its log line (`main.cpp:232-233`).
  STA_GOT_IP handled in between has reset it, and the next backoff is twice the
  initial one over a link that was won.
* A LOST_IP of the previous link clears `attemptAssociated` of the next attempt, so
  that the quiet rule may end an association it should spare. Each event of one
  failed dial that comes after it was written off postpones the retry again.
* `reconcileNapt` may enable NAPT over an uplink lost a moment ago; the next
  iteration switches it off.
* `leaseSeen` and `lastApAssocMs` are one each for up to four clients
  (`softap.cpp:55`): the lease of one ends the window of another, and each
  association begins the grace period again, so that a client that joins and leaves
  over and over keeps NAPT from another that is only waiting. An association in
  the millisecond that is 0 counts as none, and the grace period of a client
  whose lease was never seen comes round again every 49.7 days.
* `main.cpp:214` reads `millis()` before `lastApAssocMs`. An association handled
  between the two makes the difference wrap: the grace period looks over, and NAPT
  may be on for one iteration in the window that has just begun.
* `logbuf.h:29-30` calls a rendering safe while others log. It is not torn, but it
  may skip lines that were in the ring when it began and when it ended.
* `main.cpp:72-74` says `clientIp` "survives the client leaving"; `main.cpp:293-305`
  clears it when the last one leaves. With two clients the address of one that
  left is kept and probed, and the other is deauthed for it.
* `README.md:212-216` describes NAPT without the grace period.
* A session that was used last before a wrap of `millis()` may end at once or not
  for 49.7 days (`portal.cpp:142`), a restart likewise (`portal.cpp:824`).
* If the AP interface needs more than a second to start it does so after
  `softap::begin` has given up: clients get leases, with neither resolver nor portal.
* `applyDnsOffer` drops every error (`softap.cpp:79-109`), `begin` returns true, and
  the LED shows a healthy router over clients that get no resolver, a lease of two
  hours, or none because the server did not start again.

## 7. Not modelled, and why

* *Text*: HTML pages, the status JSON, what log lines say, names of reset reasons.
  With them the result of a probe and the figures of the speed test, which are only
  shown.
* *Diagnostics* under `NAT_DEBUG`: compiled out of the product.
* *`config::factoryReset`*: nothing calls it.
* *`tools/speedtest.ps1`*: runs on a PC.
* *Radio channel watch and heartbeat*: they log and change nothing.
* *Memory*: heap, stacks and their exhaustion, but for the calls whose failure is
  an action.

## 8. Plan

Done, in this order: the supervisor (the heart of the firmware), the watchdog that
guards it, the log ring with its abstract specification, NAPT with the clients,
configuration, health, portal, boot and LED; then `Router`, the first composition,
with its refinement of `Uplink`, failing puts, the page as a form, and the text of
log lines.

Proved since: the refinement of `Uplink` by `Router` and NAPT's flag in it, what
stale events can do to an attempt, all safety properties of `Config`, `Portal` and
`Boot`, the window of every client, what `store` makes of a text.

Next, proving more: the theorems of `Uplink` restated for `Router` by name (they
follow from `CompositionKeepsSupervisor`).

Later, extending the model: `Health`'s verdict in `Router`, so that a recovery takes
its reason from probes of the same uplink; the retry of `main.cpp:495` on a wrapping
clock; handlers that wait for their log output; `htmlEscape`, on which
`UntouchedPageKeeps` rests.
