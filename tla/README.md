# HardwareOne CM5 co-processor: TLA+ models and proofs

The repository holds the AI service that runs on a Raspberry Pi CM5 (or Pi 5)
and serves a HardwareOne device, an ESP32, over one UART. The firmware is the
UART *server*: the service logs in and writes commands, the firmware answers
each with a text reply and may push an event frame (EVT) at any time. Answers
and events share one stream, a command has no number that its reply repeats,
and either side may reboot, stall or lose bytes. Everything hard in this code
comes from that: which reply belongs to which command, what survives a new
login, who may act on what the other side said a moment ago.

## 1. Inventory

Paths are under `src/ai-service/hw1_ai_service/` unless they say otherwise.

| Part | State | Operations | What makes it correct |
|---|---|---|---|
| `power.py` host power | records per request ID, bounded queue, LRU cache, retry timers, boot-ready claim | `submit_event`, worker (`run`), `report_ready`, `link_reset`, timers | a transition runs at most once, only once committed; never reported failed after it ran; no record lost while live; owed acknowledgements settle |
| `cm5_presence.py` readiness lease | desired mode and generation, acknowledged generation, legacy probe, corrupt streak, BUSY holders | `set_mode`, `acquire_busy`, `release_busy`, `link_reset`, `run` | no READY over a busy holder or across a reboot; waiters return |
| `cm5_llm.py` model source | event queue, cancel memory, current generation, active model | `submit_event`, `attach`, `run`, `link_reset` | no text doubled, lost or misplaced; every turn gets an end; the model announced is the model served |
| `llm/server.py` llama-server | child, monitor, configured model | `start`, `switch_model`, `stop`, monitor | one healthy child of the configured model; a failed switch falls back |
| `link/session.py` session | command lock, reboot hint, login generation, mic latch | `command`, `command_with_frames`, `login`, `pump_events` | a reply goes to its command; nothing bound to an epoch crosses a login |
| `link/transport.py` | reader thread, bounded receive queue | `open`, `close`, `write` | events of a closed port never reach its successor |
| `__main__.py` supervisor | one task group per link, lazily loaded model plane | reconnect loop, `_LazyDaemonPipeline` | a broken model plane leaves the host controls up |
| `pipeline.py` voice pipeline | exchange under way | record, fetch, transcribe, ask, deliver | a cancelled exchange shows nothing; the lease is BUSY while it runs |
| `jobs.py`, `evenai_protocol.py` | priority queue, live and terminal exchanges | `submit_evenai`, `cancel_evenai`, `evenai_done` | the newest wake wins; a dismissed wake is never served |
| `fan.py` and `systemd/hw1-fan-controller` | records, cache, lease of the fan | events, callbacks, expiry, hand-back | a request is answered once; the kernel gets the fan back |
| `dictation.py` | one active request | begin, cancel, login | exactly one terminal notice per request and epoch |
| `audio/live.py`, `stt/live.py`, `stt/live_gate.py`, `audio/fetch.py` | live stream, arming, renewal | arm, renew, capture, fetch | a capture owns its stream; a stale lease is never consumed |
| the rest | clock push, link health, watchdog, delivery, engines, helpers, scripts | | see `PROJECT.json`, "components" |

How they meet. `Session` serializes every command behind one lock, so a slow
command of one component starves the heartbeat of another. EVT frames are
routed by `jobs.route_link_event` to the synchronous `submit_event` of power,
fan, LLM and dictation on the event loop. Each component has one worker task in
the supervisor's task group; `LinkClosed` in any of them cancels them all, each
component's `link_reset` runs, and the supervisor reconnects. Presence is
shared state: voice jobs, LLM turns and the pipeline all move one mode.

The hazards of this code, each at its line, and the properties that answer them
are in `PROJECT.json`, "hazards". Those without a property say why there is none.

## 2. Modules

| Module | Models | Composed of |
|---|---|---|
| `HostTransition` | what the operator is promised of a power request | abstract |
| `PowerControl` | `power.py` with the firmware's request latch | implements `HostTransition` |
| `PowerControlProofs` | theorems of `PowerControl` | extends it and TLAPS |
| `Presence` | `cm5_presence.py` with what moves it in `session.py`, `pipeline.py`, `__main__.py` | |
| `PresenceProofs` | theorems of `Presence` | extends it and TLAPS |
| `Cm5Llm` | `cm5_llm.py` with `llm/server.py` and the session's lock | |
| `LinkSession` | `link/session.py`: one command at a time, re-login, replay, guards, the event pump | |
| `Wire` | `link/transport.py`: the reader thread and its queue | |
| `VoiceExchange` | `jobs.py`, `evenai_protocol.py` and the exchange of `pipeline.py` | |
| `Recording` | `audio/fetch.py` with `run_ask` and `deliver.py` | |
| `LiveLease`, `LiveCapture`, `LiveWorker`, `Transcript` | the live speech gate: its lease, a capture's stream, the model that listens, the text it yields | |
| `LocalLlm` | `llm/server.py` and `llm/client.py` | |
| `FanBridge` | `fan.py` | |
| `FanController` | `systemd/hw1-fan-controller` and the guards of its unit | |
| `Dictation` | `dictation.py` | |
| `Upkeep` | `cm5_time.py`, `cm5_linkhealth.py`, `link/health.py` | |
| `Orders` | what an `OrderedDict` keeps, as functions of the length: `Select`, `Remembered` | used by `PowerControl`, `Cm5Llm`, `Dictation`, `VoiceExchange` |
| `OrderProofs` | lemmas about `Orders` and `FlattenSeq` | extended by the modules of theorems that need them |
| `LlmProofs` | theorems of `Cm5Llm` and `LocalLlm` | extends them and `OrderProofs` |
| `LinkProofs` | theorems of `LinkSession`, `Wire` and `Upkeep` | extends them and `OrderProofs` |
| `VoiceProofs` | theorems of `VoiceExchange`, `Recording` and `Dictation` | extends them and `OrderProofs` |
| `LiveProofs` | theorems of `LiveLease`, `LiveCapture`, `LiveWorker` and `Transcript` | extends them and `OrderProofs` |
| `FanProofs` | theorems of `FanBridge` and `FanController` | extends them and TLAPS |
| `MCDaemon` | the thirteen modules from `LinkSession` to `Upkeep`, side by side | extends them |
| `MC*` | constants of the instances TLC checks | |

The thirteen parts of `MCDaemon` share no variable. Where two of them meet in the
code, each has the other's effect as an input: the session's outcomes are inputs
of `Dictation`, `FanBridge`, `LiveLease` and `Recording`, which are told that a
command was answered, failed before the device saw it, or failed after; the
audio of `LiveCapture` is an input of `LiveWorker`, and its partial texts one of
`Transcript`. A behaviour of `MCDaemon` takes one part and leaves the others as
they start, so one run asks thirteen independent questions, and its states are
the sum and not the product of theirs.

`PROJECT.json`, "map", gives the lines each definition stands for. Definitions
that begin with `Fw`, and those marked external, are the firmware or the wire:
they are modelled from how the service uses them, from `ai-service/README.md`
and from the mirror of the firmware in `ai-service/tests/fake_firmware.py`.

A definition under the comment "Mutant:" is not part of its specification. It is
its neighbour with a plausible mistake in it, and shows that the property it
was written for notices.

### PowerControl

`rec`, `cached` and `recency` are the `OrderedDict` of `_Record`s, `queue` and
`worker` the queue and the point where `run()` is suspended: at most one UART
line is in flight, and it is `worker.at`. `fw` is the firmware's latch of each
request; `boot`, `base` and `snap` are the boot tags by which it tells a service
restart from a host reboot. `LinkLost` and `Crash` may overtake a line in
flight, which then did or did not arrive. `SubmitEvent` is `submit_event` with
its deduplication, supersession of claims and admission; `TakeReady`,
`TakeReplay`, `TakeOriginal` are the three kinds of queue items.

Left out: the automatic-profile policy (activity, idle timer); the anonymous
rejection of a malformed event; the worker's catch-all for an exception nobody
expects; the operator's `recover confirm`; events that arrive during the
re-login of a reconnect; `close()`. Power-off cannot be requested over the wire
and "reboot" stands for every transition that ends the kernel. A link that
fails at the very first claim ends the process and is `Crash`. Records are
keyed by request ID, which the firmware issues in order. Because replies and
frames share one first-in-first-out stream, a command that is answered has no
event left before it.

### Presence

`beat` is where the heartbeat actor is: in its loop, waiting for the reply to a
line (`sent`, or `resent` after Session's re-login), at the reply, parked after
a legacy peer's answer, or raised. `main` is the pipeline's daemon coroutine.
`user` is what each holder of BUSY is doing; `covered` waited for it, while
`uncovered` was let through because the mode was STARTING or DEGRADED. `suspected`
is Session's sticky hint, `alarm` the watcher that turns a hint of the running
group into `LinkClosed`. `owed` is a history variable: a hint was taken and the
firmware has handled no STARTING since.

Abstractions. A heartbeat may always be written (the cadence and
`last_sent_generation` only make it rarer). Waiting for Session's lock is part
of `Write`. Sequence numbers and the validation of a reply's fields are
`HeartbeatFails`. Cancelling a task group is one step: whatever commands a
cancelled task still writes while it unwinds are left out. The generation
restarts with a group; the code counts on, but nobody who held an older number
is left. `DispatchSuspected` may come at any moment before the watcher acts. The
re-arming of the speech gate and the hold nested inside a transcription are
left out.

### Cm5Llm

`fw` is the device's turn: its session, whether it takes lines, the sequence
number it expects, the chunks it shows. `cmd` has, for each of the two tasks
that send (the worker and `attach`), the line `_send` is working on and its
attempt; `wire` is who holds the lock, `tx` and `rx` what is on the way in each
direction. A reply is taken by whoever holds the lock, whatever line it answers;
what lies in `rx` is dropped when a line is written. `gen` is `_current`, `at`
where `run()` is. `plane` is where `_initialize` is, from the load of a model to
dictation's publication. Every load makes a supervisor of its own, counted by
`loads`; `held` is the one that `attach` gave to the worker, and stays when its
plane closes. `port` is the one child that has the port, whoever spawned it:
`/health` asks the port and not the child, so a supervisor whose child found the
port taken is told healthy all the same. `monitor` are the supervisors whose
`_monitor_main` runs. `rebound` is history: a plane was loaded while the worker
held the supervisor of an earlier one.

Abstractions. The catalog burst is one line. Text is chunk numbers, 0 the empty
keepalive. Waiting for the BUSY lease is part of starting a turn. Progress
lines, discovery, parsing and the latch for builds without the registry are
left out, and so is the `end ... stopped` that a cancelled worker still tries to
write while it unwinds (815-835): the link it would write to is the one that
fell. The five quick deaths after which the monitor gives up are one fault.

### LinkSession

`lkOwner` and `lkWaiting` are the lock and its queue, `lkCall` where each caller
is in `_command_locked` and `_login_locked`, `lkAir` the lines on their way to
the device, `lkRx` the receive queue. A line carries the number of its call;
that number is history and no action of `Session` looks at it, so a late reply
is taken by whoever waits. The four kinds of callers are the four shapes of a
call: replayed freely, never replayed, guarded by a cancellation, streaming
frames. `lkStale` says that a wait was given up with its answer to come. A login
may be answered by a lockout, which the code sleeps through with the lock held
and tries again without a limit (464-466), or be refused for good; a write may
fail. The length of a lockout is left out: it ends, and the number of them is
the bound of the faults. A write that fails has sent nothing in the model; half a
line on the wire is `garbage` of the device, which is there as a reply.

### VoiceExchange and Recording

`exTrigger` is `ManualTrigger` (registry, queue, tombstones), `exchange` each
`EvenAiExchange`, `exRun` the place of the daemon loop in `_dispatch` and
`run_evenai`: one place per await. The question's task (`ask`) and the clean-up
tail run beside it. `exLens` is what the device shows of each exchange. In
`Recording` the one recorder of the device is `rcMic`; an ask starts it, a wake
was started by the device, and every command may raise before or after it took
effect. `_dispatch` serves the probation of a suspected reboot before its own
`try`: `exRun.hint` is the hint, `quiesce` the awaits of 1105-1125, at any of which
a lost link drops the popped job (`exServed.dropped`, history). Exchange IDs
are never used twice by the device: they carry a nonce of its boot. Typed console
jobs and the operator's chat are left out.

### Live speech

`LiveLease` is the standing arm: `lvArming` and `lvRenew` are the two tasks, the
queue at the session's lock is `lvLine`, `lvFirmware` the shadow, the lease and
the capture that is about to consume it; a command that fails was handled by the
firmware or was not. `LiveCapture` has the inbox
(`LivePcmInbox`), one record per stream (`LivePcmStream`) and the capture
threads; time-outs may come at any moment, except that a begin time-out and a
deadline free the thread. `LiveWorker` is the model thread, its bounded queue,
the warm slot and the thread that builds the next one; who asks for a build
(`ensure_armed`, a capture that found none, the end of one) looks at the slot and
spawns in two steps. `Transcript` has the
history of partial texts and what `stop()` returns; texts are sequences of
normalised words, and of the time of a line only its place at the head of the
capture, within the wake window or later is kept. `txSeen` and `txStood` are
history: every hypothesis that was ever told, complete or not, and what stood at
the end of the audio. The `_text_event_drops` of a full event queue are left out.

### LocalLlm

`locProc` is `_proc`, `locCall` where `start` or `switch_model` is, `locMonitor`
where `_monitor_main` is, `locStray` children that a cancelled spawn left to be
reaped. `locHistory` is the client's deque of turns; `model`, `whole`, `era` and
`by` are history: which model said it, whether it was heard to its end, after how
many switches it was asked and by whom. A voice question whose stream breaks, or
is not answered at all, is committed with its partial or its offline text
(`pipeline.py` 534-551), which is a turn of no whole answer.

### FanBridge and FanController

A record of `fan` is one event, with its stage, its owed callbacks, its retries
and its timer; `got` is what the firmware has seen of it. `fanCache` and
`fanQueue` are the bounded cache and queue. The controller is a process of its
own: `fcHw` are the files of the fan and of its thermal zone, which the
governor of the kernel writes too, `fcDo` where the controller is in a tick, a
command or a hand-over. Time (boost, patience, back-off) may pass at any tick.
Its socket server and the discovery of the files are left out: a command is
served whole, as the server serves one at a time. A fault of `FcDisable` or `FcVerify`
is one failed access with the file unchanged; a write that took effect and fails
its readback, and a verification whose second read fails, go the same way on in
the code, to the hand-over.

`fanLogin` counts the logins of the session, `fanEpoch` those that came with
`link_reset`; the firmware refuses a callback whose request is of an earlier login
(`FanCurrent`). Left out of `fan.py`: the catch-all of `run()` (445-451), since
what it calls turns its own failures into an unavailable helper (484) or an
unconfirmed callback (673), and `close()`, which comes with the end of the process.

### Dictation and Upkeep

`dictWork` is what the worker awaits and for which request; `dictGen` the
generation a login moves on; `dictPublisher` holds the capability's lock.
`dictOpen` and `dictSent` are history. In `Upkeep` the two actors share the line
`ukLine` and nothing else. `ukHint` is Session's sticky hint: a noise that is read
under it wakes nobody. `ukMissed` is history, why a restart was not noticed: its
signs were lost, or read under the hint. `ukReader` is the reader thread between
the two halves of a bump of the generation.

### Wire

A byte is a delimiter, a newline, a character, a frame byte or noise, and a
message has `WireLength` of them. `wireReader` is the thread's two modes with
their buffers, `wireQueue` the receive queue, `wireCalls` the calls by which the
thread hands events to the loop, each with the queue it was bound to.
`wireStray` is a reader that outlived the join of `close`, with the bytes it has
still to go through: what it emits, it emits to the queue of the day. It would
also call `link_closed` of the live sink, which is an input of `LiveCapture`.

## 3. Runs

| Run | Instance | Shows |
|---|---|---|
| `power_safety` | three requests, queue and cache of 2, one retry of each kind, one EVT in flight, one fault | `AtMostOnce`, `NeverFailedAfterRun`, `RequestsKept`, `RunOnlyWhenCommitted`; `PowerControl` implements `HostTransition` (`ImplementsPromise`) |
| `power_live` | a status and a reboot, room for all | `RequestsSettle` |
| `power_claim` | violated | `NoClaimOverAccepted`: a claim that is retried overtakes a request accepted meanwhile |
| `power_terminal` | violated | `TerminalHasTerminalAck`: a profile's report that meets a closed link leaves nothing to replay |
| `presence_lease` | two holders, two shares taken, two faults, a legacy peer that may be upgraded, models that may fail to load | `SharedLease`, `NoReadyAcrossReboot`, `ModeWaitersReturn`, `ServesAgain` |
| `presence_hold` | violated | `HoldKeepsBusy`: a share taken during STARTING does not survive the pipeline's READY |
| `presence_control` | violated | `ControlPlaneStaysUp`: without models a reboot hint takes every task group down |
| `llm_answers` | two turns of up to two pushes, queue and cancel memory of 1, two faults | `TextInOrder`, `WholeAnswer`, `AdmittedAsksEnd` |
| `llm_switch` | two selects of two models and a missing one, a turn, two faults | `ReportsLoaded` |
| `llm_ready` | violated | `ReadyMeansHealthy`: `ready` is announced again for a model plane that was closed |
| `daemon` | the thirteen parts, each at its own small bounds | `FanSafe`, `LinkRunsOnce`, `LinkCallsOwn`, `ExPaints`, `ExServedOnce`, `LcSound`, `LwGiven`, `LwOwned`, `RcSafe`, `WireHeard`, `WireRetired`, `UkAnchored`, `TxSound`, `LocSafe`, `FcSafe`, `DictKept` |
| `daemon_live` | the parts whose tasks owe somebody an end, with fairness | `FanSettles`, `DictServed`, `ExSettles`, `LvKept`, `UkTallied`, `WaitsEnd` |

Several properties are the conjunction of named claims of their module, each
stated there with the code it is about:

| Property | Claims |
|---|---|
| `RequestsKept` | a request is queued once as an original, is never forgotten while it may still execute, and no more are kept than the cache holds |
| `RequestsSettle` | an admitted request reaches its commit or its end, and an owed acknowledgement is delivered or its retries are spent on it |
| `LinkRunsOnce` | what must not be repeated runs once |
| `LinkCallsOwn` | a call ends with its own reply unless a wait was given up; a dismissed call writes nothing more; no event is lost, doubled or reordered by the two loops that read |
| `ExPaints` | the question is on the lens before what replaces it; delivered means shown whole; no task or lease of an exchange survives it |
| `ExServedOnce` | a wake is served once and never after its dismissal |
| `RcSafe` | a transfer is the whole file, each piece once; an ask leaves no recorder running but for the two cases it cannot know of |
| `LcSound`, `LwGiven`, `LwOwned`, `TxSound` | a capture hears its own utterance whole and takes no successor's; a valid result was given everything; every loaded model has an owner; the final text extends what `stop()` said, is empty only if nothing stood, loses no completed line whose completion was recorded, and brings back no retraction |
| `FanSafe` | callbacks in order, none of a link that was lost, one round at the controller, one queue slot, and no record forgotten by all of worker, queue and timers |
| `FcSafe` | whoever gives the fan up leaves it at its maximum or to a governor that set its duty since, unless both ways failed; a latch means the maximum; a failed command's mode is undone; the zone is on outside a bounce |
| `LocSafe` | between calls the child is watched, one child at most serves and it is the configured one; the result of a switch is true; what the bridge remembers was heard to its end and said by the model in force |
| `DictKept` | a terminal command goes to the request that is waited for, once, and audio is touched only in a login that declared the service |
| `WaitsEnd` | every command, capture and speech worker comes back: `LinkReturns`, through lockouts, refusals and dead ports, `LcReturns`, `LwFreed` |
| `WireHeard`, `WireRetired` | damage ends at the next pause of the line; an opening hears of an earlier one only if that one's reader outlived its join |
| `UkAnchored` | the clock task never sleeps for a day over a device that restarted, unless the signs were lost or met a sticky hint |
| `ExSettles` | every accepted wake leaves the registry, but for a job dropped in a probation |
| `LvKept` | one renewal loop of the arm's own generation, no arming over a pending capture, and a lost arm is noticed |

`LinkRunsOnce` binds a command that a login may replay before it was accepted
(`Single`) only until a wait is given up with its answer to come: the late
`auth required` of an abandoned command is then taken by the next one, which is
written again although it ran.

Each module's `TypeOK` is checked with its first run, those of the thirteen parts
as `DaemonTypeOK`. What the violated runs
show is written out, with the text it contradicts, in `PROJECT.json`,
"findings".

Why the bounds are enough. Queue, cache and cancel memory (32, 128, 16 and 32
entries in the code) are cut to one or two, so that the requests of an
instance fill them and one more arrives. Three power requests are the least for
an eviction while another is live and a third is offered. A fault is a lost
link, a crash, a reboot, a lost, damaged or late line, a dead child, a failed
spawn; two of them are what it takes for a fault to hit the recovery from
another, and for a late reply to be taken in place of a lost one. The power
runs have one, since a fault at every point of the worker already gives a crash
during a commit and a replay after it; with more faults the theorems take over.
Of the thirteen parts each has the least with which two of its kind meet: two
requests, captures, exchanges, models or openings of the port, queues of one or
two entries (32, 64 and 128 in the code), one retry, and one to three faults;
`LcSeqMod` lets a stream's sequence number wrap. `daemon_live` has one exchange
and one capture at a time, since a liveness property speaks of one waiter. Three parts are taken
twice. The session has one fault with every kind of caller and with events, in
`daemon_live` too; and in `daemon` three with the callers that may log in again
(`LoginNext`), where a login goes wrong, is tried again and goes wrong once more.
The tally has in `daemon_live` no clock actor beside it, two faults and three
counts (`TallyNext`), since a bump is lost unseen only if two of the loop's, with
a report in between, come between the reader's read and its write. The transcript has three updates over one word, and two
over two words (`Words`), so that hypotheses diverge from one another and from what
`stop()` returns. A history of four partial texts is what it takes for the richest
extension not to be the latest one. `RecentLimit` and `TombLimit` are 1 (64 in the code), so
that the memories of answered requests and of ended exchanges do give up an ID while
another comes back; `DictOneTerminal` and `ExServedOnce` except just the IDs given up.
`CHECK_DEADLOCK` is off in every run: once its bounded faults and requests are
used up, an instance rests.

`WholeAnswer` speaks of answers without a late reply (`late`, a history
variable): an answer whose last push was lost *after* an earlier push timed out
and was answered late is closed as ok and is short, since any status line is
taken for the reply. `SharedLease` speaks of holders that waited;
`HoldKeepsBusy` is what the others would need.

## 4. Fairness

One asyncio event loop runs every task, so a task that can proceed does:
weak fairness of the power worker, the timers, the heartbeat actor, the
pipeline, the LLM worker, and of `submit_event`. Every command is answered or
times out, so its outcome is weakly fair as well; what is fair of the firmware
is that it handles a line it has received and repeats an event it has not seen
accepted, as its documentation says. The supervisor never stops reconnecting.
Faults are not fair, and bounded, so that "eventually" means once they are over.
Nothing is assumed of jobs arriving. Of the two parts of `RequestsSettle`,
`AdmittedRequestsSettle` leaves out requests the firmware abandoned, and
`OwedAcksSettle` histories in which the queue fills, because a full queue drops
a replay for good.

`MCFairSpec` is weak fairness of each task and thread of a part by itself: the
fan worker and each retry timer; the dictation worker and the publications; each
caller of the session, the reopening and the device, which executes what it
reads; the voice daemon, the router, the question's task and the tails; the two
tasks of the lease; each capture, worker and build thread and the event loop
that awaits a capture; the actor that tells the faults, and the reader thread that
is in the middle of a bump. A wait ends
because the code bounds it (`asyncio.wait_for`, `queue.get(timeout)`, the
deadlines of `next_item`). No fault, event, wake or frame of the device is fair.

## 5. Proofs

`OrderProofs` is what the others share: what comes out of an order of keys and of a
sequence of sequences, for every input. `Selected` and `SelectIn`: `Select` returns the
elements asked for, in their order and none twice. `RememberedKeeps`,
`RememberedAllKeeps`: an order that remembers one key or several stays injective and
within its limit, and has what it had, but for the one key it gives up. `Flattened`,
`FlatConcat`, `FlatQueue`: what `FlattenSeq` makes of a queue when a part joins or
leaves it. Both operators are recursive functions of the length, and an induction over
a length is done with a set of numbers (`Counting`, from the well-foundedness of < on
Nat), since the induction theorems of the library take an operator.

`PowerControlProofs`, for every set of requests, every queue, cache and retry
bound and any number of faults:

- `Invariance`: the inductive invariant `Inv`. `AtMostOnce` is not inductive: a
  step of the worker needs to know how far the firmware is, and a crash forgets
  what the worker knew. `Inv` ties the three together. `OneCurrent`: the firmware
  works on one request at a time. `RecordShape`: what a record's flags say of
  the helper. `WorkerShape`: at each place, which record the worker is on and
  where its latch is. `RunShape`: a request whose helper ran is committed or
  applied at the firmware, is never announced again, and its record either
  says so or is gone.
- `HelperAtMostOnce`, `NoFailureAfterRun`, `HelperOnlyWhenCommitted`: the
  properties of `power_safety` from `Inv`.
- `Refinement`: every step of `PowerControl` is a step of `HostTransition` or a
  stutter.
- `TypeCorrect`, `KeptWhileLive`: `TypeOK` and `RequestsKept`, from a second
  invariant beside `Inv`. That no request is forgotten while it may still execute
  is a matter of two orders. The queue (`Line`): an enqueued record has its
  original there, once, and nothing else has, and an original is not begun before
  it is taken (`HeldInv`). The firmware (`OrderInv`): it asks in the order of the
  requests and asks no more for what is older than one still worked at, so what
  comes again was not evicted; a record the worker is on beside the cache is
  settled. The cache is an order of what it holds (`CacheInv`), and between two
  items it is within its size or holds nothing that may go (`TrimInv`).
  `BudgetInv` and `RestInv` are the bounds of the rest. What an eviction, a
  retirement or a flush leaves of a sequence is the lemma `Selected` of `OrderProofs`.

They rest on the assumptions at the head of `PowerControl`, chiefly that the
cache is at least as large as the queue, which `config.py` validates.

`PresenceProofs`, for every set of holders, every corrupt-heartbeat limit and
any number of faults and jobs:

- `Invariance`: `Inv` has three parts. `TypeInv` adds to the types that a corrupt
  streak is paid for in faults. `HintInv` is why the fence holds: `suspected` is
  dropped by `Revoked` only, so it needs that the generation `Revoked` waits for
  is the STARTING of the hint (`RevokingWaits`), and that its being acknowledged
  means the firmware handled it (`StartingReplied`, `StartingPublished`); then
  what is owed is suspected. `LeaseInv` is why the lease is shared: a published
  generation is the mode the firmware holds, and no older heartbeat is under way
  that could still change it (`PublishedIsLease`), so a holder whose wait ended
  has the firmware off READY (`HolderShape`); a legacy peer holds no lease.
- `TypeCorrect`, `LeaseShared`, `RebootIsFenced`: `TypeOK`, `SharedLease` and
  `NoReadyAcrossReboot` from `Inv`.

`LlmProofs`, of `Cm5Llm`, for every set of models, every queue and memory and any number of
turns, pushes, selects and faults:

- `AnswerInOrder`, `AnswerWhole`: `TextInOrder` and `WholeAnswer`. What the device
  holds was pushed some time ago by lines that may since have been written twice,
  lost or answered late, so neither says enough of itself. `AnswerInv` gives the
  turn that was begun last three witnesses (`Tale`): its number, how many pushes it
  began, and for each of them how many chunks there were by then. Whoever touches
  an answer is measured against that one count: the chunk being drafted (`Drafted`),
  every push on the wire, whenever it was written (`Written`), and the device, which
  has exactly the chunks of the pushes it applied because it takes a sequence number
  once (`Applied`). A turn begun is younger than all before it since asks keep the
  order in which they were minted, through two queues (`Due`). As long as no line
  was written over an unanswered one (`~late`), a reply answers the line before it,
  so that the worker goes on only past what the device applied and the `end` finds
  it whole (`Prompt`).
- `Cm5Typed`: `TypeOK`, which is where the code's bounds are. `Fitting` says of every
  line, wherever it is, that its numbers are in bounds (`LinesFit`), that the text
  counted is at most the pushes begun (`TurnFits`), and that the cancel memory names a
  turn once and keeps to its size (`MemoryFits`, from `RememberedKeeps`). It needs
  `Placed` of `AnswerInv`: a reply counts a push only while one is being sent.
- `AnnouncesLoaded`: `ReportsLoaded`. `ServedInv`: unless a plane was loaded over
  another, the port belongs to the last supervisor, its child has loaded what is
  configured, and outside a switch the worker's active name is that model; while a
  switch stops its child nobody has the port, and no monitor runs.

`LinkProofs`, for any number of calls, pushes, openings and faults:

- `RunsOnce`: `LinkRunsOnce`. `LkInv` counts a call that must not be repeated where
  it is: still to be written, once on the wire, or run (`OnceInv`); who awaits a
  line holds the lock (`LockInv`); and while no wait was given up, one line or its
  reply is under way at the most, its owner awaits it, and a nag means that its
  command did not run (`QuietInv`), which is what a replay rests on.
- `CallsOwn`: `LinkCallsOwn`, the two action properties and the order of events. The
  reply is the call's own by `QuietInv`. Events: whichever of the loops reads, the
  pushes routed followed by those in the queue are all that was pushed (`RoutedInv`);
  a drain, a login and a pump each take a beginning of the queue. While nothing went
  wrong (`CalmInv`), whoever awaits a reply has a line or a status coming, so no call
  ends without one.
- `RetiredUnheard`: `WireRetired`, from what is scheduled on the loop and not yet
  queued: its event is of the opening it goes to, or of one whose reader outlived
  its join (`WireInv`), and a stray reader is of such an opening (`StrayInv`).
- `DamagePasses`: `WireHeard`. Once the line has paused, `HeardInv` gives the bytes on
  it and the reader's buffers exactly: the reader is between two messages, in a
  leftover of damage that ends at the next newline, or in a line or frame that is due,
  and what follows on the line is the messages still due, one after the other
  (`Between`, `InLeftover`, `InLine`, `InFrame`), then whatever was damaged later.
  Numbers that grow with the sending keep damaged and whole messages apart (`Older`).
  One lemma per byte the reader takes.
- `UkNotSleptOver`: `UkAnchored`. The invariant `UkInv` treats an acceptance that is
  still on the line like one that arrived: from either on, the device has the
  time, or the noise of its restart is still to be read behind it, and that
  noise ends the rest, or was lost or met the sticky hint (`ukMissed`).

`VoiceProofs`, for any number of exchanges, parts, jobs and faults:

- `PaintsInOrder`: `ExPaints`. `ExInv` says what the place in the exchange means: the
  question's task runs beside the answer only, and whoever writes a part of the
  answer finds the question on the lens (`PaintInv`); a queued exchange is
  registered, undelivered, queued once and not the one being served (`QueueInv`);
  leases and tails belong to the job (`OwnInv`).
- `ServedOnce`: `ExServedOnce`. An exchange whose tombstone was not given up
  (`exServed.lost`, which only grows) and that was started is on its way or has its
  tombstone, and one that waits or is about to be admitted was not started
  (`StartedInv`); a dismissed one has its tombstone and is cancelled as long as it is
  registered (`DismissedInv`). So an ID is admitted past the tombstones once.
- `DictationKept`: `DictKept`, its action property and two invariants. `DictInv`
  follows a request by the login it was born in: what waits is the newest of this login
  (`WaitsInv`), what the worker has is active unless its login is over (`WorkInv`), what
  was answered is remembered, awaited or was given up (`SentInv`), the device waits for
  the newest request (`OpenInv`), and nobody touches audio before the worker's own
  publication was accepted (`CapInv`).
- `RecordingSound`: `RcSafe`, for every length of a recording and way of transfer. A
  piece fetched by `fileread` extends the pieces there are (`PiecesGrow`), a
  fallback begins with none, and a set of frames that passes `Reassembled` is as
  large as the file and without a gap, so it is the file. The recorder belongs to
  an ask only between its start and its stop (`MicInv`). It rests on
  `RcAssumption`: a recording has at least one piece.

`LiveProofs`, for every limit, period, length of an utterance and sequence modulus
and any number of faults:

- `ArmedIsRenewed`, `NeverArmedBlind`: the two safety parts of `LvKept`. That the
  shadow which was seen off is still off when the arm is served depends on the line
  of the session: the loop asks nothing while the gate is unarmed, so it never
  stands behind an arming (`LineInv`), and an arming that had its first answer has
  nobody beside it (`TurnInv`).
- `CaptureHearsWhole`: `LcSound`. What a capture took and what its stream still
  queues are together the first frames of the utterance (`AudioInv`), and an END
  comes after the last of them. The sequence wraps and a BEGIN may be repeated, so
  the invariant also says which exchange the device's last frame is of (`SentInv`)
  and that a stream once claimed is not opened again (`HeldInv`).
- `ModelsOwned`: `LwOwned`, from what is built and who of slot, build thread and
  capture points to it (`SlotInv`, `WorkerInv`).
- `WorkerGiven`: `LwGiven`. `HandedInv`: a worker is in one place, the slot, its
  builder's hands or one capture's, and nobody spoke to it before (`PlaceInv`); a worker
  that did not fail heard, queues and fills, joined, the frames of its capture so far,
  and all of them when its input has ended (`GivenInv`).
- `TextSound`: `TxSound`, for every set of lines and every vocabulary. `TxInv` says what
  the history has of all that was told (`TxRecorded`) and of what stood at the end of
  the audio (`TxStands`); the theorem is chiefly about what `finalize` makes
  of it: that the richest extension is as long as every other, that stripping a wake
  fragment and joining words give back what was said (lemmas on `FlattenSeq`,
  prefixes and the choice of a longest entry).

`FanProofs`:

- `FanAnswered`: `FanSafe`, for every queue and cache size, number of retries, events
  and faults. `FbInv` says of every record how far it has come (`Staged`), what the
  firmware was told, one of six conversations (`Told`), who holds it, by queue,
  cache, worker or timer, and only in its own epoch (`Held`), and what the worker
  awaits for it (`Awaited`). The queue and the cache hold a record once (`Line`),
  which no property says and an eviction needs. An epoch is that of `link_reset`;
  a login in place moves none of this (section 6).
- `FcTyped`, `FanNeverAbandoned`: `FcTypeOK` and `FcSafe`, for every curve, every
  bound and any number of failed reads and writes. What is claimed of a stopped or
  idle controller holds because of how it got there, so the invariant `FcInv` says
  where the files are held, that a hand-over alone has a reason (`PlaceInv`), that
  whoever is about to look for the files finds the fan given back (`ReleasedInv`),
  that the duty being written is the maximum over a latch (`CoolInv`), and which
  mode a failed command comes back to (`AgreedInv`). One lemma covers every end of
  a tick (`TickedInv`), one every end of a hand-over (`HandedOverInv`).
  `MaxOfBounded` and `LevelTyped` keep the level on the curve.

`LlmProofs`, of `LocalLlm`, for every set of models, every limit on deaths and turns and any
number of switches, questions and faults:

- `OneTrueModel`: `LocSafe`. `LocInv` says where the child and its monitor are while
  a call stops or spawns (`ChildInv`), that somebody watches between calls
  (`WatchInv`), which model the call under way has configured (`SwitchInv`), and
  that the bridge asks nothing while it switches (`AskInv`), which is why no turn of
  its own outlives one, and which model is in force while a switch fails and is
  undone (`ModelInForce`, `TurnsInv`). `CommittedTurns` is the step of the bounded history. It
  rests on `LocAssumption`: the first model is a model.

Only model-checked, and why:

- every liveness property (`RequestsSettle`, `ModeWaitersReturn`, `ServesAgain`,
  `AdmittedAsksEnd`, the six of `daemon_live`): fairness and ENABLED are outside
  the prover's reach;
- `DaemonTypeOK`: what a proof needs of the types is in the invariants above,
  without the bounds that only keep TLC's instances small.

## 6. Where the code and its text part

Met while modelling, beside the findings of `PROJECT.json`. No run is about them;
where a model has them it is as a named exception of a property.

- `fan.py:561-566` discards fan work at `link_reset` because "a login creates a new
  epoch, so replaying an old callback after reconnect would both fail and weaken that
  security boundary". A login in place after any actor's timeout
  (`link/session.py:211-225`) tells the bridge nothing: its queue and retries go on in
  the new login, where the firmware refuses them (`FanRelogin`, `FanCurrent`;
  `FanEpochs` speaks of `link_reset`).
- `cm5_time.py:121-122`: "A link reset or suspected device reboot forces an immediate
  re-push on reconnect." `_mark_reboot_suspected` returns early under the hint of an
  earlier reboot (`link/session.py:359-361`), so a restart of which the signs are read
  then wakes nobody (`ukMissed`, the exception of `UkAnchored`).
- `cm5_linkhealth.py:94-99` cuts the cadence "short for a fresh fault". A fault that
  the reader thread notes between a report's counters and its generation, or whose bump
  is lost to another, waits out the cadence; `UkTallied` says that it is told all the
  same.
- `llm/server.py:101`: "True once it is serving it." A link lost while `attach()`
  announces the model leaves the worker bound to the supervisor of the closed plane.
  After the next load a select on it starts a second child on the port, whose probe the
  first child answers (`server.py:206-208`): the switch is reported, and did not happen
  (`rebound`, the exception of `ReportsLoaded`).
- `dictation.py:191-193`: "Model initialization must not become permanently failed
  because the UART flapped". A `LinkClosed` inside `Cm5LlmService.attach` is caught as
  any failure (`__main__.py:494`), and the plane stays failed (`plane = "failed"`).
- `pipeline.py:1187-1190` calls the release of the registry "an inner guarantee". A
  `LinkClosed` in the probation of a reboot (1105-1125) comes before the `try`: the job
  is gone, its entry stays and its repeated wake is ignored (`exServed.dropped`, the
  exception of `ExSettles`).
- `link/transport.py:119-120` keeps a stale `closed` from killing a new session. A
  reader that outlives the join of `close()` reads `self.rx` when it emits (165): its
  lines, frames and `closed` go into the queue of the next opening (`wireOutlived`, the
  exception of `WireRetired`).
- `stt/live.py:117-118`: "a trailing completed line that stop() erased is recovered".
  An update that completes a line without changing the text is not recorded (608), so
  such a line loses to a shorter one whose completion was (`TxSound` speaks of
  recorded completions).
- `stt/live.py:640-646` reads `_input_done` after `queue.Empty`, so a chunk
  published between the two is never processed although the result is valid
  (the comment at `LwLooks`; `LwGiven` speaks of what was given, not heard).
  `tests/test_live_moonshine_worker.py:128-137` expects a valid result to have
  processed every byte.
- `dictation.py:203-207`: an ID sent again after a login in place (`link/session.py:216`)
  is ignored.
- `fan.py:366-375`: a duplicate that finds the queue full leaves a finished record
  re-armed and served by nobody (`missed` in `FanServable`), and a record
  forgotten when its retries end may still be queued (`detached` in `FanOneSlot`).
- `audio/fetch.py:26-28` promises a best-effort stop if "capture started but the
  normal stop never ran"; a start that raises with its reply pending leaves the
  recorder on (`blind` in `RcReleased`). The stop after a refused start
  (`fetch.py:224-229`) may end a wake's recording of the device.
- `stt/live_gate.py:310-311` says a worker is "always replaced"; `_discard_and_rewarm`
  during a build leaves the slot to that build alone. `_warm_failures` outlives
  `link_reset` (385-393) although the log speaks of it as until then.
- `stt/live.py:143-165` tells a retraction from an erasure by the time its worker
  drained the text, not by when it was said.
- `cm5_llm.py:739-741` clears the history at a switch since old turns "would bias
  its first answer with another model's words"; the voice pipeline commits what it
  showed all the same, after the switch, and of a broken stream the part it had or
  the text in place of an answer (`LocRemembered` speaks of the bridge's turns
  only, `pipeline.py:534-551`).
- `systemd/hw1-fan-controller.README.md:71-73` has every release end "on a verified
  `enabled`"; when enabling fails the zone stays off and a later discovery does
  not turn it on (`fcCut`, the exception of `FcZoneOn`).

## 7. Plan

1. `PowerPolicy`: activity, idle timer and the automatic profile.
2. Compositions in place of inputs: `Dictation` and `FanBridge` over
   `LinkSession`, `LiveCapture` with `LiveWorker`.
3. The socket server of the fan controller and its discovery.
4. Proofs: the types of the thirteen parts with their bounds (`DaemonTypeOK`); the
   refinement of `Recording` to a transfer that is all or nothing.

Not modelled, and why: speech engines and model inference (no protocol state),
formatting and escaping, configuration, installation and deployment scripts, the
OpenClaw integration, benchmarks and probes (`tools/`, programs run by hand that
are not part of the service).
