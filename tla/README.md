# Verification of the ESP32 RR1 timer

TLA+ models of the firmware under `src/`, TLC configurations that check them on
small instances, and theorems about them that TLAPS checks for every value of
the constants. Line numbers refer to the files of this repository; files
without a directory are in `components/rr1_capture/`.

## The system

The timer stamps the edges of two lane sensors and of the GPS pulse (PPS),
keeps the lane transitions in a ring, and publishes them over MQTT. It runs on
one core under FreeRTOS.

| Part | State it keeps | Operations | Talks to | Correct when |
|---|---|---|---|---|
| Capture (`timer_capture.c`) | `recv_que`, poll deadlines, `softGpsUs`, `realGpsUs`, `staleGpsUs` | ISR queues edges; `capture_main` runs polls and takes edges from the queue | calls the extension, `th_append()`, `scheduleMqPubDataList()`, `log_gps_pps()` | stamps keep coming; soft captures are not taken for PPS |
| Extension (`quad_uint32.c`) | `gqh` | `qc_get64()`, `init_qcontrol()`, `testem()` | called by capture and by `app_main()` | every 32-bit stamp gets its true 64-bit value |
| History ring (`timer_hist.c`) | `hist`, `nextCaptureHist`, `nextXmitHist`, `lastHealthUs`, `mqTxMutex` | `th_append()`, `mqPubDataList()`, `timerHistMqPubAcked()`, `timerHistMqPubCleared()` | MQTT client, scheduler | a transition stays until the broker has it |
| MQTT client (`timer_mqtt.c`) | `p_client`, the in-flight record, credits, reconnect task | event handler, `mq_pub64()`, clears and timeout, Wi-Fi callbacks | esp-mqtt, history, Wi-Fi power, error priorities | one publish in flight; acks matched; reconnects |
| Publish scheduler (`timer_marshal.c`) | deadlines of `mq_marshal` | notification, credit refill, health heartbeat | `mqPubDataList()` | no wakeup is lost for good |
| GPS translation (`gps_xlate.c`) | `gps_list`, `recent_pps` | `log_gps_pps()`, `getGpsHandle()`, `xlateCap64()` | history, candidate block | a transition has no time or the true one |
| Candidate block (`timer_hist.c:143-216`) | `candidateBlock` | rolls over, audit (not called) | history | births and expiries follow the stamps |
| Wi-Fi power (`wifi_power.c`) | three atomic holds, tracked mode | hold, release, percentage | MQTT client, OTA | awake while held |
| Errors, LED, laser (`timer_blink.c`) | active errors, blink handlers, laser start | `set_error_priority()`, `do_blink()`, `toggle_visible_laser()` | all parts set errors, capture polls | the pattern shown is the lowest active error's |
| Wi-Fi (`rr1_wifi_prov/app_main.c`) | `wifi_ip`, event group, reset flag | provisioning, Wi-Fi and IP events, reset button | MQTT client, errors | address and error tell the truth; joins again after a drop, and not after a reset |
| Credentials (`get_mqtt_creds.c`) | `creds`, the response buffer | two HTTPS requests, retried | NVS, MQTT client | MQTT starts with all credentials of one attempt |
| OTA (`main/rr1_ota.c`) | `latest_ota_etag`, NVS etag | five attempts | NVS, Wi-Fi power, errors | a device that takes itself for current is |
| NMEA reader (`rr1_gps/`) | line buffer | reads and logs | nothing | makes progress |
| Tap (`timer_i2c_tap.c`) | I2C bus, device, queue, interrupt, task; ring of tap times | init, reinit, ISR, task | laser | nothing half set up; five taps in five seconds toggle |
| NVS (`nvs_utils.c`) | key-value pairs in flash | get, set | credentials, OTA | the firmware etag only follows an installed image |
| Motion, CPU idle, health, CLI, message encoding, tests | – | – | – | not modelled, see `PROJECT.json` |

What is hard here: four tasks and an ISR share unprotected state; the MQTT
event handler runs in esp-mqtt's task and holds its lock; acks, timeouts,
disconnects and resends cross; Wi-Fi and MQTT events are handled in two tasks
that schedule a third; the chip restarts between two writes to flash; GPS pulses
get lost while SNTP steps the clock; a 32-bit counter wraps; memory, credits and
queues run out. `PROJECT.json` lists the hazards line by line, with the property
that would show each of them going wrong, or why none does yet.

## Modules

| Module | What it is |
|---|---|
| `LaneDelivery` | abstract: the broker receives the transitions in order, and one is forgotten only after the broker has it |
| `TimerPublish` | ring, in-flight record, mutex and the four tasks of the publish pipeline, with the network |
| `TimerPublishProofs` | typing, the two deadlock theorems, the publish hold, the delivery invariant and the refinement of `LaneDelivery` |
| `CaptureClock` | capture queue, watchdog, PPS filter and the 64-bit extension |
| `CaptureClockProofs` | its invariant, and the extension, PPS filter and PPS report theorems |
| `Connection` | provisioning, reset button, Wi-Fi events, MQTT session and reconnect task |
| `ConnectionProofs` | its invariant and the theorems about hold, session, wake-ups, status and reset |
| `WifiPower` | the holds, the mode computed from them and the share of MIN_MODEM time |
| `WifiPowerProofs` | awake exactly while held; the share is a percentage |
| `Blink` | error priorities, the pattern they select, the walk of the capture task through it |
| `BlinkProofs` | its invariant: what the newest change leaves, and the walk in step with it |
| `TapLaser` | set-up of the accelerometer, taps, and the visible laser with its timeout |
| `TapLaserProofs` | all-or-nothing set-up; taps are spent once and not left waiting |
| `Startup` | credentials, then the firmware update with its etag in flash |
| `StartupProofs` | its invariant: credentials complete, current means installed |
| `GpsXlate` | the ring of PPS stamps and the translation of a transition's time |
| `GpsXlateProofs` | lemmas about division, its invariant, true time and order in a block |
| `MCTimerPublish`, `MCCaptureClock`, `MCWifiPower`, `MCBlink`, `MCGpsXlate` | instances for TLC |

### TimerPublish

*State.* `hist` holds in each slot the number of the transition stored there, so
that a property can speak of "the third transition"; 0 stands for a slot that
was never written (`cap_value64 == 0`, `timer_hist.c:490`). `inFlight` is
`inFlightMsgId` with `inFlightRecap`, `overdue` says that `inFlightXmitUs` is
more than 30 s ago, `publishHold` is the publish hold of `wifi_power.c`.
`captured` and `retired` are history variables. `job` holds the locals of
`mq_marshal`, `pc` where each task is.

*Steps.* One action per stretch of a task's code between two points where
another task can change what it reads. `mqPubDataList()` is `MarshalBegin`
(the timeout, before the lock), `MarshalLock`, `MarshalCheck`, `MarshalRead`,
then `mq_pub64()`: `MarshalSend`, `MarshalEnqueue` or `MarshalEnqueueFails`,
`MarshalRecordId`, `MarshalRecordRecap`. The ack handler is `MqttPublished`
(comparison without the mutex), `AckLock`, `AckApply`, `AckDone`.
`clear_pending_mq_msg()` is `BeginClear` and the three steps of `Clear(t)`, in
each of the three tasks that call it. The unprotected `mq_publish_credits++` is
split into its load (`MarshalWake`) and its store (`MarshalCredit`).

*Scheduling.* One core, preemptive, fixed priorities, so a step is taken only
when no task of a higher priority could run: `CanRun`, with priority
inheritance of the mutex. esp-mqtt dispatches events with its API lock held and
`esp_mqtt_client_enqueue()` takes that lock (`WaitsForApi`). The priorities of
esp-mqtt's task (5) and of the event loop (20) are ESP-IDF's defaults. Two
tasks of priority 5 are interleaved freely (time slicing).

*Time* is not measured. A delay that can have passed is an action that can
happen: `AckTimeout`, and `MarshalWake(due)` for any set of deadlines.

*Network* (external): a message in `outbox` is delivered or lost, an ack is
handed over or lost, in any order. esp-mqtt keeps no message across reconnects
(`timer_mqtt.c:530-536`). The test hook that swallows the first PUBACK is
enabled in the build (`timer_mqtt.c:49-51`) and is modelled (`DropFirstPubAck`).

### CaptureClock

`qc_get64()` looks at the two top bits of a stamp only. A stamp is therefore
the number of the quarter of the counter's range it was taken in, counted from
the start without wrapping, of which the code sees the remainder modulo 4. `now` is
`esp_timer_get_time()`; `quarter` and `phase` are the capture counter.
`recv_que` is the queue between the ISR and `capture_main`, with its overflow.
`quadWatchdog` is the poll, `ReceiveGps` is `pinHandlerGps()` with the filter of
soft captures, `ReceiveLane` and `ReceiveWake` the other items of the queue.
`Tick` lets time pass only while no poll is due and no event has waited for
`MaxLag`: `capture_main` is prompt, by its priority and because its loop waits
for 10 s at most. The counter runs at 1 MHz (`timer_capture.c:220`), so a
quarter is 1074 s, against a poll period of 45 s and a grace of 2 s. (A comment
in the ISR still speaks of 80 MHz, `timer_capture.c:119`; at that rate a quarter
would be 13.4 s and the watchdog too slow for `PaceAssumption`, which asks for
`PollPeriod + Grace + MaxLag <= Quarter + 1`.) `awakenPoll` is bounded: it does not
put wakes alone into all of the queue, for while wakes fill it a soft capture is
lost in every poll. The queue has 25 places and `capture_main` reads it at once.
Of `testem()`, each call of `qc_get64()` is one step.

### Connection

Six actors: the main task (`MainTask`: `rr1WifiProv()` up to
`xEventGroupWaitBits()`, then `mqtt_app_start()`), the button callback
(`Click`, `ButtonTask`), the system event loop (`EventLoop`: `event_handler()`),
the ESP-MQTT task (`MqttTask`: `mqtt_event_handler()`), `mqttReconnectTask()`
(`ReconnectTask`), and outside the firmware the Wi-Fi driver and the broker. A
handler is cut where it reads what another actor writes: `OnDisconnected` posts
the error, `timerMqttWifiDisconnected` clears `p_client` and the hold,
`CheckReset` tests `wifi_provisioning_reset_pending` and `Rejoin` calls
`esp_wifi_connect()`. The handlers of `WIFI_EVENT` exist only on a device that
was provisioned at its start (`registered`, `app_main.c:644`). `Restart` forgets
everything but the credentials in flash. Nothing is counted, so no bound is
needed: a link is lost, an attempt fails and a session breaks as often as they
like. `joins` saturates at 2 and only tells one join from several.

ESP-MQTT (external) has the four states the code depends on; `RequestReconnect`
is refused in all but one, as `esp_mqtt_client_reconnect()` is. A session may
outlive a drop of the link: then `p_client` stays NULL, requests are refused, and
publishing resumes only when the broker or the keep-alive ends the session. That
this end comes is up to them, so `SessionRecovers` starts from there.

Tasks interleave freely here, in `WifiPower`, `Blink` and `TapLaser`. On one core
with fixed priorities not every such order happens; the models allow more than
the device does, so what holds in them holds on the device.

### WifiPower

`setWifiPowerHold()` is `SetHold` (the atomic exchange), up to three `LoadHold`
(one operand each of the disjunction that computes the mode), `SetPs` or
`SetPsFails`, then `NoteTotal` and `NoteMode` of `noteWifiPowerSaveMode()`. The
sample of the health message is `BeginSample` and `EndSample`. The code has no
lock around these steps. What it does promise is told by following the newest
change of a hold: `overtaken` marks the calls whose change is no longer the
newest, and `applied` and `noted` say what became of the newest mode in the driver
and in the metric. However calls overlap, a newest mode that took effect is the one all
holds ask for, and it always takes effect or is refused. Two things the code lets happen and
`AwakeWhileHeld` names: an older mode is applied over the newest (`older`), which
can leave the radio asleep under a hold, and nothing tries again after a
refusal (`refused`). `blurred` marks overlapping notes and samples, of which the
share is not safe. `umain.c:83` and
`apply_wifi_link_settings()` set mode NONE before the first hold, so the driver
starts in either mode and `current` in NONE.

### Blink

`set_error_priority()` is `StoreError`, one `ScanError` per turn of the search,
and `StorePattern`, `ResetIndices`, `reset_blink_poll` per output; `do_blink()`
is `StartPoll`, `ReadAction`, `LoadRepeat`, `advance_blink_handler`,
`ApplyAction`. A poll that races a change of pattern may walk past an array's end;
what it reads there is a nondeterministic choice. As in `WifiPower`, `overtaken` and
`shown` follow the newest change of an error to each output, in all overlaps of
calls and polls: once stored its pattern is that of the lowest error (`ShowsLowest`), unless
an older call stores over it (`older`). `torn` marks an output from a new pattern
until its indices are reset outside a poll of it. Outside that stretch, whoever
sets which pattern and whatever a race left behind before, the walk
stays in its arrays and the flashes name the pattern; inside it the code promises
nothing.

### TapLaser

`rr1_i2c_tap_init()` step by step (`Steps`); a failed step takes down what there
is in the order of `Unwinding`. A command may try again. `SingleTap` is a tap's
record and `audit_tap_history()`, `LoadEnabled` and `StoreEnabled` the unprotected
test and assignment of `toggle_visible_laser()`, `LaserPolls` the poll of the
capture task with `laserTimeout()`. Ages are kept in seconds and saturate. In the
first five seconds `now - 5000000` wraps and no tap counts (`timer_i2c_tap.c:95`);
`early` marks a last tap of that time, and without it `TogglesCostTaps` allows no
taps in the ring that are enough for a toggle.

### Startup

`RequestCreds` to `StartTasks` is `app_main()` with `https_request_creds()`;
`OnData` is `accum_event_handler()`, whose static index must be reset for each
request. `OtaTask` is `rr1_ota_task()` and `rr1_ota_attempt()`. The server
publishes images in between; an etag is the number of its image. Requests fail, answer with an error
page (`PageTag`) or are cut, `nvs_get()` and `nvs_set()` fail, the chip restarts
between any two steps and keeps `image` and `etag`.

### GpsXlate

`log_gps_pps` for pulses that may get lost, `ClockStep` for SNTP, `th_append`
with `potentialRollCandidate` and `xlateCap64`. `err` is how far the system
clock is off; before SNTP it counts from zero. The capture counter need not run
at its nominal rate.

## What TLC checks

| Run | Bounds | What it shows |
|---|---|---|
| `publish_safety` | ring of 3, batch of 2, 1 credit, 2 message ids, 4 transitions, backlog of 2 | no self-deadlock, no lock cycle, nothing forgotten, batches in order, hold and flight agree, the backlog is intact, `LaneDelivery` is implemented |
| `publish_live` | ring of 2, 1 transition, 2 ids | `EveryTransitionRetired` |
| `fast_ack` | 2 transitions, no swallowed ack | violated: finding 1 |
| `capture_clock` | quarter of 3 ticks, polls every 2, grace 1, queue of 2, 27 ticks | exact extension over two wraps, soft captures told from PPS, outages counted once, the PPS report is fresh |
| `self_test` | the same with `testem()` | violated: finding 2 |
| `connection` | none; 68 256 states | the connect hold has an owner; `p_client` means a session; address and error are right when the queue is empty; no lost wake-up; at most one join after a reset; a lost session and a lost link come back |
| `first_boot` | none | violated: finding 3 |
| `wifi_power` | two interchangeable tasks, three holds, time up to 3; 2.1 million states | however calls overlap, the newest change of a hold leaves the radio awake exactly while held; the share is within 0..100 |
| `blink` | two callers, one output; 2.4 million states | however calls overlap, the newest change shows the lowest active error; once reset outside a poll, the walk stays in the arrays and the flashes name the pattern |
| `tap_laser` | ring of 3, 2 taps within 2 s, laser time of 2 s, queue of 2, 5 taps | nothing is left half set up, no tap counts for two toggles and enough of them never wait, the laser goes dark |
| `startup` | buffer of 2 chunks, 5 attempts, 3 images | MQTT starts with all credentials, current means installed, an etag is given up only after the last attempt, start-up ends |
| `gps_xlate` | ring of 3, 3 ticks a second, 6 seconds, clock right or one second off; 1.4 million states | a transition has no time or the true one; times in a block keep their order |

*Why the bounds are enough.* Four transitions in a ring of three slots make
both indices wrap and reuse a slot, and a backlog of two with batches of two
has full, partial and empty batches. One publish is in flight at a time, so two
ids are enough for an old message or ack to be about while a new one is sent;
an id is reused only when nothing refers to the old one, as the code's ids come
round only after 65535 publishes. One credit is both full and one from empty.
In `capture_clock` the numbers are the tightest that `PaceAssumption` allows
(2 + 1 + 1 = 3 + 1, 2 + 1 = 3, 1 = 1), so that a watchdog that is one poll late
skips a quarter. `publish_live` needs one transition: what can stop it (a lost ack, an
empty balance, an expired publish) does not depend on a second one, and
with more the state graph for the temporal check grows out of reach.
In `wifi_power` an overlap needs two calls; a third task only repeats one of
the two, and the theorems hold for any number. `blink` has one output, because
the handlers of two outputs share nothing but the search for the lowest error
(with two, more than 18 million states did not finish). In `tap_laser` five taps
wrap the ring and are enough for two toggles, and `Need < Ring` as in the code (5 of
10). In `startup` three images give one between HEAD and GET and one after. In
`gps_xlate` six seconds fill and overwrite the ring of three.

Deadlock is checked in all passing runs. Every property has a mutant in
`PROJECT.json`: a plausible slip in the code under which TLC finds the property
violated. The mutated definitions stand next to the originals.

*Fairness.* `publish_live`: A task that can run is run, and mq_marshal's
periodic deadlines (credit and health) are taken again and again: FreeRTOS
schedules by priority and the higher tasks all block. `SF` on those wakeups and
on the delivery of acks is needed because another task or the API lock can
disable them for a moment. That esp-mqtt connects again after a disconnect
(`SF` on `MqttConnected`) is an assumption here; `SessionRecovers` of `Connection`
shows what it rests on.
Faults (loss, disconnects, failed allocations, an ack slower than 30 s) happen
any number of times and then stop (`<>[][~Fault]_vars`), without which nothing
can be promised. Notifications get no fairness: one may be overwritten by the
next (`timer_marshal.c:34`), and the property does not depend on them.
`connection`: every task runs in the end, an attempt ends by its timeout of 20 s,
and a join or an attempt that is made again and again succeeds once (`SF`);
nothing is assumed of faults, clicks and restarts, so `SessionRecovers` is
about a link that stays up in the end, and excepts a chip that restarts first or had no
memory for its reconnect task.
`tap_laser`: the capture task polls, time passes, the tap task runs when it can;
nothing of taps or the set-up. `startup`: the tasks go on and requests end; the server answers in
full, with an answer that fits the buffer, if it is asked again and again; a
Wi-Fi error ends, which is `LostLinkRejoins` of `Connection`. A response that never
fits is retried for ever (`get_mqtt_creds.c:142`): that is the code, and the
assumption excludes it.

## Findings

1. *A fast ack is ignored* (`fast_ack`). The comment at `timer_hist.c:92-97`
   says the mutex serialises the handoff with a fast ack. The handler compares
   `inFlightMsgId` without the mutex (`timer_mqtt.c:334`), and the id is stored
   only after the enqueue returned (`timer_mqtt.c:545`). An ack in between is
   dropped; after 30 s the publish is cleared and sent again. Nothing is lost
   (`publish_safety` includes this case), but the pipeline stalls for 30 s and
   the broker sees the batch twice.
2. *The self test resets the running extension* (`self_test`). `app_main()`
   calls `testem()` (`main/umain.c:87`) long after it started `capture_main`,
   and not before Wi-Fi and the credentials are up. It resets the one `gqh`
   both use and leaves it at quarter 9: the 64-bit time jumps by whole wraps
   (71.6 minutes each). `capture_clock` shows that without it the extension is exact.
3. *A device that was just provisioned does not join again* (`first_boot`). Under
   the comment "Register our event handler for Wi-Fi, IP and Provisioning related
   events" (`rr1_wifi_prov/app_main.c:429`) no Wi-Fi event is registered; that is done only in
   the branch of a device that was provisioned before (`app_main.c:644`). Until
   its next restart a link that is lost is not joined again by `event_handler()`.
   `connection` shows that a device that did register joins every lost link again
   (`LostLinkRejoins`).

## What is proved

All theorems are proved by TLAPS from `Spec` and the named assumptions on the
constants, with no bound on rings, batches, credits or ids.

`TimerPublishProofs`
- `Typing`: `TypeOK` is inductive. The work is in the ring arithmetic and in
  the message built by `MarshalRead`.
- `SelfDeadlockFree`: uses `LockInv`. The mutex is held exactly by the task that
  is in one of its critical steps (`MutexInv`), and while mq_marshal is between
  its check and its recording, no publish is in flight (`NothingInFlight`), so
  the `clearExpiredMqttPublish()` under the mutex returns early.
- `LockCycleFree`: adds `SchedInv`. When mq_marshal, at the lowest priority, moves,
  every other task is idle or blocked; hence no ack handler sits between its
  comparison and its lock when an enqueue begins, and none can reach it with no
  id recorded. This theorem and the one about the radio hold need the priorities.

The delivery theorems of `TimerPublishProofs` assume in addition that the backlog
fits in the ring (`MaxBacklog < RingSize`; 32768 slots), but nothing about the
priorities beyond the locks. Their invariant `DeliveryInv` joins six facts, none
inductive alone: the window of the ring is what was captured and not retired (`WindowKept`); a batch under construction is
the front of that window (`JobFits`); an ack that passed the comparison belongs
to the publish in flight or to none (`AckMatches`); the message in flight is in
the outbox, delivered or lost with exactly the recorded transitions
(`FlightCarries`); every message starts at or below `retired + 1`
(`OutboxInOrder`); and nothing retired is missing at the broker. From it:
- `NoTransitionForgotten`, `BacklogStaysIntact`, `BatchStaysOldest`;
- `PublishImplementsDelivery`: every step of the pipeline is a step of
  `LaneDelivery` or a stutter, with `captured`, `received`, `retired` as the
  mapping.

The radio hold, also in `TimerPublishProofs`:
- `HoldFollowsFlight`: the hold covers a publish from just before its enqueue to
  its end (`HoldFollows` in `HoldInv`), although the record is tested and cleared
  with and without the mutex. It rests on the priorities (`SchedInv`): while
  another task is about to clear the record, mq_marshal is not inside
  `mqPubDataList()` (`MqttDoneIsAlone`, `ClearIsAlone`).

`CaptureClockProofs` assumes `PaceAssumption`: polls, grace and lag fit in a
quarter, and an event waits no longer than `isSoftGps()` looks back. It needs no
bound on the time, so the theorems hold through any number of wraps. Its
invariant `CaptureInv` carries two arguments.
- *Extension.* Whatever the queue, the four slots of `gqh` stand for the quarter
  before the last one read, that one, and the two that follow (`Prepared`);
  `OldQuarter` and `NextQuarter` show that a stamp of the same or the next
  quarter keeps it so. That no quarter is skipped (`NoQuarterSkipped`) is itself not
  inductive: a quarter that has no stamp yet must end after the next poll
  (`PollInTime`); the poll may leave the stamp to the PPS only if the last real
  one was in this quarter (`RealInTime`); and a soft capture that a full queue
  refuses does no harm because a full queue holds a stamp (`FullHasStamp`) that is
  recent (`QueueRecent`). Stamps are read in order (`QueueOrdered`), so the head of
  the queue is of the last quarter read or the next (`HeadIsNext`). Hence
  `ExtensionIsExact`.
- *PPS.* A soft capture in the queue is younger than the window of
  `isSoftGps()` (`QueueRecent`), hence `SoftNeverReal`; a PPS that is taken for
  real is later than the one whose loss was counted (`OutageInv`), hence
  `OutagesCountedOnce`; while the PPS counts as present, the next poll comes in
  time or its soft capture is waiting (`ReportPending`), hence `PpsReportIsFresh`.

`ConnectionProofs`, for event queues of any length. Its invariant has two halves.
- *The client.* The order in which the main task builds it, and where a session lets its handler
  be (`ClientOrder`); `p_client` and the MQTT error follow the session from the
  moment its end is handled (`SessionKnown`); from then on only the reconnect task
  can hold (`HoldOwned`); and the client has scheduled the reconnect task before it
  begins to wait (`WakeupKept`), which `NoLostWakeup` alone does not say. Hence
  `HoldIsOwned`, `ClientHasSession`, `WakeupNotLost`.
- *The station.* The last link event not yet taken tells the link's state, or the
  address does (`QueueTells`); address and error change together (`IpAndError`);
  START is the first event (`NothingYet`, `StartFirst`); a rejoin under way passed its check before the
  reset (`OneJoinLeft`). Hence `StatusSettles`, `OneJoinAfterReset`.

`WifiPowerProofs`, for any number of tasks and without bound on the time.
- `AwakeExactlyWhileHeld`: a task that no later change has overtaken has found none
  of the holds it loaded, then knows the mode the holds ask for (`NewestKnows`), for
  a change of a hold in between would overtake it; the driver and the metric have
  that mode as long as it is the last to take effect (`Settled`); and a mode that still
  waits is on its way in such a task (`OnItsWay`).
- `ShareStaysPercentage`: between its two steps a note has added what it has not
  yet dated, and otherwise the total is right for now and for a sample in progress
  (`Counted`); at most one task is between them (`OneMark`).

`StartupProofs`, for any number of images and attempts. `TagsFollow` is the
argument for `CurrentIsInstalled`: the server only moves on, an etag was read
before its image or a later one was fetched, and recorded after that.
`CredsKnown` gives `StartsWithCredentials`; `OtaStarts` and `EndsCurrent` give
`OtaGivesUpLast`.

`TapLaserProofs`, for every ring, window and number of taps needed.
- `SetupWholeOrGone`: a set-up under way has done just the steps before the next
  (`BuiltSoFar`); one being taken down still stands on what it needs (`TakenSoFar`).
- `TapsAreSpentOnce`: the toggles paid for and the taps still recent are
  together no more than the taps there were, and the recent ones are fewer than a
  toggle needs, since the last tap was audited or too early (`TapsAccount`).

`BlinkProofs`, for any number of callers and any list of outputs. Calls and polls
overlap freely, so the invariant says what a caller knows whatever the others do
(`CallInv`) and what holds of an output that is not torn (`WalkInv`).
- `LowestIsShown`: as long as no later change has overtaken a caller, no priority
  below the one it looks at is active, then the one it found is the lowest
  (`NewestKnows`); what it stored stays the lowest until the next change
  (`NewestShows`); an output that still waits lies ahead of such a caller (`Ahead`,
  `OnItsWay`).
- `WalkStaysInBounds`, `FlashesCountTheError`: position, repetitions and flashes shown so far
  keep step through the five steps of `do_blink()` (`InWalk`, `Counted`, with one
  flash more between reading an action and walking on, `WasRead`); a poll of the output
  in progress began after the reset, so what it has read and loaded is that of the
  walk (`InStep`). An output asleep is about to be reset (`Resetting`).
- `BlinkTypes` needs `PollInv` (what was loaded is a repeat of its pattern) and holds in
  every interleaving, torn outputs included.

`GpsXlateProofs`, for every length of the ring, rate of the capture clock, unit of
the result and set of clock errors.
- The provers know little of products and quotients of variables. Seven lemmas
  (`DivBounds` to `DivShifts`) characterise the quotient, then show that it keeps
  order, that a common factor cancels and that a multiple of the divisor moves out.
- The invariant: no stamp of the ring is as new as the newest and each was taken
  at a full second (`RingInv`); a handle that translates joins two valid stamps in
  their order, as many seconds apart by the clock as there are stamps between
  them, and none later than its block (`Joins`); the last transition was translated by
  the handle of its block (`LastInv`).
- `TimeIsTrueOrNone`: if the clock was as wrong at both stamps, the number of
  stamps cancels out of the quotient and leaves the true rate (`TrueTime`). The
  time is then exact: truncation loses nothing beyond what `Shown` itself truncates.
- `LostPulsesDoNoHarm`: if SNTP sets the clock only once, the exception that
  `TimeIsTrue` makes never occurs, since a stamp taken before it is not valid
  (`ErrorsKnown`).
- `BlockKeepsOrder`: the translation by one handle is monotone (`KeepsOrder`), and
  a handle is replaced only with its block.

*Only model-checked:* liveness (`EveryTransitionRetired`, `SessionRecovers`,
`LostLinkRejoins`, `LaserGoesDark`, `StartupEnds`), which this prover cannot do.
Every invariant of a passing run has a theorem. What the violated runs show
is found by TLC.

## Not modelled

- A restart in `TimerPublish` and `CaptureClock`: the ring is in RAM, so it ends a
  behaviour. `Connection` and `Startup`, which keep something in flash, have it.
- More than `MaxBacklog` unacknowledged transitions (`timer_hist.c:233`): the code
  overwrites and the backlog computes as empty, a design limit at 32768. Lack of
  memory in `checkedCalloc()` (`timer_hist.c:66`) restarts the chip.
- How late a publish gets when one notification overwrites another
  (`timer_marshal.c:34`): time is not measured there.
- The API key (`nvs_utils.c:150`): a read that fails is taken for a missing key; a
  single test decides it, with nothing to interleave.
- In `gps_xlate`, a lost pulse and a step of the clock by -1 s that cancel: the
  test of the epochs cannot see it and the translation is wrong. `TimeIsTrue`
  excepts this one combination by name. 64-bit overflow is not modelled: it
  would take the microseconds of centuries.
- In `startup` the server never goes back to an older image. A HEAD request that
  fails ends the loop of attempts like a device that is current (`rr1_ota.c`),
  which `GivesUpLast` allows.
- The average over the last nine shares (`wifi_power.c`), the topics, SNTP, counters,
  the provisioning protocol, formats and log output; the content of messages.
- The parts marked `not_modelled` in `PROJECT.json`, each with its reason:
  readers of sensors that only log, counters that no control depends on,
  generated code, and tests.

## Plan

1. Compose `Connection` with `TimerPublish`, so that the assumed fairness of
   `MqttConnected` becomes the result `SessionRecovers`.
2. The scheduler's deadlines with measured time.
