------------------------------- MODULE TapLaser -------------------------------
(***************************************************************************)
(* Taps and the visible laser: the accelerometer is set up step by step    *)
(* and taken down again when a step fails (rr1_capture/timer_i2c_tap.c),   *)
(* its interrupts are queued for the tap task, enough taps in a short time *)
(* toggle the laser, and the laser poll of the capture task switches it    *)
(* off after a time (rr1_blink/timer_blink.c).  Time is kept as ages in    *)
(* seconds that saturate where the code no longer tells them apart.        *)
(***************************************************************************)
EXTENDS Naturals, FiniteSets

CONSTANTS
    Ring,       \* RECENT_CLICKS_SIZE
    Need,       \* how many recent taps toggle the laser
    Window,     \* for how long a tap is recent
    LaserTime,  \* how long the laser stays enabled
    QueueSize,  \* length of gpio_evt_queue
    MaxTaps     \* bound: how many taps the history counts

ASSUME SizesAssumption ==
    /\ {Ring, Need, Window, LaserTime, QueueSize, MaxTaps} \subseteq Nat \ {0}
    /\ Need <= Ring

VARIABLES
    init,       \* the step of rr1_i2c_tap_init() that is next, 0: not running
    have,       \* what is set up
    unwind,     \* the place in Unwinding of a failed set-up, 0: none
    queue,      \* interrupts waiting in gpio_evt_queue
    tapTask,    \* progress of the tap task
    clicks,     \* age of each entry of recentClicks, Window: not recent
    next,       \* recentClickIndex
    uptime,     \* seconds since the start, at most Window
    enabled,    \* age of visibleLaserEnabledSeconds, Off when it is 0
    loaded,     \* toggle_visible_laser() read a value other than 0
    capture,    \* progress of laserTimeout() in the capture task
    error,      \* some error priority is active
    lit,        \* the laser's pin
    taps,       \* history: taps recorded
    toggles,    \* history: toggles decided
    early       \* history: the last tap came in the first Window seconds

setup  == <<init, have, unwind>>
ring   == <<clicks, next>>
laser  == <<enabled, loaded, capture, error, lit>>
counts == <<taps, toggles, early>>
vars   == <<setup, queue, tapTask, ring, uptime, laser, counts>>

Steps == <<"bus", "device", "registers", "gpio", "queue", "service",
           "handler", "task">>
Everything == {Steps[i] : i \in 1..8}

\* Mutant of Unwinding: the queue goes while its interrupt is still there.
QueueFirst == <<"queue", "handler", "device", "bus">>

\* What a failed set-up takes down, in this order: the interrupt before its
\* queue, the device before its bus.  The shared interrupt service stays.
Unwinding == <<"handler", "queue", "device", "bus">>

Off == LaserTime + 2

SetupType ==
    /\ init \in 0..8 /\ unwind \in 0..4
    /\ have \subseteq Everything
TapType ==
    /\ queue \in 0..QueueSize
    /\ tapTask \in {"wait", "read", "load", "store"}
    /\ clicks \in [1..Ring -> 0..Window] /\ next \in 1..Ring
    /\ uptime \in 0..Window
    /\ taps \in 0..MaxTaps /\ toggles \in Nat /\ early \in BOOLEAN
LaserType ==
    /\ enabled \in 0..Off
    /\ loaded \in BOOLEAN /\ error \in BOOLEAN /\ lit \in BOOLEAN
    /\ capture \in {"idle", "error", "enabled", "expire", "allow", "forbid"}
TypeOK == SetupType /\ TapType /\ LaserType

Init ==
    /\ init = 1 /\ have = {} /\ unwind = 0
    /\ queue = 0 /\ tapTask = "wait"
    /\ clicks = [i \in 1..Ring |-> Window] /\ next = 1
    /\ uptime = 0
    /\ enabled = Off /\ loaded = FALSE /\ capture = "idle"
    /\ error = TRUE /\ lit = FALSE
    /\ taps = 0 /\ toggles = 0 /\ early = FALSE

(***************************************************************************)
(* rr1_i2c_tap_init() and rr1_i2c_tap_reinit().                            *)
(***************************************************************************)
Idle == init = 0 /\ unwind = 0

StepSucceeds ==
    /\ init > 0
    /\ have' = have \cup {Steps[init]}
    /\ init' = IF init = 8 THEN 0 ELSE init + 1
    /\ UNCHANGED <<unwind, queue, tapTask, ring, uptime, laser, counts>>

StepFails ==
    /\ init > 0 /\ init' = 0 /\ unwind' = 1
    /\ UNCHANGED <<have, queue, tapTask, ring, uptime, laser, counts>>

\* With the device its registers and the pin lose their meaning.
TakeDown ==
    /\ unwind > 0
    /\ unwind' = (unwind + 1) % 5
    /\ have' = IF Unwinding[unwind] = "device"
               THEN have \ {"device", "registers", "gpio"}
               ELSE have \ {Unwinding[unwind]}
    /\ queue' = IF Unwinding[unwind] = "queue" THEN 0 ELSE queue
    /\ UNCHANGED <<init, tapTask, ring, uptime, laser, counts>>

\* The command "tap_threshold" tries again what failed; on a device that is
\* set up it only writes the threshold.
rr1_i2c_tap_reinit ==
    /\ Idle /\ "device" \notin have
    /\ init' = 1
    /\ UNCHANGED <<have, unwind, queue, tapTask, ring, uptime, laser, counts>>

(***************************************************************************)
(* The interrupt and the tap task.                                         *)
(***************************************************************************)
\* Mutant of gpio_isr_handler: a full queue takes one more.
QueuesAnyway ==
    /\ "handler" \in have
    /\ queue' = queue + 1
    /\ UNCHANGED <<setup, tapTask, ring, uptime, laser, counts>>

\* xQueueSendFromISR(): a full queue loses the interrupt.
gpio_isr_handler ==
    /\ "handler" \in have
    /\ queue' = IF queue < QueueSize THEN queue + 1 ELSE queue
    /\ UNCHANGED <<setup, tapTask, ring, uptime, laser, counts>>

Receive ==
    /\ "task" \in have /\ tapTask = "wait" /\ queue > 0
    /\ queue' = queue - 1 /\ tapTask' = "read"
    /\ UNCHANGED <<setup, ring, uptime, laser, counts>>

\* CLICK_SRC cannot be read, or shows no single tap.
NoTap ==
    /\ tapTask = "read" /\ tapTask' = "wait"
    /\ UNCHANGED <<setup, queue, ring, uptime, laser, counts>>

\* Mutant of Forget: the taps of a toggle stay recent.
Remember(r) == r

Forget(r) == [i \in 1..Ring |-> Window]

\* The tap is recorded and the ring audited.  In the first Window seconds the
\* unsigned difference now - Window wraps and no tap is recent.
SingleTap ==
    LET recorded == [clicks EXCEPT ![next] = 0]
        recent == {i \in 1..Ring : uptime >= Window /\ recorded[i] < Window}
        enough == Cardinality(recent) >= Need
    IN  /\ tapTask = "read" /\ taps < MaxTaps
        /\ clicks' = IF enough THEN Forget(recorded) ELSE recorded
        /\ next' = (next % Ring) + 1
        /\ tapTask' = IF enough THEN "load" ELSE "wait"
        /\ taps' = taps + 1
        /\ toggles' = IF enough THEN toggles + 1 ELSE toggles
        /\ early' = (uptime < Window)
        /\ UNCHANGED <<setup, queue, uptime, laser>>

\* toggle_visible_laser()
LoadEnabled ==
    /\ tapTask = "load" /\ tapTask' = "store"
    /\ loaded' = (enabled # Off)
    /\ UNCHANGED <<setup, queue, ring, uptime, enabled, capture, error, lit,
                   counts>>

StoreEnabled ==
    /\ tapTask = "store" /\ tapTask' = "wait"
    /\ enabled' = IF loaded THEN Off ELSE 0
    /\ UNCHANGED <<setup, queue, ring, uptime, loaded, capture, error, lit,
                   counts>>

(***************************************************************************)
(* laserTimeout() and the rest of do_blink() for the laser.                *)
(***************************************************************************)
LaserPoll ==
    /\ capture = "idle" /\ capture' = "error"
    /\ UNCHANGED <<setup, queue, tapTask, ring, uptime, enabled, loaded, error,
                   lit, counts>>

LoadError ==
    /\ capture = "error"
    /\ capture' = IF error THEN "allow" ELSE "enabled"
    /\ UNCHANGED <<setup, queue, tapTask, ring, uptime, enabled, loaded, error,
                   lit, counts>>

\* Mutant of CheckTimeout: the age is not looked at.
NeverExpires ==
    /\ capture = "enabled"
    /\ capture' = IF enabled = Off THEN "forbid" ELSE "allow"
    /\ UNCHANGED <<setup, queue, tapTask, ring, uptime, enabled, loaded, error,
                   lit, counts>>

CheckTimeout ==
    /\ capture = "enabled"
    /\ capture' = IF enabled = Off THEN "forbid"
                  ELSE IF enabled > LaserTime THEN "expire" ELSE "allow"
    /\ UNCHANGED <<setup, queue, tapTask, ring, uptime, enabled, loaded, error,
                   lit, counts>>

Expire ==
    /\ capture = "expire" /\ capture' = "forbid"
    /\ enabled' = Off
    /\ UNCHANGED <<setup, queue, tapTask, ring, uptime, loaded, error, lit,
                   counts>>

\* gpio_set_level(): what the pattern says, or dark.
SetLevel ==
    /\ capture \in {"allow", "forbid"} /\ capture' = "idle"
    /\ \E state \in BOOLEAN : lit' = (state /\ capture = "allow")
    /\ UNCHANGED <<setup, queue, tapTask, ring, uptime, enabled, loaded, error,
                   counts>>

ChangeError ==
    /\ error' = ~error
    /\ UNCHANGED <<setup, queue, tapTask, ring, uptime, enabled, loaded,
                   capture, lit, counts>>

\* A second passes.  An expired age stays at LaserTime + 1.
Tick ==
    /\ uptime' = IF uptime < Window THEN uptime + 1 ELSE uptime
    /\ clicks' = [i \in 1..Ring |-> IF clicks[i] < Window THEN clicks[i] + 1
                                                          ELSE Window]
    /\ enabled' = IF enabled <= LaserTime THEN enabled + 1 ELSE enabled
    /\ UNCHANGED <<setup, queue, tapTask, next, loaded, capture, error, lit,
                   counts>>

TapTask == Receive \/ NoTap \/ SingleTap \/ LoadEnabled \/ StoreEnabled
LaserPolls == LaserPoll \/ LoadError \/ CheckTimeout \/ Expire \/ SetLevel

Next ==
    \/ StepSucceeds \/ StepFails \/ TakeDown \/ rr1_i2c_tap_reinit
    \/ gpio_isr_handler \/ TapTask \/ LaserPolls \/ ChangeError \/ Tick

\* The capture task polls for ever and time passes; the tap task runs when
\* it can.  Nothing is assumed of taps, errors or the set-up.
Spec == Init /\ [][Next]_vars
             /\ WF_vars(LaserPolls) /\ WF_vars(Tick) /\ WF_vars(TapTask)

(***************************************************************************)
(* Properties.                                                             *)
(***************************************************************************)
\* A set-up that is over left everything or nothing (but the shared interrupt
\* service), whichever step failed, however often it was tried; and meanwhile
\* the interrupt handler never runs without its queue, nor the queue's reader
\* without the bus it reads from.
SetupAllOrNothing ==
    /\ Idle => have \in {{}, {"service"}, Everything}
    /\ "handler" \in have => "queue" \in have
    /\ "task" \in have => {"queue", "device", "bus"} \subseteq have

Recent == {i \in 1..Ring : clicks[i] < Window}

\* Enough taps in a short time toggle the laser once: no tap is counted for
\* two toggles, and enough recent taps are never left waiting in the ring.
\* Only after a tap of the first seconds, when none counts, may they wait, and
\* the next tap makes up for it.
TogglesCostTaps ==
    /\ toggles * Need <= taps
    /\ ~early => Cardinality(Recent) < Need

\* If no error is left in the end, the laser goes dark for good, however it
\* was toggled before: taps are finitely many (MaxTaps), and the timeout of
\* the last toggle is not lost to the tap task's load and store.
LaserGoesDark == <>[]~error => <>[]~lit
=============================================================================
