----------------------------- MODULE WifiPower ------------------------------
(***************************************************************************)
(* The Wi-Fi power-save mode (rr1_capture/wifi_power.c).  Tasks hold and   *)
(* release three reasons to keep the radio awake.  A change of a hold is   *)
(* an atomic exchange; the mode that follows from the holds is computed    *)
(* from three separate loads, handed to the driver, which may refuse it,   *)
(* and noted for the share of time spent in MIN_MODEM.  No lock covers     *)
(* these steps, so calls of several tasks overlap, with each other and     *)
(* with the sample of the share.                                           *)
(***************************************************************************)
EXTENDS Integers, Sequences

CONSTANTS
    Tasks,      \* the tasks that hold and release
    MaxTime     \* bound: the last microsecond of the clock

ASSUME TasksAssumption == Tasks # {}
ASSUME TimeAssumption == MaxTime \in Nat \ {0}

HoldOrder == <<"publish", "ota", "connect">>    \* the order of the loads
Holds == {"publish", "ota", "connect"}
Modes == {"NONE", "MIN_MODEM"}

VARIABLES
    held,           \* the holds that are set
    step,           \* step[t]: where t is in setWifiPowerHold()
    load,           \* load[t]: index of the next hold t loads
    mode,           \* mode[t]: the mode t computed
    driver,         \* the mode the Wi-Fi driver has
    current,        \* currentWifiPsMode
    lastChange,     \* wifiPsLastChangeUs, 0 until the first note
    total,          \* wifiPsMinModemTotalUs
    sampleAt,       \* wifiPsLastSampleUs
    sampleTotal,    \* wifiPsLastSampleMinModemUs
    percent,        \* the last percentage, before it is clamped
    noteAt,         \* noteAt[t]: the time t read before it notes its mode
    sampleNow,      \* the time a sample in progress read, 0: none
    now,            \* esp_timer_get_time()
    overtaken,      \* history: overtaken[t], a hold changed after t's change
    applied,        \* history: what became of the newest change in the driver
    noted,          \* history: and in the metric
    blurred         \* history: notes or samples overlapped

calls   == <<step, load, mode>>
metric  == <<current, lastChange, total, sampleAt, sampleTotal, percent>>
reading == <<noteAt, sampleNow>>
outcome == <<overtaken, applied, noted>>
history == <<outcome, blurred>>
vars    == <<held, calls, driver, metric, reading, now, history>>

\* The mode of the newest change of a hold: not applied yet, applied, applied
\* and replaced by that of an older change, or refused by the driver.
Outcomes == {"never", "waiting", "newest", "older", "refused"}

CallType ==
    /\ held \subseteq Holds
    /\ step \in [Tasks -> {"idle", "load", "set", "note", "mark"}]
    /\ load \in [Tasks -> 1..3]
    /\ mode \in [Tasks -> Modes] /\ driver \in Modes
    /\ overtaken \in [Tasks -> BOOLEAN]
    /\ applied \in Outcomes /\ noted \in Outcomes
MetricType ==
    /\ current \in Modes
    /\ lastChange \in Nat /\ total \in Nat /\ sampleAt \in Nat
    /\ sampleTotal \in Int /\ percent \in Int
    /\ noteAt \in [Tasks -> Nat] /\ sampleNow \in Nat
    /\ now \in Nat \ {0}
    /\ blurred \in BOOLEAN
TypeOK == CallType /\ MetricType

Init ==
    /\ held = {}
    /\ step = [t \in Tasks |-> "idle"]
    /\ load = [t \in Tasks |-> 1]
    /\ mode = [t \in Tasks |-> "NONE"]
    /\ driver \in Modes            \* umain.c asks for NONE and does not check
    /\ current = "NONE"
    /\ lastChange = 0 /\ total = 0 /\ sampleAt = 0 /\ sampleTotal = 0
    /\ percent = 0
    /\ now = 1
    /\ noteAt = [t \in Tasks |-> 0] /\ sampleNow = 0
    /\ overtaken = [t \in Tasks |-> FALSE] /\ blurred = FALSE
    /\ applied = "never" /\ noted = "never"

Idle(t) == step[t] = "idle"
Goto(t, s) == step' = [step EXCEPT ![t] = s]
\* The call returns and its locals are gone.
Return(t) ==
    /\ Goto(t, "idle")
    /\ load' = [load EXCEPT ![t] = 1]
    /\ mode' = [mode EXCEPT ![t] = "NONE"]
    /\ noteAt' = [noteAt EXCEPT ![t] = 0]
    /\ overtaken' = [overtaken EXCEPT ![t] = FALSE]

\* What becomes of the newest change when t's mode takes effect.
TakesEffect(t, was) ==
    IF ~overtaken[t] THEN "newest" ELSE IF was = "newest" THEN "older" ELSE was

\* atomic_exchange(): only a call that changes the hold goes on.
SetHold(t, h, enabled) ==
    /\ Idle(t)
    /\ (h \in held) # enabled
    /\ held' = IF enabled THEN held \cup {h} ELSE held \ {h}
    /\ Goto(t, "load")
    /\ load' = [load EXCEPT ![t] = 1]
    /\ overtaken' = [u \in Tasks |-> u # t /\ ~Idle(u)]
    /\ applied' = "waiting" /\ noted' = "waiting"
    /\ UNCHANGED <<mode, driver, metric, reading, now, blurred>>

\* One operand of the disjunction, which stops at the first hold found set.
LoadHold(t) ==
    /\ step[t] = "load"
    /\ LET found == HoldOrder[load[t]] \in held
       IN  IF found \/ load[t] = 3
           THEN /\ mode' = [mode EXCEPT ![t] = IF found THEN "NONE"
                                                        ELSE "MIN_MODEM"]
                /\ Goto(t, "set") /\ UNCHANGED load
           ELSE /\ load' = [load EXCEPT ![t] = @ + 1]
                /\ UNCHANGED <<step, mode>>
    /\ UNCHANGED <<held, driver, metric, reading, now, history>>

\* Mutant of SetPs: the driver is not asked for the mode that is noted already.
SkipsKnownMode(t) ==
    /\ step[t] = "set" /\ Goto(t, "note")
    /\ driver' = IF mode[t] = current THEN driver ELSE mode[t]
    /\ applied' = TakesEffect(t, applied)
    /\ UNCHANGED <<held, load, mode, metric, reading, now, overtaken, noted,
                   blurred>>

\* esp_wifi_set_ps() succeeds, or fails and nobody tries again.
SetPs(t) ==
    /\ step[t] = "set" /\ Goto(t, "note")
    /\ driver' = mode[t]
    /\ applied' = TakesEffect(t, applied)
    /\ UNCHANGED <<held, load, mode, metric, reading, now, overtaken, noted,
                   blurred>>

SetPsFails(t) ==
    /\ step[t] = "set" /\ Return(t)
    /\ IF overtaken[t] THEN UNCHANGED <<applied, noted>>
                       ELSE applied' = "refused" /\ noted' = "refused"
    /\ UNCHANGED <<held, driver, metric, sampleNow, now, blurred>>

\* Mutant of MinModemTotal: the difference the wrong way round.
SwapsTimes(at) ==
    IF lastChange > 0 /\ current = "MIN_MODEM" THEN total + (lastChange - at)
                                               ELSE total

\* getWifiPsMinModemTotalUs()
MinModemTotal(at) ==
    IF lastChange > 0 /\ current = "MIN_MODEM" THEN total + (at - lastChange)
                                               ELSE total

\* noteWifiPowerSaveMode(): the time since the last change is added ...
NoteTotal(t) ==
    /\ step[t] = "note" /\ Goto(t, "mark")
    /\ noteAt' = [noteAt EXCEPT ![t] = now]
    /\ IF lastChange = 0
       THEN sampleAt' = now /\ sampleTotal' = total /\ UNCHANGED total
       ELSE total' = MinModemTotal(now) /\ UNCHANGED <<sampleAt, sampleTotal>>
    /\ blurred' = (blurred \/ sampleNow # 0 \/ \E u \in Tasks : step[u] = "mark")
    /\ UNCHANGED <<held, load, mode, driver, current, lastChange, percent,
                   sampleNow, now, outcome>>

\* Mutant of NoteMode: a stay in MIN_MODEM keeps its date.
KeepsDate(t) ==
    /\ step[t] = "mark" /\ Return(t)
    /\ lastChange' = IF current = "MIN_MODEM" THEN lastChange ELSE noteAt[t]
    /\ current' = mode[t]
    /\ noted' = TakesEffect(t, noted)
    /\ UNCHANGED <<held, driver, total, sampleAt, sampleTotal, percent,
                   sampleNow, now, applied, blurred>>

\* ... and then the change is dated and the mode replaced.
NoteMode(t) ==
    /\ step[t] = "mark" /\ Return(t)
    /\ lastChange' = noteAt[t]
    /\ current' = mode[t]
    /\ noted' = TakesEffect(t, noted)
    /\ UNCHANGED <<held, driver, total, sampleAt, sampleTotal, percent,
                   sampleNow, now, applied, blurred>>

\* getRecentWifiPsMinModemPercentAverage(), called for a health message by one
\* task: the time is read, then the total; the ring of nine samples and its
\* average are left out.
BeginSample ==
    /\ sampleNow = 0 /\ sampleAt # now
    /\ sampleNow' = now
    /\ blurred' = (blurred \/ \E t \in Tasks : step[t] = "mark")
    /\ UNCHANGED <<held, calls, driver, metric, noteAt, now, outcome>>

EndSample ==
    /\ sampleNow # 0 /\ sampleNow' = 0
    /\ IF sampleNow > sampleAt
       THEN sampleAt' = sampleNow /\ sampleTotal' = MinModemTotal(sampleNow)
       ELSE UNCHANGED <<sampleAt, sampleTotal>>
    /\ IF sampleAt = 0 \/ sampleNow <= sampleAt
       THEN UNCHANGED percent
       ELSE percent' = ((MinModemTotal(sampleNow) - sampleTotal) * 100)
                           \div (sampleNow - sampleAt)
    /\ UNCHANGED <<held, calls, driver, current, lastChange, total, noteAt,
                   now, history>>

Tick ==
    /\ now < MaxTime /\ now' = now + 1
    /\ UNCHANGED <<held, calls, driver, metric, reading, history>>

Next ==
    \/ \E t \in Tasks :
          \/ \E h \in Holds, enabled \in BOOLEAN : SetHold(t, h, enabled)
          \/ LoadHold(t) \/ SetPs(t) \/ SetPsFails(t)
          \/ NoteTotal(t) \/ NoteMode(t)
    \/ BeginSample \/ EndSample \/ Tick

Spec == Init /\ [][Next]_vars

(***************************************************************************)
(* Properties.                                                             *)
(***************************************************************************)
Quiet == \A t \in Tasks : Idle(t)

\* However calls overlap, the task that changed a hold last finds the mode
\* that all holds ask for: once its mode is applied (noted), the radio is
\* awake (the metric says so) exactly while there is a hold, and this lasts
\* until a hold changes or an older change is applied over it, which no lock
\* prevents.  When no call is in progress, nothing is left to be applied.
AwakeWhileHeld ==
    /\ applied = "newest" => ((driver = "NONE") <=> (held # {}))
    /\ noted = "newest" => ((current = "NONE") <=> (held # {}))
    /\ Quiet => "waiting" \notin {applied, noted}

\* As long as notes and samples have not overlapped, the share of MIN_MODEM
\* time is a percentage before the clamp: every interval is counted once,
\* whatever refusals, repeated modes and samples in between.
ShareIsPercentage == ~blurred => percent \in 0..100
=============================================================================
