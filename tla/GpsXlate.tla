------------------------------ MODULE GpsXlate ------------------------------
(***************************************************************************)
(* The GPS time of a lane transition (rr1_capture/gps_xlate.c and the      *)
(* candidate block of timer_hist.c).  Each PPS is logged with its capture  *)
(* stamp and the full second the system clock shows; the newest and the    *)
(* oldest stamp of the ring give the rate by which the transitions of a    *)
(* block are translated.  Pulses get lost; the system clock starts unset   *)
(* and SNTP may step it at any time.  The seconds between two pulses are   *)
(* Rate ticks of the capture clock, which need not be its nominal rate.    *)
(***************************************************************************)
EXTENDS Integers

CONSTANTS
    gps_list_max,   \* stamps in the ring
    Rate,           \* capture ticks in a true second
    MEG1,           \* units of time in a second of the result
    YEAR5,          \* a clock that shows less was never set
    Base,           \* the true second at power-on
    Clear,          \* timerConfig.clearMs: ticks a block lasts
    Steps,          \* how many seconds SNTP may leave the clock wrong
    MaxTime         \* bound: ticks in a behaviour

ASSUME SizesAssumption ==
    /\ {gps_list_max, Rate, MEG1, YEAR5, Base, Clear, MaxTime} \subseteq Nat \ {0}
    /\ gps_list_max > 1
    /\ Steps \subseteq Int
    /\ \A e \in Steps : Base + e > YEAR5
    /\ MaxTime < YEAR5

VARIABLES
    now,        \* ticks of the capture clock
    err,        \* seconds the system clock is off
    gps_list,   \* the ring of PPS stamps
    recent_pps, \* index of the newest
    block,      \* candidateBlock: birth, expiry and handle
    last        \* the last transition: its tick and its gps_micros

vars == <<now, err, gps_list, recent_pps, block, last>>

Unset == -Base          \* the clock shows the seconds since power-on
NoStamp == [cap |-> 0, epoch |-> 0]
NoHandle == [t0 |-> NoStamp, t1 |-> NoStamp]
Slots == 0..(gps_list_max - 1)

TypeOK ==
    /\ now \in 0..MaxTime
    /\ err \in Steps \cup {Unset}
    /\ gps_list \in [Slots -> [cap : Nat, epoch : Nat]]
    /\ recent_pps \in Slots
    /\ block \in [birth : Nat, expiry : Nat,
                  handle : [t0 : [cap : Nat, epoch : Nat],
                            t1 : [cap : Nat, epoch : Nat]]]
    /\ last \in [tick : Nat, micros : Nat]

Init ==
    /\ now = 0 /\ err = Unset
    /\ gps_list = [i \in Slots |-> NoStamp] /\ recent_pps = 0
    /\ block = [birth |-> 0, expiry |-> 0, handle |-> NoHandle]
    /\ last = [tick |-> 0, micros |-> 0]

Tick ==
    /\ now < MaxTime /\ now' = now + 1
    /\ UNCHANGED <<err, gps_list, recent_pps, block, last>>

\* SNTP sets the clock, right or not.
ClockStep ==
    /\ err' \in Steps
    /\ UNCHANGED <<now, gps_list, recent_pps, block, last>>

\* Mutant of NextSlot: the index wraps one too late.
WrapsLate(i) == IF i + 1 > gps_list_max THEN 0 ELSE i + 1

NextSlot(i) == IF i + 1 >= gps_list_max THEN 0 ELSE i + 1

\* log_gps_pps() for the pulse of this second, which may as well get lost.
\* Rounding the clock hides that the handler runs up to half a second late.
log_gps_pps ==
    /\ now % Rate = 0 /\ now > 0 /\ gps_list[recent_pps].cap # now
    /\ recent_pps' = NextSlot(recent_pps)
    /\ gps_list' = [gps_list EXCEPT ![recent_pps'] =
                        [cap |-> now, epoch |-> Base + now \div Rate + err]]
    /\ UNCHANGED <<now, err, block, last>>

\* Mutant of getGpsHandle: any two stamps in order will do.
AnyPair ==
    LET t0 == gps_list[recent_pps]
        t1 == gps_list[(recent_pps + 1) % gps_list_max]
    IN  IF t0.epoch > t1.epoch THEN [t0 |-> t0, t1 |-> t1] ELSE NoHandle

\* The newest and the oldest stamp, if the clock went on by exactly one second
\* for each stamp between them.
getGpsHandle ==
    LET t0 == gps_list[recent_pps]
        t1 == gps_list[(recent_pps + 1) % gps_list_max]
    IN  IF t0.epoch - t1.epoch = gps_list_max - 1 THEN [t0 |-> t0, t1 |-> t1]
                                                  ELSE NoHandle

isValid(t) == t.epoch > YEAR5

\* The division of C truncates; both factors of the quotient are negative in
\* the code (itDelta, igDelta), here both are positive.
xlateCap64(h, sample) ==
    LET igDelta == h.t0.cap - h.t1.cap
        itDelta == h.t0.epoch - h.t1.epoch
    IN  IF isValid(h.t0) /\ isValid(h.t1)
        THEN ((sample - h.t0.cap) * itDelta * MEG1) \div igDelta
                 + h.t0.epoch * MEG1
        ELSE 0

\* Mutant of potentialRollCandidate: every transition takes the newest handle.
RefreshesHandle(sample) ==
    /\ block' = IF block.expiry < sample
                THEN [birth |-> sample, expiry |-> sample + Clear,
                      handle |-> getGpsHandle]
                ELSE [block EXCEPT !.handle = getGpsHandle]
    /\ last' = [tick |-> sample, micros |-> xlateCap64(block'.handle, sample)]

\* A transition after the end of the block begins a new one, with a new handle.
potentialRollCandidate(sample) ==
    /\ block' = IF block.expiry < sample
                THEN [birth |-> sample, expiry |-> sample + Clear,
                      handle |-> getGpsHandle]
                ELSE block
    /\ last' = [tick |-> sample, micros |-> xlateCap64(block'.handle, sample)]

th_append ==
    /\ now > 0
    /\ potentialRollCandidate(now)
    /\ UNCHANGED <<now, err, gps_list, recent_pps>>

Next == Tick \/ ClockStep \/ log_gps_pps \/ th_append

Spec == Init /\ [][Next]_vars

(***************************************************************************)
(* Properties.                                                             *)
(***************************************************************************)
\* By how much the clock was wrong when a stamp was logged.
ErrorOf(t) == t.epoch - Base - t.cap \div Rate

\* The time the clock would have shown at a tick, were it wrong by e.
Shown(tick, e) == (tick * MEG1) \div Rate + (Base + e) * MEG1

\* A transition has no time, or the one the clock showed at the newest pulse
\* extrapolated at the true rate, of a clock that was set.  Lost pulses alone
\* and clock steps alone never falsify it; both together can, because a step
\* of -1 s hides a lost pulse from the test of the two epochs.
TimeIsTrue ==
    LET h == block.handle
    IN  last.micros # 0 =>
            /\ isValid(h.t0) /\ isValid(h.t1)
            /\ \/ /\ ErrorOf(h.t0) # ErrorOf(h.t1)
                  /\ h.t0.cap - h.t1.cap # (gps_list_max - 1) * Rate
               \/ last.micros = Shown(last.tick, ErrorOf(h.t0))

\* Inside a block the times keep the order of the transitions, so the time a
\* car takes is never negative, whatever SNTP does to the clock meanwhile.
BlockInOrder ==
    [][block'.birth = block.birth => last'.micros >= last.micros]_vars
=============================================================================
