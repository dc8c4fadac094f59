-------------------------------- MODULE Blink --------------------------------
(***************************************************************************)
(* Error priorities and the pattern the outputs blink                      *)
(* (rr1_blink/timer_blink.c).  Any task reports an error active or over:   *)
(* it stores the flag, looks for the lowest active priority and gives its  *)
(* pattern to the outputs one after the other.  The capture task walks     *)
(* through the pattern of an output, one action per poll.  Nothing locks   *)
(* the flags or the handlers, so the steps of all of them interleave.      *)
(***************************************************************************)
EXTENDS Naturals, Sequences, FiniteSets

CONSTANTS
    Callers,        \* the tasks that call set_error_priority()
    Outputs,        \* the outputs, in the order patterns are applied
    MaxIndex        \* bound: how far a walk past an array's end goes

ASSUME CallersAssumption == Callers # {}
ASSUME OutputsAssumption == Outputs \in Seq({"LED", "LASER"}) /\ Len(Outputs) > 0
ASSUME IndexAssumption == MaxIndex \in Nat /\ MaxIndex > 2

Priorities == 1..4      \* provisioning, connection, credentials, MQTT
NoError == 0            \* ERROR_PRI_NONE

\* The patterns, named by the priority they show: a pause and 2 to 5 fast
\* flashes, or one long slow flash when no error is active.  A repeat is a
\* list of actions (lit or dark) and how often it is played.
Pause == [actions |-> <<FALSE>>, times |-> 1]
LongSlow == [actions |-> <<TRUE, FALSE>>, times |-> 1]
Fast(n) == [actions |-> <<TRUE, FALSE>>, times |-> n]

\* Mutant of get_blink_pattern: one flash less.
OneFlashLess(p) ==
    IF p = NoError THEN <<LongSlow>> ELSE <<Pause, Fast(p)>>

get_blink_pattern(p) ==
    IF p = NoError THEN <<LongSlow>> ELSE <<Pause, Fast(p + 1)>>

VARIABLES
    active,     \* error_recap: the priorities that are active
    step,       \* step[c]: where c is in set_error_priority()
    scan,       \* scan[c]: the priority c looks at, then the one it applies
    target,     \* target[c]: index of the output c applies it to
    pattern,    \* pattern[o]: blink_pattern
    repeat,     \* repeat[o]: current_repeat_index
    action,     \* action[o]: current_action_index
    count,      \* count[o]: current_repeat_count
    asleep,     \* asleep[o]: nextMs is INT64_MAX, no poll is due any more
    poll,       \* the capture task in do_blink(): step, output, what it read
    flashes,    \* history: flashes[o] since the last pause
    overtaken,  \* history: overtaken[c], an error changed after c's change
    shown,      \* history: shown[o], what became of the newest change on o
    torn        \* history: torn[o], o's pattern was replaced since its indices
                \* were last reset outside a poll of o

calls   == <<step, scan, target>>
handler == <<pattern, repeat, action, count>>
history == <<flashes, overtaken, shown, torn>>
vars    == <<active, calls, handler, asleep, poll, history>>

Names == {Outputs[i] : i \in 1..Len(Outputs)}
NoPoll == [at |-> "idle", out |-> Outputs[1], null |-> FALSE, ptr |-> <<0, 0>>]

\* The pattern of the newest change: not stored yet, stored, or stored and
\* replaced by that of an older change.
Outcomes == {"never", "waiting", "newest", "older"}

TypeOK ==
    /\ active \subseteq Priorities
    /\ step \in [Callers -> {"idle", "scan", "pattern", "indices", "callback"}]
    /\ scan \in [Callers -> 0..4]
    /\ target \in [Callers -> 1..Len(Outputs)]
    /\ pattern \in [Names -> 0..4]
    /\ repeat \in [Names -> 0..1]
    /\ action \in [Names -> 0..MaxIndex]
    /\ count \in [Names -> 0..5]
    /\ asleep \in [Names -> BOOLEAN]
    /\ poll \in [at : {"idle", "read", "load", "advance", "apply"}, out : Names,
                 null : BOOLEAN, ptr : (0..4) \X (0..2)]
    /\ flashes \in [Names -> Nat]
    /\ overtaken \in [Callers -> BOOLEAN]
    /\ shown \in [Names -> Outcomes] /\ torn \in [Names -> BOOLEAN]

Init ==
    /\ active = {1, 2, 4}           \* init_blink()
    /\ step = [c \in Callers |-> "idle"]
    /\ scan = [c \in Callers |-> 0]
    /\ target = [c \in Callers |-> 1]
    /\ pattern = [o \in Names |-> IF o = "LED" THEN 1 ELSE NoError]
    /\ repeat = [o \in Names |-> 0]
    /\ action = [o \in Names |-> 0]
    /\ count = [o \in Names |-> 0]
    /\ asleep = [o \in Names |-> FALSE]
    /\ poll = NoPoll
    /\ flashes = [o \in Names |-> 0]
    /\ overtaken = [c \in Callers |-> FALSE]
    /\ shown = [o \in Names |-> "never"]
    /\ torn = [o \in Names |-> FALSE]

Quiet == \A c \in Callers : step[c] = "idle"
Goto(c, s) == step' = [step EXCEPT ![c] = s]

(***************************************************************************)
(* set_error_priority() and apply_blink_pattern().                         *)
(***************************************************************************)
StoreError(c, p, isActive) ==
    /\ step[c] = "idle" /\ Goto(c, "scan")
    /\ active' = IF isActive THEN active \cup {p} ELSE active \ {p}
    /\ scan' = [scan EXCEPT ![c] = 1]
    /\ target' = [target EXCEPT ![c] = 1]
    /\ overtaken' = [d \in Callers |-> d # c /\ step[d] # "idle"]
    /\ shown' = [o \in Names |-> "waiting"]
    /\ UNCHANGED <<handler, asleep, poll, flashes, torn>>

\* Mutant of ScanError: the loop stops before the last priority.
ScanStopsEarly(c) ==
    /\ step[c] = "scan"
    /\ \/ scan[c] \in active /\ Goto(c, "pattern") /\ UNCHANGED scan
       \/ /\ scan[c] \notin active
          /\ scan' = [scan EXCEPT ![c] = IF @ < 3 THEN @ + 1 ELSE NoError]
          /\ IF scan[c] < 3 THEN UNCHANGED step ELSE Goto(c, "pattern")
    /\ UNCHANGED <<active, target, handler, asleep, poll, history>>

\* One turn of the loop of get_lowest_active_error_priority().
ScanError(c) ==
    /\ step[c] = "scan"
    /\ \/ scan[c] \in active /\ Goto(c, "pattern") /\ UNCHANGED scan
       \/ /\ scan[c] \notin active
          /\ scan' = [scan EXCEPT ![c] = IF @ < 4 THEN @ + 1 ELSE NoError]
          /\ IF scan[c] < 4 THEN UNCHANGED step ELSE Goto(c, "pattern")
    /\ UNCHANGED <<active, target, handler, asleep, poll, history>>

Out(c) == Outputs[target[c]]

StorePattern(c) ==
    /\ step[c] = "pattern" /\ Goto(c, "indices")
    /\ pattern' = [pattern EXCEPT ![Out(c)] = scan[c]]
    /\ shown' = [shown EXCEPT ![Out(c)] = IF ~overtaken[c] THEN "newest"
                                          ELSE IF @ = "newest" THEN "older"
                                          ELSE @]
    /\ torn' = [torn EXCEPT ![Out(c)] = TRUE]
    /\ UNCHANGED <<active, scan, target, repeat, action, count, asleep, poll,
                   flashes, overtaken>>

Polled(o) == poll.at # "idle" /\ poll.out = o

\* Mutant of ResetIndices: only the flashes start anew.
KeepsIndices(c) ==
    /\ step[c] = "indices" /\ Goto(c, "callback")
    /\ flashes' = [flashes EXCEPT ![Out(c)] = 0]
    /\ torn' = [torn EXCEPT ![Out(c)] = Polled(Out(c))]
    /\ UNCHANGED <<active, scan, target, pattern, repeat, action, count, asleep,
                   poll, overtaken, shown>>

ResetIndices(c) ==
    /\ step[c] = "indices" /\ Goto(c, "callback")
    /\ repeat' = [repeat EXCEPT ![Out(c)] = 0]
    /\ action' = [action EXCEPT ![Out(c)] = 0]
    /\ count' = [count EXCEPT ![Out(c)] = 0]
    /\ flashes' = [flashes EXCEPT ![Out(c)] = 0]
    /\ torn' = [torn EXCEPT ![Out(c)] = Polled(Out(c))]
    /\ UNCHANGED <<active, scan, target, pattern, asleep, poll, overtaken,
                   shown>>

\* reset_blink_poll(): the output is polled at once; then the next output.
reset_blink_poll(c) ==
    /\ step[c] = "callback"
    /\ asleep' = [asleep EXCEPT ![Out(c)] = FALSE]
    /\ IF target[c] < Len(Outputs)
       THEN /\ target' = [target EXCEPT ![c] = @ + 1]
            /\ Goto(c, "pattern") /\ UNCHANGED <<scan, overtaken>>
       ELSE /\ Goto(c, "idle")
            /\ scan' = [scan EXCEPT ![c] = NoError]
            /\ target' = [target EXCEPT ![c] = 1]
            /\ overtaken' = [overtaken EXCEPT ![c] = FALSE]
    /\ UNCHANGED <<active, handler, poll, flashes, shown, torn>>

(***************************************************************************)
(* do_blink() in the capture task.                                         *)
(***************************************************************************)
IsEnd(p, r) == r >= Len(get_blink_pattern(p))
Actions(p, r) == get_blink_pattern(p)[r + 1].actions

StartPoll(o) ==
    /\ poll.at = "idle" /\ ~asleep[o]
    /\ poll' = [poll EXCEPT !.at = "read", !.out = o]
    /\ UNCHANGED <<active, calls, handler, asleep, history>>

\* get_current_action(): the entry after the last action is dark and takes no
\* time; what lies behind it is whatever the memory holds.
ReadAction ==
    LET o == poll.out
        a == Actions(pattern[o], repeat[o])
    IN  /\ poll.at = "read"
        /\ IF IsEnd(pattern[o], repeat[o])
           THEN /\ poll' = [poll EXCEPT !.at = "apply", !.null = TRUE]
                /\ UNCHANGED flashes
           ELSE \E lit \in IF action[o] < Len(a) THEN {a[action[o] + 1]}
                           ELSE IF action[o] = Len(a) THEN {FALSE}
                           ELSE BOOLEAN :
                /\ poll' = [poll EXCEPT !.at = "load"]
                /\ flashes' = [flashes EXCEPT ![o] =
                                   IF repeat[o] = 0 /\ action[o] = 0
                                   THEN IF lit THEN 1 ELSE 0
                                   ELSE IF lit /\ @ < 6 THEN @ + 1 ELSE @]
        /\ UNCHANGED <<active, calls, handler, asleep, overtaken, shown,
                       torn>>

\* Mutant of NextRepeat: the end of the pattern does not lead to its start.
WalksOn(p, r) == r

\* The repeat after the last one is the first again.
NextRepeat(p, r) == IF IsEnd(p, r) THEN 0 ELSE r

\* advance_blink_handler() loads the repeat, then walks on.
LoadRepeat ==
    LET o == poll.out
    IN  /\ poll.at = "load"
        /\ poll' = IF IsEnd(pattern[o], repeat[o])
                   THEN [poll EXCEPT !.at = "apply"]
                   ELSE [poll EXCEPT !.at = "advance",
                                     !.ptr = <<pattern[o], repeat[o]>>]
        /\ UNCHANGED <<active, calls, handler, asleep, history>>

advance_blink_handler ==
    LET o == poll.out
        r == get_blink_pattern(poll.ptr[1])[poll.ptr[2] + 1]
        next == action[o] + 1
        played == count[o] + 1
        following == IF played >= r.times THEN repeat[o] + 1 ELSE repeat[o]
    IN  /\ poll.at = "advance"
        /\ poll' = [poll EXCEPT !.at = "apply"]
        /\ \E end \in IF next < Len(r.actions) THEN {FALSE}
                      ELSE IF next = Len(r.actions) \/ next > MaxIndex THEN {TRUE}
                      ELSE BOOLEAN :
           IF end
           THEN /\ action' = [action EXCEPT ![o] = 0]
                /\ count' = [count EXCEPT ![o] = IF played >= r.times THEN 0
                                                 ELSE played]
                /\ repeat' = [repeat EXCEPT ![o] =
                                  NextRepeat(pattern[o], following)]
           ELSE /\ action' = [action EXCEPT ![o] = next]
                /\ UNCHANGED <<count, repeat>>
        /\ UNCHANGED <<active, calls, pattern, asleep, history>>

\* The level is written and the next poll set; without an action never.
ApplyAction ==
    /\ poll.at = "apply"
    /\ poll' = NoPoll
    /\ asleep' = [asleep EXCEPT ![poll.out] = poll.null]
    /\ UNCHANGED <<active, calls, handler, history>>

do_blink ==
    \/ \E o \in Names : StartPoll(o)
    \/ ReadAction \/ LoadRepeat \/ advance_blink_handler \/ ApplyAction

set_error_priority(c) ==
    \/ \E p \in Priorities, isActive \in BOOLEAN : StoreError(c, p, isActive)
    \/ ScanError(c) \/ StorePattern(c) \/ ResetIndices(c) \/ reset_blink_poll(c)

Next == do_blink \/ \E c \in Callers : set_error_priority(c)

Spec == Init /\ [][Next]_vars

(***************************************************************************)
(* Properties.                                                             *)
(***************************************************************************)
Lowest == IF active = {} THEN NoError
          ELSE CHOOSE p \in active : \A q \in active : p <= q

\* However calls overlap, the task that changed an error last finds the lowest
\* priority that is active: once its pattern is stored, an output shows that
\* priority until an error changes or an older change is stored over it, which
\* no lock prevents.  When no call is in progress, no output still waits.
ShowsLowest ==
    \A o \in Names : /\ shown[o] = "newest" => pattern[o] = Lowest
                     /\ Quiet => shown[o] # "waiting"

Resetting(o) == \E c \in Callers : step[c] = "callback" /\ Out(c) = o

\* Whatever callers do to an output in turns, and whatever is polled: once its
\* indices were reset outside a poll of it and until its pattern is replaced,
\* the walk never stands on the entry that ends a repeat or a pattern, and the
\* output goes on being polled (or is about to be).
WalkInBounds ==
    \A o \in Names : ~torn[o] =>
        /\ ~IsEnd(pattern[o], repeat[o])
        /\ action[o] < Len(Actions(pattern[o], repeat[o]))
        /\ asleep[o] => Resetting(o)

\* And who counts the flashes between two pauses reads the priority.
FlashesNameError ==
    \A o \in Names :
        ~torn[o] /\ pattern[o] # NoError /\ repeat[o] = 0 =>
            flashes[o] \in {0, pattern[o] + 1}
=============================================================================
