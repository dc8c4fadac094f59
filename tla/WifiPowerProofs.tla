--------------------------- MODULE WifiPowerProofs ---------------------------
(***************************************************************************)
(* WifiPower: for any number of tasks and any length of time the newest    *)
(* change of a hold leads to the mode that all holds ask for, and the share *)
(* of MIN_MODEM time is one as long as notes and samples do not overlap.   *)
(***************************************************************************)
EXTENDS WifiPower, TLAPS

-----------------------------------------------------------------------------
(* The invariant of the mode.                                              *)

(* The clock has not passed what was read from it.                         *)
ReadBefore ==
    /\ lastChange <= now /\ sampleNow <= now
    /\ \A t \in Tasks : noteAt[t] <= now

(* The mode the holds ask for.                                             *)
Wanted == IF held = {} THEN "MIN_MODEM" ELSE "NONE"

(* A task that no later change has overtaken has found none of the holds   *)
(* it has loaded, then it knows the mode.                                  *)
NewestKnows ==
    \A t \in Tasks : ~overtaken[t] =>
        /\ step[t] = "load" => \A i \in 1..3 : i < load[t] => HoldOrder[i] \notin held
        /\ step[t] \in {"set", "note", "mark"} => mode[t] = Wanted

Settled ==
    /\ applied = "newest" => driver = Wanted
    /\ noted = "newest" => current = Wanted

(* What still waits is on its way.                                         *)
OnItsWay ==
    /\ applied = "waiting" =>
        \E t \in Tasks : ~overtaken[t] /\ step[t] \in {"load", "set"}
    /\ noted = "waiting" =>
        \E t \in Tasks : ~overtaken[t] /\ step[t] \in {"load", "set", "note", "mark"}

(* The invariant of the share.                                             *)

Marking == \E t \in Tasks : step[t] = "mark"

(* Counted up to a time: no more than has passed since the sample.         *)
CountedTo(counted, at) == sampleTotal <= counted /\ counted - sampleTotal <= at - sampleAt

(* Between its two steps a note has added what it read and not yet dated   *)
(* it; otherwise MinModemTotal is right for now and for the time a sample  *)
(* in progress has read.                                                   *)
Counted ==
    /\ \A t \in Tasks : step[t] = "mark" => CountedTo(total, noteAt[t])
    /\ ~Marking => CountedTo(MinModemTotal(now), now)
    /\ sampleNow # 0 => /\ ~Marking
                        /\ lastChange <= sampleNow
                        /\ CountedTo(MinModemTotal(sampleNow), sampleNow)

OneMark == \A t, u \in Tasks : step[t] = "mark" /\ step[u] = "mark" => t = u

ShareInv == ~blurred => OneMark /\ Counted /\ percent \in 0..100

(* The clock is part of the type proof: total stays a natural number       *)
(* because nothing is dated in the future.                                 *)
TypeInv == TypeOK /\ ReadBefore

-----------------------------------------------------------------------------
(* Moving between steps.                                                   *)

StepSet == {"idle", "load", "set", "note", "mark"}

LEMMA GotoMoves ==
    ASSUME CallType, NEW t \in Tasks, NEW s \in StepSet, Goto(t, s)
    PROVE  /\ step' \in [Tasks -> StepSet]
           /\ step'[t] = s /\ \A u \in Tasks : u # t => step'[u] = step[u]
BY DEF CallType, Goto, StepSet

LEMMA ReturnMoves ==
    ASSUME TypeOK, NEW t \in Tasks, Return(t)
    PROVE  /\ step' \in [Tasks -> StepSet]
           /\ load' \in [Tasks -> 1..3] /\ mode' \in [Tasks -> Modes]
           /\ noteAt' \in [Tasks -> Nat] /\ overtaken' \in [Tasks -> BOOLEAN]
           /\ step'[t] = "idle" /\ noteAt'[t] = 0
           /\ \A u \in Tasks : u # t =>
                /\ step'[u] = step[u] /\ load'[u] = load[u] /\ mode'[u] = mode[u]
                /\ noteAt'[u] = noteAt[u] /\ overtaken'[u] = overtaken[u]
<1> USE DEF TypeOK, CallType, MetricType, Return
<1>1. step' \in [Tasks -> StepSet] /\ step'[t] = "idle"
      /\ \A u \in Tasks : u # t => step'[u] = step[u]
    BY GotoMoves DEF StepSet
<1>2. load' \in [Tasks -> 1..3] /\ \A u \in Tasks : u # t => load'[u] = load[u]
    OBVIOUS
<1>3. mode' \in [Tasks -> Modes] /\ \A u \in Tasks : u # t => mode'[u] = mode[u]
    BY DEF Modes
<1>4. noteAt' \in [Tasks -> Nat] /\ noteAt'[t] = 0
      /\ \A u \in Tasks : u # t => noteAt'[u] = noteAt[u]
    OBVIOUS
<1>5. overtaken' \in [Tasks -> BOOLEAN]
      /\ \A u \in Tasks : u # t => overtaken'[u] = overtaken[u]
    OBVIOUS
<1> QED
    BY <1>1, <1>2, <1>3, <1>4, <1>5

(* What the mode of a task does to that of the newest change.             *)
LEMMA EffectIs ==
    ASSUME NEW t \in Tasks, NEW was \in Outcomes
    PROVE  /\ TakesEffect(t, was) \in Outcomes
           /\ ~overtaken[t] => TakesEffect(t, was) = "newest"
           /\ overtaken[t] => /\ TakesEffect(t, was) # "newest"
                              /\ TakesEffect(t, was) = "waiting" => was = "waiting"
BY DEF TakesEffect, Outcomes

(* The steps by what they do to the calls: a call begins, goes on or ends, *)
(* or nothing of it changes.                                               *)
LEMMA SetHoldMoves ==
    ASSUME TypeOK, NEW t \in Tasks, NEW h \in Holds, NEW enabled \in BOOLEAN,
           SetHold(t, h, enabled)
    PROVE  /\ held' \subseteq Holds
           /\ step' \in [Tasks -> StepSet]
           /\ load' \in [Tasks -> 1..3] /\ load'[t] = 1
           /\ overtaken' \in [Tasks -> BOOLEAN] /\ ~overtaken'[t]
           /\ step[t] = "idle" /\ step'[t] = "load"
           /\ \A u \in Tasks : u # t =>
                step'[u] = step[u] /\ (~overtaken'[u] => step[u] = "idle")
           /\ applied' = "waiting" /\ noted' = "waiting"
<1> USE DEF TypeOK, CallType, SetHold
<1>1. step' \in [Tasks -> StepSet] /\ step'[t] = "load"
      /\ \A u \in Tasks : u # t => step'[u] = step[u]
    BY GotoMoves DEF StepSet
<1>2. held' \subseteq Holds /\ step[t] = "idle"
    BY DEF Idle
<1>3. load' \in [Tasks -> 1..3] /\ load'[t] = 1
    OBVIOUS
<1>4. overtaken' = [u \in Tasks |-> u # t /\ ~Idle(u)]
    OBVIOUS
<1>5. overtaken' \in [Tasks -> BOOLEAN]
    BY <1>4, Zenon
<1>6. ~overtaken'[t]
    BY <1>4, Zenon
<1>7. \A u \in Tasks : u # t => overtaken'[u] = ~Idle(u)
    BY <1>4, Zenon
<1>8. applied' = "waiting" /\ noted' = "waiting"
    OBVIOUS
<1> QED
    BY <1>1, <1>2, <1>3, <1>5, <1>6, <1>7, <1>8 DEF Idle

LEMMA LoadHoldMoves ==
    ASSUME TypeOK, NEW t \in Tasks, LoadHold(t)
    PROVE  /\ step' \in [Tasks -> StepSet]
           /\ load' \in [Tasks -> 1..3] /\ mode' \in [Tasks -> Modes]
           /\ step[t] = "load"
           /\ \/ /\ HoldOrder[load[t]] \in held
                 /\ step'[t] = "set" /\ mode'[t] = "NONE"
              \/ /\ HoldOrder[load[t]] \notin held /\ load[t] = 3
                 /\ step'[t] = "set" /\ mode'[t] = "MIN_MODEM"
              \/ /\ HoldOrder[load[t]] \notin held /\ load[t] \in 1..2
                 /\ step'[t] = "load" /\ load'[t] = load[t] + 1
           /\ \A u \in Tasks : u # t =>
                step'[u] = step[u] /\ load'[u] = load[u] /\ mode'[u] = mode[u]
<1> USE DEF TypeOK, CallType, Modes
<1> DEFINE found == HoldOrder[load[t]] \in held
<1>1. step[t] = "load" /\ load[t] \in 1..3
    BY DEF LoadHold
<1>2. CASE found \/ load[t] = 3
    <2>1. /\ mode' = [mode EXCEPT ![t] = IF found THEN "NONE" ELSE "MIN_MODEM"]
          /\ Goto(t, "set") /\ UNCHANGED load
        BY <1>2, Zenon DEF LoadHold
    <2>2. step' \in [Tasks -> StepSet] /\ step'[t] = "set"
          /\ \A u \in Tasks : u # t => step'[u] = step[u]
        BY <2>1, GotoMoves DEF StepSet
    <2>3. mode' \in [Tasks -> Modes]
          /\ mode'[t] = (IF found THEN "NONE" ELSE "MIN_MODEM")
          /\ \A u \in Tasks : u # t => mode'[u] = mode[u]
        <3> HIDE DEF found
        <3> QED
            BY <2>1
    <2> QED
        BY <1>1, <1>2, <2>1, <2>2, <2>3
<1>3. CASE ~found /\ load[t] # 3
    <2>1. load' = [load EXCEPT ![t] = load[t] + 1] /\ UNCHANGED <<step, mode>>
        BY <1>3, Zenon DEF LoadHold
    <2>2. load[t] \in 1..2
        BY <1>1, <1>3
    <2> QED
        BY <1>1, <1>3, <2>1, <2>2 DEF StepSet
<1> QED
    BY <1>2, <1>3

-----------------------------------------------------------------------------
(* The types.                                                              *)

LEMMA TotalType ==
    ASSUME TypeInv, NEW at \in Nat, lastChange <= at
    PROVE  MinModemTotal(at) \in Nat
BY DEF TypeInv, TypeOK, MetricType, MinModemTotal

LEMMA PercentType ==
    ASSUME NEW a \in Int, NEW b \in Nat \ {0}
    PROVE  (a * 100) \div b \in Int
OBVIOUS

(* A sample's percentage is one if what it counts is fair.                 *)
LEMMA PercentRange ==
    ASSUME NEW a \in Int, NEW b \in Nat \ {0}, 0 <= a, a <= b
    PROVE  (a * 100) \div b \in 0..100
<1>1. (a * 100) \div b \in Int
    BY PercentType
<1> DEFINE q == (a * 100) \div b
<1>2. b * q <= a * 100 /\ a * 100 < b * q + b
    OBVIOUS
<1> QED
    BY <1>1, <1>2

LEMMA InitTypeInv == Init => TypeInv
<1> SUFFICES ASSUME Init PROVE TypeInv
    OBVIOUS
<1> USE DEF Init
<1>1. CallType
    BY DEF CallType, Modes, Outcomes
<1>2. MetricType
    <2>1. noteAt \in [Tasks -> Nat] /\ current \in Modes /\ blurred \in BOOLEAN
        BY DEF Modes
    <2> QED
        BY <2>1 DEF MetricType
<1>3. ReadBefore
    BY DEF ReadBefore
<1> QED
    BY <1>1, <1>2, <1>3 DEF TypeInv, TypeOK

(* The steps of the calls leave the metric alone, except for the two of a  *)
(* note and the end of the call.                                           *)
LEMMA CallTypes ==
    ASSUME TypeInv, NEW t \in Tasks,
           \/ \E h \in Holds, enabled \in BOOLEAN : SetHold(t, h, enabled)
           \/ LoadHold(t) \/ SetPs(t)
    PROVE  TypeInv'
<1> USE DEF TypeInv, TypeOK
<1>1. UNCHANGED metric /\ UNCHANGED reading /\ UNCHANGED <<now, blurred>>
    BY DEF SetHold, LoadHold, SetPs, history
<1>2. MetricType' /\ ReadBefore'
    BY <1>1 DEF metric, reading, MetricType, ReadBefore
<1>3. ASSUME NEW h \in Holds, NEW enabled \in BOOLEAN, SetHold(t, h, enabled)
      PROVE  CallType'
    <2>1. UNCHANGED <<mode, driver>>
        BY <1>3 DEF SetHold
    <2> QED
        BY <1>3, <2>1, SetHoldMoves DEF CallType, StepSet, Outcomes
<1>4. CASE LoadHold(t)
    <2>1. UNCHANGED <<held, driver, overtaken, applied, noted>>
        BY <1>4 DEF LoadHold, history, outcome
    <2>2. /\ step' \in [Tasks -> StepSet] /\ load' \in [Tasks -> 1..3]
          /\ mode' \in [Tasks -> Modes]
        BY <1>4, LoadHoldMoves
    <2> QED
        BY <1>2, <2>1, <2>2 DEF CallType, StepSet
<1>5. CASE SetPs(t)
    <2>1. UNCHANGED <<held, load, mode, overtaken, noted>>
          /\ driver' = mode[t] /\ Goto(t, "note")
        BY <1>5 DEF SetPs
    <2>2. step' \in [Tasks -> StepSet]
        BY <2>1, GotoMoves DEF StepSet
    <2>3. applied' \in Outcomes
        BY <1>5, EffectIs DEF SetPs, CallType
    <2>4. driver' \in Modes
        BY <2>1 DEF CallType
    <2> QED
        BY <1>2, <2>1, <2>2, <2>3, <2>4 DEF CallType, StepSet
<1> QED
    BY <1>2, <1>3, <1>4, <1>5

LEMMA ReturnTypes ==
    ASSUME TypeInv, NEW t \in Tasks, SetPsFails(t) \/ NoteMode(t)
    PROVE  TypeInv'
<1> USE DEF TypeInv, TypeOK
<1>1. Return(t) /\ UNCHANGED <<held, driver, total, sampleAt, sampleTotal, percent,
                              sampleNow, now, blurred>>
    BY DEF SetPsFails, NoteMode, metric
<1>2. CallType'
    <2>1. applied' \in Outcomes /\ noted' \in Outcomes
        BY EffectIs DEF SetPsFails, NoteMode, CallType, Outcomes
    <2> QED
        BY <1>1, <2>1, ReturnMoves DEF CallType, StepSet
<1>3. /\ lastChange' \in Nat /\ lastChange' <= now
      /\ current' \in Modes
    BY DEF SetPsFails, NoteMode, metric, CallType, MetricType, ReadBefore
<1>4. MetricType'
    BY <1>1, <1>3, ReturnMoves DEF MetricType
<1>5. \A u \in Tasks : noteAt'[u] <= now
    <2>1. noteAt'[t] = 0 /\ \A u \in Tasks : u # t => noteAt'[u] = noteAt[u]
        BY <1>1, ReturnMoves
    <2> QED
        BY <2>1 DEF MetricType, ReadBefore
<1>6. now' = now /\ sampleNow' = sampleNow
    BY <1>1
<1>7. ReadBefore'
    BY <1>3, <1>5, <1>6 DEF ReadBefore
<1> QED
    BY <1>2, <1>4, <1>7

LEMMA NoteTotalFacts ==
    ASSUME TypeInv, NEW t \in Tasks, NoteTotal(t)
    PROVE  /\ step[t] = "note"
           /\ step' \in [Tasks -> StepSet] /\ step'[t] = "mark"
           /\ noteAt' \in [Tasks -> Nat] /\ noteAt'[t] = now
           /\ \A u \in Tasks : u # t => step'[u] = step[u] /\ noteAt'[u] = noteAt[u]
           /\ total' = MinModemTotal(now) /\ total' \in Nat
           /\ \/ sampleAt' = now /\ sampleTotal' = total'
              \/ UNCHANGED <<sampleAt, sampleTotal>>
           /\ UNCHANGED <<held, load, mode, driver, current, lastChange, percent,
                         sampleNow, now, overtaken, applied, noted>>
           /\ ~blurred' => /\ ~blurred /\ sampleNow = 0
                           /\ \A u \in Tasks : step[u] # "mark"
           /\ blurred' \in BOOLEAN
<1> USE DEF TypeInv, TypeOK, NoteTotal, outcome
<1>1. step' \in [Tasks -> StepSet] /\ step'[t] = "mark"
      /\ \A u \in Tasks : u # t => step'[u] = step[u]
    BY GotoMoves DEF StepSet
<1>2. noteAt' \in [Tasks -> Nat] /\ noteAt'[t] = now
      /\ \A u \in Tasks : u # t => noteAt'[u] = noteAt[u]
    BY DEF MetricType
<1>3. MinModemTotal(now) \in Nat
    BY TotalType DEF MetricType, ReadBefore
<1>4. /\ total' = MinModemTotal(now)
      /\ \/ sampleAt' = now /\ sampleTotal' = total'
         \/ UNCHANGED <<sampleAt, sampleTotal>>
    BY DEF MinModemTotal, MetricType
<1>5. blurred' = (blurred \/ sampleNow # 0 \/ \E u \in Tasks : step[u] = "mark")
    OBVIOUS
<1>6. blurred' \in BOOLEAN
    BY <1>5, Zenon DEF MetricType
<1>7. ~blurred' => /\ ~blurred /\ sampleNow = 0
                   /\ \A u \in Tasks : step[u] # "mark"
    BY <1>5, Zenon
<1>8. step[t] = "note" /\ UNCHANGED <<held, load, mode, driver, current, lastChange,
                                    percent, sampleNow, now, overtaken, applied, noted>>
    OBVIOUS
<1> QED
    BY <1>1, <1>2, <1>3, <1>4, <1>6, <1>7, <1>8

LEMMA NoteTotalTypes ==
    ASSUME TypeInv, NEW t \in Tasks, NoteTotal(t)
    PROVE  TypeInv'
<1> USE NoteTotalFacts DEF TypeInv, TypeOK
<1>1. CallType'
    BY DEF CallType, StepSet
<1>2. sampleAt' \in Nat /\ sampleTotal' \in Int
    BY DEF MetricType
<1>3. MetricType'
    BY <1>2 DEF MetricType
<1>4. ReadBefore'
    BY DEF ReadBefore, MetricType
<1> QED
    BY <1>1, <1>3, <1>4

LEMMA SampleTypes ==
    ASSUME TypeInv, BeginSample \/ EndSample \/ Tick \/ UNCHANGED vars
    PROVE  TypeInv'
<1> USE DEF TypeInv, TypeOK
<1>1. CallType'
    BY DEF BeginSample, EndSample, Tick, vars, calls, history, outcome, CallType
<1>2. CASE BeginSample
    <2>1. blurred' \in BOOLEAN
        BY <1>2, Zenon DEF BeginSample, MetricType
    <2>2. sampleNow' = now
          /\ UNCHANGED <<current, lastChange, total, sampleAt, sampleTotal, percent,
                         noteAt, now>>
        BY <1>2 DEF BeginSample, metric
    <2> QED
        BY <1>1, <2>1, <2>2 DEF MetricType, ReadBefore
<1>3. CASE EndSample
    <2>1. UNCHANGED <<current, lastChange, total, noteAt, now, blurred>> /\ sampleNow' = 0
        BY <1>3 DEF EndSample, history
    <2>2. MinModemTotal(sampleNow) \in Int
        BY DEF MinModemTotal, MetricType
    <2>3. sampleAt' \in Nat /\ sampleTotal' \in Int
        BY <1>3, <2>2 DEF EndSample, MetricType
    <2>4. percent' \in Int
        <3>1. CASE sampleAt = 0 \/ sampleNow <= sampleAt
            BY <1>3, <3>1 DEF EndSample, MetricType
        <3>2. CASE ~(sampleAt = 0 \/ sampleNow <= sampleAt)
            <4> DEFINE a == MinModemTotal(sampleNow) - sampleTotal
                       b == sampleNow - sampleAt
            <4>1. a \in Int /\ b \in Nat \ {0}
                BY <2>2, <3>2 DEF MetricType
            <4>2. percent' = (a * 100) \div b
                BY <1>3, <3>2, Zenon DEF EndSample
            <4> HIDE DEF a, b
            <4> QED
                BY <4>1, <4>2, PercentType
        <3> QED
            BY <3>1, <3>2
    <2> QED
        BY <1>1, <2>1, <2>3, <2>4 DEF MetricType, ReadBefore
<1>4. CASE Tick
    <2>1. now' = now + 1 /\ UNCHANGED metric /\ UNCHANGED reading /\ UNCHANGED blurred
        BY <1>4 DEF Tick, history
    <2>2. MetricType'
        BY <2>1 DEF metric, reading, MetricType
    <2>3. ReadBefore'
        <3>1. \A n \in Nat : n <= now => n <= now + 1
            BY DEF MetricType
        <3> QED
            BY <2>1, <3>1 DEF metric, reading, MetricType, ReadBefore
    <2> QED
        BY <1>1, <2>2, <2>3
<1>5. CASE UNCHANGED vars
    BY <1>1, <1>5 DEF vars, metric, reading, history, MetricType, ReadBefore
<1> QED
    BY <1>2, <1>3, <1>4, <1>5

LEMMA TypeStep == TypeInv /\ [Next]_vars => TypeInv'
BY CallTypes, ReturnTypes, NoteTotalTypes, SampleTypes DEF Next

-----------------------------------------------------------------------------
(* The mode.                                                               *)

CallInv == TypeInv /\ NewestKnows /\ Settled /\ OnItsWay

(* The steps that no call takes change nothing the mode depends on.        *)
LEMMA SampleKeepsCalls ==
    ASSUME BeginSample \/ EndSample \/ Tick \/ UNCHANGED vars
    PROVE  UNCHANGED <<held, step, load, mode, driver, current, overtaken, applied, noted>>
BY DEF BeginSample, EndSample, Tick, vars, calls, history, outcome, metric

(* What the search of a task does not find is not there.                   *)
LEMMA Orders == {HoldOrder[1], HoldOrder[2], HoldOrder[3]} = Holds
BY DEF HoldOrder, Holds

LEMMA SetHoldKeeps ==
    ASSUME CallInv, NEW t \in Tasks, NEW h \in Holds, NEW enabled \in BOOLEAN,
           SetHold(t, h, enabled)
    PROVE  NewestKnows' /\ Settled' /\ OnItsWay'
<1> USE SetHoldMoves DEF CallInv, TypeInv
<1>1. NewestKnows'
    BY DEF NewestKnows
<1>2. Settled'
    BY DEF Settled
<1> QED
    BY <1>1, <1>2 DEF OnItsWay

LEMMA LoadHoldKeeps ==
    ASSUME CallInv, NEW t \in Tasks, LoadHold(t)
    PROVE  NewestKnows' /\ Settled' /\ OnItsWay'
<1> USE DEF CallInv, TypeInv, TypeOK
<1>1. UNCHANGED <<held, driver, current, overtaken, applied, noted>>
    BY DEF LoadHold, history, outcome, metric
<1>2. ASSUME ~overtaken[t] PROVE \A i \in 1..3 : i < load[t] => HoldOrder[i] \notin held
    BY <1>2 DEF LoadHold, NewestKnows
<1>3. ASSUME ~overtaken[t], step'[t] = "load"
      PROVE  \A i \in 1..3 : i < load'[t] => HoldOrder[i] \notin held
    <2>1. /\ load[t] \in 1..2 /\ load'[t] = load[t] + 1
          /\ HoldOrder[load[t]] \notin held
        BY <1>3, LoadHoldMoves
    <2>2. \A i \in 1..3 : i < load[t] + 1 => i < load[t] \/ i = load[t]
        BY <2>1
    <2> QED
        BY <1>2, <1>3, <2>1, <2>2
<1>4. ASSUME ~overtaken[t], step'[t] # "load"
      PROVE  mode'[t] = Wanted
    <2>1. CASE HoldOrder[load[t]] \in held
        BY <1>4, <2>1, LoadHoldMoves DEF Wanted
    <2>2. CASE HoldOrder[load[t]] \notin held
        <3>1. load[t] = 3 /\ mode'[t] = "MIN_MODEM"
            BY <1>4, <2>2, LoadHoldMoves
        <3>2. HoldOrder[1] \notin held /\ HoldOrder[2] \notin held
            BY <1>2, <1>4, <3>1
        <3>3. held = {}
            BY <2>2, <3>1, <3>2, Orders DEF CallType
        <3> QED
            BY <3>1, <3>3 DEF Wanted
    <2> QED
        BY <2>1, <2>2
<1>5. NewestKnows'
    BY <1>1, <1>3, <1>4, LoadHoldMoves DEF NewestKnows, Wanted
<1>6. Settled'
    BY <1>1 DEF Settled, Wanted
<1>7. OnItsWay'
    <2>1. step'[t] \in {"load", "set"} /\ \A u \in Tasks : u # t => step'[u] = step[u]
        BY LoadHoldMoves
    <2> QED
        BY <1>1, <2>1 DEF OnItsWay
<1> QED
    BY <1>5, <1>6, <1>7

LEMMA SetPsKeeps ==
    ASSUME CallInv, NEW t \in Tasks, SetPs(t)
    PROVE  NewestKnows' /\ Settled' /\ OnItsWay'
<1> USE DEF CallInv, TypeInv, TypeOK
<1>1. /\ UNCHANGED <<held, load, mode, current, overtaken, noted>>
      /\ driver' = mode[t] /\ applied' = TakesEffect(t, applied)
      /\ step[t] = "set" /\ Goto(t, "note")
    BY DEF SetPs, metric
<1>2. step'[t] = "note" /\ \A u \in Tasks : u # t => step'[u] = step[u]
    BY <1>1, GotoMoves DEF StepSet
<1>3. NewestKnows'
    BY <1>1, <1>2 DEF NewestKnows, Wanted
<1>4. /\ ~overtaken[t] => applied' = "newest"
      /\ overtaken[t] => applied' # "newest" /\ (applied' = "waiting" => applied = "waiting")
    BY <1>1, EffectIs DEF CallType
<1>5. Settled'
    BY <1>1, <1>4 DEF Settled, NewestKnows, Wanted
<1>6. OnItsWay'
    BY <1>1, <1>2, <1>4 DEF OnItsWay
<1> QED
    BY <1>3, <1>5, <1>6

LEMMA SetPsFailsKeeps ==
    ASSUME CallInv, NEW t \in Tasks, SetPsFails(t)
    PROVE  NewestKnows' /\ Settled' /\ OnItsWay'
<1> USE ReturnMoves DEF CallInv, TypeInv
<1>1. /\ UNCHANGED <<held, driver, current>> /\ Return(t)
      /\ IF overtaken[t] THEN UNCHANGED <<applied, noted>>
                         ELSE applied' = "refused" /\ noted' = "refused"
    BY DEF SetPsFails, metric
<1>2. NewestKnows'
    BY <1>1 DEF NewestKnows, Wanted
<1>3. Settled'
    BY <1>1 DEF Settled, Wanted
<1>4. OnItsWay'
    BY <1>1 DEF OnItsWay
<1> QED
    BY <1>2, <1>3, <1>4

LEMMA NoteTotalKeeps ==
    ASSUME CallInv, NEW t \in Tasks, NoteTotal(t)
    PROVE  NewestKnows' /\ Settled' /\ OnItsWay'
<1> USE NoteTotalFacts DEF CallInv
<1>1. NewestKnows'
    BY DEF NewestKnows, Wanted
<1>2. Settled'
    BY DEF Settled, Wanted
<1>3. OnItsWay'
    BY DEF OnItsWay
<1> QED
    BY <1>1, <1>2, <1>3

LEMMA NoteModeKeeps ==
    ASSUME CallInv, NEW t \in Tasks, NoteMode(t)
    PROVE  NewestKnows' /\ Settled' /\ OnItsWay'
<1> USE ReturnMoves DEF CallInv, TypeInv, TypeOK
<1>1. /\ UNCHANGED <<held, driver, applied>> /\ Return(t)
      /\ step[t] = "mark" /\ current' = mode[t] /\ noted' = TakesEffect(t, noted)
    BY DEF NoteMode
<1>2. /\ ~overtaken[t] => noted' = "newest"
      /\ overtaken[t] => noted' # "newest" /\ (noted' = "waiting" => noted = "waiting")
    BY <1>1, EffectIs DEF CallType
<1>3. NewestKnows'
    BY <1>1 DEF NewestKnows, Wanted
<1>4. Settled'
    BY <1>1, <1>2 DEF Settled, NewestKnows, Wanted
<1>5. OnItsWay'
    BY <1>1, <1>2 DEF OnItsWay
<1> QED
    BY <1>3, <1>4, <1>5

LEMMA CallStep == CallInv /\ [Next]_vars => CallInv'
<1> SUFFICES ASSUME CallInv, [Next]_vars PROVE CallInv'
    OBVIOUS
<1>1. TypeInv'
    BY TypeStep DEF CallInv
<1>2. CASE BeginSample \/ EndSample \/ Tick \/ UNCHANGED vars
    BY <1>1, <1>2, SampleKeepsCalls DEF CallInv, NewestKnows, Settled, OnItsWay, Wanted
<1> QED
    BY <1>1, <1>2, SetHoldKeeps, LoadHoldKeeps, SetPsKeeps, SetPsFailsKeeps, NoteTotalKeeps,
       NoteModeKeeps DEF Next, CallInv

LEMMA CallInvariant == Spec => []CallInv
<1>1. Init => NewestKnows /\ Settled /\ OnItsWay
    BY DEF Init, NewestKnows, Settled, OnItsWay
<1> QED
    BY <1>1, CallStep, InitTypeInv, PTL DEF Spec, CallInv

-----------------------------------------------------------------------------
(* The share.                                                              *)

ShareState == TypeInv /\ ShareInv

(* What counts is the time, the metric and who is marking.                 *)
LEMMA CountedKept ==
    ASSUME ShareInv,
           UNCHANGED <<current, lastChange, total, sampleAt, sampleTotal, percent, noteAt,
                       sampleNow, now, blurred>>,
           \A t \in Tasks : step'[t] = "mark" <=> step[t] = "mark"
    PROVE  ShareInv'
BY DEF ShareInv, OneMark, Counted, CountedTo, Marking, MinModemTotal

LEMMA CallShare ==
    ASSUME ShareState, NEW t \in Tasks,
           \/ \E h \in Holds, enabled \in BOOLEAN : SetHold(t, h, enabled)
           \/ LoadHold(t) \/ SetPs(t)
    PROVE  ShareInv'
<1> USE DEF ShareState, TypeInv, TypeOK
<1>1. UNCHANGED <<current, lastChange, total, sampleAt, sampleTotal, percent, noteAt,
                  sampleNow, now, blurred>>
    BY DEF SetHold, LoadHold, SetPs, metric, reading, history
<1>2. \A u \in Tasks : step'[u] = "mark" <=> step[u] = "mark"
    <2>1. CASE \E h \in Holds, enabled \in BOOLEAN : SetHold(t, h, enabled)
        BY <2>1, SetHoldMoves
    <2>2. CASE LoadHold(t)
        BY <2>2, LoadHoldMoves
    <2>3. CASE SetPs(t)
        BY <2>3, GotoMoves DEF SetPs, StepSet
    <2> QED
        BY <2>1, <2>2, <2>3
<1> QED
    BY <1>1, <1>2, CountedKept

LEMMA FailShare ==
    ASSUME ShareState, NEW t \in Tasks, SetPsFails(t)
    PROVE  ShareInv'
<1> USE DEF ShareState, TypeInv, TypeOK
<1>1. /\ UNCHANGED <<current, lastChange, total, sampleAt, sampleTotal, percent,
                     sampleNow, now, blurred>>
      /\ step[t] = "set" /\ Return(t)
    BY DEF SetPsFails, metric
<1>2. \A u \in Tasks : /\ step'[u] = "mark" <=> step[u] = "mark"
                       /\ step[u] = "mark" => noteAt'[u] = noteAt[u]
    BY <1>1, ReturnMoves
<1> QED
    BY <1>1, <1>2 DEF ShareInv, OneMark, Counted, CountedTo, Marking, MinModemTotal

LEMMA NoteTotalShare ==
    ASSUME ShareState, NEW t \in Tasks, NoteTotal(t)
    PROVE  ShareInv'
<1> SUFFICES ASSUME ~blurred'
             PROVE  OneMark' /\ Counted' /\ percent' \in 0..100
    BY DEF ShareInv
<1> USE NoteTotalFacts DEF ShareState, TypeInv, TypeOK
<1>1. /\ OneMark /\ Counted /\ percent \in 0..100
      /\ sampleNow = 0 /\ ~Marking
    BY DEF ShareInv, Marking
<1>2. OneMark' /\ percent' \in 0..100
    BY <1>1 DEF OneMark, Marking
<1>3. CountedTo(MinModemTotal(now), now)
    BY <1>1 DEF Counted
<1>4. sampleTotal' <= total' /\ total' - sampleTotal' <= now - sampleAt'
    <2>1. CASE sampleAt' = now /\ sampleTotal' = total'
        BY <2>1 DEF MetricType
    <2>2. CASE UNCHANGED <<sampleAt, sampleTotal>>
        BY <1>3, <2>2 DEF CountedTo
    <2> QED
        BY <2>1, <2>2
<1>5. \A u \in Tasks : step'[u] = "mark" => u = t
    BY <1>1 DEF Marking
<1>6. Marking' /\ sampleNow' = 0
    BY <1>1 DEF Marking
<1> QED
    BY <1>2, <1>4, <1>5, <1>6 DEF Counted, CountedTo

LEMMA NoteModeShare ==
    ASSUME ShareState, NEW t \in Tasks, NoteMode(t)
    PROVE  ShareInv'
<1> SUFFICES ASSUME ~blurred'
             PROVE  OneMark' /\ Counted' /\ percent' \in 0..100
    BY DEF ShareInv
<1> USE DEF ShareState, TypeInv, TypeOK
<1>1. /\ step[t] = "mark" /\ Return(t)
      /\ lastChange' = noteAt[t]
      /\ UNCHANGED <<total, sampleAt, sampleTotal, percent, sampleNow, now, blurred>>
    BY DEF NoteMode
<1>2. /\ OneMark /\ Counted /\ percent \in 0..100 /\ Marking
    BY <1>1 DEF ShareInv, Marking
<1>3. \A u \in Tasks : step'[u] # "mark"
    BY <1>1, <1>2, ReturnMoves DEF OneMark
<1>4. sampleNow = 0 /\ sampleTotal <= total /\ total - sampleTotal <= noteAt[t] - sampleAt
    BY <1>1, <1>2 DEF Counted, CountedTo
<1>5. noteAt[t] \in Nat /\ now \in Nat /\ noteAt[t] <= now
    BY DEF MetricType, ReadBefore
<1>6. MinModemTotal(now)' \in {total, total + (now - noteAt[t])}
    BY <1>1 DEF MinModemTotal
<1>7. CountedTo(MinModemTotal(now), now)'
    <2>1. sampleTotal <= MinModemTotal(now)'
        BY <1>4, <1>5, <1>6 DEF MetricType
    <2>2. MinModemTotal(now)' - sampleTotal <= now - sampleAt
        BY <1>4, <1>5, <1>6 DEF MetricType
    <2> QED
        BY <1>1, <2>1, <2>2 DEF CountedTo
<1> QED
    BY <1>1, <1>2, <1>3, <1>4, <1>7 DEF OneMark, Counted, Marking

LEMMA BeginShare ==
    ASSUME ShareState, BeginSample
    PROVE  ShareInv'
<1> SUFFICES ASSUME ~blurred'
             PROVE  OneMark' /\ Counted' /\ percent' \in 0..100
    BY DEF ShareInv
<1> USE DEF ShareState, TypeInv, TypeOK
<1>1. ~blurred /\ ~Marking
    BY Zenon DEF BeginSample, Marking
<1>2. /\ sampleNow' = now
      /\ UNCHANGED <<current, lastChange, total, sampleAt, sampleTotal, percent, noteAt,
                     now, step>>
    BY DEF BeginSample, metric, calls
<1>3. Counted /\ OneMark /\ percent \in 0..100
    BY <1>1 DEF ShareInv
<1>4. CountedTo(MinModemTotal(now), now)
    BY <1>1, <1>3 DEF Counted
<1>5. Counted'
    BY <1>1, <1>2, <1>3, <1>4 DEF Counted, CountedTo, Marking, MinModemTotal, ReadBefore
<1> QED
    BY <1>2, <1>3, <1>5 DEF OneMark

LEMMA EndShare ==
    ASSUME ShareState, EndSample
    PROVE  ShareInv'
<1> SUFFICES ASSUME ~blurred'
             PROVE  OneMark' /\ Counted' /\ percent' \in 0..100
    BY DEF ShareInv
<1> USE DEF ShareState, TypeInv, TypeOK
<1> DEFINE M == MinModemTotal(sampleNow)
<1>1. /\ sampleNow # 0 /\ sampleNow' = 0
      /\ UNCHANGED <<current, lastChange, total, noteAt, now, blurred, step>>
    BY DEF EndSample, calls, history
<1>2. Counted /\ OneMark /\ percent \in 0..100
    BY <1>1 DEF ShareInv
<1>3. /\ ~Marking /\ lastChange <= sampleNow
      /\ sampleTotal <= M /\ M - sampleTotal <= sampleNow - sampleAt
    BY <1>1, <1>2 DEF Counted, CountedTo
<1>4. M \in Nat
    BY <1>3, TotalType DEF MetricType
<1>5. CASE sampleNow > sampleAt
    <2>1. sampleAt' = sampleNow /\ sampleTotal' = M
        BY <1>5, Zenon DEF EndSample
    <2>2. percent' \in 0..100
        <3>1. CASE sampleAt = 0 \/ sampleNow <= sampleAt
            BY <1>2, <3>1 DEF EndSample
        <3>2. CASE ~(sampleAt = 0 \/ sampleNow <= sampleAt)
            <4> DEFINE a == M - sampleTotal
                       b == sampleNow - sampleAt
            <4>1. a \in Int /\ b \in Nat \ {0} /\ 0 <= a /\ a <= b
                BY <1>3, <1>4, <1>5 DEF MetricType
            <4>2. percent' = (a * 100) \div b
                BY <3>2, Zenon DEF EndSample
            <4> HIDE DEF a, b
            <4> QED
                BY <4>1, <4>2, PercentRange
        <3> QED
            BY <3>1, <3>2
    <2>3. sampleTotal' <= MinModemTotal(now)'
          /\ MinModemTotal(now)' - sampleTotal' <= now - sampleAt'
        BY <1>1, <1>3, <2>1 DEF MinModemTotal, MetricType, ReadBefore
    <2> QED
        BY <1>1, <1>2, <1>3, <2>2, <2>3 DEF OneMark, Counted, CountedTo, Marking
<1>6. CASE ~(sampleNow > sampleAt)
    <2>1. UNCHANGED <<sampleAt, sampleTotal, percent>>
        BY <1>6 DEF EndSample, MetricType
    <2> QED
        BY <1>1, <1>2, <1>3, <2>1 DEF OneMark, Counted, CountedTo, Marking, MinModemTotal
<1> QED
    BY <1>5, <1>6

LEMMA TickShare ==
    ASSUME ShareState, Tick
    PROVE  ShareInv'
<1> SUFFICES ASSUME ~blurred'
             PROVE  OneMark' /\ Counted' /\ percent' \in 0..100
    BY DEF ShareInv
<1> USE DEF ShareState, TypeInv, TypeOK
<1>1. now' = now + 1
      /\ UNCHANGED <<current, lastChange, total, sampleAt, sampleTotal, percent, noteAt,
                     sampleNow, blurred, step>>
    BY DEF Tick, calls, metric, reading, history
<1>2. Counted /\ OneMark /\ percent \in 0..100
    BY <1>1 DEF ShareInv
<1>3. ASSUME ~Marking
      PROVE  CountedTo(MinModemTotal(now), now)'
    <2>1. sampleTotal <= MinModemTotal(now) /\ MinModemTotal(now) - sampleTotal <= now - sampleAt
        BY <1>2, <1>3 DEF Counted, CountedTo
    <2>2. MinModemTotal(now)' \in {MinModemTotal(now), MinModemTotal(now) + 1}
        BY <1>1 DEF MinModemTotal, MetricType
    <2>3. MinModemTotal(now) \in Nat
        BY TotalType DEF MetricType, ReadBefore
    <2>4. sampleTotal <= MinModemTotal(now)'
          /\ MinModemTotal(now)' - sampleTotal <= now + 1 - sampleAt
        BY <2>1, <2>2, <2>3 DEF MetricType
    <2>5. now \in Nat /\ sampleAt \in Nat /\ sampleTotal \in Int
          /\ (MinModemTotal(now))' \in Nat
        BY <2>2, <2>3 DEF MetricType
    <2>6. now' = now + 1 /\ sampleTotal' = sampleTotal /\ sampleAt' = sampleAt
        BY <1>1
    <2> QED
        BY ONLY <2>4, <2>5, <2>6 DEF CountedTo
<1> QED
    BY <1>1, <1>2, <1>3 DEF OneMark, Counted, CountedTo, Marking, MinModemTotal

LEMMA ShareStep == ShareState /\ [Next]_vars => ShareInv'
<1> SUFFICES ASSUME ShareState, [Next]_vars PROVE ShareInv'
    OBVIOUS
<1>1. CASE UNCHANGED vars
    BY <1>1, CountedKept DEF ShareState, vars, calls, metric, reading, history
<1> QED
    BY <1>1, CallShare, FailShare, NoteTotalShare, NoteModeShare, BeginShare, EndShare,
       TickShare DEF Next

-----------------------------------------------------------------------------
(* The theorems.                                                           *)

(* Every variable of WifiPower keeps its type, for any set of tasks.       *)
THEOREM WifiPowerTypes == Spec => []TypeOK
<1>1. CallInv => TypeOK
    BY DEF CallInv, TypeInv
<1> QED
    BY <1>1, CallInvariant, PTL

(* However calls overlap: the mode of the task that changed a hold last is *)
(* the one all holds ask for, the driver and the metric keep it until a    *)
(* hold changes or an older change comes after it, and it is never         *)
(* forgotten on its way, for any number of tasks.                          *)
THEOREM AwakeExactlyWhileHeld == Spec => []AwakeWhileHeld
<1>1. CallInv => AwakeWhileHeld
    BY DEF CallInv, Settled, OnItsWay, Wanted, Quiet, Idle, AwakeWhileHeld
<1> QED
    BY <1>1, CallInvariant, PTL

(* Without overlapping notes and samples the share never leaves 0..100, so *)
(* the clamp of the code has nothing to do, for any number of tasks and    *)
(* any length of time.                                                     *)
THEOREM ShareStaysPercentage == Spec => []ShareIsPercentage
<1>1. Init => ShareInv
    BY DEF Init, ShareInv, OneMark, Counted, CountedTo, Marking, MinModemTotal
<1>2. ShareState /\ [Next]_vars => ShareState'
    BY TypeStep, ShareStep DEF ShareState
<1>3. ShareState => ShareIsPercentage
    BY DEF ShareState, ShareInv, ShareIsPercentage
<1> QED
    BY <1>1, <1>2, <1>3, InitTypeInv, PTL DEF Spec, ShareState
=============================================================================
