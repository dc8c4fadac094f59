----------------------------- MODULE BlinkProofs -----------------------------
(***************************************************************************)
(* Blink: what the outputs show, however calls and polls overlap, for any  *)
(* number of callers and any list of outputs.                              *)
(***************************************************************************)
EXTENDS Blink, TLAPS

-----------------------------------------------------------------------------
(* The patterns.                                                           *)

Times(p, r) == get_blink_pattern(p)[r + 1].times

LEMMA PatternIs ==
    ASSUME NEW p \in 0..4
    PROVE  /\ p = NoError => get_blink_pattern(p) = <<LongSlow>>
           /\ p # NoError => get_blink_pattern(p) = <<Pause, Fast(p + 1)>>
BY DEF get_blink_pattern

LEMMA PatternEnds ==
    ASSUME NEW p \in 0..4, NEW r \in 0..2
    PROVE  IsEnd(p, r) <=> r = 2 \/ (p = NoError /\ r # 0)
<1>1. CASE p = NoError
    <2>1. Len(get_blink_pattern(p)) = 1
        BY <1>1, PatternIs
    <2> QED
        BY <1>1, <2>1 DEF IsEnd
<1>2. CASE p # NoError
    <2>1. Len(get_blink_pattern(p)) = 2
        BY <1>2, PatternIs
    <2> QED
        BY <1>2, <2>1 DEF IsEnd
<1> QED
    BY <1>1, <1>2

LEMMA Repeats ==
    /\ Pause.actions = <<FALSE>> /\ Pause.times = 1
    /\ LongSlow.actions = <<TRUE, FALSE>> /\ LongSlow.times = 1
BY DEF Pause, LongSlow

(* Every repeat but the pause lights the output and darkens it; only the   *)
(* flashes of an error are played more than once.                          *)
LEMMA PatternShape ==
    ASSUME NEW p \in 0..4, NEW r \in 0..2, ~IsEnd(p, r)
    PROVE  \/ p # NoError /\ r = 0 /\ Actions(p, r) = <<FALSE>> /\ Times(p, r) = 1
           \/ p = NoError /\ r = 0 /\ Actions(p, r) = <<TRUE, FALSE>> /\ Times(p, r) = 1
           \/ p # NoError /\ r = 1 /\ Actions(p, r) = <<TRUE, FALSE>> /\ Times(p, r) = p + 1
<1>1. CASE p = NoError
    <2>1. r = 0
        BY <1>1, PatternEnds
    <2>2. get_blink_pattern(p)[r + 1] = LongSlow
        BY <1>1, <2>1, PatternIs
    <2>3. Actions(p, r) = <<TRUE, FALSE>> /\ Times(p, r) = 1
        BY <2>2, Repeats DEF Actions, Times
    <2> QED
        BY <1>1, <2>1, <2>3, Zenon
<1>2. CASE p # NoError /\ r = 0
    <2>1. get_blink_pattern(p)[r + 1] = Pause
        BY <1>2, PatternIs
    <2>2. Actions(p, r) = <<FALSE>> /\ Times(p, r) = 1
        BY <2>1, Repeats DEF Actions, Times
    <2> QED
        BY <1>2, <2>2, Zenon
<1>3. CASE p # NoError /\ r = 1
    <2>1. get_blink_pattern(p)[r + 1] = Fast(p + 1)
        BY <1>3, PatternIs
    <2>2. /\ Fast(p + 1).actions = <<TRUE, FALSE>>
          /\ Fast(p + 1).times = p + 1
        BY DEF Fast
    <2>3. Actions(p, r) = <<TRUE, FALSE>> /\ Times(p, r) = p + 1
        BY <2>1, <2>2, Zenon DEF Actions, Times
    <2> QED
        BY <1>3, <2>3, Zenon
<1>4. p = NoError \/ (p # NoError /\ r = 0) \/ (p # NoError /\ r = 1)
    BY PatternEnds
<1> QED
    BY <1>1, <1>2, <1>3, <1>4

(* The same in numbers.                                                    *)
LEMMA PatternNumbers ==
    ASSUME NEW p \in 0..4, NEW r \in 0..2, ~IsEnd(p, r)
    PROVE  /\ Len(Actions(p, r)) = IF p # NoError /\ r = 0 THEN 1 ELSE 2
           /\ Times(p, r) = IF r = 0 THEN 1 ELSE p + 1
<1>1. Len(<<FALSE>>) = 1 /\ Len(<<TRUE, FALSE>>) = 2
    OBVIOUS
<1>2. CASE p # NoError /\ r = 0
    <2>1. r # 1
        BY <1>2
    <2>2. Len(Actions(p, r)) = 1 /\ Times(p, r) = 1
        BY <1>1, <1>2, <2>1, PatternShape, Zenon
    <2> QED
        BY <1>2, <2>2
<1>3. CASE ~(p # NoError /\ r = 0)
    <2>1. Len(Actions(p, r)) = 2
        BY <1>1, <1>3, PatternShape, Zenon
    <2>2. Times(p, r) = IF r = 0 THEN 1 ELSE p + 1
        BY <1>3, PatternShape
    <2> QED
        BY <1>3, <2>1, <2>2
<1> QED
    BY <1>2, <1>3

-----------------------------------------------------------------------------
(* The inductive invariant.                                                *)

(* An output without an action is about to fall asleep; the repeat the     *)
(* capture task has loaded is one of its pattern.                          *)
PollInv ==
    /\ poll.null => poll.at = "apply"
    /\ poll.at = "advance" => ~IsEnd(poll.ptr[1], poll.ptr[2])

(* A caller that no later change has overtaken: no active priority is      *)
(* below the one it looks at, then it knows the lowest.                    *)
NewestKnows ==
    \A c \in Callers : ~overtaken[c] =>
        /\ step[c] = "scan" => scan[c] \in Priorities /\ \A p \in active : scan[c] <= p
        /\ step[c] \in {"pattern", "indices", "callback"} => scan[c] = Lowest

NewestShows == \A o \in Names : shown[o] = "newest" => pattern[o] = Lowest

(* An output that still waits lies ahead of such a caller.                 *)
Ahead(c, o) ==
    \/ step[c] = "scan"
    \/ step[c] = "pattern" /\ \E i \in 1..Len(Outputs) : i >= target[c] /\ Outputs[i] = o
    \/ /\ step[c] \in {"indices", "callback"}
       /\ \E i \in 1..Len(Outputs) : i > target[c] /\ Outputs[i] = o

OnItsWay ==
    \A o \in Names : shown[o] = "waiting" =>
        \E c \in Callers : ~overtaken[c] /\ Ahead(c, o)

CallInv ==
    /\ \A c \in Callers : step[c] = "scan" => target[c] = 1
    /\ NewestKnows /\ NewestShows /\ OnItsWay

(* An output that is not torn: the walk through its pattern is in step     *)
(* with what was shown of it.                                              *)
WasRead(o) == poll.out = o /\ poll.at \in {"load", "advance"}

InWalk(o) ==
    /\ ~IsEnd(pattern[o], repeat[o])
    /\ action[o] < Len(Actions(pattern[o], repeat[o]))
    /\ count[o] < Times(pattern[o], repeat[o])

Counted(o) ==
    pattern[o] # NoError =>
        IF repeat[o] = 0
        THEN flashes[o] \in IF WasRead(o) THEN {0} ELSE {0, pattern[o] + 1}
        ELSE flashes[o] = IF WasRead(o) \/ action[o] = 1 THEN count[o] + 1 ELSE count[o]

InStep(o) ==
    Polled(o) => /\ ~poll.null
                 /\ poll.at = "advance" => poll.ptr = <<pattern[o], repeat[o]>>

Walks(o) == InWalk(o) /\ Counted(o) /\ InStep(o) /\ (asleep[o] => Resetting(o))

WalkInv == \A o \in Names : ~torn[o] => Walks(o)

IInv == TypeOK /\ PollInv /\ CallInv /\ WalkInv

-----------------------------------------------------------------------------
(* Typing.                                                                 *)

LEMMA OutputsType ==
    /\ Len(Outputs) \in Nat \ {0}
    /\ Outputs[1] \in Names
    /\ \A i \in 1..Len(Outputs) : Outputs[i] \in Names
BY OutputsAssumption DEF Names

LEMMA OutType ==
    ASSUME TypeOK, NEW c \in Callers
    PROVE  Out(c) \in Names
BY OutputsType DEF TypeOK, Out

LEMMA NoPollType ==
    NoPoll \in [at : {"idle", "read", "load", "advance", "apply"}, out : Names,
                null : BOOLEAN, ptr : (0..4) \X (0..2)]
<1>1. <<0, 0>> \in (0..4) \X (0..2)
    OBVIOUS
<1> QED
    BY <1>1, OutputsType DEF NoPoll

(* The lowest active priority is the one no other is below.                *)
LEMMA LowestIs ==
    ASSUME active \subseteq Priorities, NEW x \in active, \A q \in active : x <= q
    PROVE  Lowest = x
<1>1. PICK y \in active : y = Lowest /\ \A q \in active : y <= q
    BY DEF Lowest
<1> QED
    BY <1>1 DEF Priorities

(* Where a call leaves an output, the walk starts.                         *)
AtStart(o) == repeat[o] = 0 /\ action[o] = 0 /\ count[o] = 0 /\ flashes[o] = 0

LEMMA StartsWalk ==
    ASSUME NEW p \in 0..4
    PROVE  ~IsEnd(p, 0) /\ 0 < Len(Actions(p, 0)) /\ 0 < Times(p, 0)
<1>1. ~IsEnd(p, 0)
    BY PatternEnds
<1>2. 0 \in 0..2
    OBVIOUS
<1>3. Len(Actions(p, 0)) \in {1, 2} /\ Times(p, 0) = 1
    BY <1>1, <1>2, PatternNumbers
<1> QED
    BY <1>1, <1>3

LEMMA InitIInv == Init => IInv
<1> SUFFICES ASSUME Init PROVE IInv
    OBVIOUS
<1> USE DEF Init
<1>1. TypeOK
    <2>1. active \subseteq Priorities
        BY DEF Priorities
    <2>2. target \in [Callers -> 1..Len(Outputs)]
        BY OutputsType
    <2>3. action \in [Names -> 0..MaxIndex]
        BY IndexAssumption
    <2>4. shown \in [Names -> Outcomes]
        BY DEF Outcomes
    <2> QED
        BY <2>1, <2>2, <2>3, <2>4, NoPollType DEF TypeOK, NoError
<1>2. PollInv
    BY DEF PollInv, NoPoll
<1>3. CallInv
    BY DEF CallInv, NewestKnows, NewestShows, OnItsWay
<1>4. WalkInv
    <2> SUFFICES ASSUME NEW o \in Names PROVE Walks(o)
        BY DEF WalkInv
    <2>1. pattern[o] \in 0..4 /\ ~asleep[o] /\ poll.at = "idle"
        BY <1>1 DEF TypeOK, NoPoll
    <2>2. AtStart(o)
        BY DEF AtStart
    <2> QED
        BY <2>1, <2>2, StartsWalk DEF AtStart, Walks, InWalk, Counted, InStep, Polled, WasRead
<1> QED
    BY <1>1, <1>2, <1>3, <1>4 DEF IInv

-----------------------------------------------------------------------------
(* The steps of a caller.                                                  *)

LEMMA LowestStays == UNCHANGED active => Lowest' = Lowest
BY DEF Lowest

(* What a step of a caller leaves alone of an output keeps its walk; an    *)
(* output that sleeps is still about to be reset, or is awake.             *)
LEMMA SameWalk ==
    ASSUME NEW o \in Names, Walks(o), poll' = poll,
           pattern'[o] = pattern[o], repeat'[o] = repeat[o], action'[o] = action[o],
           count'[o] = count[o], flashes'[o] = flashes[o],
           asleep'[o] => asleep[o] /\ (Resetting(o) => Resetting(o)')
    PROVE  Walks(o)'
<1>1. InWalk(o)' /\ Counted(o)' /\ InStep(o)'
    BY DEF Walks, InWalk, Counted, InStep, IsEnd, Actions, Times, WasRead, Polled
<1> QED
    BY <1>1 DEF Walks

(* A caller on its way to an output resets it whatever the others do.      *)
LEMMA ResettingStays ==
    ASSUME TypeOK, NEW o \in Names, NEW c \in Callers,
           step[c] # "callback" \/ Out(c) # o,
           \A d \in Callers \ {c} : step'[d] = step[d] /\ target'[d] = target[d],
           Resetting(o)
    PROVE  Resetting(o)'
BY DEF Resetting, Out

LEMMA StoreErrorKeeps ==
    ASSUME IInv, NEW c \in Callers, NEW p \in Priorities, NEW isActive \in BOOLEAN,
           StoreError(c, p, isActive)
    PROVE  IInv'
<1> USE DEF IInv
<1>1. /\ step[c] = "idle" /\ step' = [step EXCEPT ![c] = "scan"]
      /\ active' = IF isActive THEN active \cup {p} ELSE active \ {p}
      /\ scan' = [scan EXCEPT ![c] = 1] /\ target' = [target EXCEPT ![c] = 1]
      /\ overtaken' = [d \in Callers |-> d # c /\ step[d] # "idle"]
      /\ shown' = [o \in Names |-> "waiting"]
    BY DEF StoreError, Goto
<1>2. UNCHANGED <<pattern, repeat, action, count, asleep, poll, flashes, torn>>
    BY DEF StoreError, handler
<1>3. step' \in [Callers -> {"idle", "scan", "pattern", "indices", "callback"}]
    BY <1>1 DEF TypeOK
<1>4. TypeOK'
    <2>1. active' \subseteq Priorities
        BY <1>1 DEF TypeOK
    <2>2. scan' \in [Callers -> 0..4] /\ target' \in [Callers -> 1..Len(Outputs)]
        BY <1>1, OutputsType DEF TypeOK
    <2>3. overtaken' \in [Callers -> BOOLEAN]
        BY <1>1, Zenon
    <2>4. shown' \in [Names -> Outcomes]
        BY <1>1 DEF Outcomes
    <2> QED
        BY <1>2, <1>3, <2>1, <2>2, <2>3, <2>4 DEF TypeOK
<1>5. PollInv'
    BY <1>2 DEF PollInv, IsEnd
<1>6. /\ step'[c] = "scan" /\ scan'[c] = 1 /\ target'[c] = 1
      /\ \A d \in Callers \ {c} : step'[d] = step[d] /\ target'[d] = target[d]
    BY <1>1 DEF TypeOK
<1>7. /\ ~overtaken'[c]
      /\ \A d \in Callers \ {c} : ~overtaken'[d] => step[d] = "idle"
    BY <1>1, Zenon
<1>8. CallInv'
    <2>1. \A d \in Callers : step'[d] = "scan" => target'[d] = 1
        BY <1>6 DEF CallInv
    <2>2. NewestKnows'
        <3>1. 1 \in Priorities /\ \A q \in active' : 1 <= q
            BY <1>4 DEF TypeOK, Priorities
        <3> QED
            BY <1>6, <1>7, <3>1 DEF NewestKnows
    <2>3. NewestShows'
        BY <1>1 DEF NewestShows
    <2>4. OnItsWay'
        BY <1>6, <1>7 DEF OnItsWay, Ahead
    <2> QED
        BY <2>1, <2>2, <2>3, <2>4 DEF CallInv
<1>9. WalkInv'
    <2> SUFFICES ASSUME NEW o \in Names, ~torn'[o] PROVE Walks(o)'
        BY DEF WalkInv
    <2>1. Walks(o)
        BY <1>2 DEF WalkInv
    <2>2. Resetting(o) => Resetting(o)'
        BY <1>1, <1>6, ResettingStays
    <2> QED
        BY <1>2, <2>1, <2>2, SameWalk
<1> QED
    BY <1>4, <1>5, <1>8, <1>9

LEMMA ScanErrorKeeps ==
    ASSUME IInv, NEW c \in Callers, ScanError(c)
    PROVE  IInv'
<1> USE DEF IInv
<1>1. UNCHANGED <<active, target, pattern, repeat, action, count, asleep, poll,
                  flashes, overtaken, shown, torn>>
    BY DEF ScanError, handler, history
<1>2. step[c] = "scan"
    BY DEF ScanError
<1>3. \/ scan[c] \in active /\ step' = [step EXCEPT ![c] = "pattern"] /\ scan' = scan
      \/ /\ scan[c] \notin active /\ scan[c] < 4 /\ step' = step
         /\ scan' = [scan EXCEPT ![c] = scan[c] + 1]
      \/ /\ scan[c] \notin active /\ ~(scan[c] < 4) /\ step' = [step EXCEPT ![c] = "pattern"]
         /\ scan' = [scan EXCEPT ![c] = NoError]
    BY DEF ScanError, Goto
<1>4. /\ step' \in [Callers -> {"idle", "scan", "pattern", "indices", "callback"}]
      /\ step'[c] \in {"scan", "pattern"} /\ \A d \in Callers \ {c} : step'[d] = step[d]
    BY <1>2, <1>3 DEF TypeOK
<1>5. TypeOK'
    <2>1. scan' \in [Callers -> 0..4]
        <3>1. scan[c] \in 0..4 /\ (scan[c] < 4 => scan[c] + 1 \in 0..4) /\ NoError \in 0..4
            BY DEF TypeOK, NoError
        <3>2. \E s \in 0..4 : scan' = [scan EXCEPT ![c] = s]
            <4>1. scan' = scan => scan' = [scan EXCEPT ![c] = scan[c]]
                BY DEF TypeOK
            <4> QED
                BY <1>3, <3>1, <4>1, Zenon
        <3> QED
            BY <3>2 DEF TypeOK
    <2> QED
        BY <1>1, <1>4, <2>1 DEF TypeOK
<1>6. \A d \in Callers \ {c} : scan'[d] = scan[d]
    BY <1>3 DEF TypeOK
<1>7. ASSUME ~overtaken[c]
      PROVE  /\ step'[c] = "scan" => scan'[c] \in Priorities /\ \A p \in active : scan'[c] <= p
             /\ step'[c] = "pattern" => scan'[c] = Lowest
    <2>1. /\ scan[c] \in Priorities /\ active \subseteq Priorities
          /\ \A q \in active : scan[c] <= q
        BY <1>2, <1>7 DEF CallInv, NewestKnows, TypeOK
    <2>2. CASE scan[c] \in active
        <3>1. scan[c] = Lowest
            BY <2>1, <2>2, LowestIs
        <3>2. step'[c] = "pattern" /\ scan'[c] = Lowest
            BY <1>3, <2>2, <3>1 DEF TypeOK
        <3> QED
            BY <3>2
    <2>3. CASE scan[c] \notin active /\ scan[c] < 4
        <3>1. step'[c] = "scan" /\ scan'[c] = scan[c] + 1
            BY <1>2, <1>3, <2>3 DEF TypeOK
        <3>2. scan[c] + 1 \in Priorities /\ \A q \in active : scan[c] + 1 <= q
            <4>1. \A q \in active : q \in Nat /\ q # scan[c] /\ scan[c] <= q
                BY <2>1, <2>3 DEF Priorities
            <4>2. scan[c] \in 1..4 /\ scan[c] < 4
                BY <2>1, <2>3 DEF Priorities
            <4> QED
                BY ONLY <4>1, <4>2 DEF Priorities
        <3> QED
            BY <3>1, <3>2
    <2>4. CASE scan[c] \notin active /\ ~(scan[c] < 4)
        <3>1. active = {}
            BY <2>1, <2>4 DEF Priorities
        <3>2. Lowest = NoError
            BY <3>1 DEF Lowest
        <3>3. step'[c] = "pattern" /\ scan'[c] = NoError
            BY <1>3, <2>4 DEF TypeOK
        <3> QED
            BY <3>2, <3>3
    <2> QED
        BY <2>2, <2>3, <2>4
<1>8. CallInv'
    <2>1. target'[c] = 1 /\ \A d \in Callers : step'[d] = "scan" => target'[d] = 1
        BY <1>1, <1>2, <1>4 DEF CallInv
    <2>2. NewestKnows'
        <3> SUFFICES ASSUME NEW d \in Callers, ~overtaken[d]
                     PROVE  /\ step'[d] = "scan" =>
                                scan'[d] \in Priorities /\ \A p \in active : scan'[d] <= p
                            /\ step'[d] \in {"pattern", "indices", "callback"} =>
                                scan'[d] = Lowest
            BY <1>1, LowestStays DEF NewestKnows
        <3>1. CASE d = c
            BY <1>4, <1>7, <3>1
        <3>2. CASE d # c
            BY <1>4, <1>6, <3>2 DEF CallInv, NewestKnows
        <3> QED
            BY <3>1, <3>2
    <2>3. NewestShows'
        BY <1>1, LowestStays DEF CallInv, NewestShows
    <2>4. OnItsWay'
        <3> SUFFICES ASSUME NEW o \in Names, NEW d \in Callers, Ahead(d, o) PROVE Ahead(d, o)'
            BY <1>1 DEF CallInv, OnItsWay
        <3>1. CASE d = c
            <4>1. \E i \in 1..Len(Outputs) : i >= 1 /\ Outputs[i] = o
                BY DEF Names
            <4> QED
                BY <1>4, <2>1, <3>1, <4>1 DEF Ahead
        <3>2. CASE d # c
            BY <1>1, <1>4, <3>2 DEF Ahead
        <3> QED
            BY <3>1, <3>2
    <2> QED
        BY <2>1, <2>2, <2>3, <2>4 DEF CallInv
<1>9. WalkInv'
    <2> SUFFICES ASSUME NEW o \in Names, ~torn'[o] PROVE Walks(o)'
        BY DEF WalkInv
    <2>1. Walks(o)
        BY <1>1 DEF WalkInv
    <2>2. Resetting(o) => Resetting(o)'
        BY <1>1, <1>2, <1>4, ResettingStays
    <2> QED
        BY <1>1, <2>1, <2>2, SameWalk
<1>10. PollInv'
    BY <1>1 DEF PollInv, IsEnd
<1> QED
    BY <1>5, <1>8, <1>9, <1>10

LEMMA StorePatternKeeps ==
    ASSUME IInv, NEW c \in Callers, StorePattern(c)
    PROVE  IInv'
<1> USE DEF IInv
<1>1. UNCHANGED <<active, scan, target, repeat, action, count, asleep, poll,
                  flashes, overtaken>>
    BY DEF StorePattern
<1> DEFINE effect == IF ~overtaken[c] THEN "newest"
                     ELSE IF shown[Out(c)] = "newest" THEN "older" ELSE shown[Out(c)]
<1>2. /\ step[c] = "pattern" /\ step' = [step EXCEPT ![c] = "indices"]
      /\ pattern' = [pattern EXCEPT ![Out(c)] = scan[c]]
      /\ shown' = [shown EXCEPT ![Out(c)] = effect]
      /\ torn' = [torn EXCEPT ![Out(c)] = TRUE]
    BY DEF StorePattern, Goto
<1>3. Out(c) \in Names
    BY OutType
<1>4. /\ effect \in Outcomes
      /\ effect = "newest" => ~overtaken[c]
      /\ effect = "waiting" => overtaken[c] /\ shown[Out(c)] = "waiting"
    BY <1>3 DEF TypeOK, Outcomes
<1> HIDE DEF effect
<1>5. TypeOK'
    <2>1. pattern' \in [Names -> 0..4]
        BY <1>2, <1>3 DEF TypeOK
    <2>2. shown' \in [Names -> Outcomes] /\ torn' \in [Names -> BOOLEAN]
        BY <1>2, <1>3, <1>4 DEF TypeOK
    <2>3. step' \in [Callers -> {"idle", "scan", "pattern", "indices", "callback"}]
        BY <1>2 DEF TypeOK
    <2> QED
        BY <1>1, <2>1, <2>2, <2>3 DEF TypeOK
<1>6. /\ step'[c] = "indices" /\ \A d \in Callers \ {c} : step'[d] = step[d]
      /\ pattern'[Out(c)] = scan[c] /\ shown'[Out(c)] = effect /\ torn'[Out(c)]
      /\ \A o \in Names : o # Out(c) => /\ pattern'[o] = pattern[o] /\ shown'[o] = shown[o]
                                        /\ torn'[o] = torn[o]
    BY <1>2, <1>3 DEF TypeOK
<1>7. CallInv'
    <2>1. \A d \in Callers : step'[d] = "scan" => target'[d] = 1
        BY <1>1, <1>6 DEF CallInv
    <2>2. NewestKnows'
        BY <1>1, <1>2, <1>6, LowestStays DEF CallInv, NewestKnows
    <2>3. NewestShows'
        <3> SUFFICES ASSUME NEW o \in Names, shown'[o] = "newest" PROVE pattern'[o] = Lowest
            BY <1>1, LowestStays DEF NewestShows
        <3>1. CASE o = Out(c)
            BY <1>2, <1>4, <1>6, <3>1 DEF CallInv, NewestKnows
        <3>2. CASE o # Out(c)
            BY <1>6, <3>2 DEF CallInv, NewestShows
        <3> QED
            BY <3>1, <3>2
    <2>4. OnItsWay'
        <3> SUFFICES ASSUME NEW o \in Names, shown'[o] = "waiting"
                     PROVE  \E d \in Callers : ~overtaken[d] /\ Ahead(d, o)'
            BY <1>1 DEF OnItsWay
        <3>1. shown[o] = "waiting" /\ (o = Out(c) => overtaken[c])
            BY <1>4, <1>6
        <3>2. PICK d \in Callers : ~overtaken[d] /\ Ahead(d, o)
            BY <3>1 DEF CallInv, OnItsWay
        <3>3. CASE d = c
            <4>1. PICK i \in 1..Len(Outputs) : i >= target[c] /\ Outputs[i] = o
                BY <1>2, <3>2, <3>3 DEF Ahead
            <4>2. i # target[c]
                BY <3>1, <3>2, <3>3, <4>1 DEF Out
            <4>3. i > target[c]
                BY <4>1, <4>2 DEF TypeOK
            <4>4. Ahead(c, o)'
                BY <1>1, <1>6, <4>1, <4>3 DEF Ahead
            <4> QED
                BY <3>2, <3>3, <4>4
        <3>4. CASE d # c
            <4>1. Ahead(d, o)'
                BY <1>1, <1>6, <3>2, <3>4 DEF Ahead
            <4> QED
                BY <3>2, <4>1
        <3> QED
            BY <3>3, <3>4
    <2> QED
        BY <2>1, <2>2, <2>3, <2>4 DEF CallInv
<1>8. WalkInv'
    <2> SUFFICES ASSUME NEW o \in Names, ~torn'[o] PROVE Walks(o)'
        BY DEF WalkInv
    <2>1. o # Out(c) /\ Walks(o)
        BY <1>6 DEF WalkInv
    <2>2. Resetting(o) => Resetting(o)'
        BY <1>1, <1>2, <1>6, ResettingStays
    <2> QED
        BY <1>1, <1>6, <2>1, <2>2, SameWalk
<1>9. PollInv'
    BY <1>1 DEF PollInv, IsEnd
<1> QED
    BY <1>5, <1>7, <1>8, <1>9

LEMMA ResetIndicesKeeps ==
    ASSUME IInv, NEW c \in Callers, ResetIndices(c)
    PROVE  IInv'
<1> USE DEF IInv
<1>1. UNCHANGED <<active, scan, target, pattern, asleep, poll, overtaken, shown>>
    BY DEF ResetIndices
<1>2. /\ step[c] = "indices" /\ step' = [step EXCEPT ![c] = "callback"]
      /\ repeat' = [repeat EXCEPT ![Out(c)] = 0]
      /\ action' = [action EXCEPT ![Out(c)] = 0]
      /\ count' = [count EXCEPT ![Out(c)] = 0]
      /\ flashes' = [flashes EXCEPT ![Out(c)] = 0]
      /\ torn' = [torn EXCEPT ![Out(c)] = Polled(Out(c))]
    BY DEF ResetIndices, Goto
<1>3. Out(c) \in Names /\ Out(c)' = Out(c) /\ Polled(Out(c)) \in BOOLEAN
    BY <1>1, OutType DEF Out, Polled
<1>4. TypeOK'
    <2>1. /\ repeat' \in [Names -> 0..1] /\ action' \in [Names -> 0..MaxIndex]
          /\ count' \in [Names -> 0..5] /\ flashes' \in [Names -> Nat]
        BY <1>2, <1>3, IndexAssumption DEF TypeOK
    <2>2. torn' \in [Names -> BOOLEAN]
        BY <1>2, <1>3 DEF TypeOK
    <2> QED
        BY <1>1, <1>2, <2>1, <2>2 DEF TypeOK
<1>5. /\ step'[c] = "callback" /\ \A d \in Callers \ {c} : step'[d] = step[d]
      /\ AtStart(Out(c))' /\ torn'[Out(c)] = Polled(Out(c))
      /\ \A o \in Names : o # Out(c) =>
            /\ repeat'[o] = repeat[o] /\ action'[o] = action[o] /\ count'[o] = count[o]
            /\ flashes'[o] = flashes[o] /\ torn'[o] = torn[o]
    BY <1>2, <1>3 DEF TypeOK, AtStart
<1>6. CallInv'
    <2>1. \A d \in Callers : step'[d] = "scan" => target'[d] = 1
        BY <1>1, <1>5 DEF CallInv
    <2>2. NewestKnows'
        BY <1>1, <1>2, <1>5, LowestStays DEF CallInv, NewestKnows
    <2>3. NewestShows'
        BY <1>1, LowestStays DEF CallInv, NewestShows
    <2>4. OnItsWay'
        <3> SUFFICES ASSUME NEW o \in Names, NEW d \in Callers, Ahead(d, o) PROVE Ahead(d, o)'
            BY <1>1 DEF CallInv, OnItsWay
        <3> QED
            BY <1>1, <1>2, <1>5 DEF Ahead
    <2> QED
        BY <2>1, <2>2, <2>3, <2>4 DEF CallInv
<1>7. WalkInv'
    <2> SUFFICES ASSUME NEW o \in Names, ~torn'[o] PROVE Walks(o)'
        BY DEF WalkInv
    <2>1. CASE o = Out(c)
        <3>1. ~Polled(o)' /\ ~WasRead(o)'
            <4>1. torn'[o] = Polled(o)
                BY <1>5, <2>1
            <4>2. ~Polled(o)
                BY <4>1, Zenon
            <4> QED
                BY <1>1, <4>2 DEF Polled, WasRead
        <3>2. AtStart(o)' /\ pattern'[o] \in 0..4
            BY <1>3, <1>4, <1>5, <2>1 DEF TypeOK, AtStart
        <3>3. Resetting(o)'
            <4>1. (step[c] = "callback")' /\ (Out(c) = o)'
                BY <1>3, <1>5, <2>1
            <4> QED
                BY <4>1 DEF Resetting
        <3> QED
            BY <3>1, <3>2, <3>3, StartsWalk DEF AtStart, Walks, InWalk, Counted, InStep
    <2>2. CASE o # Out(c)
        <3>1. Walks(o)
            BY <1>5, <2>2 DEF WalkInv
        <3>2. Resetting(o) => Resetting(o)'
            BY <1>1, <1>2, <1>5, ResettingStays
        <3> QED
            BY <1>1, <1>5, <2>2, <3>1, <3>2, SameWalk
    <2> QED
        BY <2>1, <2>2
<1>8. PollInv'
    BY <1>1 DEF PollInv, IsEnd
<1> QED
    BY <1>4, <1>6, <1>7, <1>8

LEMMA ResetPollKeeps ==
    ASSUME IInv, NEW c \in Callers, reset_blink_poll(c)
    PROVE  IInv'
<1> USE DEF IInv
<1>1. UNCHANGED <<active, pattern, repeat, action, count, poll, flashes, shown, torn>>
    BY DEF reset_blink_poll, handler
<1>2. step[c] = "callback" /\ asleep' = [asleep EXCEPT ![Out(c)] = FALSE]
    BY DEF reset_blink_poll
<1>3. Out(c) \in Names
    BY OutType
<1>4. /\ asleep' \in [Names -> BOOLEAN] /\ ~asleep'[Out(c)]
      /\ \A o \in Names : o # Out(c) => asleep'[o] = asleep[o]
    BY <1>2, <1>3 DEF TypeOK
<1>5. /\ TypeOK' /\ step'[c] \in {"idle", "pattern"}
      /\ \A d \in Callers \ {c} : /\ step'[d] = step[d] /\ target'[d] = target[d]
                                  /\ scan'[d] = scan[d] /\ overtaken'[d] = overtaken[d]
      /\ step'[c] = "pattern" => /\ scan'[c] = scan[c] /\ overtaken'[c] = overtaken[c]
                                 /\ target'[c] = target[c] + 1
      /\ step'[c] = "idle" => target[c] = Len(Outputs)
    <2>1. CASE target[c] < Len(Outputs)
        <3>1. /\ target' = [target EXCEPT ![c] = target[c] + 1]
              /\ step' = [step EXCEPT ![c] = "pattern"] /\ UNCHANGED <<scan, overtaken>>
            BY <2>1 DEF reset_blink_poll, Goto
        <3>2. target[c] + 1 \in 1..Len(Outputs)
            BY <2>1, OutputsType DEF TypeOK
        <3>3. TypeOK'
            BY <1>1, <1>4, <3>1, <3>2 DEF TypeOK
        <3> QED
            BY <3>1, <3>2, <3>3 DEF TypeOK
    <2>2. CASE ~(target[c] < Len(Outputs))
        <3>1. /\ step' = [step EXCEPT ![c] = "idle"]
              /\ scan' = [scan EXCEPT ![c] = NoError] /\ target' = [target EXCEPT ![c] = 1]
              /\ overtaken' = [overtaken EXCEPT ![c] = FALSE]
            BY <2>2 DEF reset_blink_poll, Goto
        <3>2. NoError \in 0..4 /\ 1 \in 1..Len(Outputs)
            BY OutputsType DEF NoError
        <3>3. TypeOK'
            BY <1>1, <1>4, <3>1, <3>2 DEF TypeOK
        <3>4. target[c] = Len(Outputs)
            BY <2>2, OutputsType DEF TypeOK
        <3> QED
            BY <3>1, <3>3, <3>4 DEF TypeOK
    <2> QED
        BY <2>1, <2>2
<1>6. CallInv'
    <2>1. \A d \in Callers : step'[d] = "scan" => target'[d] = 1
        BY <1>5 DEF CallInv
    <2>2. NewestKnows'
        BY <1>1, <1>2, <1>5, LowestStays DEF CallInv, NewestKnows
    <2>3. NewestShows'
        BY <1>1, LowestStays DEF CallInv, NewestShows
    <2>4. OnItsWay'
        <3> SUFFICES ASSUME NEW o \in Names, NEW d \in Callers, ~overtaken[d], Ahead(d, o)
                     PROVE  ~overtaken'[d] /\ Ahead(d, o)'
            BY <1>1 DEF CallInv, OnItsWay
        <3>1. CASE d = c
            <4>1. PICK i \in 1..Len(Outputs) : i > target[c] /\ Outputs[i] = o
                BY <1>2, <3>1 DEF Ahead
            <4>2. step'[c] = "pattern" /\ i >= target[c] + 1
                BY <1>5, <4>1 DEF TypeOK
            <4> QED
                BY <1>5, <3>1, <4>1, <4>2 DEF Ahead
        <3>2. CASE d # c
            BY <1>5, <3>2 DEF Ahead
        <3> QED
            BY <3>1, <3>2
    <2> QED
        BY <2>1, <2>2, <2>3, <2>4 DEF CallInv
<1>7. WalkInv'
    <2> SUFFICES ASSUME NEW o \in Names, ~torn'[o] PROVE Walks(o)'
        BY DEF WalkInv
    <2>1. Walks(o)
        BY <1>1 DEF WalkInv
    <2>2. o # Out(c) => (Resetting(o) => Resetting(o)')
        BY <1>5, ResettingStays
    <2>3. asleep'[o] => asleep[o] /\ (Resetting(o) => Resetting(o)')
        BY <1>4, <2>2
    <2> QED
        BY <1>1, <2>1, <2>3, SameWalk
<1>8. PollInv'
    BY <1>1 DEF PollInv, IsEnd
<1> QED
    BY <1>5, <1>6, <1>7, <1>8

-----------------------------------------------------------------------------
(* The steps of the capture task.                                          *)

(* The entry of a repeat the walk stands on.                               *)
LEMMA EntryIs ==
    ASSUME NEW p \in 0..4, NEW r \in 0..2, ~IsEnd(p, r), NEW a \in Nat, a < Len(Actions(p, r))
    PROVE  \/ p # NoError /\ r = 0 /\ a = 0 /\ Actions(p, r)[a + 1] = FALSE
           \/ (p = NoError \/ r = 1) /\ a = 0 /\ Actions(p, r)[a + 1] = TRUE
           \/ (p = NoError \/ r = 1) /\ a = 1 /\ Actions(p, r)[a + 1] = FALSE
<1>1. CASE p # NoError /\ r = 0
    <2>1. r # 1
        BY <1>1
    <2>2. Actions(p, r) = <<FALSE>>
        BY <1>1, <2>1, PatternShape, Zenon
    <2>3. a = 0
        <3>1. Len(Actions(p, r)) = 1
            BY <1>1, PatternNumbers
        <3> QED
            BY <3>1
    <2>4. Actions(p, r)[a + 1] = FALSE
        BY <2>2, <2>3
    <2> QED
        BY <1>1, <2>3, <2>4, Zenon
<1>2. CASE ~(p # NoError /\ r = 0)
    <2>1. Actions(p, r) = <<TRUE, FALSE>> /\ (p = NoError \/ r = 1)
        BY <1>2, PatternShape, Zenon
    <2>2. a = 0 \/ a = 1
        <3>1. Len(Actions(p, r)) = 2
            BY <1>2, PatternNumbers
        <3> QED
            BY <3>1
    <2>3. a = 0 => Actions(p, r)[a + 1] = TRUE
        BY <2>1
    <2>4. a = 1 => Actions(p, r)[a + 1] = FALSE
        BY <2>1
    <2> QED
        BY <2>1, <2>2, <2>3, <2>4, Zenon
<1> QED
    BY <1>1, <1>2

(* The calls do not depend on the walk.                                    *)
LEMMA PollLeavesCalls ==
    ASSUME CallInv, UNCHANGED <<active, step, scan, target, pattern, overtaken, shown>>
    PROVE  CallInv'
<1>1. \A c \in Callers : step'[c] = "scan" => target'[c] = 1
    BY DEF CallInv
<1>2. NewestKnows'
    BY LowestStays DEF CallInv, NewestKnows
<1>3. NewestShows'
    BY LowestStays DEF CallInv, NewestShows
<1>4. OnItsWay'
    BY DEF CallInv, OnItsWay, Ahead
<1> QED
    BY <1>1, <1>2, <1>3, <1>4 DEF CallInv

(* The outputs that are not polled are left alone.                         *)
LEMMA OtherWalk ==
    ASSUME NEW o \in Names, Walks(o), ~Polled(o), ~Polled(o)', UNCHANGED <<step, target>>,
           pattern'[o] = pattern[o], repeat'[o] = repeat[o], action'[o] = action[o],
           count'[o] = count[o], flashes'[o] = flashes[o], asleep'[o] = asleep[o]
    PROVE  Walks(o)'
<1>1. ~WasRead(o) /\ ~WasRead(o)'
    BY DEF Polled, WasRead
<1>2. InWalk(o)' /\ Counted(o)' /\ InStep(o)'
    BY <1>1 DEF Walks, InWalk, Counted, InStep, IsEnd, Actions, Times
<1>3. Resetting(o)' <=> Resetting(o)
    BY DEF Resetting, Out
<1> QED
    BY <1>2, <1>3 DEF Walks

LEMMA SleeperStays ==
    ASSUME NEW o \in Names, UNCHANGED <<step, target, asleep>>, asleep[o] => Resetting(o)
    PROVE  asleep'[o] => Resetting(o)'
BY DEF Resetting, Out

LEMMA StartPollKeeps ==
    ASSUME IInv, NEW o \in Names, StartPoll(o)
    PROVE  IInv'
<1> USE DEF IInv
<1>1. /\ poll.at = "idle" /\ poll' = [poll EXCEPT !.at = "read", !.out = o]
      /\ UNCHANGED <<active, step, scan, target, pattern, repeat, action, count,
                     asleep, flashes, overtaken, shown, torn>>
    BY DEF StartPoll, calls, handler, history
<1>2. poll'.at = "read" /\ poll'.out = o /\ poll'.null = poll.null /\ ~poll.null
    BY <1>1 DEF TypeOK, PollInv
<1>3. TypeOK'
    BY <1>1 DEF TypeOK
<1>4. PollInv'
    BY <1>1, <1>2 DEF PollInv
<1>5. CallInv'
    BY <1>1, PollLeavesCalls
<1>6. WalkInv'
    <2> SUFFICES ASSUME NEW n \in Names, ~torn'[n] PROVE Walks(n)'
        BY DEF WalkInv
    <2>1. Walks(n)
        BY <1>1 DEF WalkInv
    <2>2. CASE n = o
        <3>1. ~WasRead(n) /\ ~WasRead(n)'
            BY <1>1, <1>2 DEF WasRead
        <3>2. InWalk(n)' /\ Counted(n)'
            BY <1>1, <2>1, <3>1 DEF Walks, InWalk, Counted, IsEnd, Actions, Times
        <3>3. InStep(n)'
            BY <1>2 DEF InStep
        <3>4. asleep'[n] => Resetting(n)'
            BY <1>1, <2>1, SleeperStays DEF Walks
        <3> QED
            BY <3>2, <3>3, <3>4 DEF Walks
    <2>3. CASE n # o
        <3>1. ~Polled(n) /\ ~Polled(n)'
            BY <1>1, <1>2, <2>3 DEF Polled
        <3> QED
            BY <1>1, <2>1, <3>1, OtherWalk
    <2> QED
        BY <2>2, <2>3
<1> QED
    BY <1>3, <1>4, <1>5, <1>6

LEMMA ApplyKeeps ==
    ASSUME IInv, ApplyAction
    PROVE  IInv'
<1> USE DEF IInv
<1>1. /\ poll.at = "apply" /\ poll' = NoPoll
      /\ asleep' = [asleep EXCEPT ![poll.out] = poll.null]
      /\ UNCHANGED <<active, step, scan, target, pattern, repeat, action, count,
                     flashes, overtaken, shown, torn>>
    BY DEF ApplyAction, calls, handler, history
<1>2. poll'.at = "idle" /\ ~poll'.null
    BY <1>1 DEF NoPoll
<1>3. TypeOK'
    <2>1. poll.out \in Names /\ poll.null \in BOOLEAN
        BY DEF TypeOK
    <2> QED
        BY <1>1, <2>1, NoPollType DEF TypeOK
<1>4. PollInv'
    BY <1>2 DEF PollInv
<1>5. CallInv'
    BY <1>1, PollLeavesCalls
<1>6. WalkInv'
    <2> SUFFICES ASSUME NEW n \in Names, ~torn'[n] PROVE Walks(n)'
        BY DEF WalkInv
    <2>1. Walks(n)
        BY <1>1 DEF WalkInv
    <2>2. ~Polled(n)' /\ ~WasRead(n) /\ ~WasRead(n)'
        BY <1>1, <1>2 DEF Polled, WasRead
    <2>3. CASE n = poll.out
        <3>1. InWalk(n)' /\ Counted(n)'
            BY <1>1, <2>1, <2>2 DEF Walks, InWalk, Counted, IsEnd, Actions, Times
        <3>2. ~asleep'[n]
            BY <1>1, <2>1, <2>3 DEF Walks, InStep, Polled, TypeOK
        <3> QED
            BY <2>2, <3>1, <3>2 DEF Walks, InStep
    <2>4. CASE n # poll.out
        <3>1. ~Polled(n) /\ asleep'[n] = asleep[n]
            BY <1>1, <2>4 DEF Polled, TypeOK
        <3> QED
            BY <1>1, <2>1, <2>2, <3>1, OtherWalk
    <2> QED
        BY <2>3, <2>4
<1> QED
    BY <1>3, <1>4, <1>5, <1>6

LEMMA LoadRepeatKeeps ==
    ASSUME IInv, LoadRepeat
    PROVE  IInv'
<1> USE DEF IInv
<1> DEFINE o == poll.out
<1>1. /\ poll.at = "load"
      /\ UNCHANGED <<active, step, scan, target, pattern, repeat, action, count,
                     asleep, flashes, overtaken, shown, torn>>
    BY DEF LoadRepeat, calls, handler, history
<1>2. poll' = IF IsEnd(pattern[o], repeat[o])
              THEN [poll EXCEPT !.at = "apply"]
              ELSE [poll EXCEPT !.at = "advance", !.ptr = <<pattern[o], repeat[o]>>]
    BY DEF LoadRepeat
<1>3. o \in Names /\ pattern[o] \in 0..4 /\ repeat[o] \in 0..1 /\ ~poll.null
    BY <1>1 DEF TypeOK, PollInv
<1>4. /\ poll'.out = o /\ ~poll'.null
      /\ IsEnd(pattern[o], repeat[o]) => poll'.at = "apply"
      /\ ~IsEnd(pattern[o], repeat[o]) =>
            poll'.at = "advance" /\ poll'.ptr = <<pattern[o], repeat[o]>>
    <2>1. CASE IsEnd(pattern[o], repeat[o])
        BY <1>2, <1>3, <2>1 DEF TypeOK
    <2>2. CASE ~IsEnd(pattern[o], repeat[o])
        BY <1>2, <1>3, <2>2 DEF TypeOK
    <2> QED
        BY <2>1, <2>2
<1>5. TypeOK'
    <2>1. <<pattern[o], repeat[o]>> \in (0..4) \X (0..2)
        BY <1>3
    <2>2. poll' \in [at : {"idle", "read", "load", "advance", "apply"}, out : Names,
                     null : BOOLEAN, ptr : (0..4) \X (0..2)]
        <3>1. CASE IsEnd(pattern[o], repeat[o])
            BY <1>2, <3>1 DEF TypeOK
        <3>2. CASE ~IsEnd(pattern[o], repeat[o])
            BY <1>2, <2>1, <3>2 DEF TypeOK
        <3> QED
            BY <3>1, <3>2
    <2> QED
        BY <1>1, <2>2 DEF TypeOK
<1>6. PollInv'
    <2>1. ~IsEnd(pattern[o], repeat[o]) =>
            poll'.ptr[1] = pattern[o] /\ poll'.ptr[2] = repeat[o]
        BY <1>4
    <2> QED
        BY <1>4, <2>1 DEF PollInv, IsEnd
<1>7. CallInv'
    BY <1>1, PollLeavesCalls
<1>8. WalkInv'
    <2> SUFFICES ASSUME NEW n \in Names, ~torn'[n] PROVE Walks(n)'
        BY DEF WalkInv
    <2>1. Walks(n)
        BY <1>1 DEF WalkInv
    <2>2. CASE n = o
        <3>1. poll'.at = "advance" /\ poll'.ptr = <<pattern[o], repeat[o]>>
            BY <1>4, <2>1, <2>2 DEF Walks, InWalk
        <3>2. WasRead(n) /\ WasRead(n)'
            BY <1>1, <1>4, <2>2, <3>1 DEF WasRead
        <3>3. InWalk(n)' /\ Counted(n)'
            BY <1>1, <2>1, <3>2 DEF Walks, InWalk, Counted, IsEnd, Actions, Times
        <3>4. InStep(n)'
            <4>1. poll'.ptr = <<pattern'[n], repeat'[n]>>
                BY <1>1, <2>2, <3>1
            <4> QED
                BY <1>4, <4>1 DEF InStep
        <3>5. asleep'[n] => Resetting(n)'
            BY <1>1, <2>1, SleeperStays DEF Walks
        <3> QED
            BY <3>3, <3>4, <3>5 DEF Walks
    <2>3. CASE n # o
        <3>1. ~Polled(n) /\ ~Polled(n)'
            BY <1>4, <2>3 DEF Polled
        <3> QED
            BY <1>1, <2>1, <3>1, OtherWalk
    <2> QED
        BY <2>2, <2>3
<1> QED
    BY <1>5, <1>6, <1>7, <1>8

LEMMA ReadKeeps ==
    ASSUME IInv, ReadAction
    PROVE  IInv'
<1> USE DEF IInv
<1> DEFINE o == poll.out
           p == pattern[o]
           r == repeat[o]
           a == action[o]
<1>1. /\ poll.at = "read"
      /\ UNCHANGED <<active, step, scan, target, pattern, repeat, action, count,
                     asleep, overtaken, shown, torn>>
    BY DEF ReadAction, calls, handler
<1>2. /\ o \in Names /\ p \in 0..4 /\ r \in 0..1 /\ a \in Nat /\ ~poll.null
      /\ count[o] \in Nat /\ flashes[o] \in Nat
    <2>1. o \in Names /\ (0..MaxIndex) \subseteq Nat
        BY IndexAssumption DEF TypeOK
    <2>2. p \in 0..4 /\ r \in 0..1 /\ a \in 0..MaxIndex /\ count[o] \in 0..5 /\ flashes[o] \in Nat
        BY <2>1 DEF TypeOK
    <2>3. ~poll.null
        BY <1>1 DEF PollInv
    <2> QED
        BY <2>1, <2>2, <2>3
<1>3. CallInv'
    BY <1>1, PollLeavesCalls
<1>4. CASE IsEnd(p, r)
    <2>1. poll' = [poll EXCEPT !.at = "apply", !.null = TRUE] /\ UNCHANGED flashes
        BY <1>4 DEF ReadAction
    <2>2. TypeOK'
        BY <1>1, <2>1 DEF TypeOK
    <2>3. PollInv'
        BY <2>1 DEF PollInv, TypeOK
    <2>4. WalkInv'
        <3> SUFFICES ASSUME NEW n \in Names, ~torn'[n] PROVE Walks(n)'
            BY DEF WalkInv
        <3>1. Walks(n)
            BY <1>1 DEF WalkInv
        <3>2. n # o
            BY <1>4, <3>1 DEF Walks, InWalk
        <3>3. ~Polled(n) /\ ~Polled(n)'
            BY <2>1, <3>2 DEF Polled, TypeOK
        <3> QED
            BY <1>1, <2>1, <3>1, <3>3, OtherWalk
    <2> QED
        BY <1>3, <2>2, <2>3, <2>4
<1>5. CASE ~IsEnd(p, r)
    <2> DEFINE shows(lit) == IF r = 0 /\ a = 0 THEN IF lit THEN 1 ELSE 0
                             ELSE IF lit /\ flashes[o] < 6 THEN flashes[o] + 1 ELSE flashes[o]
    <2>1. PICK lit \in IF a < Len(Actions(p, r)) THEN {Actions(p, r)[a + 1]}
                       ELSE IF a = Len(Actions(p, r)) THEN {FALSE} ELSE BOOLEAN :
            /\ poll' = [poll EXCEPT !.at = "load"]
            /\ flashes' = [flashes EXCEPT ![o] = shows(lit)]
        BY <1>5, Zenon DEF ReadAction
    <2>2. poll'.at = "load" /\ poll'.out = o /\ ~poll'.null
        BY <1>2, <2>1 DEF TypeOK
    <2>3. shows(lit) \in Nat
        BY <1>2
    <2> HIDE DEF shows
    <2>4. TypeOK'
        <3>1. flashes' \in [Names -> Nat]
            BY <1>2, <2>1, <2>3 DEF TypeOK
        <3>2. poll' \in [at : {"idle", "read", "load", "advance", "apply"}, out : Names,
                         null : BOOLEAN, ptr : (0..4) \X (0..2)]
            BY <2>1 DEF TypeOK
        <3> QED
            BY <1>1, <3>1, <3>2 DEF TypeOK
    <2>5. PollInv'
        BY <2>2 DEF PollInv
    <2>6. flashes'[o] = shows(lit) /\ \A n \in Names \ {o} : flashes'[n] = flashes[n]
        BY <1>2, <2>1 DEF TypeOK
    <2>7. WalkInv'
        <3> SUFFICES ASSUME NEW n \in Names, ~torn'[n] PROVE Walks(n)'
            BY DEF WalkInv
        <3>1. Walks(n)
            BY <1>1 DEF WalkInv
        <3>2. CASE n # o
            <4>1. ~Polled(n) /\ ~Polled(n)' /\ flashes'[n] = flashes[n]
                BY <2>2, <2>6, <3>2 DEF Polled
            <4> QED
                BY <1>1, <3>1, <4>1, OtherWalk
        <3>3. CASE n = o
            <4>1. a < Len(Actions(p, r)) /\ Walks(o) /\ ~WasRead(o)
                BY <1>1, <3>1, <3>3 DEF Walks, InWalk, WasRead
            <4>2. lit = Actions(p, r)[a + 1]
                BY <2>1, <4>1, Zenon
            <4>3. InWalk(n)'
                BY <1>1, <3>1 DEF Walks, InWalk, IsEnd, Actions, Times
            <4>4. InStep(n)' /\ WasRead(n)'
                BY <2>2, <3>3 DEF InStep, WasRead
            <4>5. asleep'[n] => Resetting(n)'
                BY <1>1, <3>1, SleeperStays DEF Walks
            <4>6. ASSUME p # NoError
                  PROVE  IF r = 0 THEN flashes'[o] = 0 ELSE flashes'[o] = count[o] + 1
                <5>1. count[o] < 5
                    <6>1. count[o] < Times(p, r)
                        BY <4>1 DEF Walks, InWalk
                    <6>2. Times(p, r) = IF r = 0 THEN 1 ELSE p + 1
                        BY <1>2, <1>5, PatternNumbers
                    <6> QED
                        BY <1>2, <6>1, <6>2
                <5>2. r = 1 => flashes[o] = IF a = 1 THEN count[o] + 1 ELSE count[o]
                    BY <4>1, <4>6 DEF Walks, Counted
                <5>3. r \in 0..2
                    BY <1>2
                <5>4. \/ r = 0 /\ a = 0 /\ lit = FALSE
                      \/ r = 1 /\ a = 0 /\ lit = TRUE
                      \/ r = 1 /\ a = 1 /\ lit = FALSE
                    BY <1>2, <1>5, <4>1, <4>2, <4>6, <5>3, EntryIs, Zenon
                <5>5. CASE r = 0 /\ a = 0 /\ lit = FALSE
                    <6>1. shows(lit) = 0
                        BY <5>5, Zenon DEF shows
                    <6> QED
                        BY <2>6, <5>5, <6>1
                <5>6. CASE r = 1 /\ a = 0 /\ lit = TRUE
                    <6>1. flashes[o] = count[o] /\ r # 0 /\ flashes[o] < 6
                        BY <1>2, <5>1, <5>2, <5>6
                    <6>2. shows(lit) = flashes[o] + 1
                        BY <5>6, <6>1, Zenon DEF shows
                    <6> QED
                        BY <2>6, <6>1, <6>2
                <5>7. CASE r = 1 /\ a = 1 /\ lit = FALSE
                    <6>1. flashes[o] = count[o] + 1 /\ r # 0
                        BY <5>2, <5>7
                    <6>2. shows(lit) = flashes[o]
                        BY <5>7, <6>1, Zenon DEF shows
                    <6> QED
                        BY <2>6, <6>1, <6>2
                <5> QED
                    BY <5>4, <5>5, <5>6, <5>7
            <4>7. Counted(n)'
                <5>1. repeat'[o] = r /\ count'[o] = count[o] /\ pattern'[o] = p
                    BY <1>1
                <5>2. r = 0 /\ p # NoError => flashes'[o] \in {0}
                    BY <4>6
                <5>3. r # 0 /\ p # NoError => flashes'[o] = count[o] + 1
                    BY <4>6
                <5> QED
                    BY <3>3, <4>4, <5>1, <5>2, <5>3, Zenon DEF Counted
            <4> QED
                BY <4>3, <4>4, <4>5, <4>7 DEF Walks
        <3> QED
            BY <3>2, <3>3
    <2> QED
        BY <1>3, <2>4, <2>5, <2>7
<1> QED
    BY <1>4, <1>5

LEMMA NextRepeatIs ==
    ASSUME NEW p \in 0..4, NEW r \in 0..2
    PROVE  /\ NextRepeat(p, r) \in 0..1
           /\ NextRepeat(p, r) = IF r = 2 \/ (p = NoError /\ r # 0) THEN 0 ELSE r
BY PatternEnds DEF NextRepeat

LEMMA AdvanceKeeps ==
    ASSUME IInv, advance_blink_handler
    PROVE  IInv'
<1> USE DEF IInv
<1> DEFINE o == poll.out
           p == pattern[o]
           r == repeat[o]
           a == action[o]
           k == count[o]
           loaded == get_blink_pattern(poll.ptr[1])[poll.ptr[2] + 1]
           n == Len(loaded.actions)
           T == loaded.times
           after == IF k + 1 >= T THEN r + 1 ELSE r
           left == IF k + 1 >= T THEN 0 ELSE k + 1
<1>1. /\ poll.at = "advance" /\ poll' = [poll EXCEPT !.at = "apply"]
      /\ UNCHANGED <<active, step, scan, target, pattern, asleep, flashes,
                     overtaken, shown, torn>>
    BY DEF advance_blink_handler, calls, history
<1>2. \E end \in IF a + 1 < n THEN {FALSE}
                 ELSE IF a + 1 = n \/ a + 1 > MaxIndex THEN {TRUE} ELSE BOOLEAN :
        IF end
        THEN /\ action' = [action EXCEPT ![o] = 0]
             /\ count' = [count EXCEPT ![o] = left]
             /\ repeat' = [repeat EXCEPT ![o] = NextRepeat(p, after)]
        ELSE action' = [action EXCEPT ![o] = a + 1] /\ UNCHANGED <<count, repeat>>
    BY Zenon DEF advance_blink_handler
<1>3. /\ o \in Names /\ p \in 0..4 /\ r \in 0..1 /\ a \in 0..MaxIndex /\ k \in 0..5
      /\ poll.ptr[1] \in 0..4 /\ poll.ptr[2] \in 0..2 /\ ~IsEnd(poll.ptr[1], poll.ptr[2])
      /\ ~poll.null
    <2>1. o \in Names /\ poll.ptr \in (0..4) \X (0..2)
        BY DEF TypeOK
    <2>2. p \in 0..4 /\ r \in 0..1 /\ a \in 0..MaxIndex /\ k \in 0..5
        BY <2>1 DEF TypeOK
    <2>3. ~poll.null /\ ~IsEnd(poll.ptr[1], poll.ptr[2])
        BY <1>1 DEF PollInv
    <2> QED
        BY <2>1, <2>2, <2>3
<1>4. loaded.actions = Actions(poll.ptr[1], poll.ptr[2]) /\ T = Times(poll.ptr[1], poll.ptr[2])
    BY DEF Actions, Times
<1>5. n \in {1, 2} /\ T \in 1..5
    BY <1>3, <1>4, PatternNumbers
<1> HIDE DEF loaded, n, T
<1>6. after \in 0..2 /\ left \in 0..5
    BY <1>3, <1>5
<1> HIDE DEF after, left
<1>7. NextRepeat(p, after) \in 0..1
    BY <1>3, <1>6, NextRepeatIs
<1>8. \/ /\ a + 1 >= n /\ action' = [action EXCEPT ![o] = 0]
         /\ count' = [count EXCEPT ![o] = left]
         /\ repeat' = [repeat EXCEPT ![o] = NextRepeat(p, after)]
      \/ /\ a + 1 # n /\ a + 1 <= MaxIndex
         /\ action' = [action EXCEPT ![o] = a + 1] /\ UNCHANGED <<count, repeat>>
    <2> DEFINE ends == /\ action' = [action EXCEPT ![o] = 0]
                       /\ count' = [count EXCEPT ![o] = left]
                       /\ repeat' = [repeat EXCEPT ![o] = NextRepeat(p, after)]
               walks == action' = [action EXCEPT ![o] = a + 1] /\ UNCHANGED <<count, repeat>>
    <2>1. PICK end \in IF a + 1 < n THEN {FALSE}
                       ELSE IF a + 1 = n \/ a + 1 > MaxIndex THEN {TRUE} ELSE BOOLEAN :
            IF end THEN ends ELSE walks
        BY <1>2
    <2> HIDE DEF ends, walks
    <2>2. CASE a + 1 < n
        <3>1. walks
            BY <2>1, <2>2, Zenon
        <3>2. a + 1 # n /\ a + 1 <= MaxIndex
            BY <1>3, <1>5, <2>2, IndexAssumption
        <3> QED
            BY <3>1, <3>2 DEF walks
    <2>3. CASE ~(a + 1 < n) /\ (a + 1 = n \/ a + 1 > MaxIndex)
        <3>1. ends
            BY <2>1, <2>3, Zenon
        <3>2. a + 1 >= n
            BY <1>3, <1>5, <2>3
        <3> QED
            BY <3>1, <3>2 DEF ends
    <2>4. CASE ~(a + 1 < n) /\ ~(a + 1 = n \/ a + 1 > MaxIndex)
        <3>1. ends \/ walks
            BY <2>1, Zenon
        <3>2. a + 1 >= n /\ a + 1 # n /\ a + 1 <= MaxIndex
            BY <1>3, <1>5, <2>4, IndexAssumption
        <3> QED
            BY <3>1, <3>2 DEF ends, walks
    <2> QED
        BY <2>2, <2>3, <2>4
<1>9. TypeOK'
    <2>1. 0 \in 0..MaxIndex /\ (a + 1 <= MaxIndex => a + 1 \in 0..MaxIndex)
        BY <1>3, IndexAssumption
    <2>2. action' \in [Names -> 0..MaxIndex]
        BY <1>3, <1>8, <2>1 DEF TypeOK
    <2>3. count' \in [Names -> 0..5] /\ repeat' \in [Names -> 0..1]
        <3>1. /\ count' = count \/ count' = [count EXCEPT ![o] = left]
              /\ repeat' = repeat \/ repeat' = [repeat EXCEPT ![o] = NextRepeat(p, after)]
            BY <1>8, Zenon
        <3>2. count' \in [Names -> 0..5]
            BY <1>6, <3>1 DEF TypeOK
        <3>3. repeat' \in [Names -> 0..1]
            BY <1>7, <3>1 DEF TypeOK
        <3> QED
            BY <3>2, <3>3
    <2> QED
        BY <1>1, <2>2, <2>3 DEF TypeOK
<1>10. poll'.at = "apply" /\ poll'.out = o /\ ~poll'.null
    BY <1>1, <1>3 DEF TypeOK
<1>11. PollInv'
    BY <1>10 DEF PollInv
<1>12. WalkInv'
    <2> SUFFICES ASSUME NEW m \in Names, ~torn'[m] PROVE Walks(m)'
        BY DEF WalkInv
    <2>1. Walks(m)
        BY <1>1 DEF WalkInv
    <2>2. CASE m # o
        <3>1. ~Polled(m) /\ ~Polled(m)'
            BY <1>10, <2>2 DEF Polled
        <3>2. repeat'[m] = repeat[m] /\ action'[m] = action[m] /\ count'[m] = count[m]
            BY <1>3, <1>8, <2>2 DEF TypeOK
        <3> QED
            BY <1>1, <2>1, <3>1, <3>2, OtherWalk
    <2>3. CASE m = o
        <3>1. /\ ~IsEnd(p, r) /\ n = Len(Actions(p, r)) /\ T = Times(p, r)
              /\ a < n /\ k < T /\ Walks(o) /\ WasRead(o)
            <4>1. Walks(o) /\ poll.ptr = <<p, r>> /\ WasRead(o)
                BY <1>1, <2>1, <2>3 DEF Walks, InStep, Polled, WasRead
            <4>2. poll.ptr[1] = p /\ poll.ptr[2] = r
                BY <4>1
            <4>3. n = Len(Actions(p, r)) /\ T = Times(p, r)
                BY <1>4, <4>2 DEF n
            <4> QED
                BY <4>1, <4>3 DEF Walks, InWalk
        <3>2. /\ n = IF p # NoError /\ r = 0 THEN 1 ELSE 2
              /\ T = IF r = 0 THEN 1 ELSE p + 1
              /\ p = NoError => r = 0
            <4>1. r \in 0..2
                BY <1>3
            <4>2. p = NoError => r = 0
                BY <1>3, <3>1, <4>1, PatternEnds
            <4>3. /\ Len(Actions(p, r)) = IF p # NoError /\ r = 0 THEN 1 ELSE 2
                  /\ Times(p, r) = IF r = 0 THEN 1 ELSE p + 1
                BY <1>3, <3>1, <4>1, PatternNumbers
            <4> QED
                BY <3>1, <4>2, <4>3
        <3>3. p # NoError => flashes[o] = IF r = 0 THEN 0 ELSE k + 1
            BY <3>1 DEF Walks, Counted
        <3>4. pattern'[m] = p /\ flashes'[m] = flashes[o] /\ (asleep'[m] => Resetting(m)')
            BY <1>1, <2>1, <2>3, SleeperStays DEF Walks
        <3>5. ~WasRead(m)' /\ InStep(m)'
            BY <1>10 DEF WasRead, InStep
        <3> DEFINE Fits(r1, a1, k1) ==
                     /\ ~IsEnd(p, r1) /\ a1 < Len(Actions(p, r1)) /\ k1 < Times(p, r1)
                     /\ p # NoError => IF r1 = 0 THEN flashes[o] \in {0, p + 1}
                                       ELSE flashes[o] = IF a1 = 1 THEN k1 + 1 ELSE k1
        <3> SUFFICES Fits(repeat'[m], action'[m], count'[m])
            BY <3>4, <3>5, Zenon DEF Walks, InWalk, Counted
        <3>6. CASE a + 1 # n /\ action' = [action EXCEPT ![o] = a + 1]
                   /\ UNCHANGED <<count, repeat>>
            <4>1. repeat'[m] = r /\ count'[m] = k /\ action'[m] = 1 /\ n = 2 /\ a = 0
                BY <1>3, <1>5, <3>1, <3>2, <2>3, <3>6 DEF TypeOK
            <4>2. Fits(r, 1, k)
                BY <3>1, <3>2, <3>3, <4>1
            <4> HIDE DEF Fits
            <4> QED
                BY <4>1, <4>2
        <3>7. CASE /\ a + 1 >= n /\ action' = [action EXCEPT ![o] = 0]
                   /\ count' = [count EXCEPT ![o] = left]
                   /\ repeat' = [repeat EXCEPT ![o] = NextRepeat(p, after)]
            <4>1. repeat'[m] = NextRepeat(p, after) /\ count'[m] = left /\ action'[m] = 0
                BY <1>3, <2>3, <3>7 DEF TypeOK
            <4>2. CASE r = 1 /\ k + 1 < T
                <5>1. after = 1 /\ left = k + 1 /\ p # NoError
                    BY <1>3, <1>5, <3>2, <4>2 DEF after, left
                <5>2. repeat'[m] = 1
                    BY <1>3, <4>1, <5>1, NextRepeatIs
                <5>3. Fits(r, 0, k + 1)
                    BY <1>3, <3>1, <3>2, <3>3, <4>2, <5>1
                <5> HIDE DEF Fits
                <5> QED
                    BY <4>1, <4>2, <5>1, <5>2, <5>3
            <4>3. CASE r = 0 /\ p # NoError
                <5>1. after = 1 /\ left = 0
                    BY <1>3, <1>5, <3>1, <3>2, <4>3 DEF after, left
                <5>2. repeat'[m] = 1
                    BY <1>3, <4>1, <4>3, <5>1, NextRepeatIs
                <5>3. ~IsEnd(p, 1)
                    BY <1>3, <4>3, PatternEnds
                <5>4. Len(Actions(p, 1)) = 2 /\ Times(p, 1) = p + 1
                    BY <1>3, <5>3, PatternNumbers
                <5>5. Fits(1, 0, 0)
                    <6>1. flashes[o] = 0
                        BY <3>3, <4>3
                    <6>2. 0 < Len(Actions(p, 1)) /\ 0 < Times(p, 1) /\ 1 # 0 /\ 0 # 1
                        <7>1. p \in 0..4
                            BY <1>3
                        <7>2. 0 < p + 1 /\ 1 # 0 /\ 0 # 1 /\ 0 < 2
                            BY ONLY <7>1
                        <7> QED
                            BY ONLY <7>2, <5>4
                    <6> QED
                        BY <5>3, <6>1, <6>2, Zenon
                <5> HIDE DEF Fits
                <5> QED
                    BY <4>1, <5>1, <5>2, <5>5
            <4>4. CASE (r = 0 /\ p = NoError) \/ (r = 1 /\ ~(k + 1 < T))
                <5>1. after = r + 1 /\ left = 0 /\ (p # NoError => k = p)
                    BY <1>3, <1>5, <3>1, <3>2, <4>4 DEF after, left
                <5>2. repeat'[m] = 0
                    BY <1>3, <1>6, <4>1, <4>4, <5>1, NextRepeatIs
                <5>3. Fits(0, 0, 0)
                    BY <1>3, <3>2, <3>3, <4>4, <5>1, StartsWalk
                <5> HIDE DEF Fits
                <5> QED
                    BY <4>1, <5>1, <5>2, <5>3
            <4> QED
                BY <1>3, <4>2, <4>3, <4>4
        <3> QED
            BY <1>8, <3>6, <3>7
    <2> QED
        BY <2>2, <2>3
<1>13. CallInv'
    BY <1>1, PollLeavesCalls
<1> QED
    BY <1>9, <1>11, <1>12, <1>13

-----------------------------------------------------------------------------
(* The theorems.                                                           *)

LEMMA NextIInv == IInv /\ [Next]_vars => IInv'
<1> SUFFICES ASSUME IInv, [Next]_vars PROVE IInv'
    OBVIOUS
<1>1. CASE UNCHANGED vars
    <2>1. UNCHANGED <<active, step, scan, target, pattern, repeat, action, count,
                      asleep, poll, flashes, overtaken, shown, torn>>
        BY <1>1 DEF vars, calls, handler, history
    <2>2. TypeOK' /\ PollInv'
        BY <2>1 DEF IInv, TypeOK, PollInv, IsEnd
    <2>3. CallInv'
        BY <2>1, PollLeavesCalls DEF IInv
    <2>4. WalkInv'
        <3> SUFFICES ASSUME NEW o \in Names, ~torn'[o] PROVE Walks(o)'
            BY DEF WalkInv
        <3>1. Walks(o) /\ (Resetting(o)' <=> Resetting(o))
            BY <2>1 DEF IInv, WalkInv, Resetting, Out
        <3> QED
            BY <2>1, <3>1, SameWalk
    <2> QED
        BY <2>2, <2>3, <2>4 DEF IInv
<1>2. CASE do_blink
    BY <1>2, StartPollKeeps, ReadKeeps, LoadRepeatKeeps, AdvanceKeeps, ApplyKeeps DEF do_blink
<1>3. ASSUME NEW c \in Callers, set_error_priority(c) PROVE IInv'
    BY <1>3, StoreErrorKeeps, ScanErrorKeeps, StorePatternKeeps, ResetIndicesKeeps,
       ResetPollKeeps DEF set_error_priority
<1> QED
    BY <1>1, <1>2, <1>3 DEF Next

LEMMA IInvariant == Spec => []IInv
BY InitIInv, NextIInv, PTL DEF Spec

(* Every variable of Blink keeps its type, however many calls interleave:  *)
(* the indices of an output stay within the memory MaxIndex stands for.    *)
THEOREM BlinkTypes == Spec => []TypeOK
<1>1. IInv => TypeOK
    BY DEF IInv
<1> QED
    BY <1>1, IInvariant, PTL

(* However calls of set_error_priority() overlap, the task that changed an *)
(* error last gives every output the lowest priority that is active, and   *)
(* no output still waits for it when all calls are over.                   *)
THEOREM LowestIsShown == Spec => []ShowsLowest
<1>1. IInv => ShowsLowest
    BY DEF IInv, CallInv, NewestShows, OnItsWay, Ahead, ShowsLowest, Quiet
<1> QED
    BY <1>1, IInvariant, PTL

(* Whatever callers do to an output in turns: from a reset of its indices  *)
(* outside a poll until its next pattern, the walk of the capture task     *)
(* stays inside the arrays, and the output goes on being polled.           *)
THEOREM WalkStaysInBounds == Spec => []WalkInBounds
<1>1. IInv => WalkInBounds
    BY DEF IInv, WalkInv, Walks, InWalk, WalkInBounds
<1> QED
    BY <1>1, IInvariant, PTL

(* And between two pauses it flashes as often as the error's number says.  *)
THEOREM FlashesCountTheError == Spec => []FlashesNameError
<1>1. IInv => FlashesNameError
    <2> SUFFICES ASSUME IInv, NEW o \in Names, ~torn[o], pattern[o] # NoError,
                        repeat[o] = 0
                 PROVE  flashes[o] \in {0, pattern[o] + 1}
        BY DEF FlashesNameError
    <2>1. Counted(o)
        BY DEF IInv, WalkInv, Walks
    <2> QED
        BY <2>1 DEF Counted
<1> QED
    BY <1>1, IInvariant, PTL
=============================================================================
