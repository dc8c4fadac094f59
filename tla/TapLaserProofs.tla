---------------------------- MODULE TapLaserProofs ----------------------------
(***************************************************************************)
(* TapLaser: the set-up and the count of the taps, for every size of the   *)
(* ring, every number of taps a toggle needs and every window.             *)
(***************************************************************************)
EXTENDS TapLaser, FiniteSetTheorems, TLAPS

-----------------------------------------------------------------------------
(* The inductive invariant.                                                *)

(* A set-up under way has done the steps before the next one; a service    *)
(* from an earlier set-up may be there already.                            *)
BuiltSoFar ==
    init > 0 =>
        /\ unwind = 0
        /\ \A i \in 1..8 : i < init => Steps[i] \in have
        /\ \A i \in 1..8 : i >= init /\ i # 6 => Steps[i] \notin have

(* What is being taken down was never complete, what has had its turn is   *)
(* gone, and the rest still stands on what it needs.                       *)
TakenSoFar ==
    unwind > 0 =>
        /\ init = 0 /\ "task" \notin have
        /\ \A i \in 1..4 : i < unwind => Unwinding[i] \notin have
        /\ "handler" \in have => "queue" \in have
        /\ "registers" \in have \/ "gpio" \in have => "device" \in have

SetupInv == SetupAllOrNothing /\ BuiltSoFar /\ TakenSoFar

(* A tap pays for one toggle only: those already spent and those that are  *)
(* still recent are no more than there were.  Fewer than a toggle needs    *)
(* are left, unless the last one came too early to count.                  *)
TapsAccount ==
    /\ toggles * Need + Cardinality(Recent) <= taps
    /\ ~early => Cardinality(Recent) < Need

IInv == TypeOK /\ SetupInv /\ TapsAccount

-----------------------------------------------------------------------------
(* Facts about the constants.                                              *)

LEMMA Sizes ==
    /\ Ring \in Nat \ {0} /\ Need \in Nat \ {0} /\ Window \in Nat \ {0}
    /\ LaserTime \in Nat \ {0} /\ QueueSize \in Nat \ {0} /\ MaxTaps \in Nat \ {0}
BY SizesAssumption

LEMMA NextOfFive == \A u \in 1..4 : (u + 1) % 5 = IF u = 4 THEN 0 ELSE u + 1
OBVIOUS

LEMMA OneMoreToggle == \A t \in Nat : (t + 1) * Need = t * Need + Need /\ t * Need \in Nat
BY Sizes

LEMMA NextInRing == next \in 1..Ring => (next % Ring) + 1 \in 1..Ring
BY Sizes

(* Sets of places in the ring are finite, and smaller ones have fewer.     *)
LEMMA PlacesCount ==
    ASSUME NEW S \in SUBSET (1..Ring), NEW T \in SUBSET S
    PROVE  /\ IsFiniteSet(S) /\ IsFiniteSet(T)
           /\ Cardinality(S) \in Nat /\ Cardinality(T) \in Nat
           /\ Cardinality(T) <= Cardinality(S)
<1>1. IsFiniteSet(1..Ring)
    BY Sizes, FS_Interval
<1>2. IsFiniteSet(S)
    BY <1>1, FS_Subset
<1> QED
    BY <1>2, FS_Subset, FS_CardinalityType

-----------------------------------------------------------------------------
LEMMA InitIInv == Init => IInv
<1> SUFFICES ASSUME Init PROVE IInv
    OBVIOUS
<1> USE Sizes DEF Init
<1>1. TypeOK
    <2>1. SetupType
        BY DEF SetupType
    <2>2. TapType
        <3>1. early \in BOOLEAN
            BY Zenon
        <3> HIDE DEF Init
        <3> QED
            BY <3>1 DEF TapType, Init
    <2>3. LaserType
        <3>1. enabled \in 0..Off
            BY DEF Off
        <3> QED
            BY <3>1, Zenon DEF LaserType
    <2> QED
        BY <2>1, <2>2, <2>3 DEF TypeOK
<1>2. SetupInv
    BY DEF SetupInv, SetupAllOrNothing, BuiltSoFar, TakenSoFar, Idle, Steps
<1>3. TapsAccount
    <2>1. Recent = {}
        BY DEF Recent
    <2> QED
        BY <2>1, FS_EmptySet, OneMoreToggle DEF TapsAccount
<1> QED
    BY <1>1, <1>2, <1>3 DEF IInv

-----------------------------------------------------------------------------
(* The set-up.                                                             *)

SetupSteps == StepSucceeds \/ StepFails \/ TakeDown \/ rr1_i2c_tap_reinit

LEMMA BuildKeeps ==
    ASSUME TypeOK, SetupInv, StepSucceeds
    PROVE  SetupType' /\ SetupInv'
<1> USE DEF TypeOK, SetupType, SetupInv, StepSucceeds
<1>1. /\ init \in 1..8 /\ unwind = 0 /\ unwind' = 0
      /\ have' = have \cup {Steps[init]}
      /\ init' = IF init = 8 THEN 0 ELSE init + 1
    BY DEF BuiltSoFar
<1>2. SetupType'
    BY <1>1 DEF Everything
<1>3. BuiltSoFar'
    BY <1>1 DEF BuiltSoFar, Steps
<1>4. TakenSoFar'
    BY <1>1 DEF TakenSoFar
<1>5. init = 8 => have' = Everything
    <2> SUFFICES ASSUME init = 8 PROVE have' = Everything
        OBVIOUS
    <2>1. \A i \in 1..8 : Steps[i] \in have'
        BY <1>1 DEF BuiltSoFar
    <2> QED
        BY <1>2, <2>1 DEF Everything
<1>6. SetupAllOrNothing'
    BY <1>1, <1>5 DEF BuiltSoFar, SetupAllOrNothing, Idle, Steps, Everything
<1> QED
    BY <1>2, <1>3, <1>4, <1>6

LEMMA FailureKeeps ==
    ASSUME TypeOK, SetupInv, StepFails
    PROVE  SetupType' /\ SetupInv'
<1> USE DEF TypeOK, SetupType, SetupInv, StepFails
<1>1. init \in 1..8 /\ init' = 0 /\ unwind' = 1 /\ have' = have
    OBVIOUS
<1>2. TakenSoFar'
    BY <1>1 DEF BuiltSoFar, TakenSoFar, Steps
<1> QED
    BY <1>1, <1>2 DEF BuiltSoFar, SetupAllOrNothing, Idle, Steps

LEMMA TakeDownKeeps ==
    ASSUME TypeOK, SetupInv, TakeDown
    PROVE  SetupType' /\ SetupInv'
<1> USE DEF TypeOK, SetupType, SetupInv, TakeDown
<1>1. /\ unwind \in 1..4 /\ unwind' = IF unwind = 4 THEN 0 ELSE unwind + 1
      /\ init = 0 /\ init' = 0
      /\ have' = IF unwind = 3 THEN have \ {"device", "registers", "gpio"}
                 ELSE have \ {Unwinding[unwind]}
    BY NextOfFive DEF TakenSoFar, Unwinding
<1>2. SetupType'
    BY <1>1
<1>3. TakenSoFar'
    BY <1>1 DEF TakenSoFar, Unwinding
<1>4. unwind = 4 => have' \subseteq {"service"}
    <2> SUFFICES ASSUME unwind = 4 PROVE have' \subseteq {"service"}
        OBVIOUS
    <2>1. \A r \in have' : r \in Everything /\ r \notin {"task", "handler", "queue", "device", "bus"}
        BY <1>1 DEF TakenSoFar, Unwinding
    <2>2. "registers" \notin have' /\ "gpio" \notin have'
        BY <1>1, <2>1 DEF TakenSoFar, Unwinding
    <2> QED
        BY <2>1, <2>2 DEF Everything, Steps
<1>5. SetupAllOrNothing'
    BY <1>1, <1>4 DEF TakenSoFar, SetupAllOrNothing, Idle, Unwinding
<1> QED
    BY <1>1, <1>2, <1>3, <1>5 DEF BuiltSoFar

LEMMA ReinitKeeps ==
    ASSUME TypeOK, SetupInv, rr1_i2c_tap_reinit
    PROVE  SetupType' /\ SetupInv'
<1> USE DEF TypeOK, SetupType, SetupInv, rr1_i2c_tap_reinit, Idle
<1>1. /\ init = 0 /\ init' = 1 /\ unwind = 0 /\ unwind' = 0 /\ have' = have
      /\ have \in {{}, {"service"}}
    BY DEF SetupAllOrNothing, Everything, Steps
<1> QED
    BY <1>1 DEF SetupAllOrNothing, BuiltSoFar, TakenSoFar, Steps

-----------------------------------------------------------------------------
(* The taps.                                                               *)

LEMMA TapKeeps ==
    ASSUME TypeOK, TapsAccount, SingleTap
    PROVE  TapType' /\ TapsAccount'
<1> USE Sizes DEF TypeOK, TapType
<1> DEFINE recorded == [clicks EXCEPT ![next] = 0]
           recent == {i \in 1..Ring : uptime >= Window /\ recorded[i] < Window}
           enough == Cardinality(recent) >= Need
<1>1. /\ clicks' = IF enough THEN Forget(recorded) ELSE recorded
      /\ next' = (next % Ring) + 1
      /\ tapTask' = IF enough THEN "load" ELSE "wait"
      /\ taps' = taps + 1 /\ taps < MaxTaps
      /\ toggles' = IF enough THEN toggles + 1 ELSE toggles
      /\ early' = (uptime < Window)
      /\ queue' = queue /\ uptime' = uptime
    BY DEF SingleTap
<1>2. recorded \in [1..Ring -> 0..Window]
    OBVIOUS
<1>3. Forget(recorded) = [i \in 1..Ring |-> Window]
    BY DEF Forget
<1>4. TapType'
    <2>1. clicks' \in {recorded, Forget(recorded)} /\ tapTask' \in {"load", "wait"}
          /\ toggles' \in {toggles, toggles + 1}
        BY <1>1, Zenon
    <2>2. clicks' \in [1..Ring -> 0..Window]
        BY <1>2, <1>3, <2>1
    <2>3. next' \in 1..Ring
        BY <1>1, NextInRing
    <2>4. queue' \in 0..QueueSize /\ uptime' \in 0..Window /\ taps' \in 0..MaxTaps
        BY <1>1
    <2>5. early' \in BOOLEAN
        <3>1. early' = (uptime < Window)
            BY <1>1, Zenon
        <3> QED
            BY ONLY <3>1, SMT
    <2> QED
        BY <2>1, <2>2, <2>3, <2>4, <2>5
<1>5. {i \in 1..Ring : recorded[i] < Window} = Recent \cup {next}
    BY DEF Recent
<1>6. /\ IsFiniteSet(Recent) /\ Cardinality(Recent) \in Nat
      /\ Cardinality(Recent \cup {next}) \in Nat
      /\ Cardinality(Recent \cup {next}) <= Cardinality(Recent) + 1
    <2>1. Recent \in SUBSET (1..Ring) /\ Recent \cup {next} \in SUBSET (1..Ring)
        BY DEF Recent
    <2>2. IsFiniteSet(Recent) /\ Cardinality(Recent) \in Nat
          /\ Cardinality(Recent \cup {next}) \in Nat
        BY <2>1, PlacesCount
    <2>3. \/ Cardinality(Recent \cup {next}) = Cardinality(Recent)
          \/ Cardinality(Recent \cup {next}) = Cardinality(Recent) + 1
        BY <2>2, FS_AddElement
    <2> QED
        BY <2>2, <2>3
<1>7. Cardinality(recent) \in Nat /\ Cardinality(recent) <= Cardinality(Recent \cup {next})
    <2>1. recent \subseteq Recent \cup {next} /\ Recent \cup {next} \in SUBSET (1..Ring)
        BY DEF Recent
    <2> QED
        BY <2>1, PlacesCount
<1>8. toggles * Need \in Nat /\ (toggles + 1) * Need = toggles * Need + Need
    BY OneMoreToggle
<1>9. CASE enough
    <2>1. Recent' = {}
        BY <1>1, <1>3, <1>9 DEF Recent
    <2>2. Cardinality(Recent') = 0
        BY <2>1, FS_EmptySet
    <2>3. toggles' * Need = toggles * Need + Need
        BY <1>1, <1>8, <1>9
    <2>4. Need <= Cardinality(recent)
        BY <1>7, <1>9
    <2>5. toggles * Need + Cardinality(Recent) <= taps /\ taps \in Nat /\ taps' = taps + 1
        BY <1>1 DEF TapsAccount
    <2>6. toggles * Need + Need <= taps + 1
        BY ONLY Sizes, <1>6, <1>7, <1>8, <2>4, <2>5
    <2>7. toggles' * Need + Cardinality(Recent') <= taps'
        BY ONLY Sizes, <1>8, <2>2, <2>3, <2>5, <2>6
    <2>8. Cardinality(Recent') < Need
        BY <2>2
    <2> QED
        BY <1>4, <2>7, <2>8 DEF TapsAccount
<1>10. CASE ~enough
    <2>1. Recent' = Recent \cup {next}
        BY <1>1, <1>5, <1>10 DEF Recent
    <2>2. toggles' * Need = toggles * Need /\ taps' = taps + 1
        BY <1>1, <1>10
    <2>3. Cardinality(Recent') = Cardinality(Recent \cup {next})
        BY <2>1
    <2>4. toggles * Need + Cardinality(Recent) <= taps /\ taps \in Nat
        BY DEF TapsAccount
    <2>5. toggles' * Need + Cardinality(Recent') <= taps'
        BY ONLY <1>6, <1>8, <2>2, <2>3, <2>4
    <2>6. ASSUME ~early' PROVE Cardinality(Recent') < Need
        <3>1. ~(uptime < Window)
            BY <1>1, <2>6, Zenon
        <3>2. recent = Recent \cup {next}
            BY <1>5, <3>1
        <3>3. ~(Cardinality(recent) >= Need)
            BY <1>10
        <3> HIDE DEF recent
        <3>4. Cardinality(recent) < Need
            BY ONLY <1>7, <3>3, Sizes
        <3> QED
            BY ONLY <2>3, <3>2, <3>4
    <2> QED
        BY <1>4, <2>5, <2>6 DEF TapsAccount
<1> QED
    BY <1>4, <1>9, <1>10

LEMMA TickKeeps ==
    ASSUME TypeOK, TapsAccount, Tick
    PROVE  TapType' /\ LaserType' /\ TapsAccount'
<1> USE Sizes DEF TypeOK, TapType, LaserType, Tick, counts, Off
<1>1. TapType'
    OBVIOUS
<1>2. LaserType'
    OBVIOUS
<1>3. Recent' \in SUBSET Recent /\ Recent \in SUBSET (1..Ring)
    BY DEF Recent
<1>4. /\ Cardinality(Recent) \in Nat /\ Cardinality(Recent') \in Nat
      /\ Cardinality(Recent') <= Cardinality(Recent)
    BY <1>3, PlacesCount
<1>5. toggles * Need \in Nat /\ toggles' * Need = toggles * Need /\ taps' = taps
      /\ early' = early
    BY OneMoreToggle
<1> QED
    BY <1>1, <1>2, <1>4, <1>5 DEF TapsAccount

-----------------------------------------------------------------------------
LEMMA NextIInv == IInv /\ [Next]_vars => IInv'
<1> SUFFICES ASSUME IInv, [Next]_vars PROVE IInv'
    OBVIOUS
<1> USE DEF IInv
<1>1. CASE SetupSteps
    <2>1. SetupType' /\ SetupInv'
        BY <1>1, BuildKeeps, FailureKeeps, TakeDownKeeps, ReinitKeeps DEF SetupSteps
    <2>2. UNCHANGED <<tapTask, ring, uptime, laser, counts>>
        BY <1>1 DEF SetupSteps, StepSucceeds, StepFails, TakeDown, rr1_i2c_tap_reinit
    <2>3. queue' \in {queue, 0}
        BY <1>1 DEF SetupSteps, StepSucceeds, StepFails, TakeDown, rr1_i2c_tap_reinit
    <2>4. TapType' /\ LaserType'
        BY <2>2, <2>3, Sizes DEF TypeOK, TapType, LaserType, ring, laser, counts
    <2>5. TapsAccount'
        BY <2>2 DEF TapsAccount, Recent, ring, counts
    <2> QED
        BY <2>1, <2>4, <2>5 DEF TypeOK
<1>2. CASE gpio_isr_handler \/ TapTask \/ LaserPolls \/ ChangeError \/ Tick \/ UNCHANGED vars
    <2>1. UNCHANGED setup
        BY <1>2 DEF gpio_isr_handler, TapTask, Receive, NoTap, SingleTap, LoadEnabled,
           StoreEnabled, LaserPolls, LaserPoll, LoadError, CheckTimeout, Expire, SetLevel,
           ChangeError, Tick, vars
    <2>2. SetupType'
        BY <2>1 DEF TypeOK, SetupType, setup
    <2>3. SetupInv'
        BY <2>1 DEF SetupInv, SetupAllOrNothing, BuiltSoFar, TakenSoFar, Idle, setup
    <2>4. TapType' /\ LaserType' /\ TapsAccount'
        <3>1. CASE SingleTap
            <4>1. LaserType'
                BY <3>1 DEF SingleTap, TypeOK, LaserType, laser
            <4> QED
                BY <3>1, <4>1, TapKeeps
        <3>2. CASE Tick
            BY <3>2, TickKeeps
        <3>3. CASE gpio_isr_handler \/ Receive \/ NoTap \/ UNCHANGED vars
            <4>1. UNCHANGED <<ring, uptime, laser, counts>>
                BY <3>3 DEF gpio_isr_handler, Receive, NoTap, vars
            <4>2. queue' \in 0..QueueSize /\ tapTask' \in {"wait", "read", "load", "store"}
                BY <3>3, Sizes DEF gpio_isr_handler, Receive, NoTap, vars, TypeOK, TapType
            <4>3. TapType' /\ LaserType'
                BY <4>1, <4>2 DEF TypeOK, TapType, LaserType, ring, laser, counts
            <4> QED
                BY <4>1, <4>3 DEF TapsAccount, Recent, ring, counts
        <3>4. CASE LoadEnabled \/ StoreEnabled \/ LaserPolls \/ ChangeError
            <4>1. UNCHANGED <<queue, ring, uptime, counts>>
                BY <3>4 DEF LoadEnabled, StoreEnabled, LaserPolls, LaserPoll, LoadError,
                   CheckTimeout, Expire, SetLevel, ChangeError
            <4>2. tapTask' \in {tapTask, "store", "wait"}
                BY <3>4 DEF LoadEnabled, StoreEnabled, LaserPolls, LaserPoll, LoadError,
                   CheckTimeout, Expire, SetLevel, ChangeError
            <4>3. TapType'
                BY <4>1, <4>2 DEF TypeOK, TapType, ring, counts
            <4>4. enabled' \in {enabled, Off, 0} /\ enabled' \in 0..Off
                BY <3>4, Sizes DEF LoadEnabled, StoreEnabled, LaserPolls, LaserPoll, LoadError,
                   CheckTimeout, Expire, SetLevel, ChangeError, TypeOK, LaserType, Off
            <4>5. loaded' \in BOOLEAN /\ error' \in BOOLEAN /\ lit' \in BOOLEAN
                BY <3>4 DEF LoadEnabled, StoreEnabled, LaserPolls, LaserPoll, LoadError,
                   CheckTimeout, Expire, SetLevel, ChangeError, TypeOK, LaserType
            <4>6. capture' \in {capture, "idle", "error", "enabled", "expire", "allow", "forbid"}
                BY <3>4 DEF LoadEnabled, StoreEnabled, LaserPolls, LaserPoll, LoadError,
                   CheckTimeout, Expire, SetLevel, ChangeError
            <4>7. LaserType'
                BY <4>4, <4>5, <4>6 DEF TypeOK, LaserType
            <4> QED
                BY <4>1, <4>3, <4>7 DEF TapsAccount, Recent, ring, counts
        <3> QED
            BY <1>2, <3>1, <3>2, <3>3, <3>4 DEF TapTask
    <2> QED
        BY <2>2, <2>3, <2>4 DEF TypeOK
<1> QED
    BY <1>1, <1>2 DEF Next, SetupSteps

LEMMA IInvariant == Spec => []IInv
BY InitIInv, NextIInv, PTL DEF Spec

-----------------------------------------------------------------------------
(* Every variable of the tap task, the set-up and the laser keeps its      *)
(* type, and the interrupt queue its length.                               *)
THEOREM TapLaserTypes == Spec => []TypeOK
<1>1. IInv => TypeOK
    BY DEF IInv
<1> QED
    BY <1>1, IInvariant, PTL

(* Whichever step of rr1_i2c_tap_init() fails, and however often it is     *)
(* tried again, nothing is left half set up, and the interrupt handler and *)
(* the tap task never run without what they use.                           *)
THEOREM SetupWholeOrGone == Spec => []SetupAllOrNothing
<1>1. IInv => SetupAllOrNothing
    BY DEF IInv, SetupInv
<1> QED
    BY <1>1, IInvariant, PTL

(* audit_tap_history() spends each tap at most once, and leaves no taps    *)
(* that are enough for a toggle in the ring, but for those of the first    *)
(* seconds: for every size of the ring and every number of taps a toggle   *)
(* needs.                                                                  *)
THEOREM TapsAreSpentOnce == Spec => []TogglesCostTaps
<1>1. IInv => TogglesCostTaps
    <2> SUFFICES ASSUME IInv PROVE TogglesCostTaps
        OBVIOUS
    <2>1. Cardinality(Recent) \in Nat /\ toggles * Need \in Nat
        <3>1. Recent \in SUBSET (1..Ring)
            BY DEF Recent
        <3> QED
            BY <3>1, PlacesCount, OneMoreToggle DEF IInv, TypeOK, TapType
    <2>2. /\ toggles * Need + Cardinality(Recent) <= taps /\ taps \in Nat
          /\ ~early => Cardinality(Recent) < Need
        BY DEF IInv, TapsAccount, TypeOK, TapType
    <2> QED
        BY <2>1, <2>2 DEF TogglesCostTaps
<1> QED
    BY <1>1, IInvariant, PTL
=============================================================================
