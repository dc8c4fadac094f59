------------------------- MODULE CaptureClockProofs -------------------------
(***************************************************************************)
(* Proofs about CaptureClock: the types, and one inductive invariant from  *)
(* which the extension, the PPS filter and the PPS report follow for every *)
(* pace that PaceAssumption allows.                                        *)
(***************************************************************************)
EXTENDS CaptureClock, TLAPS

-----------------------------------------------------------------------------
(* The inductive invariant.                                                *)

(* The last quarter whose first stamp changed qcItems: quarters 0 and 1    *)
(* find their slots as init_qcontrol() left them.                          *)
Turn == IF read.at = 0 THEN 1 ELSE read.at

(* The four slots stand for the quarter before turn, turn, and the two     *)
(* that follow; just these two are armed.                                  *)
Slots(items, turn) ==
  \A k \in (turn - 1)..(turn + 2) :
    /\ items[k % 4].orBits = k \div 4
    /\ items[k % 4].armed <=> k > turn

Prepared ==
  /\ read.as = read.at
  /\ Slots(qcItems, Turn)

(* Stamps are read in the order in which they were taken.                  *)
QueueOrdered ==
  /\ read.at <= quarter
  /\ \A i \in 1..Len(recv_que) : read.at <= recv_que[i].at /\ recv_que[i].at <= quarter
  /\ \A i, j \in 1..Len(recv_que) : i < j => recv_que[i].at <= recv_que[j].at

(* What waits is no older than MaxLag; a soft capture is one that          *)
(* isSoftGps remembers.                                                    *)
QueueRecent ==
  \A i \in 1..Len(recv_que) :
    /\ recv_que[i].since <= now /\ now <= recv_que[i].since + MaxLag
    /\ recv_que[i].at = quarter \/ phase + recv_que[i].since < now
    /\ recv_que[i].soft => recv_que[i].pin = "gps" /\ recv_que[i].since <= softGpsUs

(* A full queue holds a stamp.                                             *)
FullHasStamp ==
  Full => \E i \in 1..Len(recv_que) : recv_que[i].pin # "wake"

(* Quarter g has been read, or one of its stamps waits in the queue.       *)
Covered(g) ==
  \/ g <= read.at
  \/ \E i \in 1..Len(recv_que) : recv_que[i].pin # "wake" /\ recv_que[i].at = g

NoQuarterSkipped == \A g \in 0..(quarter - 1) : Covered(g)

(* If this quarter has no stamp yet, the next poll or the last real PPS    *)
(* falls into it.                                                          *)
PollInTime ==
  /\ now <= nextPoll /\ nextPoll <= now + PollPeriod
  /\ Covered(quarter) \/ phase + nextPoll < now + Quarter

RealInTime ==
  /\ realGpsUs <= now /\ softGpsUs <= now
  /\ Covered(quarter) \/ phase + realGpsUs < now + MaxLag

OutageInv ==
  /\ OutageCountedOnce
  /\ staleGpsUs <= softGpsUs + SoftWindow

(* A poll will see that the PPS is gone, or its soft capture is waiting.   *)
ReportPending ==
  gpsemittingpps /\ ~recv_que_overflow =>
    \/ nextPoll <= realGpsUs + Grace + PollPeriod
    \/ \E i \in 1..Len(recv_que) :
         recv_que[i].soft /\ recv_que[i].since <= realGpsUs + Grace + PollPeriod

CaptureInv ==
  /\ Prepared /\ QueueOrdered /\ QueueRecent /\ FullHasStamp
  /\ NoQuarterSkipped /\ PollInTime /\ RealInTime
  /\ OutageInv /\ ReportPending

-----------------------------------------------------------------------------
(* The extension.                                                          *)

SlotItems == [0..3 -> [orBits : Nat, armed : BOOLEAN]]

LEMMA Residue ==
  ASSUME NEW k \in Nat
  PROVE  /\ k % 4 \in 0..3
         /\ k \div 4 \in Nat
         /\ 4 * (k \div 4) + (k % 4) = k
         /\ (k + 4) % 4 = k % 4
         /\ (k + 4) \div 4 = (k \div 4) + 1
  OBVIOUS

LEMMA OtherResidues ==
  ASSUME NEW k \in Nat
  PROVE  /\ (k + 1) % 4 # k % 4
         /\ (k + 2) % 4 # k % 4
         /\ (k + 3) % 4 # k % 4
         /\ ((k % 4) + 2) % 4 = (k + 2) % 4
  OBVIOUS

(* A stamp of the quarter before turn, or of turn, changes nothing and     *)
(* gets its own number.                                                    *)
LEMMA OldQuarter ==
  ASSUME NEW items \in SlotItems, NEW turn \in Nat \ {0}, Slots(items, turn),
         NEW q \in Nat, q = turn - 1 \/ q = turn
  PROVE  /\ qcVisit(items, q) = items
         /\ qcExtend(items, q) = q
<1>1. q \in (turn - 1)..(turn + 2) /\ ~(q > turn)
  OBVIOUS
<1>2. items[q % 4].orBits = q \div 4 /\ ~items[q % 4].armed
  BY <1>1 DEF Slots
<1>3. qcVisit(items, q) = items
  BY <1>2 DEF qcVisit
<1>4. qcExtend(items, q) = q
  BY <1>2, Residue DEF qcExtend
<1>. QED
  BY <1>3, <1>4

(* The first stamp of the next quarter prepares the one half a range on.   *)
LEMMA NextQuarter ==
  ASSUME NEW items \in SlotItems, NEW turn \in Nat \ {0}, Slots(items, turn)
  PROVE  /\ qcVisit(items, turn + 1) \in SlotItems
         /\ Slots(qcVisit(items, turn + 1), turn + 1)
         /\ qcExtend(qcVisit(items, turn + 1), turn + 1) = turn + 1
<1>. DEFINE p == turn - 1
            idx == (turn + 1) % 4
            polar == p % 4
            next == qcVisit(items, turn + 1)
<1>1. /\ p \in Nat /\ turn = p + 1 /\ turn + 1 = p + 2 /\ turn + 2 = p + 3 /\ turn + 3 = p + 4
  OBVIOUS
<1>2. /\ idx \in 0..3 /\ polar \in 0..3 /\ idx # polar
      /\ turn % 4 \notin {idx, polar} /\ (turn + 2) % 4 \notin {idx, polar}
      /\ turn % 4 \in 0..3 /\ (turn + 2) % 4 \in 0..3
      /\ (turn + 3) % 4 = polar
      /\ (turn + 3) \div 4 = (p \div 4) + 1
  <2>1. /\ idx \in 0..3 /\ polar \in 0..3 /\ turn % 4 \in 0..3 /\ (turn + 2) % 4 \in 0..3
    BY <1>1, Residue
  <2>2. idx # polar /\ turn % 4 # polar /\ (turn + 2) % 4 # polar
    <3>1. (p + 2) % 4 # p % 4 /\ (p + 1) % 4 # p % 4 /\ (p + 3) % 4 # p % 4
      BY <1>1, OtherResidues
    <3>. QED
      BY <3>1, <1>1
  <2>3. turn % 4 # idx
    BY OtherResidues
  <2>4. (turn + 2) % 4 # idx
    <3>1. turn + 1 \in Nat /\ (turn + 1) + 1 = turn + 2
      OBVIOUS
    <3>2. ((turn + 1) + 1) % 4 # (turn + 1) % 4
      BY <3>1, OtherResidues
    <3>. QED
      BY <3>1, <3>2
  <2>5. (turn + 3) % 4 = polar /\ (turn + 3) \div 4 = (p \div 4) + 1
    BY <1>1, Residue
  <2>. QED
    BY <2>1, <2>2, <2>3, <2>4, <2>5
<1>3. (idx + 2) % 4 = polar
  <2>1. turn + 1 \in Nat /\ (turn + 1) + 2 = p + 4
    BY <1>1
  <2>2. (((turn + 1) % 4) + 2) % 4 = ((turn + 1) + 2) % 4
    BY <2>1, OtherResidues
  <2>. QED
    BY <2>1, <2>2, <1>1, Residue
<1>4. /\ items[polar].orBits = p \div 4
      /\ items[turn % 4].orBits = turn \div 4 /\ ~items[turn % 4].armed
      /\ items[idx].orBits = (turn + 1) \div 4 /\ items[idx].armed
      /\ items[(turn + 2) % 4].orBits = (turn + 2) \div 4 /\ items[(turn + 2) % 4].armed
  <2>1. /\ p \in (turn - 1)..(turn + 2)
        /\ turn \in (turn - 1)..(turn + 2) /\ ~(turn > turn)
        /\ turn + 1 \in (turn - 1)..(turn + 2) /\ turn + 1 > turn
        /\ turn + 2 \in (turn - 1)..(turn + 2) /\ turn + 2 > turn
    OBVIOUS
  <2>. QED
    BY <2>1 DEF Slots
<1>5. next = [items EXCEPT ![idx].armed = FALSE, ![polar].armed = TRUE, ![polar].orBits = @ + 1]
  BY <1>3, <1>4 DEF qcVisit
<1>6. /\ next \in SlotItems
      /\ next[turn % 4] = items[turn % 4]
      /\ next[(turn + 2) % 4] = items[(turn + 2) % 4]
      /\ next[idx].orBits = items[idx].orBits /\ ~next[idx].armed
      /\ next[polar].orBits = items[polar].orBits + 1 /\ next[polar].armed
  BY <1>2, <1>5 DEF SlotItems
<1>7. Slots(next, turn + 1)
  <2>. SUFFICES ASSUME NEW k \in turn..(turn + 3)
                PROVE  /\ next[k % 4].orBits = k \div 4
                       /\ next[k % 4].armed <=> k > turn + 1
    BY DEF Slots
  <2>1. CASE k = turn
    BY <2>1, <1>4, <1>6
  <2>2. CASE k = turn + 1
    BY <2>2, <1>4, <1>6
  <2>3. CASE k = turn + 2
    BY <2>3, <1>4, <1>6
  <2>4. CASE k = turn + 3
    BY <2>4, <1>2, <1>4, <1>6
  <2>. QED
    BY <2>1, <2>2, <2>3, <2>4
<1>8. qcExtend(next, turn + 1) = turn + 1
  <2>1. next[idx].orBits = (turn + 1) \div 4
    BY <1>4, <1>6
  <2>. QED
    BY <2>1, Residue DEF qcExtend
<1>. QED
  BY <1>6, <1>7, <1>8

-----------------------------------------------------------------------------
(* The queue.                                                              *)

LEMMA QueueType ==
  ASSUME TypeOK
  PROVE  /\ Len(recv_que) \in Nat
         /\ \A i \in 1..Len(recv_que) :
              /\ recv_que[i] \in Event
              /\ recv_que[i].pin \in {"lane", "gps", "wake"}
              /\ recv_que[i].soft \in BOOLEAN
              /\ recv_que[i].at \in Nat
              /\ recv_que[i].since \in Nat
<1>1. recv_que \in Seq(Event)
  BY DEF TypeOK
<1>2. Len(recv_que) \in Nat /\ \A i \in 1..Len(recv_que) : recv_que[i] \in Event
  BY <1>1
<1>. QED
  BY <1>2 DEF Event

(* Sending leaves the queue as it is when it is full, or adds the event at *)
(* its end.                                                                *)
LEMMA Sent ==
  ASSUME TypeOK, NEW pin \in {"lane", "gps", "wake"}, NEW soft \in BOOLEAN, Send(pin, soft)
  PROVE  /\ recv_que' \in Seq(Event)
         /\ Len(recv_que') <= QueueDepth
         /\ \/ Full /\ recv_que' = recv_que
            \/ /\ ~Full
               /\ Len(recv_que') = Len(recv_que) + 1
               /\ Len(recv_que) + 1 \in 1..Len(recv_que')
               /\ \A i \in 1..Len(recv_que) : recv_que'[i] = recv_que[i]
               /\ recv_que'[Len(recv_que) + 1]
                    = [pin |-> pin, soft |-> soft, at |-> quarter, since |-> now]
<1>. DEFINE e == [pin |-> pin, soft |-> soft, at |-> quarter, since |-> now]
<1>1. e \in Event /\ recv_que \in Seq(Event) /\ Len(recv_que) \in Nat /\ Len(recv_que) <= QueueDepth
  BY DEF TypeOK, Event
<1>2. CASE Full
  BY <1>1, <1>2 DEF Send
<1>3. CASE ~Full
  <2>1. recv_que' = Append(recv_que, e)
    BY <1>3 DEF Send
  <2>2. Len(recv_que) # QueueDepth
    BY <1>3 DEF Full
  <2>. HIDE DEF e
  <2>3. /\ Append(recv_que, e) \in Seq(Event)
        /\ Len(Append(recv_que, e)) = Len(recv_que) + 1
        /\ \A i \in 1..Len(recv_que) : Append(recv_que, e)[i] = recv_que[i]
        /\ Append(recv_que, e)[Len(recv_que) + 1] = e
    BY <1>1
  <2>4. Len(recv_que) + 1 <= QueueDepth /\ Len(recv_que) + 1 \in 1..(Len(recv_que) + 1)
    BY <2>2, <1>1, TicksAssumption
  <2>. QED
    BY <1>3, <2>1, <2>3, <2>4 DEF e
<1>. QED
  BY <1>2, <1>3

LEMMA Received ==
  ASSUME TypeOK, NEW pin, Receive(pin)
  PROVE  /\ recv_que' \in Seq(Event)
         /\ Len(recv_que) >= 1
         /\ Len(recv_que') = Len(recv_que) - 1
         /\ \A i \in 1..Len(recv_que') : recv_que'[i] = recv_que[i + 1]
         /\ Head(recv_que) = recv_que[1]
         /\ recv_que[1].pin = pin
         /\ Len(recv_que') <= QueueDepth /\ ~Full'
<1>1. recv_que \in Seq(Event) /\ recv_que # <<>> /\ Len(recv_que) \in Nat /\ Len(recv_que) <= QueueDepth
  BY DEF TypeOK, Receive
<1>2. /\ Tail(recv_que) \in Seq(Event)
      /\ Len(recv_que) >= 1
      /\ Len(Tail(recv_que)) = Len(recv_que) - 1
      /\ \A i \in 1..(Len(recv_que) - 1) : Tail(recv_que)[i] = recv_que[i + 1]
      /\ Head(recv_que) = recv_que[1]
  BY <1>1
<1>3. recv_que' = Tail(recv_que) /\ Head(recv_que).pin = pin
  BY DEF Receive
<1>4. Len(recv_que') = Len(recv_que) - 1
  BY <1>2, <1>3
<1>5. Len(recv_que') <= QueueDepth /\ ~Full'
  BY <1>1, <1>4, TicksAssumption DEF Full
<1>6. \A i \in 1..Len(recv_que') : recv_que'[i] = recv_que[i + 1]
  BY <1>2, <1>3
<1>. QED
  BY <1>2, <1>3, <1>4, <1>5, <1>6

-----------------------------------------------------------------------------
(* Types.                                                                  *)

LEMMA VisitType ==
  ASSUME NEW items \in SlotItems, NEW q \in Nat
  PROVE  qcVisit(items, q) \in SlotItems /\ qcExtend(items, q) \in Nat
<1>1. q % 4 \in 0..3
  OBVIOUS
<1>2. ((q % 4) + 2) % 4 \in 0..3
  BY <1>1
<1>3. items[q % 4].orBits \in Nat
  BY <1>1 DEF SlotItems
<1>4. qcExtend(items, q) \in Nat
  BY <1>1, <1>3 DEF qcExtend
<1>5. qcVisit(items, q) \in SlotItems
  <2>1. (q % 4) # ((q % 4) + 2) % 4
    BY OtherResidues
  <2>2. CASE items[q % 4].armed
    <3>. DEFINE idx == q % 4
                polar == (idx + 2) % 4
    <3>1. qcVisit(items, q)
            = [items EXCEPT ![idx].armed = FALSE, ![polar].armed = TRUE, ![polar].orBits = @ + 1]
      BY <2>2 DEF qcVisit
    <3>. QED
      BY <1>1, <1>2, <2>1, <3>1 DEF SlotItems
  <2>3. CASE ~items[q % 4].armed
    BY <2>3 DEF qcVisit
  <2>. QED
    BY <2>2, <2>3
<1>. QED
  BY <1>4, <1>5

LEMMA ReadType ==
  ASSUME TypeOK, NEW pin, Receive(pin), Extend(Head(recv_que).at)
  PROVE  /\ qcItems' \in SlotItems
         /\ read' \in [at : Nat, as : Nat]
         /\ read'.at = recv_que[1].at
<1>1. Head(recv_que) = recv_que[1] /\ recv_que[1].at \in Nat /\ qcItems \in SlotItems
  BY Received, QueueType DEF TypeOK, SlotItems
<1>2. /\ qcVisit(qcItems, recv_que[1].at) \in SlotItems
      /\ qcExtend(qcVisit(qcItems, recv_que[1].at), recv_que[1].at) \in Nat
  BY <1>1, VisitType
<1>. QED
  BY <1>1, <1>2 DEF Extend

LEMMA TypesKept == TypeOK /\ [Next]_vars => TypeOK'
<1>. SUFFICES ASSUME TypeOK, [Next]_vars
              PROVE  TypeOK'
  OBVIOUS
<1>. USE TicksAssumption
<1>1. CASE Tick
  BY <1>1 DEF Tick, TypeOK, queVars, gpsVars
<1>2. ASSUME NEW pin \in {"lane", "gps"}, Edge(pin)
      PROVE  TypeOK'
  <2>1. Send(pin, FALSE)
    BY <1>2 DEF Edge
  <2>2. recv_que' \in Seq(Event) /\ Len(recv_que') <= QueueDepth
    BY <2>1, Sent
  <2>3. recv_que_overflow' \in BOOLEAN
    BY <1>2 DEF Edge
  <2>4. UNCHANGED <<clockVars, qcItems, read, nextPoll, gpsVars, selfTest>>
    BY <1>2 DEF Edge
  <2>5. UNCHANGED <<now, quarter, phase, qcItems, read, nextPoll, softGpsUs, realGpsUs,
                    staleGpsUs, gpsemittingpps, selfTest>>
    BY <2>4 DEF clockVars, gpsVars
  <2>. QED
    BY <2>2, <2>3, <2>5 DEF TypeOK
<1>3. CASE awakenPoll
  <2>1. Send("wake", FALSE)
    BY <1>3 DEF awakenPoll
  <2>2. recv_que' \in Seq(Event) /\ Len(recv_que') <= QueueDepth
    BY <2>1, Sent
  <2>. QED
    BY <1>3, <2>2 DEF awakenPoll, TypeOK, clockVars, gpsVars
<1>4. CASE quadWatchdog
  <2>1. /\ recv_que' \in Seq(Event) /\ Len(recv_que') <= QueueDepth
        /\ recv_que_overflow' \in BOOLEAN
        /\ softGpsUs' \in Nat
    <3>1. CASE now < realGpsUs + Grace
      BY <1>4, <3>1 DEF quadWatchdog, TypeOK, queVars
    <3>2. CASE ~(now < realGpsUs + Grace)
      <4>1. Send("gps", TRUE) /\ softGpsUs' = now
        BY <1>4, <3>2 DEF quadWatchdog
      <4>2. recv_que_overflow' \in BOOLEAN
        BY <1>4, <3>2 DEF quadWatchdog
      <4>. QED
        BY <4>1, <4>2, Sent DEF TypeOK
    <3>. QED
      BY <3>1, <3>2
  <2>2. nextPoll' \in Nat
    BY <1>4 DEF quadWatchdog, TypeOK
  <2>. QED
    BY <1>4, <2>1, <2>2 DEF quadWatchdog, TypeOK, clockVars
<1>5. CASE ReceiveWake
  <2>1. recv_que' \in Seq(Event) /\ Len(recv_que') <= QueueDepth
    BY <1>5, Received DEF ReceiveWake
  <2>. QED
    BY <1>5, <2>1 DEF ReceiveWake, TypeOK, clockVars, gpsVars
<1>6. CASE ReceiveLane
  <2>1. /\ recv_que' \in Seq(Event) /\ Len(recv_que') <= QueueDepth
        /\ qcItems' \in SlotItems /\ read' \in [at : Nat, as : Nat]
    BY <1>6, Received, ReadType DEF ReceiveLane
  <2>. QED
    BY <1>6, <2>1 DEF ReceiveLane, TypeOK, clockVars, gpsVars, SlotItems
<1>7. CASE ReceiveGps
  <2>1. /\ recv_que' \in Seq(Event) /\ Len(recv_que') <= QueueDepth
        /\ qcItems' \in SlotItems /\ read' \in [at : Nat, as : Nat]
    BY <1>7, Received, ReadType DEF ReceiveGps
  <2>2. realGpsUs' \in Nat /\ staleGpsUs' \in Nat /\ gpsemittingpps' \in BOOLEAN
    BY <1>7 DEF ReceiveGps, SkipSoft, TakeReal, TypeOK
  <2>. QED
    BY <1>7, <2>1, <2>2 DEF ReceiveGps, TypeOK, clockVars, SlotItems
<1>8. CASE UNCHANGED vars
  BY <1>8 DEF vars, clockVars, queVars, gpsVars, TypeOK
<1>9. CASE Edge("lane") \/ Edge("gps")
  BY <1>2, <1>9
<1>. QED
  BY <1>1, <1>3, <1>4, <1>5, <1>6, <1>7, <1>8, <1>9 DEF Next

(* Every variable keeps its type and recv_que keeps within its depth, for  *)
(* every quarter, pace and depth.                                          *)
THEOREM CaptureTyping == Spec => []TypeOK
<1>1. Init => TypeOK
  <2>. SUFFICES ASSUME Init
                PROVE  TypeOK
    OBVIOUS
  <2>1. recv_que \in Seq(Event) /\ Len(recv_que) = 0
    BY DEF Init
  <2>2. qcItems \in [0..3 -> [orBits : Nat, armed : BOOLEAN]]
    BY DEF Init, FreshItems
  <2>3. Len(recv_que) <= QueueDepth /\ phase \in 0..(Quarter - 1)
    BY <2>1, TicksAssumption DEF Init
  <2>4. read \in [at : Nat, as : Nat] /\ selfTest \in {NotRun} \cup 0..SelfTestLast
    BY DEF Init
  <2>. QED
    BY <2>1, <2>2, <2>3, <2>4 DEF Init, TypeOK
<1>. QED
  BY <1>1, TypesKept, PTL DEF Spec

-----------------------------------------------------------------------------
(* What sending and receiving do to the invariant of the queue.            *)

LEMMA SendKeepsQueue ==
  ASSUME TypeOK, QueueOrdered, QueueRecent, RealInTime,
         NEW pin \in {"lane", "gps", "wake"}, NEW soft \in BOOLEAN, Send(pin, soft),
         soft => pin = "gps" /\ softGpsUs' = now,
         softGpsUs' \in {softGpsUs, now},
         UNCHANGED <<now, quarter, phase, read>>
  PROVE  /\ QueueOrdered'
         /\ QueueRecent'
         /\ \A g \in Nat : Covered(g) => Covered(g)'
         /\ \A i \in 1..Len(recv_que) :
              i \in 1..Len(recv_que') /\ recv_que'[i] = recv_que[i]
<1>. DEFINE n == Len(recv_que)
<1>1. /\ n \in Nat /\ now \in Nat /\ quarter \in Nat /\ phase \in Nat
      /\ read.at \in Nat /\ softGpsUs \in Nat
  BY QueueType DEF TypeOK
<1>2. softGpsUs <= now
  BY DEF RealInTime
<1>3. CASE Full /\ recv_que' = recv_que
  <2>1. QueueOrdered'
    BY <1>3 DEF QueueOrdered
  <2>2. QueueRecent'
    <3>1. CASE softGpsUs' = softGpsUs
      BY <1>3, <3>1 DEF QueueRecent
    <3>2. CASE softGpsUs' = now
      BY <1>3, <3>2 DEF QueueRecent
    <3>. QED
      BY <3>1, <3>2
  <2>3. \A g \in Nat : Covered(g) => Covered(g)'
    BY <1>3 DEF Covered
  <2>. QED
    BY <1>3, <2>1, <2>2, <2>3
<1>4. CASE /\ Len(recv_que') = n + 1
           /\ \A i \in 1..n : recv_que'[i] = recv_que[i]
           /\ recv_que'[n + 1] = [pin |-> pin, soft |-> soft, at |-> quarter, since |-> now]
  <2>1. \A i \in 1..Len(recv_que') : i \in 1..n \/ i = n + 1
    BY <1>1, <1>4
  <2>2. QueueOrdered'
    <3>1. \A i \in 1..Len(recv_que') : read.at <= recv_que'[i].at /\ recv_que'[i].at <= quarter
      <4>. SUFFICES ASSUME NEW i \in 1..Len(recv_que')
                    PROVE  read.at <= recv_que'[i].at /\ recv_que'[i].at <= quarter
        OBVIOUS
      <4>1. CASE i \in 1..n
        BY <4>1, <1>4 DEF QueueOrdered
      <4>2. CASE i = n + 1
        BY <4>2, <1>1, <1>4 DEF QueueOrdered
      <4>. QED
        BY <2>1, <4>1, <4>2
    <3>2. ASSUME NEW i \in 1..Len(recv_que'), NEW j \in 1..Len(recv_que'), i < j
          PROVE  recv_que'[i].at <= recv_que'[j].at
      <4>1. i \in 1..n
        BY <1>1, <1>4, <3>2
      <4>2. CASE j \in 1..n
        BY <4>1, <4>2, <1>4, <3>2 DEF QueueOrdered
      <4>3. CASE j = n + 1
        BY <4>1, <4>3, <1>4 DEF QueueOrdered
      <4>. QED
        BY <2>1, <4>2, <4>3
    <3>. QED
      BY <3>1, <3>2 DEF QueueOrdered
  <2>3. QueueRecent'
    <3>. SUFFICES ASSUME NEW i \in 1..Len(recv_que')
                  PROVE  /\ recv_que'[i].since <= now /\ now <= recv_que'[i].since + MaxLag
                         /\ recv_que'[i].at = quarter \/ phase + recv_que'[i].since < now
                         /\ recv_que'[i].soft =>
                              recv_que'[i].pin = "gps" /\ recv_que'[i].since <= softGpsUs'
      BY DEF QueueRecent
    <3>1. CASE i \in 1..n
      <4>1. recv_que'[i] = recv_que[i]
        BY <1>4, <3>1
      <4>2. /\ recv_que[i].since <= now /\ now <= recv_que[i].since + MaxLag
            /\ recv_que[i].at = quarter \/ phase + recv_que[i].since < now
            /\ recv_que[i].soft =>
                 recv_que[i].pin = "gps" /\ recv_que[i].since <= softGpsUs
        BY <3>1 DEF QueueRecent
      <4>3. recv_que[i].soft => recv_que[i].since <= softGpsUs'
        BY <4>2
      <4>. QED
        BY <4>1, <4>2, <4>3
    <3>2. CASE i = n + 1
      <4>1. now <= now + MaxLag
        BY <1>1, TicksAssumption
      <4>2. /\ recv_que'[i].since = now /\ recv_que'[i].at = quarter
            /\ recv_que'[i].soft = soft /\ recv_que'[i].pin = pin
        BY <1>4, <3>2
      <4>3. soft => now <= softGpsUs'
        BY <1>1
      <4>4. now <= now
        BY <1>1
      <4>. QED
        BY <4>1, <4>2, <4>3, <4>4
    <3>. QED
      BY <2>1, <3>1, <3>2
  <2>4. \A i \in 1..n : i \in 1..Len(recv_que') /\ recv_que'[i] = recv_que[i]
    BY <1>1, <1>4
  <2>5. \A g \in Nat : Covered(g) => Covered(g)'
    BY <2>4 DEF Covered
  <2>. QED
    BY <2>2, <2>3, <2>4, <2>5
<1>. QED
  BY <1>3, <1>4, Sent

(* A stamp that finds room stands for its quarter.                         *)
LEMMA SendCovers ==
  ASSUME TypeOK, NEW pin \in {"lane", "gps"}, NEW soft \in BOOLEAN, Send(pin, soft), ~Full,
         UNCHANGED quarter
  PROVE  Covered(quarter)'
<1>1. /\ Len(recv_que) + 1 \in 1..Len(recv_que')
      /\ recv_que'[Len(recv_que) + 1].pin # "wake"
      /\ recv_que'[Len(recv_que) + 1].at = quarter'
  <2>1. pin \in {"lane", "gps", "wake"} /\ pin # "wake"
    OBVIOUS
  <2>2. /\ Len(recv_que') = Len(recv_que) + 1
        /\ recv_que'[Len(recv_que) + 1]
             = [pin |-> pin, soft |-> soft, at |-> quarter, since |-> now]
    BY <2>1, Sent
  <2>3. Len(recv_que) \in Nat
    BY QueueType
  <2>. QED
    BY <2>1, <2>2, <2>3
<1>. QED
  BY <1>1 DEF Covered

LEMMA ReceiveKeepsQueue ==
  ASSUME TypeOK, QueueOrdered, QueueRecent, NEW pin, Receive(pin),
         \/ pin = "wake" /\ read'.at = read.at
         \/ read'.at = recv_que[1].at,
         UNCHANGED <<now, quarter, phase, softGpsUs>>
  PROVE  /\ QueueOrdered'
         /\ QueueRecent'
         /\ FullHasStamp'
         /\ \A g \in Nat : Covered(g) => Covered(g)'
         /\ \A i \in 2..Len(recv_que) :
              i - 1 \in 1..Len(recv_que') /\ recv_que'[i - 1] = recv_que[i]
<1>. DEFINE n == Len(recv_que)
<1>1. /\ n \in Nat /\ n >= 1 /\ now \in Nat /\ quarter \in Nat /\ phase \in Nat /\ read.at \in Nat
      /\ \A i \in 1..n : recv_que[i].at \in Nat
  BY QueueType, Received DEF TypeOK
<1>2. /\ Len(recv_que') = n - 1
      /\ \A i \in 1..Len(recv_que') : recv_que'[i] = recv_que[i + 1]
      /\ recv_que[1].pin = pin
  BY Received
<1>3. \A i \in 1..Len(recv_que') : i + 1 \in 1..n
  BY <1>1, <1>2
<1>4. \A i \in 2..n : i - 1 \in 1..Len(recv_que') /\ recv_que'[i - 1] = recv_que[i]
  BY <1>1, <1>2
<1>5. /\ read.at <= read'.at /\ read'.at <= quarter
      /\ \A i \in 2..n : read'.at <= recv_que[i].at
  <2>1. /\ read.at <= recv_que[1].at /\ recv_que[1].at <= quarter /\ read.at <= quarter
        /\ \A i \in 2..n : read.at <= recv_que[i].at /\ recv_que[1].at <= recv_que[i].at
    BY <1>1 DEF QueueOrdered
  <2>2. CASE read'.at = read.at
    BY <2>1, <2>2, <1>1
  <2>3. CASE read'.at = recv_que[1].at
    BY <2>1, <2>3, <1>1
  <2>. QED
    BY <2>2, <2>3
<1>6. QueueOrdered'
  <2>1. \A i \in 1..Len(recv_que') : read'.at <= recv_que'[i].at /\ recv_que'[i].at <= quarter
    <3>. TAKE i \in 1..Len(recv_que')
    <3>1. i + 1 \in 2..n /\ i + 1 \in 1..n /\ recv_que'[i] = recv_que[i + 1]
      BY <1>1, <1>2
    <3>. QED
      BY <3>1, <1>5 DEF QueueOrdered
  <2>2. ASSUME NEW i \in 1..Len(recv_que'), NEW j \in 1..Len(recv_que'), i < j
        PROVE  recv_que'[i].at <= recv_que'[j].at
    <3>1. /\ i + 1 \in 1..n /\ j + 1 \in 1..n /\ i + 1 < j + 1
          /\ recv_que'[i] = recv_que[i + 1] /\ recv_que'[j] = recv_que[j + 1]
      BY <1>1, <1>2, <2>2
    <3>. QED
      BY <3>1 DEF QueueOrdered
  <2>. QED
    BY <2>1, <2>2, <1>5 DEF QueueOrdered
<1>7. QueueRecent'
  BY <1>2, <1>3 DEF QueueRecent
<1>8. FullHasStamp'
  BY Received DEF FullHasStamp
<1>9. ASSUME NEW g \in Nat, Covered(g)
      PROVE  Covered(g)'
  <2>1. CASE g <= read.at
    <3>1. CASE read'.at = read.at
      BY <2>1, <3>1 DEF Covered
    <3>2. CASE read'.at = recv_que[1].at
      <4>1. recv_que[1].at \in Nat /\ read.at <= recv_que[1].at
        BY <1>1 DEF QueueOrdered
      <4>2. g <= recv_que[1].at
        BY <2>1, <4>1, <1>1
      <4>. QED
        BY <3>2, <4>2 DEF Covered
    <3>. QED
      BY <3>1, <3>2
  <2>2. CASE \E i \in 1..n : recv_que[i].pin # "wake" /\ recv_que[i].at = g
    <3>1. PICK i \in 1..n : recv_que[i].pin # "wake" /\ recv_que[i].at = g
      BY <2>2
    <3>2. CASE i = 1
      <4>1. read'.at = g
        BY <3>1, <3>2, <1>2
      <4>. QED
        BY <4>1 DEF Covered
    <3>3. CASE i # 1
      <4>1. i \in 2..n
        BY <3>3, <1>1
      <4>2. i - 1 \in 1..Len(recv_que') /\ recv_que'[i - 1].pin # "wake" /\ recv_que'[i - 1].at = g
        BY <4>1, <3>1, <1>4
      <4>. QED
        BY <4>2 DEF Covered
    <3>. QED
      BY <3>2, <3>3
  <2>. QED
    BY <1>9, <2>1, <2>2 DEF Covered
<1>. QED
  BY <1>4, <1>6, <1>7, <1>8, <1>9

(* The stamp at the head is of the quarter last read or of the next one:   *)
(* the quarters between have been covered, and by nothing behind the head. *)
LEMMA HeadIsNext ==
  ASSUME TypeOK, QueueOrdered, NoQuarterSkipped, Len(recv_que) >= 1
  PROVE  recv_que[1].at = read.at \/ recv_que[1].at = read.at + 1
<1>. DEFINE h == recv_que[1].at
<1>1. /\ h \in Nat /\ read.at \in Nat /\ quarter \in Nat /\ Len(recv_que) \in Nat
      /\ read.at <= h /\ h <= quarter
      /\ \A i \in 1..Len(recv_que) : recv_que[i].at \in Nat /\ h <= recv_que[i].at
  <2>1. /\ 1 \in 1..Len(recv_que) /\ read.at \in Nat /\ quarter \in Nat /\ Len(recv_que) \in Nat
        /\ \A i \in 1..Len(recv_que) : recv_que[i].at \in Nat
    BY QueueType DEF TypeOK
  <2>2. \A i \in 1..Len(recv_que) : i = 1 \/ 1 < i
    BY <2>1
  <2>. QED
    BY <2>1, <2>2 DEF QueueOrdered
<1>2. ASSUME h > read.at + 1
      PROVE  FALSE
  <2>1. read.at + 1 \in 0..(quarter - 1)
    BY <1>1, <1>2
  <2>2. Covered(read.at + 1)
    BY <2>1 DEF NoQuarterSkipped
  <2>3. \E i \in 1..Len(recv_que) : recv_que[i].at = read.at + 1
    BY <1>1, <2>2 DEF Covered
  <2>. QED
    BY <1>1, <1>2, <2>3
<1>. QED
  BY <1>1, <1>2

LEMMA ExtendKeepsPrepared ==
  ASSUME TypeOK, Prepared, QueueOrdered, NoQuarterSkipped,
         NEW pin, Receive(pin), Extend(Head(recv_que).at)
  PROVE  Prepared'
<1>. DEFINE h == recv_que[1].at
<1>1. /\ Head(recv_que) = recv_que[1] /\ h \in Nat /\ qcItems \in SlotItems
      /\ read.at \in Nat /\ Turn \in Nat \ {0}
  BY Received, QueueType DEF TypeOK, SlotItems, Turn
<1>2. /\ qcItems' = qcVisit(qcItems, h)
      /\ read'.at = h
      /\ read'.as = qcExtend(qcVisit(qcItems, h), h)
  BY <1>1 DEF Extend
<1>3. Slots(qcItems, Turn)
  BY DEF Prepared
<1>4. h = read.at \/ h = read.at + 1
  BY HeadIsNext, Received
<1>5. CASE h = Turn - 1 \/ h = Turn
  <2>1. qcItems' = qcItems /\ read'.as = read'.at
    BY <1>1, <1>2, <1>3, <1>5, OldQuarter
  <2>2. Turn' = Turn
    <3>1. CASE read.at = 0
      BY <1>2, <1>5, <3>1 DEF Turn
    <3>2. CASE read.at # 0
      <4>1. h = read.at
        BY <1>1, <1>4, <1>5, <3>2 DEF Turn
      <4>. QED
        BY <1>2, <4>1 DEF Turn
    <3>. QED
      BY <3>1, <3>2
  <2>. QED
    BY <1>3, <2>1, <2>2 DEF Prepared, Slots
<1>6. CASE h = Turn + 1
  <2>1. Slots(qcItems', Turn + 1) /\ read'.as = Turn + 1
    BY <1>1, <1>2, <1>3, <1>6, NextQuarter
  <2>2. Turn' = Turn + 1
    BY <1>1, <1>2, <1>6 DEF Turn
  <2>. QED
    BY <1>2, <1>6, <2>1, <2>2 DEF Prepared, Slots
<1>7. h = Turn - 1 \/ h = Turn \/ h = Turn + 1
  BY <1>1, <1>4 DEF Turn
<1>. QED
  BY <1>5, <1>6, <1>7

-----------------------------------------------------------------------------
(* The invariant, action by action.                                        *)

LEMMA TickKeeps ==
  ASSUME TypeOK, CaptureInv, Tick
  PROVE  CaptureInv'
<1>1. /\ UNCHANGED <<recv_que, recv_que_overflow, qcItems, read, nextPoll,
                     softGpsUs, realGpsUs, staleGpsUs, gpsemittingpps>>
      /\ now' = now + 1 /\ now < nextPoll
      /\ \A i \in 1..Len(recv_que) : now - recv_que[i].since < MaxLag
  <2>1. DOMAIN recv_que = 1..Len(recv_que)
    BY DEF TypeOK
  <2>. QED
    BY <2>1 DEF Tick, queVars, gpsVars
<1>2. /\ now \in Nat /\ quarter \in Nat /\ phase \in Nat /\ phase < Quarter
      /\ nextPoll \in Nat /\ realGpsUs \in Nat /\ softGpsUs \in Nat /\ read.at \in Nat
      /\ Quarter \in Nat \ {0} /\ MaxLag \in Nat /\ PollPeriod \in Nat /\ Grace \in Nat
  BY TicksAssumption DEF TypeOK
<1>3. \A i \in 1..Len(recv_que) : recv_que[i].at \in Nat /\ recv_que[i].since \in Nat
  BY QueueType
<1>4. \A g : Covered(g)' <=> Covered(g)
  BY <1>1 DEF Covered
<1>5. Prepared' /\ OutageInv' /\ ReportPending' /\ FullHasStamp'
  <2>1. Prepared' /\ FullHasStamp'
    BY <1>1 DEF CaptureInv, Prepared, Slots, Turn, FullHasStamp, Full
  <2>2. OutageInv' /\ ReportPending'
    BY <1>1 DEF CaptureInv, OutageInv, OutageCountedOnce, ReportPending
  <2>. QED
    BY <2>1, <2>2
<1>6. CASE phase + 1 = Quarter
  <2>1. phase' = 0 /\ quarter' = quarter + 1
    BY <1>6 DEF Tick
  <2>2. Covered(quarter)
    BY <1>1, <1>2, <1>6 DEF CaptureInv, PollInTime
  <2>3. QueueOrdered'
    BY <1>1, <1>2, <1>3, <2>1 DEF CaptureInv, QueueOrdered
  <2>4. QueueRecent'
    <3>. SUFFICES ASSUME NEW i \in 1..Len(recv_que)
                  PROVE  /\ recv_que[i].since <= now + 1 /\ now + 1 <= recv_que[i].since + MaxLag
                         /\ 0 + recv_que[i].since < now + 1
                         /\ recv_que[i].soft =>
                              recv_que[i].pin = "gps" /\ recv_que[i].since <= softGpsUs
      BY <1>1, <2>1 DEF QueueRecent
    <3>1. recv_que[i].since <= now
      BY DEF CaptureInv, QueueRecent
    <3>2. now - recv_que[i].since < MaxLag
      BY <1>1
    <3>3. recv_que[i].soft => recv_que[i].pin = "gps" /\ recv_que[i].since <= softGpsUs
      BY DEF CaptureInv, QueueRecent
    <3>. QED
      BY <1>2, <1>3, <3>1, <3>2, <3>3
  <2>5. NoQuarterSkipped'
    <3>1. \A g \in 0..quarter : g \in 0..(quarter - 1) \/ g = quarter
      BY <1>2
    <3>2. \A g \in 0..quarter : Covered(g)
      BY <2>2, <3>1 DEF CaptureInv, NoQuarterSkipped
    <3>3. quarter' - 1 = quarter
      BY <1>2, <2>1
    <3>. QED
      BY <1>4, <3>2, <3>3 DEF NoQuarterSkipped
  <2>6. PollInTime'
    <3>1. now <= nextPoll /\ nextPoll <= now + PollPeriod
      BY DEF CaptureInv, PollInTime
    <3>2. PollPeriod <= Quarter
      BY <1>2, PaceAssumption
    <3>3. /\ now + 1 <= nextPoll /\ nextPoll <= (now + 1) + PollPeriod
          /\ 0 + nextPoll < (now + 1) + Quarter
      BY <1>1, <1>2, <3>1, <3>2
    <3>. QED
      BY <1>1, <2>1, <3>3 DEF PollInTime
  <2>7. RealInTime'
    <3>1. realGpsUs <= now /\ softGpsUs <= now
      BY DEF CaptureInv, RealInTime
    <3>2. MaxLag \in Nat \ {0}
      BY TicksAssumption
    <3>3. /\ realGpsUs <= now + 1 /\ softGpsUs <= now + 1
          /\ 0 + realGpsUs < (now + 1) + MaxLag
      BY <1>2, <3>1, <3>2
    <3>. QED
      BY <1>1, <2>1, <3>3 DEF RealInTime
  <2>. QED
    BY <1>5, <2>3, <2>4, <2>5, <2>6, <2>7 DEF CaptureInv
<1>7. CASE phase + 1 # Quarter
  <2>1. phase' = phase + 1 /\ quarter' = quarter
    BY <1>7 DEF Tick
  <2>2. QueueOrdered'
    BY <1>1, <2>1 DEF CaptureInv, QueueOrdered
  <2>3. QueueRecent'
    <3>. SUFFICES ASSUME NEW i \in 1..Len(recv_que)
                  PROVE  /\ recv_que[i].since <= now + 1 /\ now + 1 <= recv_que[i].since + MaxLag
                         /\ recv_que[i].at = quarter \/ (phase + 1) + recv_que[i].since < now + 1
                         /\ recv_que[i].soft =>
                              recv_que[i].pin = "gps" /\ recv_que[i].since <= softGpsUs
      BY <1>1, <2>1 DEF QueueRecent
    <3>1. /\ recv_que[i].since <= now
          /\ recv_que[i].at = quarter \/ phase + recv_que[i].since < now
      BY DEF CaptureInv, QueueRecent
    <3>2. now - recv_que[i].since < MaxLag
      BY <1>1
    <3>3. recv_que[i].soft => recv_que[i].pin = "gps" /\ recv_que[i].since <= softGpsUs
      BY DEF CaptureInv, QueueRecent
    <3>. QED
      BY <1>2, <1>3, <3>1, <3>2, <3>3
  <2>4. NoQuarterSkipped'
    BY <1>4, <2>1 DEF CaptureInv, NoQuarterSkipped
  <2>5. PollInTime'
    <3>1. /\ now <= nextPoll /\ nextPoll <= now + PollPeriod
          /\ Covered(quarter) \/ phase + nextPoll < now + Quarter
      BY DEF CaptureInv, PollInTime
    <3>2. /\ now + 1 <= nextPoll /\ nextPoll <= (now + 1) + PollPeriod
          /\ Covered(quarter) \/ (phase + 1) + nextPoll < (now + 1) + Quarter
      BY <1>1, <1>2, <3>1
    <3>3. Covered(quarter) => Covered(quarter)'
      BY <1>1, <2>1 DEF Covered
    <3>. QED
      BY <1>1, <2>1, <3>2, <3>3 DEF PollInTime
  <2>6. RealInTime'
    <3>1. /\ realGpsUs <= now /\ softGpsUs <= now
          /\ Covered(quarter) \/ phase + realGpsUs < now + MaxLag
      BY DEF CaptureInv, RealInTime
    <3>2. /\ realGpsUs <= now + 1 /\ softGpsUs <= now + 1
          /\ Covered(quarter) \/ (phase + 1) + realGpsUs < (now + 1) + MaxLag
      BY <1>2, <3>1
    <3>3. Covered(quarter) => Covered(quarter)'
      BY <1>1, <2>1 DEF Covered
    <3>. QED
      BY <1>1, <2>1, <3>2, <3>3 DEF RealInTime
  <2>. QED
    BY <1>5, <2>2, <2>3, <2>4, <2>5, <2>6 DEF CaptureInv
<1>. QED
  BY <1>6, <1>7

(* What an action that keeps the quarters covered keeps with them.         *)
LEMMA CoverKept ==
  ASSUME TypeOK, UNCHANGED quarter, \A g \in Nat : Covered(g) => Covered(g)'
  PROVE  /\ NoQuarterSkipped => NoQuarterSkipped'
         /\ Covered(quarter) => Covered(quarter)'
<1>1. quarter \in Nat /\ \A g \in 0..(quarter - 1) : g \in Nat
  BY DEF TypeOK
<1>2. NoQuarterSkipped => NoQuarterSkipped'
  BY <1>1 DEF NoQuarterSkipped
<1>3. Covered(quarter) => Covered(quarter)'
  <2>1. Covered(quarter) => \E g \in Nat : g = quarter /\ Covered(g)
    BY <1>1
  <2>2. ASSUME NEW g \in Nat, g = quarter, Covered(g)
        PROVE  Covered(quarter)'
    <3>1. Covered(g)' /\ quarter' = g
      BY <2>2
    <3>. QED
      BY <3>1 DEF Covered
  <2>. QED
    BY <2>1, <2>2
<1>. QED
  BY <1>2, <1>3

(* An edge, or a wake that finds room or a stamp in the queue.             *)
LEMMA EdgeKeeps ==
  ASSUME TypeOK, CaptureInv, NEW pin \in {"lane", "gps", "wake"}, Send(pin, FALSE),
         pin = "wake" => awakenPoll,
         recv_que_overflow => recv_que_overflow',
         UNCHANGED <<clockVars, qcItems, read, nextPoll, gpsVars>>
  PROVE  CaptureInv'
<1>1. UNCHANGED <<now, quarter, phase, qcItems, read, nextPoll,
                  softGpsUs, realGpsUs, staleGpsUs, gpsemittingpps>>
  BY DEF clockVars, gpsVars
<1>2. /\ QueueOrdered' /\ QueueRecent'
      /\ \A g \in Nat : Covered(g) => Covered(g)'
      /\ \A i \in 1..Len(recv_que) : i \in 1..Len(recv_que') /\ recv_que'[i] = recv_que[i]
  BY <1>1, SendKeepsQueue DEF CaptureInv
<1>3. FullHasStamp'
  <2>1. ASSUME NEW i \in 1..Len(recv_que), recv_que[i].pin # "wake"
        PROVE  FullHasStamp'
    BY <1>2, <2>1 DEF FullHasStamp
  <2>2. CASE Full
    BY <2>1, <2>2 DEF CaptureInv, FullHasStamp
  <2>3. CASE ~Full /\ pin # "wake"
    <3>1. /\ Len(recv_que) + 1 \in 1..Len(recv_que')
          /\ recv_que'[Len(recv_que) + 1]
               = [pin |-> pin, soft |-> FALSE, at |-> quarter, since |-> now]
      BY <2>3, Sent
    <3>2. recv_que'[Len(recv_que) + 1].pin # "wake"
      BY <2>3, <3>1
    <3>. QED
      BY <3>1, <3>2 DEF FullHasStamp
  <2>4. CASE ~Full /\ pin = "wake" /\ Len(recv_que) + 1 < QueueDepth
    <3>1. Len(recv_que') = Len(recv_que) + 1 /\ Len(recv_que) \in Nat
      BY <2>4, Sent, QueueType
    <3>2. Len(recv_que') # QueueDepth
      BY <2>4, <3>1, TicksAssumption
    <3>. QED
      BY <3>2 DEF FullHasStamp, Full
  <2>5. CASE \E i \in DOMAIN recv_que : recv_que[i].pin # "wake"
    <3>1. DOMAIN recv_que = 1..Len(recv_que)
      BY DEF TypeOK
    <3>. QED
      BY <2>1, <2>5, <3>1
  <2>. QED
    BY <2>2, <2>3, <2>4, <2>5 DEF awakenPoll
<1>4. Prepared' /\ OutageInv'
  BY <1>1 DEF CaptureInv, Prepared, Slots, Turn, OutageInv, OutageCountedOnce
<1>6. NoQuarterSkipped'
  BY <1>1, <1>2, CoverKept DEF CaptureInv
<1>7. Covered(quarter) => Covered(quarter)'
  BY <1>1, <1>2, CoverKept
<1>8. PollInTime' /\ RealInTime'
  <2>1. PollInTime'
    BY <1>1, <1>7 DEF CaptureInv, PollInTime
  <2>2. RealInTime'
    BY <1>1, <1>7 DEF CaptureInv, RealInTime
  <2>. QED
    BY <2>1, <2>2
<1>9. ReportPending'
  BY <1>1, <1>2 DEF CaptureInv, ReportPending
<1>. QED
  BY <1>2, <1>3, <1>4, <1>6, <1>8, <1>9 DEF CaptureInv

(* The poll is on time; with PPS it leaves the stamps to the PPS, without  *)
(* it makes one.                                                           *)
LEMMA WatchdogKeeps ==
  ASSUME TypeOK, CaptureInv, quadWatchdog
  PROVE  CaptureInv'
<1>1. /\ UNCHANGED <<now, quarter, phase, qcItems, read, realGpsUs, staleGpsUs, gpsemittingpps>>
      /\ nextPoll' = now + PollPeriod
      /\ now >= nextPoll
  BY DEF quadWatchdog, clockVars
<1>2. /\ now \in Nat /\ quarter \in Nat /\ phase \in Nat
      /\ nextPoll \in Nat /\ realGpsUs \in Nat /\ softGpsUs \in Nat /\ staleGpsUs \in Nat
      /\ Quarter \in Nat /\ MaxLag \in Nat /\ PollPeriod \in Nat /\ Grace \in Nat
      /\ SoftWindow \in Nat
  BY TicksAssumption DEF TypeOK
<1>3. now = nextPoll
  BY <1>1, <1>2 DEF CaptureInv, PollInTime
<1>4. Prepared'
  BY <1>1 DEF CaptureInv, Prepared, Slots, Turn
<1>5. /\ PollInTime' <=> Covered(quarter)' \/ phase + PollPeriod < Quarter
      /\ now <= now + PollPeriod
  <2>1. now <= now + PollPeriod /\ now + PollPeriod <= now + PollPeriod
    BY <1>2
  <2>2. phase + (now + PollPeriod) < now + Quarter <=> phase + PollPeriod < Quarter
    BY <1>2
  <2>. QED
    BY <1>1, <2>1, <2>2 DEF PollInTime
<1>6. CASE now < realGpsUs + Grace
  <2>1. UNCHANGED <<softGpsUs, recv_que, recv_que_overflow>>
    BY <1>6 DEF quadWatchdog, queVars
  <2>2. \A g : Covered(g)' <=> Covered(g)
    BY <1>1, <2>1 DEF Covered
  <2>3. QueueOrdered' /\ QueueRecent' /\ FullHasStamp'
    BY <1>1, <2>1 DEF CaptureInv, QueueOrdered, QueueRecent, FullHasStamp, Full
  <2>4. NoQuarterSkipped'
    BY <1>1, <2>2 DEF CaptureInv, NoQuarterSkipped
  <2>5. RealInTime' /\ OutageInv'
    BY <1>1, <2>1 DEF CaptureInv, RealInTime, OutageInv, OutageCountedOnce, Covered
  <2>6. PollInTime'
    <3>1. Covered(quarter) => Covered(quarter)'
      BY <1>1, <2>1 DEF Covered
    <3>2. phase + realGpsUs < now + MaxLag => phase + PollPeriod < Quarter
      BY <1>2, <1>6, PaceAssumption
    <3>. QED
      BY <1>5, <3>1, <3>2 DEF CaptureInv, RealInTime
  <2>7. ReportPending'
    <3>1. now + PollPeriod <= realGpsUs + Grace + PollPeriod
      BY <1>2, <1>6
    <3>. QED
      BY <1>1, <3>1 DEF ReportPending
  <2>. QED
    BY <1>4, <2>3, <2>4, <2>5, <2>6, <2>7 DEF CaptureInv
<1>7. CASE ~(now < realGpsUs + Grace)
  <2>1. /\ softGpsUs' = now
        /\ Send("gps", TRUE)
        /\ Full => recv_que_overflow'
        /\ recv_que_overflow => recv_que_overflow'
    BY <1>7 DEF quadWatchdog
  <2>2. /\ QueueOrdered' /\ QueueRecent'
        /\ \A g \in Nat : Covered(g) => Covered(g)'
        /\ \A i \in 1..Len(recv_que) : i \in 1..Len(recv_que') /\ recv_que'[i] = recv_que[i]
    BY <1>1, <2>1, SendKeepsQueue DEF CaptureInv
  <2>3. ~Full => Covered(quarter)'
    BY <1>1, <2>1, SendCovers
  <2>4. ~Full => /\ Len(recv_que) + 1 \in 1..Len(recv_que')
                 /\ recv_que'[Len(recv_que) + 1]
                      = [pin |-> "gps", soft |-> TRUE, at |-> quarter, since |-> now]
    BY <2>1, Sent
  <2>5. FullHasStamp'
    <3>1. CASE Full
      <4>1. PICK i \in 1..Len(recv_que) : recv_que[i].pin # "wake"
        BY <3>1 DEF CaptureInv, FullHasStamp
      <4>. QED
        BY <2>2, <4>1 DEF FullHasStamp
    <3>2. CASE ~Full
      BY <2>4, <3>2 DEF FullHasStamp
    <3>. QED
      BY <3>1, <3>2
  <2>6. NoQuarterSkipped'
    BY <1>1, <2>2, CoverKept DEF CaptureInv
  <2>7. Full => Covered(quarter)' \/ phase < MaxLag
    <3>. SUFFICES ASSUME Full
                  PROVE  Covered(quarter)' \/ phase < MaxLag
      OBVIOUS
    <3>1. PICK i \in 1..Len(recv_que) : recv_que[i].pin # "wake"
      BY DEF CaptureInv, FullHasStamp
    <3>2. CASE recv_que[i].at = quarter
      <4>1. i \in 1..Len(recv_que') /\ recv_que'[i].pin # "wake" /\ recv_que'[i].at = quarter'
        BY <1>1, <2>2, <3>1, <3>2
      <4>. QED
        BY <4>1 DEF Covered
    <3>3. CASE recv_que[i].at # quarter
      <4>1. phase + recv_que[i].since < now /\ now <= recv_que[i].since + MaxLag
        BY <3>3 DEF CaptureInv, QueueRecent
      <4>2. recv_que[i].since \in Nat
        BY QueueType
      <4>. QED
        BY <1>2, <4>1, <4>2
    <3>. QED
      BY <3>2, <3>3
  <2>8. PollInTime'
    <3>1. phase < MaxLag => phase + PollPeriod < Quarter
      BY <1>2, PaceAssumption
    <3>. QED
      BY <1>5, <2>3, <2>7, <3>1
  <2>9. RealInTime'
    <3>1. realGpsUs <= now /\ now <= now
      BY <1>2 DEF CaptureInv, RealInTime
    <3>2. phase < MaxLag => phase + realGpsUs < now + MaxLag
      BY <1>2, <3>1
    <3>. QED
      BY <1>1, <2>1, <2>3, <2>7, <3>1, <3>2 DEF RealInTime
  <2>10. OutageInv'
    <3>1. staleGpsUs <= now + SoftWindow
      BY <1>2 DEF CaptureInv, OutageInv, RealInTime
    <3>. QED
      BY <1>1, <2>1, <3>1 DEF CaptureInv, OutageInv, OutageCountedOnce
  <2>11. ReportPending'
    <3>. SUFFICES ASSUME gpsemittingpps, ~recv_que_overflow'
                  PROVE  \E i \in 1..Len(recv_que') :
                           recv_que'[i].soft /\ recv_que'[i].since <= realGpsUs + Grace + PollPeriod
      BY <1>1 DEF ReportPending
    <3>1. ~Full /\ ~recv_que_overflow
      BY <2>1
    <3>2. CASE nextPoll <= realGpsUs + Grace + PollPeriod
      <4>1. /\ recv_que'[Len(recv_que) + 1].soft
            /\ recv_que'[Len(recv_que) + 1].since <= realGpsUs + Grace + PollPeriod
        BY <1>3, <2>4, <3>1, <3>2
      <4>. QED
        BY <2>4, <3>1, <4>1
    <3>3. CASE \E i \in 1..Len(recv_que) :
                 recv_que[i].soft /\ recv_que[i].since <= realGpsUs + Grace + PollPeriod
      BY <2>2, <3>3
    <3>. QED
      BY <3>1, <3>2, <3>3 DEF CaptureInv, ReportPending
  <2>. QED
    BY <1>4, <2>2, <2>5, <2>6, <2>8, <2>9, <2>10, <2>11 DEF CaptureInv
<1>. QED
  BY <1>6, <1>7

(* Taking a wake or a stamp of a lane, none of which is a soft capture.    *)
LEMMA WakeOrLaneTaken ==
  ASSUME TypeOK, CaptureInv, NEW pin \in {"wake", "lane"}, Receive(pin),
         \/ pin = "wake" /\ UNCHANGED <<qcItems, read>>
         \/ Extend(Head(recv_que).at),
         UNCHANGED <<clockVars, recv_que_overflow, nextPoll, gpsVars>>
  PROVE  CaptureInv'
<1>1. UNCHANGED <<now, quarter, phase, nextPoll, softGpsUs, realGpsUs, staleGpsUs, gpsemittingpps>>
  BY DEF clockVars, gpsVars
<1>2. (pin = "wake" /\ read'.at = read.at) \/ read'.at = recv_que[1].at
  BY ReadType
<1>3. /\ QueueOrdered' /\ QueueRecent' /\ FullHasStamp'
      /\ \A g \in Nat : Covered(g) => Covered(g)'
      /\ \A i \in 2..Len(recv_que) :
           i - 1 \in 1..Len(recv_que') /\ recv_que'[i - 1] = recv_que[i]
  BY <1>1, <1>2, ReceiveKeepsQueue DEF CaptureInv
<1>4. Prepared'
  <2>1. CASE UNCHANGED <<qcItems, read>>
    BY <2>1 DEF CaptureInv, Prepared, Slots, Turn
  <2>2. CASE Extend(Head(recv_que).at)
    BY <2>2, ExtendKeepsPrepared DEF CaptureInv
  <2>. QED
    BY <2>1, <2>2
<1>5. NoQuarterSkipped' /\ (Covered(quarter) => Covered(quarter)')
  BY <1>1, <1>3, CoverKept DEF CaptureInv
<1>6. PollInTime'
  BY <1>1, <1>5 DEF CaptureInv, PollInTime
<1>7. RealInTime'
  BY <1>1, <1>5 DEF CaptureInv, RealInTime
<1>8. OutageInv'
  BY <1>1 DEF CaptureInv, OutageInv, OutageCountedOnce
<1>9. ReportPending'
  <2>. SUFFICES ASSUME NEW i \in 1..Len(recv_que), recv_que[i].soft,
                       recv_que[i].since <= realGpsUs + Grace + PollPeriod
                PROVE  \E j \in 1..Len(recv_que') :
                         recv_que'[j].soft /\ recv_que'[j].since <= realGpsUs + Grace + PollPeriod
    BY <1>1 DEF CaptureInv, ReportPending
  <2>1. recv_que[i].pin = "gps" /\ recv_que[1].pin = pin
    BY Received DEF CaptureInv, QueueRecent
  <2>2. i \in 2..Len(recv_que)
    <3>1. i # 1 /\ Len(recv_que) \in Nat
      BY <2>1, QueueType
    <3>. QED
      BY <3>1
  <2>. QED
    BY <1>3, <2>2
<1>. QED
  BY <1>3, <1>4, <1>5, <1>6, <1>7, <1>8, <1>9 DEF CaptureInv

(* A soft capture is taken while isSoftGps still remembers it.             *)
LEMMA SoftIsRecent ==
  ASSUME TypeOK, QueueRecent, Len(recv_que) >= 1, recv_que[1].soft
  PROVE  isSoftGps
<1>1. 1 \in 1..Len(recv_que) /\ recv_que[1].since \in Nat /\ now \in Nat /\ softGpsUs \in Nat
  <2>1. 1 \in 1..Len(recv_que)
    BY QueueType
  <2>. QED
    BY <2>1, QueueType DEF TypeOK
<1>2. recv_que[1].since <= softGpsUs /\ now <= recv_que[1].since + MaxLag
  BY <1>1 DEF QueueRecent
<1>. QED
  BY <1>1, <1>2, TicksAssumption, PaceAssumption DEF isSoftGps

LEMMA GpsTaken ==
  ASSUME TypeOK, CaptureInv, ReceiveGps
  PROVE  CaptureInv'
<1>1. /\ Receive("gps")
      /\ Extend(Head(recv_que).at)
      /\ IF isSoftGps THEN SkipSoft ELSE TakeReal
      /\ UNCHANGED <<now, quarter, phase, recv_que_overflow, nextPoll, softGpsUs>>
  BY DEF ReceiveGps, clockVars
<1>2. /\ now \in Nat /\ quarter \in Nat /\ phase \in Nat
      /\ nextPoll \in Nat /\ realGpsUs \in Nat /\ softGpsUs \in Nat /\ staleGpsUs \in Nat
      /\ MaxLag \in Nat \ {0} /\ PollPeriod \in Nat /\ Grace \in Nat /\ SoftWindow \in Nat
  BY TicksAssumption DEF TypeOK
<1>3. read'.at = recv_que[1].at /\ Len(recv_que) >= 1
  BY <1>1, ReadType, Received
<1>4. /\ QueueOrdered' /\ QueueRecent' /\ FullHasStamp'
      /\ \A g \in Nat : Covered(g) => Covered(g)'
  BY <1>1, <1>3, ReceiveKeepsQueue DEF CaptureInv
<1>5. Prepared'
  BY <1>1, ExtendKeepsPrepared DEF CaptureInv
<1>6. NoQuarterSkipped' /\ (Covered(quarter) => Covered(quarter)')
  BY <1>1, <1>4, CoverKept DEF CaptureInv
<1>7. PollInTime'
  BY <1>1, <1>6 DEF CaptureInv, PollInTime
<1>8. realGpsUs <= now /\ softGpsUs <= now /\ nextPoll <= now + PollPeriod
  BY DEF CaptureInv, RealInTime, PollInTime
<1>9. CASE isSoftGps
  <2>1. ~gpsemittingpps' /\ staleGpsUs' = realGpsUs /\ realGpsUs' = realGpsUs
    BY <1>1, <1>9 DEF SkipSoft
  <2>2. RealInTime'
    BY <1>1, <1>6, <2>1 DEF CaptureInv, RealInTime
  <2>3. realGpsUs <= softGpsUs + SoftWindow
    BY <1>2, <1>8, <1>9 DEF isSoftGps
  <2>4. OutageInv'
    BY <1>1, <2>1, <2>3 DEF OutageInv, OutageCountedOnce
  <2>5. ReportPending'
    BY <2>1 DEF ReportPending
  <2>. QED
    BY <1>4, <1>5, <1>6, <1>7, <2>2, <2>4, <2>5 DEF CaptureInv
<1>10. CASE ~isSoftGps
  <2>1. gpsemittingpps' /\ realGpsUs' = now /\ staleGpsUs' = staleGpsUs
    BY <1>1, <1>10 DEF TakeReal
  <2>2. Covered(quarter)' \/ phase < MaxLag
    <3>1. 1 \in 1..Len(recv_que) /\ recv_que[1].at \in Nat /\ recv_que[1].since \in Nat
      BY <1>3, QueueType
    <3>2. CASE recv_que[1].at = quarter
      <4>1. quarter' <= read'.at
        BY <1>1, <1>2, <1>3, <3>2
      <4>. QED
        BY <4>1 DEF Covered
    <3>3. CASE recv_que[1].at # quarter
      <4>1. phase + recv_que[1].since < now /\ now <= recv_que[1].since + MaxLag
        BY <3>1, <3>3 DEF CaptureInv, QueueRecent
      <4>. QED
        BY <1>2, <3>1, <4>1
    <3>. QED
      BY <3>2, <3>3
  <2>3. RealInTime'
    <3>1. phase < MaxLag => phase + now < now + MaxLag
      BY <1>2
    <3>2. now <= now
      BY <1>2
    <3>. QED
      BY <1>1, <1>8, <2>1, <2>2, <3>1, <3>2 DEF RealInTime
  <2>4. OutageInv'
    <3>1. staleGpsUs <= softGpsUs + SoftWindow
      BY DEF CaptureInv, OutageInv
    <3>2. staleGpsUs # now
      BY <1>2, <1>10, <3>1 DEF isSoftGps
    <3>. QED
      BY <1>1, <2>1, <3>1, <3>2 DEF OutageInv, OutageCountedOnce
  <2>5. ReportPending'
    <3>1. nextPoll <= now + Grace + PollPeriod
      BY <1>2, <1>8
    <3>. QED
      BY <1>1, <2>1, <3>1 DEF ReportPending
  <2>. QED
    BY <1>4, <1>5, <1>6, <1>7, <2>3, <2>4, <2>5 DEF CaptureInv
<1>. QED
  BY <1>9, <1>10

LEMMA InitCaptureInv == Init => CaptureInv
<1>. SUFFICES ASSUME Init
              PROVE  CaptureInv
  OBVIOUS
<1>1. /\ now = 0 /\ quarter = 0 /\ phase = 0 /\ nextPoll = 0
      /\ softGpsUs = 0 /\ realGpsUs = 0 /\ staleGpsUs = 0 /\ ~gpsemittingpps
      /\ read.at = 0 /\ read.as = 0 /\ qcItems = FreshItems /\ Len(recv_que) = 0
  BY DEF Init
<1>2. Prepared
  <2>1. Turn = 1
    BY <1>1 DEF Turn
  <2>2. Slots(FreshItems, 1)
    <3>. SUFFICES ASSUME NEW k \in 0..3
                  PROVE  /\ FreshItems[k % 4].orBits = k \div 4
                         /\ FreshItems[k % 4].armed <=> k > 1
      BY DEF Slots
    <3>1. k % 4 = k /\ k \div 4 = 0
      OBVIOUS
    <3>2. FreshItems[k] = [orBits |-> 0, armed |-> k \in {2, 3}]
      BY DEF FreshItems
    <3>3. FreshItems[k].orBits = 0 /\ FreshItems[k].armed = (k \in {2, 3})
      BY ONLY <3>2
    <3>4. k \in {2, 3} <=> k > 1
      OBVIOUS
    <3>5. FreshItems[k].armed <=> k > 1
      BY <3>3, <3>4, Zenon
    <3>. QED
      BY <3>1, <3>3, <3>5
  <2>. QED
    BY <1>1, <2>1, <2>2 DEF Prepared
<1>3. QueueOrdered /\ QueueRecent /\ FullHasStamp
  BY <1>1, TicksAssumption DEF QueueOrdered, QueueRecent, FullHasStamp, Full
<1>4. NoQuarterSkipped /\ Covered(quarter)
  BY <1>1 DEF NoQuarterSkipped, Covered
<1>5. PollInTime /\ RealInTime
  BY <1>1, <1>4, TicksAssumption DEF PollInTime, RealInTime
<1>6. OutageInv /\ ReportPending
  BY <1>1, TicksAssumption DEF OutageInv, OutageCountedOnce, ReportPending
<1>. QED
  BY <1>2, <1>3, <1>4, <1>5, <1>6 DEF CaptureInv

LEMMA NextKeeps ==
  TypeOK /\ CaptureInv /\ [Next]_vars => CaptureInv'
<1>. SUFFICES ASSUME TypeOK, CaptureInv, [Next]_vars
              PROVE  CaptureInv'
  OBVIOUS
<1>1. ASSUME NEW pin \in {"lane", "gps"}, Edge(pin)
      PROVE  CaptureInv'
  <2>1. pin \in {"lane", "gps", "wake"} /\ pin # "wake"
    OBVIOUS
  <2>. QED
    BY <1>1, <2>1, EdgeKeeps DEF Edge
<1>2. CASE awakenPoll
  BY <1>2, EdgeKeeps DEF awakenPoll
<1>3. CASE ReceiveWake
  BY <1>3, WakeOrLaneTaken DEF ReceiveWake
<1>4. CASE ReceiveLane
  BY <1>4, WakeOrLaneTaken DEF ReceiveLane
<1>5. CASE UNCHANGED vars
  <2>1. UNCHANGED <<now, quarter, phase, recv_que, recv_que_overflow, qcItems, read, nextPoll,
                    softGpsUs, realGpsUs, staleGpsUs, gpsemittingpps>>
    BY <1>5 DEF vars, clockVars, queVars, gpsVars
  <2>2. Prepared' /\ QueueOrdered' /\ QueueRecent' /\ FullHasStamp' /\ OutageInv' /\ ReportPending'
    BY <2>1 DEF CaptureInv, Prepared, Slots, Turn, QueueOrdered, QueueRecent, FullHasStamp, Full,
                OutageInv, OutageCountedOnce, ReportPending
  <2>3. NoQuarterSkipped' /\ PollInTime' /\ RealInTime'
    BY <2>1 DEF CaptureInv, NoQuarterSkipped, PollInTime, RealInTime, Covered
  <2>. QED
    BY <2>2, <2>3 DEF CaptureInv
<1>6. CASE Edge("lane") \/ Edge("gps")
  BY <1>1, <1>6
<1>. QED
  BY <1>2, <1>3, <1>4, <1>5, <1>6, TickKeeps, WatchdogKeeps, GpsTaken DEF Next

-----------------------------------------------------------------------------
(* The results.                                                            *)

THEOREM CaptureInvariant == Spec => []CaptureInv
  BY InitCaptureInv, NextKeeps, CaptureTyping, PTL DEF Spec

(* Every stamp gets its true 64-bit value from qc_get64(), for every       *)
(* quarter and pace that PaceAssumption allows and every depth of          *)
(* recv_que, even if it overflows (quad_uint32.c:25-37).                   *)
THEOREM ExtensionIsExact == Spec => []ExtensionExact
<1>1. CaptureInv => ExtensionExact
  BY DEF CaptureInv, Prepared, ExtensionExact
<1>. QED
  BY <1>1, CaptureInvariant, PTL

(* gpsFlutter is behind the PPS just while the PPS counts as present, so   *)
(* an outage is counted once (timer_capture.c:450-453).                    *)
THEOREM OutagesCountedOnce == Spec => []OutageCountedOnce
<1>1. CaptureInv => OutageCountedOnce
  BY DEF CaptureInv, OutageInv
<1>. QED
  BY <1>1, CaptureInvariant, PTL

(* pinHandlerGps() takes no soft capture for a real PPS: a step that takes *)
(* one from the queue leaves the PPS reported as absent                    *)
(* (timer_capture.c:432-456).                                              *)
THEOREM SoftNeverReal == Spec => SoftIsNeverReal
<1>1. ASSUME TypeOK, CaptureInv
      PROVE  ReceiveGps /\ Head(recv_que).soft => ~gpsemittingpps'
  <2>. SUFFICES ASSUME ReceiveGps, Head(recv_que).soft
                PROVE  ~gpsemittingpps'
    OBVIOUS
  <2>1. Receive("gps") /\ IF isSoftGps THEN SkipSoft ELSE TakeReal
    BY DEF ReceiveGps
  <2>2. Len(recv_que) >= 1 /\ recv_que[1].soft
    <3>1. Len(recv_que) >= 1 /\ Head(recv_que) = recv_que[1]
      BY <1>1, <2>1, Received
    <3>. QED
      BY <3>1
  <2>3. isSoftGps
    BY <1>1, <2>2, SoftIsRecent DEF CaptureInv
  <2>. QED
    BY <2>1, <2>3 DEF SkipSoft
<1>. QED
  BY <1>1, CaptureTyping, CaptureInvariant, PTL DEF SoftIsNeverReal

(* isGpsEmittingPps() follows the loss of the PPS within a poll period and *)
(* the grace, unless an event was lost (timer_capture.c:255-264, 299).     *)
THEOREM PpsReportIsFresh == Spec => []PpsReportFresh
<1>1. ASSUME TypeOK, CaptureInv
      PROVE  PpsReportFresh
  <2>. SUFFICES ASSUME gpsemittingpps, ~recv_que_overflow
                PROVE  now - realGpsUs <= PollPeriod + Grace + MaxLag
    BY DEF PpsReportFresh
  <2>1. /\ now \in Nat /\ nextPoll \in Nat /\ realGpsUs \in Nat
        /\ MaxLag \in Nat /\ PollPeriod \in Nat /\ Grace \in Nat
    BY <1>1, TicksAssumption DEF TypeOK
  <2>2. CASE nextPoll <= realGpsUs + Grace + PollPeriod
    BY <1>1, <2>1, <2>2 DEF CaptureInv, PollInTime
  <2>3. ASSUME NEW i \in 1..Len(recv_que), recv_que[i].soft,
               recv_que[i].since <= realGpsUs + Grace + PollPeriod
        PROVE  now - realGpsUs <= PollPeriod + Grace + MaxLag
    <3>1. recv_que[i].since \in Nat
      BY <1>1, QueueType
    <3>2. now <= recv_que[i].since + MaxLag
      BY <1>1 DEF CaptureInv, QueueRecent
    <3>. QED
      BY <2>1, <2>3, <3>1, <3>2
  <2>. QED
    BY <1>1, <2>2, <2>3 DEF CaptureInv, ReportPending
<1>. QED
  BY <1>1, CaptureTyping, CaptureInvariant, PTL

=============================================================================
