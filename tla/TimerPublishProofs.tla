------------------------- MODULE TimerPublishProofs -------------------------
(***************************************************************************)
(* Theorems about TimerPublish, for every value of its constants.          *)
(***************************************************************************)
EXTENDS TimerPublish, TLAPS, WellFoundedInduction, SequenceTheorems

-----------------------------------------------------------------------------
(* Arithmetic of the ring.                                                 *)

(* A remainder by n lies in 0..(n-1).                                      *)
LEMMA ModRange ==
  ASSUME NEW n \in Nat \ {0}, NEW x \in Int
  PROVE  x % n \in 0..(n - 1)
  OBVIOUS

(* Remainders of numbers within one ring's length of 0..(n-1).             *)
LEMMA ModOnce ==
  ASSUME NEW n \in Nat \ {0}, NEW x \in Int
  PROVE  /\ 0 <= x /\ x < n => x % n = x
         /\ n <= x /\ x < 2 * n => x % n = x - n
         /\ -n < x /\ x < 0 => x % n = x + n
  OBVIOUS

-----------------------------------------------------------------------------
(* Typing.                                                                 *)

(* A position relative to nextXmitHist names a slot of the ring.           *)
LEMMA SlotType ==
  ASSUME TypeOK, NEW k \in Nat
  PROVE  Slot(k) \in 0..(RingSize - 1)
<1>1. RingSize \in Nat \ {0} /\ nextXmitHist + k \in Int
  BY SizesAssumption DEF TypeOK, RingType
<1> QED
  BY <1>1, ModRange DEF Slot

(* The backlog is a number below the size of the ring.                     *)
LEMMA BacklogType ==
  ASSUME TypeOK
  PROVE  getXmitHistBacklog \in 0..(RingSize - 1)
<1>1. RingSize \in Nat \ {0} /\ nextCaptureHist - nextXmitHist \in Int
  BY SizesAssumption DEF TypeOK, RingType
<1> QED
  BY <1>1, ModRange DEF getXmitHistBacklog

(* A set of naturals that is not empty has a smallest member.              *)
LEMMA SmallestMember ==
  ASSUME NEW T, T \subseteq Nat, T # {}
  PROVE  \E x \in T : \A y \in T : x <= y
<1> DEFINE R == {ss \in Nat \X Nat : ss[1] < ss[2]}
<1>1. R = OpToRel(<, Nat)
  BY Zenon DEF OpToRel
<1>2. IsWellFoundedOn(R, Nat)
  BY <1>1, NatLessThanWellFounded, Zenon
<1>3. PICK x \in T : \A y \in T : ~(<<y, x>> \in R)
  <2> HIDE DEF R
  <2> QED
    BY <1>2, WFMin
<1>4. \A y \in T : ~(y < x)
  BY <1>3
<1> QED
  BY <1>4

(* A function on 1..n is a sequence of length n.                           *)
LEMMA FunctionIsSeq ==
  ASSUME NEW n \in Nat, NEW S, NEW f \in [1..n -> S]
  PROVE  f \in Seq(S) /\ Len(f) = n
<1>1. f \in Seq(S)
  BY SeqDef
<1>2. Len(f) \in Nat /\ DOMAIN f = 1..Len(f)
  BY <1>1, LenProperties
<1>3. 1..Len(f) = 1..n
  BY <1>2
<1> QED
  BY <1>1, <1>2, <1>3

(* The usable part of the window is a prefix of it without a slot that was *)
(* never written, and its contents are a sequence of transition numbers.   *)
LEMMA UsableType ==
  ASSUME TypeOK
  PROVE  /\ UsableCount \in 0..job.count
         /\ Batch \in Seq(Nat)
         /\ Len(Batch) = UsableCount
<1>1. job.count \in Nat /\ Unwritten \subseteq Nat /\ Unwritten \subseteq 0..(job.count - 1)
  BY DEF Unwritten, TypeOK, JobType
<1>2. UsableCount \in 0..job.count
  <2>1. CASE Unwritten = {}
    BY <1>1, <2>1 DEF UsableCount
  <2>2. CASE Unwritten # {}
    <3>1. UsableCount \in Unwritten
      BY <1>1, <2>2, SmallestMember DEF UsableCount
    <3> QED
      BY <1>1, <3>1
  <2> QED
    BY <2>1, <2>2
<1>3. ASSUME NEW k \in 1..UsableCount
      PROVE  hist[Slot(k - 1)] \in Nat
  <2>1. k - 1 \in Nat
    BY <1>1, <1>2
  <2>2. Slot(k - 1) \in 0..(RingSize - 1)
    BY <2>1, SlotType
  <2> QED
    BY <2>2 DEF TypeOK, RingType
<1>4. UsableCount \in Nat
  BY <1>1, <1>2
<1>5. Batch \in [1..UsableCount -> Nat]
  BY <1>3 DEF Batch
<1>6. Batch \in Seq(Nat) /\ Len(Batch) = UsableCount
  BY <1>4, <1>5, FunctionIsSeq
<1> QED
  BY <1>2, <1>6

(* The steps of each task, spelled out.                                    *)
LEMMA StepsOf ==
  /\ Steps["capture"] = {"idle", "advance"}
  /\ Steps["marshal"] = {"idle", "credit", "begin", "clrLock", "clrUnlock", "clrDone",
                         "pubLock", "pubCheck", "read", "send", "enqueue",
                         "recordId", "recordRecap"}
  /\ Steps["mqtt"] = {"idle", "ackLock", "ackApply", "ackDone",
                      "clrLock", "clrUnlock", "clrDone"}
  /\ Steps["wifi"] = {"idle", "clrLock", "clrUnlock", "clrDone"}
  /\ "capture" \in Task /\ "marshal" \in Task /\ "mqtt" \in Task /\ "wifi" \in Task
  BY DEF Steps, Task

(* A task that goes to one of its steps keeps pc well typed.               *)
LEMMA GotoType ==
  ASSUME TaskType, NEW t \in Task, NEW step \in Steps[t], Goto(t, step)
  PROVE  /\ pc' \in [Task -> UNION {Steps[u] : u \in Task}]
         /\ \A u \in Task : pc'[u] \in Steps[u]
<1>1. pc' = [pc EXCEPT ![t] = step]
  BY DEF Goto
<1>2. step \in UNION {Steps[u] : u \in Task}
  OBVIOUS
<1>3. pc' \in [Task -> UNION {Steps[u] : u \in Task}]
  BY <1>1, <1>2 DEF TaskType
<1>4. ASSUME NEW u \in Task
      PROVE  pc'[u] \in Steps[u]
  BY <1>1 DEF TaskType
<1> QED
  BY <1>3, <1>4

LEMMA RingTypeStep ==
  TypeOK /\ [Next]_vars => RingType'
<1> SUFFICES ASSUME TypeOK, [Next]_vars
             PROVE  RingType'
  OBVIOUS
<1>1. CASE CaptureFill
  BY <1>1 DEF TypeOK, RingType, CaptureFill
<1>2. CASE CaptureAdvance
  <2>1. RingSize \in Nat \ {0} /\ nextCaptureHist + 1 \in Int
    BY SizesAssumption DEF TypeOK, RingType
  <2>2. IncHist(nextCaptureHist) \in 0..(RingSize - 1)
    BY <2>1, ModRange DEF IncHist
  <2> QED
    BY <1>2, <2>2 DEF TypeOK, RingType, CaptureAdvance
<1>3. CASE AckApply
  <2>1. Slot(inFlight.lanes) \in 0..(RingSize - 1) /\ inFlight.lanes \in Nat
    BY SlotType DEF TypeOK, FlightType
  <2> QED
    BY <1>3, <2>1 DEF TypeOK, RingType, AckApply
<1>4. CASE UNCHANGED histVars
  BY <1>4 DEF TypeOK, RingType, histVars
<1>5. CaptureFill \/ CaptureAdvance \/ AckApply \/ UNCHANGED histVars
  BY DEF Next, vars, Capture, MqttAck, MarshalStep, Clear, MarshalWake, MqttConnected,
         MqttDisconnected, MqttError, MqttPublished, WifiDisconnected, Deliver,
         LoseMessage, LoseAck, AckTimeout, AckLock, AckDone, ClearLock, ClearUnlock,
         ClearDone, MarshalCredit, MarshalBegin, MarshalLock, MarshalCheck, MarshalRead,
         MarshalAllocFails, MarshalSend, MarshalEnqueue, MarshalEnqueueFails,
         MarshalRecordId, MarshalRecordRecap, histVars
<1> QED
  BY <1>1, <1>2, <1>3, <1>4, <1>5

LEMMA FlightTypeStep ==
  TypeOK /\ [Next]_vars => FlightType'
<1> SUFFICES ASSUME TypeOK, [Next]_vars
             PROVE  FlightType'
  OBVIOUS
<1> USE SizesAssumption, MsgIdsAssumption DEF TypeOK, FlightType, flightVars, NoFlight
<1>1. ASSUME NEW t, ClearDone(t)
      PROVE  FlightType'
  BY <1>1 DEF ClearDone
<1>2. CASE WifiDisconnected
  BY <1>2 DEF WifiDisconnected
<1>3. CASE MqttConnected
  BY <1>3 DEF MqttConnected
<1>4. CASE MqttDisconnected
  BY <1>4 DEF MqttDisconnected
<1>5. ASSUME NEW id, MqttPublished(id)
      PROVE  FlightType'
  BY <1>5, DropAssumption DEF MqttPublished
<1>6. CASE AckApply
  BY <1>6 DEF AckApply
<1>7. CASE AckDone
  BY <1>7 DEF AckDone
<1>8. CASE MarshalCredit
  BY <1>8 DEF MarshalCredit, JobType
<1>9. CASE MarshalSend
  BY <1>9 DEF MarshalSend
<1>10. CASE MarshalEnqueueFails
  BY <1>10 DEF MarshalEnqueueFails
<1>11. CASE MarshalRecordId
  BY <1>11 DEF MarshalRecordId, JobType
<1>12. CASE MarshalRecordRecap
  BY <1>12 DEF MarshalRecordRecap, JobType
<1>13. CASE AckTimeout
  BY <1>13 DEF AckTimeout
<1>14. CASE UNCHANGED <<flightVars, credits, pClient, droppedFirst>>
  BY <1>14
<1>15. \/ \E t \in Task : ClearDone(t)
       \/ WifiDisconnected \/ MqttConnected \/ MqttDisconnected
       \/ \E id \in MsgIds : MqttPublished(id)
       \/ AckApply \/ AckDone \/ MarshalCredit \/ MarshalSend \/ MarshalEnqueueFails
       \/ MarshalRecordId \/ MarshalRecordRecap \/ AckTimeout
       \/ UNCHANGED <<flightVars, credits, pClient, droppedFirst>>
  BY StepsOf DEF Next, vars, Capture, MqttAck, MarshalStep, Clear, MarshalWake, MqttError,
         Deliver, LoseMessage, LoseAck, AckLock, ClearLock, ClearUnlock,
         MarshalBegin, MarshalLock, MarshalCheck, MarshalRead,
         MarshalAllocFails, MarshalEnqueue, CaptureFill, CaptureAdvance
<1> QED
  BY <1>1, <1>2, <1>3, <1>4, <1>5, <1>6, <1>7, <1>8, <1>9, <1>10, <1>11, <1>12, <1>13,
     <1>14, <1>15

LEMMA JobTypeStep ==
  TypeOK /\ [Next]_vars => JobType'
<1> SUFFICES ASSUME TypeOK, [Next]_vars
             PROVE  JobType'
  OBVIOUS
<1> USE SizesAssumption DEF TypeOK, JobType
<1>1. NoJob \in [publish : BOOLEAN, loaded : 0..(CreditsMax - 1), count : Nat,
                 health : BOOLEAN, batch : Seq(Nat), msgId : MsgIds \cup {NoId}]
  BY DEF NoJob
<1>2. CASE job' = NoJob
  BY <1>1, <1>2
<1>3. ASSUME NEW due, MarshalWake(due)
      PROVE  JobType'
  <2> DEFINE wants == \/ due \cap {"publish", "health"} # {}
                      \/ "credit" \in due /\ publishCreditStarved
  <2>1. CASE "credit" \in due /\ credits < CreditsMax
    <3>1. job' = [NoJob EXCEPT !.publish = wants, !.loaded = credits]
      BY <1>3, <2>1 DEF MarshalWake
    <3>2. wants \in BOOLEAN /\ credits \in 0..(CreditsMax - 1)
      BY <2>1 DEF FlightType
    <3> QED
      BY <1>1, <3>1, <3>2
  <2>2. CASE ~("credit" \in due /\ credits < CreditsMax)
    BY <1>3, <2>2 DEF MarshalWake
  <2> QED
    BY <2>1, <2>2
<1>4. CASE MarshalCheck
  <2>1. getXmitHistBacklog \in Nat
    BY BacklogType DEF TypeOK
  <2>2. ASSUME NEW health \in BOOLEAN,
               job' = [job EXCEPT !.health = health,
                                  !.count = IF getXmitHistBacklog > BatchMax
                                              THEN BatchMax ELSE getXmitHistBacklog]
        PROVE  JobType'
    BY <2>1, <2>2
  <2> QED
    BY <1>1, <1>4, <2>2 DEF MarshalCheck, MarshalCleanup
<1>5. CASE MarshalRead
  <2>1. Batch \in Seq(Nat) /\ UsableCount \in Nat
    BY UsableType
  <2> QED
    BY <1>1, <1>5, <2>1 DEF MarshalRead, MarshalCleanup
<1>6. CASE MarshalEnqueue
  BY <1>6 DEF MarshalEnqueue, FreeIds
<1>7. CASE UNCHANGED job
  BY <1>7
<1>8. \/ job' = NoJob \/ UNCHANGED job
      \/ \E due \in SUBSET Deadlines : MarshalWake(due)
      \/ MarshalCheck \/ MarshalRead \/ MarshalEnqueue
  BY DEF Next, vars, Capture, MqttAck, MarshalStep, Clear, MqttError, marshalVars,
         Deliver, LoseMessage, LoseAck, AckLock, ClearLock, ClearUnlock, ClearDone,
         MarshalBegin, MarshalLock, MarshalCredit, MarshalRecordId, MarshalRecordRecap,
         MarshalAllocFails, MarshalSend, MarshalEnqueueFails, MarshalCleanup,
         CaptureFill, CaptureAdvance, WifiDisconnected, MqttConnected, MqttDisconnected,
         MqttPublished, AckApply, AckDone, AckTimeout
<1> QED
  BY <1>2, <1>3, <1>4, <1>5, <1>6, <1>7, <1>8

LEMMA NetworkTypeStep ==
  TypeOK /\ [Next]_vars => NetworkType'
<1> SUFFICES ASSUME TypeOK, [Next]_vars
             PROVE  NetworkType'
  OBVIOUS
<1> USE DEF TypeOK, NetworkType, Message
<1>1. CASE MarshalEnqueue
  BY <1>1 DEF MarshalEnqueue, FreeIds, JobType
<1>2. ASSUME NEW m \in outbox, Deliver(m)
      PROVE  NetworkType'
  <2>1. m.id \in MsgIds /\ m.batch \in Seq(Nat)
    OBVIOUS
  <2>2. Range(m.batch) \subseteq Nat
    BY <2>1 DEF Range
  <2> QED
    BY <1>2, <2>1, <2>2 DEF Deliver
<1>3. ASSUME NEW m \in outbox, LoseMessage(m)
      PROVE  NetworkType'
  BY <1>3 DEF LoseMessage
<1>4. outbox' \subseteq outbox /\ acks' \subseteq acks /\ received' = received =>
        NetworkType'
  OBVIOUS
<1>5. \/ outbox' \subseteq outbox /\ acks' \subseteq acks /\ received' = received
      \/ MarshalEnqueue
      \/ \E m \in outbox : Deliver(m) \/ LoseMessage(m)
  BY DEF Next, vars, Capture, MqttAck, MarshalStep, Clear, MqttError, networkVars,
         LoseAck, AckLock, ClearLock, ClearUnlock, ClearDone, MarshalWake,
         MarshalBegin, MarshalLock, MarshalCredit, MarshalRecordId, MarshalRecordRecap,
         MarshalAllocFails, MarshalSend, MarshalEnqueueFails, MarshalCheck, MarshalRead,
         CaptureFill, CaptureAdvance, WifiDisconnected, MqttConnected, MqttDisconnected,
         MqttPublished, AckApply, AckDone, AckTimeout
<1> QED
  BY <1>1, <1>2, <1>3, <1>4, <1>5

LEMMA TaskTypeStep ==
  TypeOK /\ [Next]_vars => TaskType'
<1> SUFFICES ASSUME TypeOK, [Next]_vars
             PROVE  TaskType'
  OBVIOUS
<1>1. mqTxMutex' \in Task \cup {NoTask} /\ ackId' \in MsgIds \cup {NoId}
  BY StepsOf DEF Next, vars, TypeOK, TaskType, NetworkType,
         Capture, MqttAck, MarshalStep, Clear, MqttError, Deliver, LoseMessage,
         LoseAck, AckLock, ClearLock, ClearUnlock, ClearDone, MarshalWake,
         MarshalBegin, MarshalLock, MarshalCredit, MarshalRecordId, MarshalRecordRecap,
         MarshalAllocFails, MarshalSend, MarshalEnqueueFails, MarshalCheck, MarshalRead,
         CaptureFill, CaptureAdvance, WifiDisconnected, MqttConnected, MqttDisconnected,
         MqttPublished, AckApply, AckDone, AckTimeout, MarshalCleanup, MarshalEnqueue,
         marshalVars
<1>2. publishDue' \in BOOLEAN /\ publishCreditStarved' \in BOOLEAN
  <2>1. publishDue \in BOOLEAN /\ publishCreditStarved \in BOOLEAN
    BY DEF TypeOK, TaskType
  <2>2. publishDue' = publishDue \/ publishDue' = TRUE
          \/ \E due \in SUBSET Deadlines : publishDue' = (publishDue /\ "publish" \notin due)
    BY DEF Next, vars, Capture, MqttAck, MarshalStep, Clear, MqttError, Deliver,
         LoseMessage, LoseAck, AckLock, ClearLock, ClearUnlock, ClearDone, MarshalWake,
         MarshalBegin, MarshalLock, MarshalCredit, MarshalRecordId, MarshalRecordRecap,
         MarshalAllocFails, MarshalSend, MarshalEnqueueFails, MarshalCheck, MarshalRead,
         CaptureFill, CaptureAdvance, WifiDisconnected, MqttConnected, MqttDisconnected,
         MqttPublished, AckApply, AckDone, AckTimeout, MarshalEnqueue
  <2>3. publishCreditStarved' = publishCreditStarved
          \/ publishCreditStarved' = (credits < 1)
    BY DEF Next, vars, Capture, MqttAck, MarshalStep, Clear, MqttError, Deliver,
         LoseMessage, LoseAck, AckLock, ClearLock, ClearUnlock, ClearDone, MarshalWake,
         MarshalBegin, MarshalLock, MarshalCredit, MarshalRecordId, MarshalRecordRecap,
         MarshalAllocFails, MarshalSend, MarshalEnqueueFails, MarshalCheck, MarshalRead,
         CaptureFill, CaptureAdvance, WifiDisconnected, MqttConnected, MqttDisconnected,
         MqttPublished, AckApply, AckDone, AckTimeout, MarshalEnqueue, marshalVars
  <2>4. publishDue' \in BOOLEAN
    BY <2>1, <2>2, Zenon
  <2>5. (credits < 1) \in BOOLEAN
    OBVIOUS
  <2>6. publishCreditStarved' \in BOOLEAN
    BY <2>1, <2>3, <2>5, Zenon
  <2> QED
    BY <2>4, <2>6
<1> DEFINE PcOK == pc' \in [Task -> UNION {Steps[u] : u \in Task}] /\ \A u \in Task : pc'[u] \in Steps[u]
<1>3. /\ \A step \in Steps["capture"] : Goto("capture", step) => PcOK
      /\ \A step \in Steps["marshal"] : Goto("marshal", step) => PcOK
      /\ \A step \in Steps["mqtt"] : Goto("mqtt", step) => PcOK
      /\ \A step \in Steps["wifi"] : Goto("wifi", step) => PcOK
  <2>1. ASSUME NEW t \in Task, NEW step \in Steps[t], Goto(t, step)
        PROVE  PcOK
    BY <2>1, GotoType DEF TypeOK
  <2> QED
    BY <2>1, StepsOf
<1>4. PcOK
  <2> HIDE DEF PcOK
  <2>1. CASE Capture
    BY <1>3, <2>1, StepsOf DEF Capture, CaptureFill, CaptureAdvance
  <2>2. CASE \E due \in SUBSET Deadlines : MarshalWake(due)
    BY <1>3, <2>2, StepsOf DEF MarshalWake
  <2>3. ASSUME NEW t \in {"marshal", "mqtt", "wifi"}, Clear(t)
        PROVE  PcOK
    BY <1>3, <2>3, StepsOf DEF Clear, ClearLock, ClearUnlock, ClearDone
  <2>4. CASE MarshalStep
    BY <1>3, <2>3, <2>4, StepsOf DEF MarshalStep,
         MarshalBegin, MarshalLock, MarshalCredit, MarshalRecordId, MarshalRecordRecap,
         MarshalAllocFails, MarshalSend, MarshalEnqueueFails, MarshalCheck, MarshalRead,
         MarshalCleanup, MarshalEnqueue
  <2>5. CASE MqttDisconnected \/ MqttError \/ \E id \in MsgIds : MqttPublished(id)
    BY <1>3, <2>5, StepsOf DEF MqttDisconnected, MqttError, MqttPublished, BeginClear
  <2>6. CASE MqttAck
    BY <1>3, <2>6, StepsOf DEF MqttAck, AckLock, AckApply, AckDone
  <2>7. CASE WifiDisconnected
    BY <1>3, <2>7, StepsOf DEF WifiDisconnected, BeginClear
  <2>8. CASE UNCHANGED pc
    BY <2>8 DEF PcOK, TypeOK, TaskType
  <2> QED
    BY <2>1, <2>2, <2>3, <2>4, <2>5, <2>6, <2>7, <2>8
       DEF Next, vars, MqttConnected, Deliver, LoseMessage, LoseAck, AckTimeout
<1> QED
  BY <1>1, <1>2, <1>4 DEF TaskType

LEMMA TypeInit ==
  Init => TypeOK
<1> SUFFICES ASSUME Init
             PROVE  TypeOK
  OBVIOUS
<1> USE SizesAssumption DEF Init
<1>1. RingType
  BY DEF RingType
<1>2. FlightType
  <2>1. NoFlight \in [id : MsgIds \cup {NoId}, lanes : Nat, health : BOOLEAN]
    BY DEF NoFlight
  <2>2. CreditsMax \in 0..CreditsMax
    OBVIOUS
  <2> QED
    BY <2>1, <2>2 DEF FlightType
<1>3. TaskType
  <2>1. \A t \in Task : "idle" \in Steps[t]
    BY StepsOf DEF Task
  <2>2. pc \in [Task -> UNION {Steps[u] : u \in Task}] /\ \A t \in Task : pc[t] \in Steps[t]
    BY <2>1
  <2>3. ackId \in MsgIds \cup {NoId} /\ mqTxMutex \in Task \cup {NoTask}
    OBVIOUS
  <2> QED
    BY <2>2, <2>3, Zenon DEF TaskType
<1>4. JobType
  BY DEF JobType, NoJob
<1>5. NetworkType
  BY DEF NetworkType
<1> QED
  BY <1>1, <1>2, <1>3, <1>4, <1>5 DEF TypeOK

(* Every variable keeps its type: in particular the ring indices stay      *)
(* inside hist and mq_publish_credits, whose increment is not atomic,      *)
(* never exceeds its maximum nor falls below 0.                            *)
THEOREM Typing == Spec => []TypeOK
<1>1. TypeOK /\ [Next]_vars => TypeOK'
  BY RingTypeStep, FlightTypeStep, TaskTypeStep, JobTypeStep, NetworkTypeStep DEF TypeOK
<1> QED
  BY <1>1, TypeInit, PTL DEF Spec

-----------------------------------------------------------------------------
(* The mutex.                                                              *)

(* Between these steps and the next one a task holds mqTxMutex.            *)
HoldSteps == {"clrUnlock", "ackApply", "pubCheck", "read", "send", "enqueue",
              "recordId", "recordRecap"}

MutexInv == \A t \in Task : mqTxMutex = t <=> pc[t] \in HoldSteps

(* mqPubDataList() goes on from its test only when nothing is in flight.   *)
NothingInFlight ==
  pc["marshal"] \in {"read", "send", "enqueue", "recordId"} => inFlight.id = NoId

LockInv == TypeOK /\ MutexInv /\ NothingInFlight

(* A task that goes to a step is there, and the other tasks stay.          *)
LEMMA GotoPc ==
  ASSUME TypeOK, NEW t \in Task, NEW step, Goto(t, step)
  PROVE  pc'[t] = step /\ \A u \in Task \ {t} : pc'[u] = pc[u]
BY DEF TypeOK, TaskType, Goto

(* A task about to take the mutex finds it free.                           *)
LEMMA LockFree ==
  ASSUME NEW t, NEW step \in {"clrLock", "ackLock", "pubLock"}, At(t, step)
  PROVE  pc[t] = step /\ mqTxMutex = NoTask
BY DEF At, CanRun, Blocked, WaitsForMutex

LEMMA TakeMutex ==
  ASSUME TypeOK, MutexInv, NEW t \in Task, NEW step \in HoldSteps,
         mqTxMutex = NoTask, mqTxMutex' = t, Goto(t, step)
  PROVE  MutexInv'
<1>1. NoTask \notin Task
  BY DEF Task, NoTask
<1>2. \A u \in Task : pc[u] \notin HoldSteps
  BY <1>1 DEF MutexInv
<1> QED
  BY <1>1, <1>2, GotoPc DEF MutexInv

LEMMA GiveMutex ==
  ASSUME TypeOK, MutexInv, NEW t \in Task, pc[t] \in HoldSteps, NEW step,
         step \notin HoldSteps, mqTxMutex' = NoTask, Goto(t, step)
  PROVE  MutexInv'
<1>1. NoTask \notin Task
  BY DEF Task, NoTask
<1>2. mqTxMutex = t /\ \A u \in Task \ {t} : pc[u] \notin HoldSteps
  BY DEF MutexInv
<1> QED
  BY <1>1, <1>2, GotoPc DEF MutexInv

LEMMA KeepMutex ==
  ASSUME TypeOK, MutexInv, NEW t \in Task, NEW step,
         pc[t] \in HoldSteps <=> step \in HoldSteps,
         UNCHANGED mqTxMutex, Goto(t, step)
  PROVE  MutexInv'
BY GotoPc DEF MutexInv

LEMMA MutexStep ==
  LockInv /\ [Next]_vars => MutexInv'
<1> SUFFICES ASSUME LockInv, [Next]_vars
             PROVE  MutexInv'
  OBVIOUS
<1> USE StepsOf DEF LockInv
<1>1. CASE Capture
  BY <1>1, KeepMutex DEF Capture, CaptureFill, CaptureAdvance, At, HoldSteps
<1>2. ASSUME NEW t \in Task, Clear(t)
      PROVE  MutexInv'
  <2>1. CASE ClearLock(t)
    <3>1. mqTxMutex = NoTask /\ mqTxMutex' = t /\ Goto(t, "clrUnlock")
      BY <2>1, LockFree DEF ClearLock
    <3>2. "clrUnlock" \in HoldSteps
      BY DEF HoldSteps
    <3> QED
      BY <3>1, <3>2, TakeMutex
  <2>2. CASE ClearUnlock(t)
    BY <2>2, GiveMutex DEF ClearUnlock, At, HoldSteps
  <2>3. CASE ClearDone(t)
    <3> DEFINE next == IF t = "marshal" THEN "pubLock" ELSE "idle"
    <3>1. pc[t] \notin HoldSteps /\ next \notin HoldSteps
      BY <2>3 DEF ClearDone, At, HoldSteps
    <3>2. Goto(t, next) /\ UNCHANGED mqTxMutex
      BY <2>3 DEF ClearDone
    <3> HIDE DEF next
    <3> QED
      BY <3>1, <3>2, KeepMutex
  <2> QED
    BY <1>2, <2>1, <2>2, <2>3 DEF Clear
<1>3. CASE \E due \in SUBSET Deadlines : MarshalWake(due)
  BY <1>3, KeepMutex DEF MarshalWake, At, HoldSteps
<1>4. CASE MarshalCredit \/ MarshalBegin
  BY <1>4, KeepMutex DEF MarshalCredit, MarshalBegin, At, HoldSteps
<1>5. CASE MarshalLock
  BY <1>5, LockFree, TakeMutex DEF MarshalLock, HoldSteps
<1>6. CASE MarshalCheck
  BY <1>6, KeepMutex, GiveMutex DEF MarshalCheck, MarshalCleanup, At, HoldSteps
<1>7. CASE MarshalRead
  BY <1>7, KeepMutex, GiveMutex DEF MarshalRead, MarshalCleanup, At, HoldSteps
<1>8. CASE MarshalSend
  <2>1. ~Expired
    BY <1>8 DEF MarshalSend, At, Expired, NothingInFlight
  <2> QED
    BY <1>8, <2>1, KeepMutex, GiveMutex DEF MarshalSend, MarshalCleanup, At, HoldSteps
<1>9. CASE MarshalAllocFails \/ MarshalEnqueueFails \/ MarshalRecordRecap
  BY <1>9, GiveMutex DEF MarshalAllocFails, MarshalEnqueueFails, MarshalRecordRecap,
       MarshalCleanup, At, HoldSteps
<1>10. CASE MarshalEnqueue \/ MarshalRecordId
  BY <1>10, KeepMutex DEF MarshalEnqueue, MarshalRecordId, At, HoldSteps
<1>11. CASE MqttDisconnected \/ MqttError
  BY <1>11, KeepMutex DEF MqttDisconnected, MqttError, BeginClear, At, HoldSteps
<1>12. ASSUME NEW id, MqttPublished(id)
       PROVE  MutexInv'
  BY <1>12, KeepMutex DEF MqttPublished, At, HoldSteps
<1>13. CASE MqttAck
  <2>1. CASE AckLock
    BY <2>1, LockFree, TakeMutex DEF AckLock, HoldSteps
  <2>2. CASE AckApply
    BY <2>2, GiveMutex DEF AckApply, At, HoldSteps
  <2>3. CASE AckDone
    BY <2>3, KeepMutex DEF AckDone, At, HoldSteps
  <2> QED
    BY <1>13, <2>1, <2>2, <2>3 DEF MqttAck
<1>14. CASE WifiDisconnected
  BY <1>14, KeepMutex DEF WifiDisconnected, BeginClear, At, HoldSteps
<1>15. CASE UNCHANGED <<mqTxMutex, pc>>
  BY <1>15 DEF MutexInv
<1> QED
  BY <1>1, <1>2, <1>3, <1>4, <1>5, <1>6, <1>7, <1>8, <1>9, <1>10, <1>11, <1>12, <1>13,
     <1>14, <1>15
  DEF Next, MarshalStep, vars, MqttConnected, Deliver, LoseMessage, LoseAck, AckTimeout

(* What the other tasks and the network leave of mq_marshal's state.       *)
LEMMA OthersStep ==
  ASSUME TypeOK, [Next]_vars, ~MarshalStep, ~ \E due \in SUBSET Deadlines : MarshalWake(due)
  PROVE  /\ pc'["marshal"] = pc["marshal"]
         /\ UNCHANGED job
         /\ inFlight' \in {inFlight, NoFlight}
<1> USE StepsOf
<1>1. CASE Capture \/ WifiDisconnected \/ MqttDisconnected \/ MqttError
  BY <1>1, GotoPc DEF Capture, CaptureFill, CaptureAdvance, WifiDisconnected,
       MqttDisconnected, MqttError, BeginClear, marshalVars, flightVars
<1>2. ASSUME NEW t \in {"mqtt", "wifi"}, Clear(t)
      PROVE  /\ pc'["marshal"] = pc["marshal"]
             /\ UNCHANGED job
             /\ inFlight' \in {inFlight, NoFlight}
  BY <1>2, GotoPc DEF Clear, ClearLock, ClearUnlock, ClearDone, marshalVars, flightVars
<1>3. ASSUME NEW id, MqttPublished(id)
      PROVE  /\ pc'["marshal"] = pc["marshal"]
             /\ UNCHANGED job
             /\ inFlight' \in {inFlight, NoFlight}
  BY <1>3, GotoPc DEF MqttPublished, marshalVars, flightVars
<1>4. CASE MqttAck
  BY <1>4, GotoPc DEF MqttAck, AckLock, AckApply, AckDone, marshalVars, flightVars
<1>5. CASE UNCHANGED <<pc, job, inFlight>>
  BY <1>5
<1> QED
  BY <1>1, <1>2, <1>3, <1>4, <1>5
  DEF Next, vars, MqttConnected, Deliver, LoseMessage, LoseAck, AckTimeout, marshalVars,
      flightVars

LEMMA NothingInFlightStep ==
  LockInv /\ [Next]_vars => NothingInFlight'
<1> SUFFICES ASSUME LockInv, [Next]_vars
             PROVE  NothingInFlight'
  OBVIOUS
<1> USE StepsOf DEF LockInv, NothingInFlight
<1>1. CASE \E due \in SUBSET Deadlines : MarshalWake(due)
  BY <1>1, GotoPc DEF MarshalWake
<1>2. CASE Clear("marshal")
  BY <1>2, GotoPc DEF Clear, ClearLock, ClearUnlock, ClearDone
<1>3. CASE MarshalCredit \/ MarshalBegin \/ MarshalLock
  BY <1>3, GotoPc DEF MarshalCredit, MarshalBegin, MarshalLock
<1>4. CASE MarshalCheck
  BY <1>4, GotoPc DEF MarshalCheck, MarshalCleanup, flightVars
<1>5. CASE MarshalRead \/ MarshalSend \/ MarshalEnqueue
  BY <1>5, GotoPc DEF MarshalRead, MarshalSend, MarshalEnqueue, MarshalCleanup, At,
       flightVars
<1>6. CASE MarshalAllocFails \/ MarshalEnqueueFails \/ MarshalRecordId \/ MarshalRecordRecap
  BY <1>6, GotoPc DEF MarshalAllocFails, MarshalEnqueueFails, MarshalRecordId,
       MarshalRecordRecap, MarshalCleanup
<1>7. CASE ~MarshalStep /\ ~ \E due \in SUBSET Deadlines : MarshalWake(due)
  BY <1>7, OthersStep DEF NoFlight
<1> QED
  BY <1>1, <1>2, <1>3, <1>4, <1>5, <1>6, <1>7 DEF MarshalStep

LEMMA LockInit ==
  Init => LockInv
<1> SUFFICES ASSUME Init
             PROVE  LockInv
  OBVIOUS
<1>1. MutexInv
  BY DEF Init, MutexInv, Task, NoTask, HoldSteps
<1>2. NothingInFlight
  BY DEF Init, NothingInFlight, Task
<1> QED
  BY <1>1, <1>2, TypeInit DEF LockInv

LEMMA LockStep ==
  LockInv /\ [Next]_vars => LockInv'
BY MutexStep, NothingInFlightStep, RingTypeStep, FlightTypeStep, TaskTypeStep,
   JobTypeStep, NetworkTypeStep DEF LockInv, TypeOK

(* The invariant of the mutex holds in every behaviour.                    *)
LEMMA LockInvariant == Spec => []LockInv
BY LockInit, LockStep, PTL DEF Spec

(* mqTxMutex is not recursive, and no task ever waits for it holding it:   *)
(* in particular mq_pub64() never clears an expired publish under the      *)
(* mutex, because mqPubDataList() gave up earlier if one was in flight.    *)
THEOREM SelfDeadlockFree == Spec => []NoSelfDeadlock
<1>1. LockInv => NoSelfDeadlock
  BY DEF LockInv, MutexInv, NoSelfDeadlock, WaitsForMutex, HoldSteps
<1> QED
  BY <1>1, LockInvariant, PTL

-----------------------------------------------------------------------------
(* The order of the two locks, which the priorities alone provide.         *)

(* If the esp-mqtt task is about to take the mutex when mq_marshal has it, *)
(* the publish it found in flight still is, so mq_marshal will stand down. *)
AckWaits ==
  pc["marshal"] \in {"pubCheck", "read", "send", "enqueue"}
    /\ pc["mqtt"] \in {"ackLock", "clrLock"}
  => inFlight.id # NoId

(* The event loop outranks mq_marshal: between giving the mutex back and   *)
(* clearing the record it lets mq_marshal take nothing.                    *)
ClearIsAlone == pc["wifi"] = "clrDone" => pc["marshal"] \notin HoldSteps

SchedInv == LockInv /\ AckWaits /\ ClearIsAlone

(* mq_marshal takes the mutex only when neither the event loop nor the     *)
(* esp-mqtt task could run.                                                *)
LEMMA MarshalIsLast ==
  ASSUME NEW step \in {"clrLock", "pubLock"}, At("marshal", step)
  PROVE  pc["wifi"] # "clrDone" /\ pc["mqtt"] \notin {"ackLock", "clrLock"}
<1>1. mqTxMutex = NoTask /\ CanRun("marshal")
  BY LockFree DEF At
<1>2. NoTask \notin Task
  BY DEF Task, NoTask
<1>3. RunsAs("marshal") = {"marshal"}
  BY <1>1, <1>2, StepsOf DEF RunsAs
<1>4. ASSUME NEW u \in Task, Runnable(u)
      PROVE  Priority[u] <= Priority["marshal"]
  BY <1>1, <1>3, <1>4 DEF CanRun, RunsAs
<1>5. ~Runnable("wifi") /\ ~Runnable("mqtt")
  BY <1>4, StepsOf DEF Priority
<1>6. ~Blocked("wifi") /\ ~Blocked("mqtt")
  BY <1>1 DEF Blocked, WaitsForMutex, WaitsForApi
<1> QED
  BY <1>5, <1>6 DEF Runnable

(* Where mq_marshal comes from, and what its steps leave alone.            *)
PublishSteps == {"pubCheck", "read", "send", "enqueue"}

LEMMA MarshalMoves ==
  ASSUME TypeOK, MarshalStep
  PROVE  /\ \A t \in Task \ {"marshal"} : pc'[t] = pc[t]
         /\ pc'["marshal"] \in HoldSteps =>
              MarshalLock \/ ClearLock("marshal") \/ pc["marshal"] \in HoldSteps
         /\ pc'["marshal"] \in PublishSteps =>
              MarshalLock \/ (pc["marshal"] \in PublishSteps /\ UNCHANGED inFlight)
<1> USE DEF HoldSteps, PublishSteps
<1>1. CASE Clear("marshal")
  BY <1>1, GotoPc, StepsOf DEF Clear, ClearLock, ClearUnlock, ClearDone
<1>2. CASE MarshalCredit \/ MarshalBegin \/ MarshalLock \/ MarshalEnqueue \/ MarshalRecordId
  BY <1>2, GotoPc, StepsOf DEF MarshalCredit, MarshalBegin, MarshalLock, MarshalEnqueue,
       MarshalRecordId, At, flightVars
<1>3. CASE MarshalCheck \/ MarshalRead \/ MarshalSend
  BY <1>3, GotoPc, StepsOf DEF MarshalCheck, MarshalRead, MarshalSend, MarshalCleanup, At,
       flightVars
<1>4. CASE MarshalAllocFails \/ MarshalEnqueueFails \/ MarshalRecordRecap
  BY <1>4, GotoPc, StepsOf DEF MarshalAllocFails, MarshalEnqueueFails, MarshalRecordRecap,
       MarshalCleanup
<1> QED
  BY <1>1, <1>2, <1>3, <1>4 DEF MarshalStep

LEMMA ClearIsAloneStep ==
  SchedInv /\ [Next]_vars => ClearIsAlone'
<1> SUFFICES ASSUME SchedInv, [Next]_vars
             PROVE  ClearIsAlone'
  OBVIOUS
<1> USE StepsOf DEF SchedInv, LockInv, ClearIsAlone
<1>1. CASE MarshalLock \/ ClearLock("marshal")
  BY <1>1, GotoPc, MarshalIsLast DEF MarshalLock, ClearLock
<1>2. CASE ClearUnlock("wifi")
  <2>1. mqTxMutex = "wifi" /\ pc["marshal"] \notin HoldSteps
    BY <1>2 DEF ClearUnlock, At, MutexInv, HoldSteps
  <2> QED
    BY <1>2, <2>1, GotoPc DEF ClearUnlock
<1>3. CASE MarshalStep /\ ~MarshalLock /\ ~ClearLock("marshal")
  <2>1. pc'["wifi"] = pc["wifi"]
    BY <1>3, MarshalMoves
  <2>2. pc'["marshal"] \in HoldSteps => pc["marshal"] \in HoldSteps
    BY <1>3, MarshalMoves
  <2> QED
    BY <2>1, <2>2
<1>4. CASE \E due \in SUBSET Deadlines : MarshalWake(due)
  BY <1>4, GotoPc DEF MarshalWake, HoldSteps
<1>5. CASE /\ ~MarshalStep /\ ~ \E due \in SUBSET Deadlines : MarshalWake(due)
           /\ ~ClearUnlock("wifi")
  <2>1. pc'["marshal"] = pc["marshal"]
    BY <1>5, OthersStep
  <2>2. pc'["wifi"] = "clrDone" => pc["wifi"] = "clrDone"
    <3>1. CASE Capture \/ WifiDisconnected \/ MqttDisconnected \/ MqttError \/ MqttAck
      BY <3>1, GotoPc DEF Capture, CaptureFill, CaptureAdvance, WifiDisconnected,
           MqttDisconnected, MqttError, BeginClear, MqttAck, AckLock, AckApply, AckDone
    <3>2. CASE Clear("mqtt") \/ ClearLock("wifi") \/ ClearDone("wifi")
      BY <3>2, GotoPc DEF Clear, ClearLock, ClearUnlock, ClearDone
    <3>3. ASSUME NEW id, MqttPublished(id)
          PROVE  pc'["wifi"] = pc["wifi"]
      BY <3>3, GotoPc DEF MqttPublished
    <3>4. CASE UNCHANGED pc
      BY <3>4
    <3> QED
      BY <1>5, <3>1, <3>2, <3>3, <3>4
      DEF Next, Clear, vars, MqttConnected, Deliver, LoseMessage, LoseAck, AckTimeout
  <2> QED
    BY <2>1, <2>2
<1> QED
  BY <1>1, <1>2, <1>3, <1>4, <1>5

LEMMA AckWaitsStep ==
  SchedInv /\ [Next]_vars => AckWaits'
<1> SUFFICES ASSUME SchedInv, [Next]_vars,
                    pc'["marshal"] \in {"pubCheck", "read", "send", "enqueue"},
                    pc'["mqtt"] \in {"ackLock", "clrLock"}
             PROVE  inFlight'.id # NoId
  BY DEF AckWaits
<1> USE StepsOf DEF SchedInv, LockInv
<1>1. CASE MarshalLock
  BY <1>1, GotoPc, MarshalIsLast DEF MarshalLock
<1>2. CASE MarshalStep /\ ~MarshalLock
  <2>1. pc["marshal"] \in PublishSteps /\ UNCHANGED inFlight
    BY <1>2, MarshalMoves DEF PublishSteps
  <2>2. pc'["mqtt"] = pc["mqtt"]
    BY <1>2, MarshalMoves
  <2> QED
    BY <2>1, <2>2 DEF AckWaits, PublishSteps
<1>3. CASE \E due \in SUBSET Deadlines : MarshalWake(due)
  BY <1>3, GotoPc DEF MarshalWake
<1>4. CASE ClearDone("wifi")
  <2>1. pc'["marshal"] = pc["marshal"] /\ pc["wifi"] = "clrDone"
    BY <1>4, GotoPc DEF ClearDone, At
  <2> QED
    BY <2>1 DEF ClearIsAlone, HoldSteps
<1>5. CASE AckDone \/ ClearDone("mqtt")
  BY <1>5, GotoPc DEF AckDone, ClearDone
<1>6. CASE MqttDisconnected \/ MqttError
  BY <1>6, GotoPc DEF MqttDisconnected, MqttError, BeginClear, flightVars
<1>7. ASSUME NEW id \in MsgIds, MqttPublished(id)
      PROVE  inFlight'.id # NoId
  BY <1>7, GotoPc, MsgIdsAssumption DEF MqttPublished, flightVars
<1>8. CASE \/ Capture \/ WifiDisconnected \/ AckLock \/ AckApply
           \/ ClearLock("mqtt") \/ ClearUnlock("mqtt")
           \/ ClearLock("wifi") \/ ClearUnlock("wifi")
  <2>1. /\ UNCHANGED inFlight
        /\ pc'["marshal"] = pc["marshal"]
        /\ pc'["mqtt"] \in {"ackLock", "clrLock"} => pc["mqtt"] \in {"ackLock", "clrLock"}
    BY <1>8, GotoPc DEF Capture, CaptureFill, CaptureAdvance, WifiDisconnected, BeginClear,
         AckLock, AckApply, ClearLock, ClearUnlock, flightVars
  <2> QED
    BY <2>1 DEF AckWaits
<1>9. CASE UNCHANGED <<pc, inFlight.id>>
  BY <1>9 DEF AckWaits
<1> QED
  BY <1>1, <1>2, <1>3, <1>4, <1>5, <1>6, <1>7, <1>8, <1>9
  DEF Next, Clear, MqttAck, vars, MqttConnected, Deliver, LoseMessage, LoseAck, AckTimeout,
      flightVars

(* mq_marshal holds mqTxMutex while it waits for esp-mqtt's API lock only  *)
(* when the esp-mqtt task is not waiting for mqTxMutex: with the           *)
(* priorities of the code the two locks cannot close a cycle.              *)
THEOREM LockCycleFree == Spec => []NoLockCycle
<1>1. Init => AckWaits /\ ClearIsAlone
  BY DEF Init, AckWaits, ClearIsAlone, Task
<1>2. SchedInv /\ [Next]_vars => AckWaits' /\ ClearIsAlone'
  BY AckWaitsStep, ClearIsAloneStep
<1>3. SchedInv => NoLockCycle
  <2>1. TypeOK => pc["mqtt"] # "pubLock"
    BY StepsOf DEF TypeOK, TaskType
  <2> QED
    BY <2>1 DEF SchedInv, LockInv, AckWaits, NothingInFlight, NoLockCycle, WaitsForApi,
         WaitsForMutex
<1> QED
  BY <1>1, <1>2, <1>3, LockInvariant, PTL DEF Spec, SchedInv

-----------------------------------------------------------------------------
(***************************************************************************)
(* The radio hold of TimerPublish follows the publish in flight.  The hold *)
(* and the in-flight record are written by three tasks, with and without   *)
(* mqTxMutex; that they agree rests on the priorities (MarshalIsLast):     *)
(* a task that is about to clear the record lets mq_marshal begin nothing. *)
(***************************************************************************)

(* The esp-mqtt task, like the event loop (ClearIsAlone), clears the       *)
(* record only while mq_marshal is not inside mqPubDataList().             *)
MqttDoneIsAlone == pc["mqtt"] \in {"ackDone", "clrDone"} => pc["marshal"] \notin HoldSteps

(* The id mq_marshal is about to record is a real one.                     *)
IdKnown == pc["marshal"] = "recordId" => job.msgId # NoId

(* The hold covers a publish from just before its enqueue to its end.      *)
Handoff == {"enqueue", "recordId"}
HoldFollows == publishHold <=> (inFlight.id # NoId \/ pc["marshal"] \in Handoff)

HoldInv == SchedInv /\ MqttDoneIsAlone /\ IdKnown /\ HoldFollows

-----------------------------------------------------------------------------
(* What each step does to the esp-mqtt task.                               *)

(* mq_marshal takes the mutex only when the esp-mqtt task has nothing to   *)
(* clear.                                                                  *)
LEMMA MarshalAfterMqtt ==
  ASSUME NEW step \in {"clrLock", "pubLock"}, At("marshal", step)
  PROVE  pc["mqtt"] \notin {"ackDone", "clrDone"}
<1>1. mqTxMutex = NoTask /\ CanRun("marshal")
  BY LockFree DEF At
<1>2. NoTask \notin Task
  BY DEF Task, NoTask
<1>3. RunsAs("marshal") = {"marshal"}
  BY <1>1, <1>2, StepsOf DEF RunsAs
<1>4. ASSUME NEW u \in Task, Runnable(u)
      PROVE  Priority[u] <= Priority["marshal"]
  BY <1>1, <1>3, <1>4 DEF CanRun, RunsAs
<1>5. ~Runnable("mqtt")
  BY <1>4, StepsOf DEF Priority
<1>6. ~Blocked("mqtt")
  BY <1>1 DEF Blocked, WaitsForMutex, WaitsForApi
<1> QED
  BY <1>5, <1>6 DEF Runnable

LEMMA MqttDoneStep ==
  SchedInv /\ MqttDoneIsAlone /\ [Next]_vars => MqttDoneIsAlone'
<1> SUFFICES ASSUME SchedInv, MqttDoneIsAlone, [Next]_vars
             PROVE  MqttDoneIsAlone'
  OBVIOUS
<1> USE StepsOf DEF SchedInv, LockInv, MqttDoneIsAlone
<1>1. CASE MarshalLock \/ ClearLock("marshal")
  BY <1>1, GotoPc, MarshalAfterMqtt DEF MarshalLock, ClearLock
<1>2. CASE ClearUnlock("mqtt") \/ AckApply
  <2>1. mqTxMutex = "mqtt" /\ pc["marshal"] \notin HoldSteps
    BY <1>2 DEF ClearUnlock, AckApply, At, MutexInv, HoldSteps
  <2> QED
    BY <1>2, <2>1, GotoPc DEF ClearUnlock, AckApply
<1>3. CASE MarshalStep /\ ~MarshalLock /\ ~ClearLock("marshal")
  <2>1. pc'["mqtt"] = pc["mqtt"]
    BY <1>3, MarshalMoves
  <2>2. pc'["marshal"] \in HoldSteps => pc["marshal"] \in HoldSteps
    BY <1>3, MarshalMoves
  <2> QED
    BY <2>1, <2>2
<1>4. CASE \E due \in SUBSET Deadlines : MarshalWake(due)
  BY <1>4, GotoPc DEF MarshalWake, HoldSteps
<1>5. CASE /\ ~MarshalStep /\ ~ \E due \in SUBSET Deadlines : MarshalWake(due)
           /\ ~ClearUnlock("mqtt") /\ ~AckApply
  <2>1. pc'["marshal"] = pc["marshal"]
    BY <1>5, OthersStep
  <2>2. pc'["mqtt"] \in {"ackDone", "clrDone"} => pc["mqtt"] \in {"ackDone", "clrDone"}
    <3>1. CASE Capture \/ WifiDisconnected \/ MqttDisconnected \/ MqttError
      BY <3>1, GotoPc DEF Capture, CaptureFill, CaptureAdvance, WifiDisconnected,
           MqttDisconnected, MqttError, BeginClear
    <3>2. CASE Clear("wifi") \/ ClearLock("mqtt") \/ ClearDone("mqtt") \/ AckLock \/ AckDone
      BY <3>2, GotoPc DEF Clear, ClearLock, ClearUnlock, ClearDone, AckLock, AckDone
    <3>3. ASSUME NEW id, MqttPublished(id)
          PROVE  pc'["mqtt"] \in {"ackLock", "idle"}
      BY <3>3, GotoPc DEF MqttPublished
    <3>4. CASE UNCHANGED pc
      BY <3>4
    <3> QED
      BY <1>5, <3>1, <3>2, <3>3, <3>4
      DEF Next, Clear, MqttAck, vars, MqttConnected, Deliver, LoseMessage, LoseAck, AckTimeout
  <2> QED
    BY <2>1, <2>2
<1> QED
  BY <1>1, <1>2, <1>3, <1>4, <1>5

-----------------------------------------------------------------------------
(* The hold, step by step.                                                 *)

LEMMA CheckGoes ==
  ASSUME TypeOK, MarshalCheck
  PROVE  pc'["marshal"] \in {"idle", "read"}
<1>1. Goto("marshal", "idle") \/ Goto("marshal", "read")
  BY Zenon DEF MarshalCheck, MarshalCleanup
<1> QED
  BY <1>1, GotoPc, StepsOf

LEMMA IdKnownStep ==
  SchedInv /\ IdKnown /\ [Next]_vars => IdKnown'
<1> SUFFICES ASSUME SchedInv, IdKnown, [Next]_vars
             PROVE  IdKnown'
  OBVIOUS
<1> USE StepsOf DEF SchedInv, LockInv, IdKnown
<1>1. CASE MarshalEnqueue
  <2>1. PICK id \in FreeIds : job' = [job EXCEPT !.msgId = id]
    BY <1>1 DEF MarshalEnqueue
  <2>2. job'.msgId = id /\ id # NoId
    BY <2>1, MsgIdsAssumption DEF FreeIds, TypeOK, JobType
  <2> QED
    BY <2>2
<1>2. CASE \E due \in SUBSET Deadlines : MarshalWake(due)
  BY <1>2, GotoPc DEF MarshalWake
<1>3. CASE Clear("marshal")
  BY <1>3, GotoPc DEF Clear, ClearLock, ClearUnlock, ClearDone
<1>4. CASE MarshalCredit \/ MarshalBegin \/ MarshalLock \/ MarshalRecordId
  BY <1>4, GotoPc DEF MarshalCredit, MarshalBegin, MarshalLock, MarshalRecordId
<1>5. CASE MarshalCheck \/ MarshalRead \/ MarshalSend
  <2>1. pc'["marshal"] # "recordId"
    <3>1. CASE MarshalCheck
      BY <3>1, CheckGoes
    <3>2. CASE MarshalRead
      BY <3>2, GotoPc DEF MarshalRead, MarshalCleanup
    <3>3. CASE MarshalSend
      BY <3>3, GotoPc DEF MarshalSend, MarshalCleanup
    <3> QED
      BY <1>5, <3>1, <3>2, <3>3
  <2> QED
    BY <2>1
<1>6. CASE MarshalAllocFails \/ MarshalEnqueueFails \/ MarshalRecordRecap
  BY <1>6, GotoPc DEF MarshalAllocFails, MarshalEnqueueFails, MarshalRecordRecap,
       MarshalCleanup
<1>7. CASE ~MarshalStep /\ ~ \E due \in SUBSET Deadlines : MarshalWake(due)
  BY <1>7, OthersStep
<1> QED
  BY <1>1, <1>2, <1>3, <1>4, <1>5, <1>6, <1>7 DEF MarshalStep

(* The steps that leave the hold, the record and the handoff alone.        *)
HoldKept ==
  /\ UNCHANGED publishHold
  /\ inFlight'.id = inFlight.id
  /\ pc'["marshal"] \in Handoff <=> pc["marshal"] \in Handoff

LEMMA HoldStays ==
  ASSUME TypeOK, [Next]_vars
  PROVE  \/ HoldKept
         \/ \E t \in Task : ClearDone(t)
         \/ AckDone
         \/ MarshalSend \/ MarshalEnqueueFails \/ MarshalRecordId
<1> USE StepsOf DEF HoldKept, Handoff, flightVars
<1>1. CASE Capture \/ WifiDisconnected \/ MqttDisconnected \/ MqttError
  BY <1>1, GotoPc DEF Capture, CaptureFill, CaptureAdvance, WifiDisconnected,
       MqttDisconnected, MqttError, BeginClear
<1>2. ASSUME NEW t \in {"marshal", "mqtt", "wifi"}, ClearLock(t) \/ ClearUnlock(t)
      PROVE  HoldKept
  BY <1>2, GotoPc DEF ClearLock, ClearUnlock, At
<1>3. ASSUME NEW id, MqttPublished(id)
      PROVE  HoldKept
  BY <1>3, GotoPc DEF MqttPublished
<1>4. CASE AckLock \/ AckApply
  BY <1>4, GotoPc DEF AckLock, AckApply
<1>5. ASSUME NEW due, MarshalWake(due)
      PROVE  HoldKept
  BY <1>5, GotoPc DEF MarshalWake, At
<1>6. CASE MarshalCredit \/ MarshalBegin \/ MarshalLock
  BY <1>6, GotoPc DEF MarshalCredit, MarshalBegin, MarshalLock, At
<1>7. CASE MarshalCheck \/ MarshalRead \/ MarshalAllocFails
  <2>1. pc["marshal"] \notin Handoff /\ UNCHANGED <<publishHold, inFlight>>
    BY <1>7 DEF MarshalCheck, MarshalRead, MarshalAllocFails, At
  <2>2. CASE MarshalCheck
    BY <2>1, <2>2, CheckGoes
  <2>3. CASE MarshalRead \/ MarshalAllocFails
    BY <2>1, <2>3, GotoPc DEF MarshalRead, MarshalAllocFails, MarshalCleanup
  <2> QED
    BY <1>7, <2>2, <2>3
<1>8. CASE MarshalEnqueue
  BY <1>8, GotoPc DEF MarshalEnqueue, At
<1>9. CASE MarshalRecordRecap
  <2>1. inFlight'.id = inFlight.id /\ UNCHANGED publishHold
    BY <1>9 DEF MarshalRecordRecap, TypeOK, FlightType
  <2> QED
    BY <1>9, <2>1, GotoPc DEF MarshalRecordRecap, MarshalCleanup, At
<1>10. CASE UNCHANGED <<pc, publishHold, inFlight>>
  BY <1>10
<1> QED
  BY <1>1, <1>2, <1>3, <1>4, <1>5, <1>6, <1>7, <1>8, <1>9, <1>10
  DEF Next, Clear, MarshalStep, MqttAck, vars, MqttConnected, Deliver, LoseMessage, LoseAck,
      AckTimeout, Task

(* Whoever clears the record lets go of the radio, and nothing is handed   *)
(* over at that moment that would still need it.                           *)
LEMMA ClearLetsGo ==
  ASSUME HoldInv, NEW t \in Task, ClearDone(t)
  PROVE  HoldFollows'
<1> USE StepsOf DEF HoldInv, SchedInv, LockInv
<1>1. inFlight'.id = NoId /\ publishHold' = FALSE
  BY DEF ClearDone, NoFlight
<1>2. pc[t] = "clrDone" /\ t # "capture"
  BY DEF ClearDone, At, TypeOK, TaskType
<1>3. pc["marshal"] \notin Handoff
  BY <1>2 DEF MqttDoneIsAlone, ClearIsAlone, HoldSteps, Handoff, Task
<1>4. pc'["marshal"] \in {pc["marshal"], "pubLock"}
  BY GotoPc DEF ClearDone
<1> QED
  BY <1>1, <1>3, <1>4 DEF HoldFollows, Handoff

LEMMA HoldFollowsStep ==
  HoldInv /\ [Next]_vars => HoldFollows'
<1> SUFFICES ASSUME HoldInv, [Next]_vars
             PROVE  HoldFollows'
  OBVIOUS
<1> USE StepsOf DEF HoldInv, SchedInv, LockInv
<1>1. CASE HoldKept
  BY <1>1 DEF HoldKept, HoldFollows
<1>2. CASE \E t \in Task : ClearDone(t)
  BY <1>2, ClearLetsGo
<1>3. CASE AckDone
  <2>1. /\ inFlight'.id = NoId /\ publishHold' = FALSE
        /\ pc["mqtt"] = "ackDone"
        /\ pc'["marshal"] = pc["marshal"]
    BY <1>3, GotoPc DEF AckDone, At, NoFlight
  <2>2. pc["marshal"] \notin Handoff
    BY <2>1 DEF MqttDoneIsAlone, HoldSteps, Handoff
  <2> QED
    BY <2>1, <2>2 DEF HoldFollows
<1>4. CASE MarshalSend
  <2>1. inFlight.id = NoId /\ ~Expired /\ inFlight' = inFlight
    BY <1>4 DEF MarshalSend, At, NothingInFlight, Expired
  <2>2. \/ publishHold' = TRUE /\ pc'["marshal"] = "enqueue"
        \/ publishHold' = FALSE /\ pc'["marshal"] = "idle"
    BY <1>4, <2>1, GotoPc DEF MarshalSend, MarshalCleanup
  <2> QED
    BY <2>1, <2>2 DEF HoldFollows, Handoff
<1>5. CASE MarshalEnqueueFails
  <2>1. inFlight.id = NoId /\ inFlight' = inFlight
    BY <1>5 DEF MarshalEnqueueFails, At, NothingInFlight
  <2>2. publishHold' = FALSE /\ pc'["marshal"] = "idle"
    BY <1>5, GotoPc DEF MarshalEnqueueFails, MarshalCleanup
  <2> QED
    BY <2>1, <2>2 DEF HoldFollows, Handoff
<1>6. CASE MarshalRecordId
  <2>1. pc["marshal"] = "recordId" /\ UNCHANGED publishHold
    BY <1>6 DEF MarshalRecordId, At
  <2>2. inFlight'.id = job.msgId
    BY <1>6 DEF MarshalRecordId, TypeOK, FlightType
  <2> QED
    BY <2>1, <2>2 DEF IdKnown, HoldFollows, Handoff
<1> QED
  BY <1>1, <1>2, <1>3, <1>4, <1>5, <1>6, HoldStays

-----------------------------------------------------------------------------
(* The theorem.                                                            *)

(* Whenever no task is between two steps of a publish, an ack or a clear,  *)
(* the radio is held awake exactly if a publish is in flight: no order of  *)
(* acks, timeouts, disconnects and failed enqueues leaks or drops the hold.*)
THEOREM HoldFollowsFlight == Spec => []HoldMatchesFlight
<1>1. Init => HoldInv
  <2> SUFFICES ASSUME Init
               PROVE  HoldInv
    OBVIOUS
  <2>1. AckWaits /\ ClearIsAlone /\ MqttDoneIsAlone /\ IdKnown
    BY DEF Init, AckWaits, ClearIsAlone, MqttDoneIsAlone, IdKnown, Task
  <2>2. HoldFollows
    BY DEF Init, HoldFollows, Handoff, NoFlight, Task
  <2> QED
    BY <2>1, <2>2, LockInit DEF HoldInv, SchedInv
<1>2. HoldInv /\ [Next]_vars => HoldInv'
  BY LockStep, AckWaitsStep, ClearIsAloneStep, MqttDoneStep, IdKnownStep, HoldFollowsStep
  DEF HoldInv, SchedInv
<1>3. HoldInv => HoldMatchesFlight
  BY StepsOf DEF HoldInv, HoldFollows, HoldMatchesFlight, Handoff
<1> QED
  BY <1>1, <1>2, <1>3, PTL DEF Spec

-----------------------------------------------------------------------------
(***************************************************************************)
(* The delivery theorems of TimerPublish: no transition is forgotten, the  *)
(* backlog in the ring stays intact, every publish carries the oldest      *)
(* transitions, and the pipeline implements LaneDelivery.  They assume     *)
(* that the backlog fits in the ring (MaxBacklog < RingSize) and nothing   *)
(* about the priorities of the tasks beyond what CanRun says of the locks. *)
(***************************************************************************)

Backlog == captured - retired

(* x % RingSize for the sums of two indices that occur.                    *)
Wrap(x) == IF x < RingSize THEN x ELSE x - RingSize

(* The window of transitions not yet retired starts at nextXmitHist, ends  *)
(* at nextCaptureHist and is written in order.                             *)
WindowKept ==
  /\ 0 <= Backlog /\ Backlog <= MaxBacklog
  /\ nextCaptureHist = Wrap(nextXmitHist + Backlog)
  /\ \A k \in 0..(Backlog - 1) : hist[Wrap(nextXmitHist + k)] = retired + k + 1
  /\ pc["capture"] = "advance" =>
       Backlog < MaxBacklog /\ hist[nextCaptureHist] = captured + 1

Recording == pc["marshal"] \in {"recordId", "recordRecap"}

CarriesFrom(a, batch) == \A k \in 1..Len(batch) : batch[k] = a + k

(* What mqPubDataList() is about to send is the start of that window.      *)
JobFits ==
  /\ pc["marshal"] = "read" => job.count <= Backlog
  /\ pc["marshal"] \in {"send", "enqueue", "recordId", "recordRecap"} =>
       /\ job.count <= Backlog
       /\ job.count = Len(job.batch)
       /\ CarriesFrom(retired, job.batch)

(* The publish the esp-mqtt task acknowledges is still the recorded one or *)
(* nothing is recorded; mq_marshal does not record another meanwhile.      *)
AckMatches ==
  /\ pc["mqtt"] \in {"ackLock", "ackApply"} =>
       inFlight.id \in {NoId, ackId} /\ pc["marshal"] # "recordId"
  /\ pc["mqtt"] = "ackDone" => ~Recording
  /\ pc["marshal"] = "recordRecap" => inFlight.id \in {NoId, job.msgId}

(* The publish enqueued last, recorded already or about to be.             *)
CurrentId    == IF Recording THEN job.msgId ELSE inFlight.id
CurrentLanes == IF Recording THEN job.count ELSE inFlight.lanes

(* Its message, while it lasts, carries the start of the window, and once  *)
(* it is acknowledged the broker has received that.                        *)
FlightCarries ==
  pc["mqtt"] # "ackDone" /\ CurrentId # NoId =>
    /\ CurrentLanes <= Backlog
    /\ \A m \in outbox : m.id = CurrentId =>
         Len(m.batch) = CurrentLanes /\ CarriesFrom(retired, m.batch)
    /\ CurrentId \in acks \/ CurrentId = ackId =>
         (retired + 1)..(retired + CurrentLanes) \subseteq received

(* A message that was given up may still arrive; it carries transitions    *)
(* that follow what was retired before it was sent.                        *)
OutboxInOrder ==
  \A m \in outbox : \E a \in 0..retired :
    a + Len(m.batch) <= captured /\ CarriesFrom(a, m.batch)

DeliveryInv ==
  /\ LockInv
  /\ WindowKept
  /\ JobFits
  /\ AckMatches
  /\ FlightCarries
  /\ OutboxInOrder
  /\ NothingForgotten

-----------------------------------------------------------------------------
(* The ring under the invariant.                                           *)

LEMMA Numbers ==
  ASSUME TypeOK
  PROVE  /\ RingSize \in Nat \ {0} /\ BatchMax \in Nat \ {0} /\ MaxBacklog \in Nat
         /\ captured \in Nat /\ retired \in Nat
         /\ nextXmitHist \in 0..(RingSize - 1) /\ nextCaptureHist \in 0..(RingSize - 1)
         /\ inFlight.lanes \in Nat /\ job.count \in Nat
BY SizesAssumption DEF TypeOK, RingType, FlightType, JobType

LEMMA WrapIsMod ==
  ASSUME TypeOK, NEW x \in 0..(2 * RingSize - 1)
  PROVE  x % RingSize = Wrap(x)
BY Numbers, ModOnce DEF Wrap

LEMMA SlotWraps ==
  ASSUME TypeOK, NEW k \in 0..RingSize
  PROVE  Slot(k) = Wrap(nextXmitHist + k)
<1>1. nextXmitHist + k \in 0..(2 * RingSize - 1)
  BY Numbers
<1> QED
  BY <1>1, WrapIsMod DEF Slot

LEMMA BacklogCounts ==
  ASSUME TypeOK, WindowKept, MaxBacklog < RingSize
  PROVE  getXmitHistBacklog = Backlog
<1>1. Backlog \in 0..(RingSize - 1)
  BY Numbers DEF WindowKept, Backlog
<1>2. CASE nextXmitHist + Backlog < RingSize
  <2>1. nextCaptureHist - nextXmitHist = Backlog
    BY <1>1, <1>2, Numbers DEF WindowKept, Wrap
  <2> QED
    BY <1>1, <2>1, Numbers, ModOnce DEF getXmitHistBacklog
<1>3. CASE ~(nextXmitHist + Backlog < RingSize)
  <2>1. nextCaptureHist - nextXmitHist = Backlog - RingSize
    BY <1>1, <1>3, Numbers DEF WindowKept, Wrap
  <2>2. (Backlog - RingSize) % RingSize = Backlog
    <3>1. CASE Backlog = 0
      BY <3>1, <1>1, <1>3, Numbers
    <3>2. CASE Backlog > 0
      <4>1. Backlog - RingSize \in Int /\ -RingSize < Backlog - RingSize /\ Backlog - RingSize < 0
        BY <1>1, <3>2, Numbers
      <4> QED
        BY <4>1, <1>1, Numbers, ModOnce
    <3> QED
      BY <1>1, <3>1, <3>2
  <2> QED
    BY <2>1, <2>2 DEF getXmitHistBacklog
<1> QED
  BY <1>2, <1>3

(* Every slot mqPubDataList() reads was written, so it reads the window.   *)
LEMMA ReadsWindow ==
  ASSUME TypeOK, WindowKept, MaxBacklog < RingSize, job.count <= Backlog
  PROVE  /\ UsableCount = job.count
         /\ Len(Batch) = job.count
         /\ CarriesFrom(retired, Batch)
<1>1. job.count \in Nat /\ Backlog \in 0..(RingSize - 1)
  BY Numbers DEF WindowKept, Backlog
<1>2. ASSUME NEW k \in 0..(job.count - 1)
      PROVE  hist[Slot(k)] = retired + k + 1
  <2>1. k \in 0..RingSize /\ k \in 0..(Backlog - 1)
    BY <1>1, Numbers
  <2> QED
    BY <2>1, SlotWraps DEF WindowKept
<1>3. Unwritten = {}
  BY <1>1, <1>2, Numbers DEF Unwritten
<1>4. UsableCount = job.count
  BY <1>3 DEF UsableCount
<1>5. Len(Batch) = job.count
  BY <1>4, UsableType
<1>6. ASSUME NEW k \in 1..job.count
      PROVE  Batch[k] = retired + k
  <2>1. k - 1 \in 0..(job.count - 1) /\ retired + (k - 1) + 1 = retired + k
    BY <1>1, Numbers
  <2> QED
    BY <2>1, <1>2, <1>4 DEF Batch
<1> QED
  BY <1>4, <1>5, <1>6 DEF CarriesFrom

-----------------------------------------------------------------------------
(* Steps that move no data.                                                *)

(* The step leaves the ring, the record, the messages and the acks alone;  *)
(* mq_marshal keeps its window or gives it up, the esp-mqtt task neither   *)
(* begins nor ends the handling of an ack.                                 *)
DataKept ==
  /\ UNCHANGED <<hist, nextCaptureHist, nextXmitHist, captured, retired>>
  /\ UNCHANGED <<inFlight, ackId, outbox, acks, received>>
  /\ pc'["capture"] = pc["capture"]
  /\ pc'["mqtt"] \in {pc["mqtt"], "idle", "clrLock", "clrUnlock", "clrDone"}
  /\ pc["mqtt"] = "ackDone" => pc'["mqtt"] = "ackDone"
  /\ \/ pc'["marshal"] = pc["marshal"] /\ job' = job
     \/ pc["marshal"] = "send" /\ pc'["marshal"] = "enqueue" /\ job' = job
     \/ pc["marshal"] \notin {"recordId", "recordRecap"}
          /\ pc'["marshal"] \notin {"read", "send", "enqueue", "recordId", "recordRecap"}

DataStep ==
  \/ CaptureFill \/ CaptureAdvance
  \/ \E t \in Task : ClearDone(t)
  \/ \E id \in MsgIds : MqttPublished(id)
  \/ AckLock \/ AckApply \/ AckDone
  \/ MarshalCheck \/ MarshalRead \/ MarshalEnqueue
  \/ MarshalRecordId \/ MarshalRecordRecap
  \/ \E m \in outbox : Deliver(m) \/ LoseMessage(m)
  \/ \E id \in MsgIds : LoseAck(id)

LEMMA DataSteps ==
  ASSUME TypeOK, [Next]_vars
  PROVE  DataStep \/ DataKept
<1> USE StepsOf DEF histVars, flightVars, marshalVars, networkVars
<1>1. ASSUME NEW due, MarshalWake(due)
      PROVE  DataKept
  BY <1>1, GotoPc DEF MarshalWake, DataKept, At
<1>2. CASE MarshalCredit \/ MarshalBegin \/ MarshalLock
  BY <1>2, GotoPc DEF MarshalCredit, MarshalBegin, MarshalLock, DataKept, At
<1>3. CASE MarshalAllocFails \/ MarshalEnqueueFails
  BY <1>3, GotoPc DEF MarshalAllocFails, MarshalEnqueueFails, MarshalCleanup, DataKept, At
<1>4. CASE MarshalSend
  BY <1>4, GotoPc DEF MarshalSend, MarshalCleanup, DataKept, At
<1>5. CASE ClearLock("marshal") \/ ClearUnlock("marshal")
  BY <1>5, GotoPc DEF ClearLock, ClearUnlock, DataKept, At
<1>6. ASSUME NEW t \in {"mqtt", "wifi"}, ClearLock(t) \/ ClearUnlock(t)
      PROVE  DataKept
  BY <1>6, GotoPc DEF ClearLock, ClearUnlock, DataKept, At
<1>7. CASE MqttDisconnected \/ MqttError \/ WifiDisconnected
  BY <1>7, GotoPc DEF MqttDisconnected, MqttError, WifiDisconnected, BeginClear, DataKept, At
<1>8. CASE MqttConnected \/ AckTimeout \/ UNCHANGED vars
  BY <1>8 DEF MqttConnected, AckTimeout, vars, DataKept
<1> QED
  BY <1>1, <1>2, <1>3, <1>4, <1>5, <1>6, <1>7, <1>8
  DEF Next, DataStep, Capture, MqttAck, MarshalStep, Clear

-----------------------------------------------------------------------------
(* The parts of the invariant, one by one.                                 *)

(* An ack is applied while mq_marshal builds and records nothing.          *)
LEMMA AckAlone ==
  ASSUME DeliveryInv, AckApply
  PROVE  /\ pc["mqtt"] = "ackApply"
         /\ pc["marshal"] \notin HoldSteps
         /\ inFlight.id # NoId =>
              /\ inFlight.id = ackId
              /\ inFlight.lanes <= Backlog
              /\ (retired + 1)..(retired + inFlight.lanes) \subseteq received
<1>1. pc["mqtt"] = "ackApply"
  BY DEF AckApply, At
<1>2. mqTxMutex = "mqtt" /\ pc["marshal"] \notin HoldSteps
  BY <1>1, StepsOf DEF DeliveryInv, LockInv, MutexInv, HoldSteps
<1>3. ~Recording
  BY <1>2 DEF Recording, HoldSteps
<1>4. inFlight.id # NoId => inFlight.id = ackId
  BY <1>1 DEF DeliveryInv, AckMatches
<1> QED
  BY <1>1, <1>2, <1>3, <1>4 DEF DeliveryInv, FlightCarries, CurrentId, CurrentLanes

(* The step leaves the ring and the capture task alone.                    *)
RingKept ==
  /\ UNCHANGED <<hist, nextCaptureHist, nextXmitHist, captured, retired>>
  /\ pc'["capture"] = pc["capture"]

LEMMA RingStays ==
  ASSUME TypeOK, [Next]_vars, ~CaptureFill, ~CaptureAdvance, ~AckApply
  PROVE  RingKept
<1> USE StepsOf DEF histVars
<1>1. ASSUME NEW t \in Task, ClearDone(t)
      PROVE  RingKept
  <2>1. t # "capture"
    BY <1>1 DEF ClearDone, At, TypeOK, TaskType
  <2> QED
    BY <1>1, <2>1, GotoPc DEF RingKept, ClearDone
<1>2. ASSUME NEW id, MqttPublished(id)
      PROVE  RingKept
  BY <1>2, GotoPc DEF RingKept, MqttPublished
<1>3. CASE AckLock \/ AckDone
  BY <1>3, GotoPc DEF RingKept, AckLock, AckDone
<1>4. CASE MarshalCheck \/ MarshalRead
  BY <1>4, GotoPc DEF RingKept, MarshalCheck, MarshalRead, MarshalCleanup
<1>5. CASE MarshalEnqueue \/ MarshalRecordId \/ MarshalRecordRecap
  BY <1>5, GotoPc DEF RingKept, MarshalEnqueue, MarshalRecordId, MarshalRecordRecap, MarshalCleanup
<1>6. ASSUME NEW m, Deliver(m) \/ LoseMessage(m)
      PROVE  RingKept
  BY <1>6 DEF RingKept, Deliver, LoseMessage
<1>7. ASSUME NEW id, LoseAck(id)
      PROVE  RingKept
  BY <1>7 DEF RingKept, LoseAck
<1>8. CASE DataKept
  BY <1>8 DEF RingKept, DataKept
<1> QED
  BY <1>1, <1>2, <1>3, <1>4, <1>5, <1>6, <1>7, <1>8, DataSteps DEF DataStep

LEMMA WindowKeptStep ==
  ASSUME MaxBacklog < RingSize, DeliveryInv, [Next]_vars
  PROVE  WindowKept'
<1> USE StepsOf, Numbers DEF DeliveryInv, LockInv
<1>1. CASE CaptureFill
  <2>1. Backlog \in 0..(MaxBacklog - 1) /\ Backlog' = Backlog
    BY <1>1 DEF CaptureFill, WindowKept, Backlog
  <2>2. \A k \in 0..(Backlog - 1) : Wrap(nextXmitHist + k) # nextCaptureHist
    BY <2>1 DEF WindowKept, Wrap
  <2>3. hist'[nextCaptureHist] = captured + 1
        /\ \A i \in 0..(RingSize - 1) : i # nextCaptureHist => hist'[i] = hist[i]
    BY <1>1 DEF CaptureFill, TypeOK, RingType
  <2>4. \A k \in 0..(Backlog - 1) : Wrap(nextXmitHist + k) \in 0..(RingSize - 1)
    BY <2>1 DEF Wrap
  <2>5. \A k \in 0..(Backlog - 1) : hist'[Wrap(nextXmitHist + k)] = retired + k + 1
    BY <2>2, <2>3, <2>4 DEF WindowKept
  <2> QED
    BY <1>1, <2>1, <2>3, <2>5 DEF CaptureFill, WindowKept, Wrap
<1>2. CASE CaptureAdvance
  <2>1. /\ pc["capture"] = "advance" /\ pc'["capture"] = "idle"
        /\ Backlog' = Backlog + 1
        /\ Backlog \in 0..(MaxBacklog - 1)
    BY <1>2, GotoPc DEF CaptureAdvance, At, WindowKept, Backlog
  <2>2. nextCaptureHist' = Wrap(nextCaptureHist + 1)
    <3>1. nextCaptureHist + 1 \in 0..(2 * RingSize - 1)
      OBVIOUS
    <3> QED
      BY <1>2, <3>1, WrapIsMod DEF CaptureAdvance, IncHist
  <2>3. nextCaptureHist' = Wrap(nextXmitHist + Backlog + 1)
    BY <2>1, <2>2 DEF WindowKept, Wrap
  <2>4. \A k \in 0..Backlog : hist[Wrap(nextXmitHist + k)] = retired + k + 1
    BY <2>1 DEF WindowKept, Backlog
  <2> QED
    BY <1>2, <2>1, <2>3, <2>4 DEF CaptureAdvance, WindowKept, Wrap
<1>3. CASE AckApply
  <2>1. CASE inFlight.id = NoId
    BY <1>3, <2>1, GotoPc DEF AckApply, WindowKept, Backlog, Wrap
  <2>2. CASE inFlight.id # NoId
    <3> DEFINE n == inFlight.lanes
    <3>1. n \in 0..Backlog /\ Backlog \in 0..(RingSize - 1)
      BY <1>3, <2>2, AckAlone DEF WindowKept, Backlog
    <3>2. /\ retired' = retired + n
          /\ nextXmitHist' = Slot(n)
          /\ UNCHANGED <<hist, nextCaptureHist, captured>>
          /\ pc'["capture"] = pc["capture"]
      BY <1>3, <2>2, GotoPc DEF AckApply
    <3>3. nextXmitHist' = Wrap(nextXmitHist + n)
      BY <3>1, <3>2, SlotWraps
    <3>4. Backlog' = Backlog - n
      BY <3>1, <3>2 DEF Backlog
    <3> HIDE DEF n
    <3>5. \A k \in 0..(Backlog - n) :
            Wrap(nextXmitHist' + k) = Wrap(nextXmitHist + (n + k))
      BY <3>1, <3>3 DEF Wrap
    <3>6. nextCaptureHist' = Wrap(nextXmitHist' + Backlog')
      <4>1. Backlog - n \in 0..(Backlog - n) /\ n + (Backlog - n) = Backlog
        BY <3>1
      <4>2. Wrap(nextXmitHist' + (Backlog - n)) = Wrap(nextXmitHist + Backlog)
        BY <3>5, <4>1
      <4> QED
        BY <3>2, <3>4, <4>2 DEF WindowKept
    <3>7. \A k \in 0..(Backlog' - 1) : hist[Wrap(nextXmitHist' + k)] = retired' + k + 1
      <4> SUFFICES ASSUME NEW k \in 0..(Backlog - n - 1)
                   PROVE  hist[Wrap(nextXmitHist' + k)] = retired' + k + 1
        BY <3>4
      <4>1. n + k \in 0..(Backlog - 1) /\ k \in 0..(Backlog - n)
        BY <3>1
      <4>2. hist[Wrap(nextXmitHist + (n + k))] = retired + (n + k) + 1
        BY <4>1 DEF WindowKept
      <4> QED
        BY <3>1, <3>2, <3>5, <4>1, <4>2
    <3>8. pc'["capture"] = "advance" =>
            Backlog' < MaxBacklog /\ hist[nextCaptureHist] = captured + 1
      BY <3>1, <3>2, <3>4 DEF WindowKept
    <3>9. 0 <= Backlog' /\ Backlog' <= MaxBacklog
      BY <3>1, <3>4 DEF WindowKept
    <3> QED
      BY <3>2, <3>6, <3>7, <3>8, <3>9 DEF WindowKept, Wrap
  <2> QED
    BY <2>1, <2>2
<1>4. CASE RingKept
  BY <1>4 DEF RingKept, WindowKept, Backlog, Wrap
<1> QED
  BY <1>1, <1>2, <1>3, <1>4, RingStays

LEMMA JobFitsStep ==
  ASSUME MaxBacklog < RingSize, DeliveryInv, [Next]_vars
  PROVE  JobFits'
<1> USE StepsOf, Numbers DEF DeliveryInv, LockInv
<1>1. CASE MarshalCheck
  <2>1. CASE pc'["marshal"] = "read"
    <3>1. job'.count <= getXmitHistBacklog
      <4> DEFINE count == IF getXmitHistBacklog > BatchMax THEN BatchMax
                                                         ELSE getXmitHistBacklog
      <4>1. \E health \in BOOLEAN : job' = [job EXCEPT !.health = health, !.count = count]
        BY <1>1, <2>1, GotoPc DEF MarshalCheck, MarshalCleanup
      <4>2. count <= getXmitHistBacklog
        BY BacklogType
      <4> HIDE DEF count
      <4>3. job'.count = count
        BY <4>1 DEF TypeOK, JobType
      <4> QED
        BY <4>2, <4>3
    <3>2. UNCHANGED <<captured, retired>>
      BY <1>1 DEF MarshalCheck, histVars
    <3> QED
      BY <2>1, <3>1, <3>2, BacklogCounts DEF JobFits, Backlog
  <2>2. CASE pc'["marshal"] # "read"
    BY <1>1, <2>2, GotoPc DEF MarshalCheck, MarshalCleanup, JobFits
  <2> QED
    BY <2>1, <2>2
<1>2. CASE MarshalRead
  <2>1. pc["marshal"] = "read" /\ job.count <= Backlog
    BY <1>2 DEF MarshalRead, At, JobFits
  <2>2. UNCHANGED <<captured, retired>>
    BY <1>2 DEF MarshalRead, histVars
  <2>3. CASE pc'["marshal"] = "send"
    <3>1. job'.count = UsableCount /\ job'.batch = Batch
      <4>1. job' = [job EXCEPT !.batch = Batch, !.count = UsableCount]
        BY <1>2, <2>3, GotoPc DEF MarshalRead, MarshalCleanup
      <4> QED
        BY <4>1 DEF TypeOK, JobType
    <3>2. job'.count = Len(job'.batch) /\ job'.count <= Backlog
          /\ CarriesFrom(retired, job'.batch)
      BY <2>1, <3>1, ReadsWindow
    <3> QED
      BY <2>2, <2>3, <3>2 DEF JobFits, Backlog, CarriesFrom
  <2>4. CASE pc'["marshal"] # "send"
    BY <1>2, <2>4, GotoPc DEF MarshalRead, MarshalCleanup, JobFits
  <2> QED
    BY <2>3, <2>4
<1>3. CASE MarshalEnqueue
  <2>1. /\ pc["marshal"] = "enqueue" /\ pc'["marshal"] = "recordId"
        /\ UNCHANGED <<captured, retired>>
        /\ job'.count = job.count /\ job'.batch = job.batch
    BY <1>3, GotoPc DEF MarshalEnqueue, At, histVars, TypeOK, JobType
  <2> QED
    BY <2>1 DEF JobFits, Backlog, CarriesFrom
<1>4. CASE MarshalRecordId
  <2>1. /\ pc["marshal"] = "recordId" /\ pc'["marshal"] = "recordRecap"
        /\ UNCHANGED <<captured, retired, job>>
    BY <1>4, GotoPc DEF MarshalRecordId, At, histVars, marshalVars
  <2> QED
    BY <2>1 DEF JobFits, Backlog, CarriesFrom
<1>5. CASE MarshalRecordRecap
  BY <1>5, GotoPc DEF MarshalRecordRecap, MarshalCleanup, JobFits
<1>6. CASE AckApply
  <2>1. pc'["marshal"] = pc["marshal"] /\ pc["marshal"] \notin HoldSteps
    BY <1>6, AckAlone, GotoPc DEF AckApply
  <2> QED
    BY <2>1 DEF JobFits, HoldSteps
<1>7. CASE CaptureFill \/ CaptureAdvance
  <2>1. /\ pc'["marshal"] = pc["marshal"]
        /\ UNCHANGED <<job, retired>>
        /\ Backlog' >= Backlog
    BY <1>7, GotoPc DEF CaptureFill, CaptureAdvance, marshalVars, Backlog
  <2>2. Backlog \in Int /\ Backlog' \in Int
    BY <1>7 DEF Backlog, CaptureFill, CaptureAdvance
  <2> QED
    BY <2>1, <2>2 DEF JobFits, CarriesFrom
<1>8. ASSUME UNCHANGED <<job, captured, retired>>, pc'["marshal"] = pc["marshal"]
      PROVE  JobFits'
  BY <1>8 DEF JobFits, Backlog, CarriesFrom
<1>9. ASSUME NEW t \in Task, ClearDone(t)
      PROVE  JobFits'
  <2>1. pc'["marshal"] \in {pc["marshal"], "pubLock"} /\ UNCHANGED <<job, captured, retired>>
    BY <1>9, GotoPc DEF ClearDone, histVars, marshalVars
  <2> QED
    BY <2>1, <1>8 DEF JobFits
<1>10. ASSUME NEW id, MqttPublished(id)
       PROVE  JobFits'
  BY <1>8, <1>10, GotoPc DEF MqttPublished, histVars, marshalVars
<1>11. CASE AckLock \/ AckDone
  BY <1>8, <1>11, GotoPc DEF AckLock, AckDone, histVars, marshalVars
<1>12. ASSUME NEW m, Deliver(m) \/ LoseMessage(m)
       PROVE  JobFits'
  BY <1>8, <1>12 DEF Deliver, LoseMessage, histVars, marshalVars
<1>13. ASSUME NEW id, LoseAck(id)
       PROVE  JobFits'
  BY <1>8, <1>13 DEF LoseAck, histVars, marshalVars
<1>14. CASE DataKept
  BY <1>14 DEF DataKept, JobFits, Backlog, CarriesFrom
<1> QED
  BY <1>1, <1>2, <1>3, <1>4, <1>5, <1>6, <1>7, <1>9, <1>10, <1>11, <1>12, <1>13, <1>14,
     DataSteps DEF DataStep

(* A task at an enqueue that can run finds the esp-mqtt task idle.         *)
LEMMA EnqueueAlone ==
  ASSUME At("marshal", "enqueue")
  PROVE  pc["marshal"] = "enqueue" /\ pc["mqtt"] = "idle"
BY DEF At, CanRun, Blocked, WaitsForApi

(* The messages, acks and captures of a step that is not the esp-mqtt      *)
(* task's nor mq_marshal's change neither of the two nor what they record. *)
FlightKept ==
  /\ UNCHANGED <<inFlight, ackId, job>>
  /\ pc'["marshal"] = pc["marshal"]
  /\ pc'["mqtt"] = pc["mqtt"]

LEMMA FlightStays ==
  ASSUME TypeOK,
         \/ CaptureFill \/ CaptureAdvance
         \/ \E m : Deliver(m) \/ LoseMessage(m)
         \/ \E id : LoseAck(id)
  PROVE  FlightKept
<1> USE StepsOf DEF FlightKept, flightVars, marshalVars
<1>1. CASE CaptureFill \/ CaptureAdvance
  BY <1>1, GotoPc DEF CaptureFill, CaptureAdvance
<1>2. CASE \E m : Deliver(m) \/ LoseMessage(m)
  BY <1>2 DEF Deliver, LoseMessage
<1>3. CASE \E id : LoseAck(id)
  BY <1>3 DEF LoseAck
<1> QED
  BY <1>1, <1>2, <1>3

LEMMA AckMatchesStep ==
  ASSUME DeliveryInv, [Next]_vars
  PROVE  AckMatches'
<1> USE StepsOf DEF DeliveryInv, LockInv, AckMatches, Recording
<1>1. ASSUME NEW t \in Task, ClearDone(t)
      PROVE  AckMatches'
  <2>1. /\ inFlight'.id = NoId
        /\ UNCHANGED <<ackId, job>>
        /\ pc'["marshal"] \in {pc["marshal"], "pubLock"}
        /\ pc'["mqtt"] \in {pc["mqtt"], "idle"}
    BY <1>1, GotoPc DEF ClearDone, NoFlight, marshalVars
  <2> QED
    BY <2>1
<1>2. ASSUME NEW id \in MsgIds, MqttPublished(id)
      PROVE  AckMatches'
  <2>1. /\ pc["mqtt"] = "idle"
        /\ UNCHANGED <<inFlight, job>>
        /\ pc'["marshal"] = pc["marshal"]
        /\ \/ pc'["mqtt"] = "idle"
           \/ pc'["mqtt"] = "ackLock" /\ inFlight.id = id /\ ackId' = id
    BY <1>2, GotoPc DEF MqttPublished, At, flightVars, marshalVars
  <2>2. id # NoId
    BY MsgIdsAssumption
  <2> QED
    BY <2>1, <2>2 DEF NothingInFlight
<1>3. CASE AckLock
  <2>1. /\ pc["mqtt"] = "ackLock" /\ pc'["mqtt"] = "ackApply"
        /\ UNCHANGED <<inFlight, job, ackId>>
        /\ pc'["marshal"] = pc["marshal"]
    BY <1>3, GotoPc DEF AckLock, At, flightVars, marshalVars
  <2> QED
    BY <2>1
<1>4. CASE AckApply
  <2>1. /\ pc'["mqtt"] = "ackDone"
        /\ pc'["marshal"] = pc["marshal"]
        /\ pc["marshal"] \notin HoldSteps
    BY <1>4, GotoPc, AckAlone DEF AckApply
  <2> QED
    BY <2>1 DEF HoldSteps
<1>5. CASE AckDone
  <2>1. /\ pc'["mqtt"] = "idle"
        /\ inFlight'.id = NoId
        /\ pc'["marshal"] = pc["marshal"]
    BY <1>5, GotoPc DEF AckDone, NoFlight
  <2> QED
    BY <2>1
<1>6. CASE MarshalCheck \/ MarshalRead
  <2>1. /\ pc'["marshal"] \in {"idle", "read", "send"}
        /\ pc'["mqtt"] = pc["mqtt"]
        /\ UNCHANGED <<inFlight, ackId>>
    <3>1. CASE MarshalCheck
      BY <3>1, GotoPc DEF MarshalCheck, MarshalCleanup, flightVars
    <3>2. CASE MarshalRead
      BY <3>2, GotoPc DEF MarshalRead, MarshalCleanup, flightVars
    <3> QED
      BY <1>6, <3>1, <3>2
  <2> QED
    BY <2>1
<1>7. CASE MarshalEnqueue
  <2>1. pc'["marshal"] = "recordId" /\ pc'["mqtt"] = "idle"
    BY <1>7, GotoPc, EnqueueAlone DEF MarshalEnqueue
  <2> QED
    BY <2>1
<1>8. CASE MarshalRecordId
  <2>1. /\ pc["marshal"] = "recordId" /\ pc'["marshal"] = "recordRecap"
        /\ pc'["mqtt"] = pc["mqtt"]
        /\ UNCHANGED <<ackId, job>>
        /\ inFlight' = [inFlight EXCEPT !.id = job.msgId]
    BY <1>8, GotoPc DEF MarshalRecordId, At, marshalVars
  <2>2. inFlight'.id = job.msgId
    BY <2>1 DEF TypeOK, FlightType
  <2> QED
    BY <2>1, <2>2
<1>9. CASE MarshalRecordRecap
  <2>1. /\ pc["marshal"] = "recordRecap" /\ pc'["marshal"] = "idle"
        /\ pc'["mqtt"] = pc["mqtt"]
        /\ UNCHANGED ackId
        /\ inFlight' = [inFlight EXCEPT !.lanes = job.count, !.health = job.health]
    BY <1>9, GotoPc DEF MarshalRecordRecap, MarshalCleanup, At
  <2>2. inFlight'.id = inFlight.id
    BY <2>1 DEF TypeOK, FlightType
  <2> QED
    BY <2>1, <2>2
<1>10. CASE FlightKept
  BY <1>10 DEF FlightKept
<1>11. CASE DataKept
  BY <1>11 DEF DataKept
<1> QED
  BY <1>1, <1>2, <1>3, <1>4, <1>5, <1>6, <1>7, <1>8, <1>9, <1>10, <1>11, FlightStays,
     DataSteps DEF DataStep

LEMMA NetworkMoves ==
  ASSUME TypeOK, [Next]_vars
  PROVE  /\ UNCHANGED received \/ \E m \in outbox : Deliver(m)
         /\ outbox' \subseteq outbox \/ MarshalEnqueue
<1> USE DEF networkVars
<1>1. CASE CaptureFill \/ CaptureAdvance \/ \E t \in Task : ClearDone(t)
  BY <1>1 DEF CaptureFill, CaptureAdvance, ClearDone
<1>2. CASE AckLock \/ AckApply \/ AckDone \/ \E id \in MsgIds : MqttPublished(id)
  BY <1>2 DEF AckLock, AckApply, AckDone, MqttPublished
<1>3. CASE MarshalCheck \/ MarshalRead \/ MarshalEnqueue
  BY <1>3 DEF MarshalCheck, MarshalRead, MarshalEnqueue
<1>4. CASE MarshalRecordId \/ MarshalRecordRecap
  BY <1>4 DEF MarshalRecordId, MarshalRecordRecap
<1>5. CASE \E m \in outbox : Deliver(m) \/ LoseMessage(m)
  BY <1>5 DEF Deliver, LoseMessage
<1>6. CASE \E id \in MsgIds : LoseAck(id)
  BY <1>6 DEF LoseAck
<1>7. CASE DataKept
  BY <1>7 DEF DataKept
<1> QED
  BY <1>1, <1>2, <1>3, <1>4, <1>5, <1>6, <1>7, DataSteps DEF DataStep

LEMMA NothingForgottenStep ==
  ASSUME DeliveryInv, [Next]_vars
  PROVE  NothingForgotten'
<1> USE DEF DeliveryInv, LockInv, NothingForgotten
<1>1. received \subseteq received'
  BY NetworkMoves DEF Deliver
<1>2. CASE AckApply
  <2>1. CASE inFlight.id = NoId
    BY <1>1, <1>2, <2>1 DEF AckApply
  <2>2. CASE inFlight.id # NoId
    <3>1. /\ retired' = retired + inFlight.lanes
          /\ (retired + 1)..(retired + inFlight.lanes) \subseteq received
      BY <1>2, <2>2, AckAlone DEF AckApply
    <3>2. \A x \in 1..(retired + inFlight.lanes) :
            x \in 1..retired \/ x \in (retired + 1)..(retired + inFlight.lanes)
      BY Numbers
    <3> QED
      BY <1>1, <3>1, <3>2
  <2> QED
    BY <2>1, <2>2
<1>3. CASE ~AckApply
  <2>1. retired' = retired
    BY <1>3, RingStays DEF RingKept, CaptureFill, CaptureAdvance
  <2> QED
    BY <1>1, <2>1
<1> QED
  BY <1>2, <1>3

LEMMA OutboxInOrderStep ==
  ASSUME DeliveryInv, [Next]_vars
  PROVE  OutboxInOrder'
<1> USE Numbers DEF DeliveryInv, LockInv
<1>1. /\ retired \in Nat /\ retired' \in Nat /\ captured \in Nat /\ captured' \in Nat
      /\ retired <= retired' /\ captured <= captured'
  <2>1. CASE CaptureFill \/ CaptureAdvance
    BY <2>1 DEF CaptureFill, CaptureAdvance
  <2>2. CASE AckApply
    BY <2>2 DEF AckApply
  <2>3. CASE RingKept
    BY <2>3 DEF RingKept
  <2> QED
    BY <2>1, <2>2, <2>3, RingStays
<1>2. ASSUME NEW m \in outbox
      PROVE  \E a \in 0..retired' : a + Len(m.batch) <= captured' /\ CarriesFrom(a, m.batch)
  <2>1. PICK a \in 0..retired : a + Len(m.batch) <= captured /\ CarriesFrom(a, m.batch)
    BY DEF OutboxInOrder
  <2>2. Len(m.batch) \in Nat
    BY DEF TypeOK, NetworkType, Message
  <2>3. a \in 0..retired' /\ a + Len(m.batch) <= captured'
    BY <1>1, <2>1, <2>2
  <2> QED
    BY <2>1, <2>3
<1>3. CASE outbox' \subseteq outbox
  BY <1>2, <1>3 DEF OutboxInOrder
<1>4. CASE MarshalEnqueue
  <2>1. /\ UNCHANGED <<retired, captured>>
        /\ \A m \in outbox' : m \in outbox \/ m.batch = job.batch
    BY <1>4 DEF MarshalEnqueue, histVars
  <2>2. /\ retired \in 0..retired
        /\ retired + Len(job.batch) <= captured
        /\ CarriesFrom(retired, job.batch)
    BY <1>4, EnqueueAlone DEF MarshalEnqueue, JobFits, Backlog
  <2>3. \A m \in outbox' : \E a \in 0..retired' :
          a + Len(m.batch) <= captured' /\ CarriesFrom(a, m.batch)
    BY <1>2, <2>1, <2>2
  <2> QED
    BY <2>3 DEF OutboxInOrder, CarriesFrom
<1> QED
  BY <1>3, <1>4, NetworkMoves

(* What FlightCarries says of a publish id that carries n transitions.     *)
Carries(id, n) ==
  /\ n <= Backlog
  /\ \A m \in outbox : m.id = id => Len(m.batch) = n /\ CarriesFrom(retired, m.batch)
  /\ id \in acks \/ id = ackId => (retired + 1)..(retired + n) \subseteq received

(* It still holds after a step that retires nothing, sends nothing under   *)
(* that id and acknowledges nothing the broker has not received.           *)
LEMMA CarriesStays ==
  ASSUME NEW id, NEW n, Carries(id, n),
         UNCHANGED <<retired, received>>, captured' \in {captured, captured + 1},
         captured \in Nat, retired \in Nat, n \in Nat,
         \A m \in outbox' : m.id = id => m \in outbox,
         id \in acks' \/ id = ackId' => id \in acks \/ id = ackId
  PROVE  Carries(id, n)'
<1>1. n <= Backlog'
  <2>1. n <= captured - retired
    BY DEF Carries, Backlog
  <2>2. n <= captured' - retired
    <3>1. CASE captured' = captured
      BY <2>1, <3>1
    <3>2. CASE captured' = captured + 1
      BY <2>1, <3>2
    <3> QED
      BY <3>1, <3>2
  <2> QED
    BY <2>2 DEF Backlog
<1> QED
  BY <1>1 DEF Carries, CarriesFrom

LEMMA FlightCarriesStep ==
  ASSUME DeliveryInv, [Next]_vars
  PROVE  FlightCarries'
<1> USE StepsOf, Numbers DEF DeliveryInv, LockInv
<1>1. pc["mqtt"] # "ackDone" /\ CurrentId # NoId => Carries(CurrentId, CurrentLanes)
  BY DEF FlightCarries, Carries
<1>2. CurrentLanes \in Nat
  BY DEF CurrentLanes
<1> SUFFICES ASSUME pc'["mqtt"] # "ackDone", CurrentId' # NoId
             PROVE  Carries(CurrentId, CurrentLanes)'
  BY DEF FlightCarries, Carries
<1>3. CASE \E t \in Task : ClearDone(t)
  <2>1. PICK t \in Task : ClearDone(t)
    BY <1>3
  <2>2. /\ inFlight' = NoFlight
        /\ UNCHANGED <<retired, captured, received, outbox, acks, ackId, job>>
        /\ pc["mqtt"] # "ackDone"
        /\ pc'["marshal"] \in {pc["marshal"], "pubLock"}
    BY <2>1, GotoPc DEF ClearDone, At, histVars, marshalVars, networkVars
  <2>3. CurrentId' = CurrentId /\ CurrentLanes' = CurrentLanes
    BY <2>2 DEF CurrentId, CurrentLanes, Recording, NoFlight
  <2> QED
    BY <1>1, <1>2, <2>2, <2>3, CarriesStays
<1>4. CASE \E id \in MsgIds : MqttPublished(id)
  <2>1. PICK id \in MsgIds : MqttPublished(id)
    BY <1>4
  <2>2. /\ id \in acks /\ acks' = acks \ {id}
        /\ ackId' \in {id, NoId}
        /\ UNCHANGED <<retired, captured, received, outbox, inFlight, job>>
        /\ pc["mqtt"] = "idle"
        /\ pc'["marshal"] = pc["marshal"]
    BY <2>1, GotoPc DEF MqttPublished, At, histVars, flightVars, marshalVars
  <2>3. CurrentId' = CurrentId /\ CurrentLanes' = CurrentLanes
    BY <2>2 DEF CurrentId, CurrentLanes, Recording
  <2> QED
    BY <1>1, <1>2, <2>2, <2>3, CarriesStays
<1>5. CASE AckLock
  <2>1. /\ UNCHANGED <<retired, captured, received, outbox, acks, ackId, inFlight, job>>
        /\ pc["mqtt"] = "ackLock"
        /\ pc'["marshal"] = pc["marshal"]
    BY <1>5, GotoPc DEF AckLock, At, histVars, flightVars, marshalVars, networkVars
  <2>2. CurrentId' = CurrentId /\ CurrentLanes' = CurrentLanes
    BY <2>1 DEF CurrentId, CurrentLanes, Recording
  <2> QED
    BY <1>1, <1>2, <2>1, <2>2, CarriesStays
<1>6. CASE AckApply
  BY <1>6, GotoPc DEF AckApply
<1>7. CASE AckDone
  <2>1. pc["mqtt"] = "ackDone" /\ pc'["marshal"] = pc["marshal"] /\ inFlight' = NoFlight
    BY <1>7, GotoPc DEF AckDone, At
  <2>2. CurrentId' = NoId
    BY <2>1 DEF AckMatches, CurrentId, Recording, NoFlight
  <2> QED
    BY <2>2
<1>8. CASE MarshalCheck \/ MarshalRead
  <2>1. /\ UNCHANGED <<retired, captured, received, outbox, acks, ackId, inFlight>>
        /\ pc'["mqtt"] = pc["mqtt"]
        /\ ~Recording /\ ~Recording'
    <3>1. CASE MarshalCheck
      <4>1. /\ pc["marshal"] = "pubCheck"
            /\ Goto("marshal", "idle") \/ Goto("marshal", "read")
        BY <3>1 DEF MarshalCheck, MarshalCleanup, At
      <4>2. pc'["mqtt"] = pc["mqtt"] /\ ~Recording /\ ~Recording'
        BY <4>1, GotoPc DEF Recording
      <4> QED
        BY <3>1, <4>2 DEF MarshalCheck, histVars, flightVars, networkVars
    <3>2. CASE MarshalRead
      BY <3>2, GotoPc DEF MarshalRead, MarshalCleanup, At, histVars, flightVars,
           networkVars, Recording
    <3> QED
      BY <1>8, <3>1, <3>2
  <2>2. CurrentId' = CurrentId /\ CurrentLanes' = CurrentLanes
    BY <2>1 DEF CurrentId, CurrentLanes
  <2> QED
    BY <1>1, <1>2, <2>1, <2>2, CarriesStays
<1>9. CASE MarshalEnqueue
  <2>1. PICK id \in FreeIds :
          /\ outbox' = outbox \cup {[id |-> id, batch |-> job.batch]}
          /\ job' = [job EXCEPT !.msgId = id]
    BY <1>9 DEF MarshalEnqueue
  <2>2. /\ UNCHANGED <<retired, captured, received, acks, ackId>>
        /\ pc["marshal"] = "enqueue" /\ pc'["marshal"] = "recordId"
    BY <1>9, GotoPc DEF MarshalEnqueue, At, histVars
  <2>3. CurrentId' = id /\ CurrentLanes' = job.count
    BY <2>1, <2>2 DEF CurrentId, CurrentLanes, Recording, TypeOK, JobType
  <2>4. /\ id \notin acks /\ id # ackId
        /\ \A m \in outbox : m.id # id
    BY <2>1 DEF FreeIds
  <2>5. \A m \in outbox' : m.id = id => m.batch = job.batch
    BY <2>1, <2>4
  <2>6. /\ job.count <= Backlog
        /\ job.count = Len(job.batch)
        /\ CarriesFrom(retired, job.batch)
    BY <2>2 DEF JobFits
  <2>7. Backlog' = Backlog
    BY <2>2 DEF Backlog
  <2> QED
    BY <2>2, <2>3, <2>4, <2>5, <2>6, <2>7 DEF Carries, CarriesFrom
<1>10. CASE MarshalRecordId
  <2>1. /\ UNCHANGED <<retired, captured, received, outbox, acks, ackId, job>>
        /\ pc'["mqtt"] = pc["mqtt"]
        /\ pc["marshal"] = "recordId" /\ pc'["marshal"] = "recordRecap"
    BY <1>10, GotoPc DEF MarshalRecordId, At, histVars, marshalVars, networkVars
  <2>2. CurrentId' = CurrentId /\ CurrentLanes' = CurrentLanes
    BY <2>1 DEF CurrentId, CurrentLanes, Recording
  <2> QED
    BY <1>1, <1>2, <2>1, <2>2, CarriesStays
<1>11. CASE MarshalRecordRecap
  <2>1. /\ UNCHANGED <<retired, captured, received, outbox, acks, ackId>>
        /\ pc'["mqtt"] = pc["mqtt"]
        /\ pc["marshal"] = "recordRecap" /\ pc'["marshal"] = "idle"
        /\ inFlight' = [inFlight EXCEPT !.lanes = job.count, !.health = job.health]
    BY <1>11, GotoPc DEF MarshalRecordRecap, MarshalCleanup, At, histVars, networkVars
  <2>2. inFlight'.id = inFlight.id /\ inFlight'.lanes = job.count
    BY <2>1 DEF TypeOK, FlightType
  <2>3. CurrentId' = job.msgId /\ CurrentId = job.msgId
    BY <2>1, <2>2 DEF CurrentId, Recording, AckMatches
  <2>4. CurrentLanes' = CurrentLanes
    BY <2>1, <2>2 DEF CurrentLanes, Recording
  <2> QED
    BY <1>1, <1>2, <2>1, <2>3, <2>4, CarriesStays
<1>12. CASE \/ CaptureFill \/ CaptureAdvance
            \/ \E m \in outbox : Deliver(m) \/ LoseMessage(m)
            \/ \E id \in MsgIds : LoseAck(id)
  <2>1. CurrentId' = CurrentId /\ CurrentLanes' = CurrentLanes /\ pc["mqtt"] # "ackDone"
    BY <1>12, FlightStays DEF FlightKept, CurrentId, CurrentLanes, Recording
  <2>2. Carries(CurrentId, CurrentLanes)
    BY <1>1, <2>1
  <2>3. CASE CaptureFill \/ CaptureAdvance
    <3>1. UNCHANGED <<retired, received, outbox, acks, ackId>> 
            /\ captured' \in {captured, captured + 1}
      BY <2>3 DEF CaptureFill, CaptureAdvance, networkVars
    <3> QED
      BY <1>2, <2>1, <2>2, <3>1, CarriesStays
  <2>4. ASSUME NEW m \in outbox, LoseMessage(m)
        PROVE  Carries(CurrentId, CurrentLanes)'
    BY <1>2, <2>1, <2>2, <2>4, CarriesStays DEF LoseMessage, histVars
  <2>5. ASSUME NEW id, LoseAck(id)
        PROVE  Carries(CurrentId, CurrentLanes)'
    BY <1>2, <2>1, <2>2, <2>5, CarriesStays DEF LoseAck, histVars
  <2>6. ASSUME NEW m \in outbox, Deliver(m)
        PROVE  Carries(CurrentId, CurrentLanes)'
    <3>1. /\ outbox' = outbox \ {m} /\ acks' = acks \cup {m.id}
          /\ received' = received \cup Range(m.batch)
          /\ UNCHANGED <<retired, captured, ackId>>
      BY <2>6 DEF Deliver, histVars
    <3>2. Len(m.batch) \in Nat /\ DOMAIN m.batch = 1..Len(m.batch)
      BY DEF TypeOK, NetworkType, Message
    <3>3. m.id = CurrentId => (retired + 1)..(retired + CurrentLanes) \subseteq received'
      <4> SUFFICES ASSUME m.id = CurrentId,
                          NEW x \in (retired + 1)..(retired + CurrentLanes)
                   PROVE  x \in received'
        OBVIOUS
      <4>1. Len(m.batch) = CurrentLanes /\ CarriesFrom(retired, m.batch)
        BY <2>2 DEF Carries
      <4>2. x - retired \in 1..Len(m.batch) /\ retired + (x - retired) = x
        BY <1>2, <4>1
      <4>3. m.batch[x - retired] = x
        BY <4>1, <4>2 DEF CarriesFrom
      <4> QED
        BY <3>1, <3>2, <4>2, <4>3 DEF Range
    <3> QED
      BY <2>1, <2>2, <3>1, <3>3 DEF Carries, Backlog, CarriesFrom
  <2> QED
    BY <1>12, <2>3, <2>4, <2>5, <2>6
<1>13. CASE DataKept
  <2>1. /\ UNCHANGED <<retired, captured, received, outbox, acks, ackId, inFlight>>
        /\ pc["mqtt"] # "ackDone"
        /\ CurrentId' = CurrentId /\ CurrentLanes' = CurrentLanes
    BY <1>13 DEF DataKept, CurrentId, CurrentLanes, Recording
  <2> QED
    BY <1>1, <1>2, <2>1, CarriesStays
<1> QED
  BY <1>3, <1>4, <1>5, <1>6, <1>7, <1>8, <1>9, <1>10, <1>11, <1>12, <1>13, DataSteps
  DEF DataStep

LEMMA DeliveryInit ==
  Init => DeliveryInv
<1> SUFFICES ASSUME Init
             PROVE  DeliveryInv
  OBVIOUS
<1> USE SizesAssumption DEF Init
<1>1. pc["capture"] = "idle" /\ pc["marshal"] = "idle" /\ pc["mqtt"] = "idle"
  BY StepsOf
<1>2. LockInv
  BY LockInit
<1>3. WindowKept
  BY <1>1 DEF WindowKept, Backlog, Wrap
<1>4. JobFits /\ AckMatches
  BY <1>1 DEF JobFits, AckMatches, Recording
<1>5. FlightCarries
  BY <1>1 DEF FlightCarries, CurrentId, Recording, NoFlight
<1>6. OutboxInOrder /\ NothingForgotten
  BY DEF OutboxInOrder, NothingForgotten
<1> QED
  BY <1>2, <1>3, <1>4, <1>5, <1>6 DEF DeliveryInv

(* The invariant of the delivery holds in every behaviour.                 *)
LEMMA DeliveryInvariant ==
  ASSUME MaxBacklog < RingSize
  PROVE  Spec => []DeliveryInv
<1>1. LockInv /\ [Next]_vars => LockInv'
  BY LockStep
<1>2. DeliveryInv /\ [Next]_vars => DeliveryInv'
  BY <1>1, WindowKeptStep, JobFitsStep, AckMatchesStep, FlightCarriesStep,
     OutboxInOrderStep, NothingForgottenStep DEF DeliveryInv
<1> QED
  BY <1>2, DeliveryInit, PTL DEF Spec

-----------------------------------------------------------------------------
(* The theorems.                                                           *)

(* If the backlog fits in the ring, nextXmitHist never passes a transition *)
(* that the broker has not received, whatever acks, timeouts, disconnects, *)
(* resends and losses cross each other and however the tasks interleave.   *)
THEOREM NoTransitionForgotten ==
  ASSUME MaxBacklog < RingSize
  PROVE  Spec => []NothingForgotten
<1>1. DeliveryInv => NothingForgotten
  BY DEF DeliveryInv
<1> QED
  BY <1>1, DeliveryInvariant, PTL

(* If the backlog fits in the ring, each transition stays in its slot from *)
(* the append until it is retired and the backlog is counted right.        *)
THEOREM BacklogStaysIntact ==
  ASSUME MaxBacklog < RingSize
  PROVE  Spec => []BacklogIntact
<1>1. DeliveryInv => BacklogIntact
  <2> SUFFICES ASSUME DeliveryInv
               PROVE  BacklogIntact
    OBVIOUS
  <2>1. TypeOK /\ WindowKept
    BY DEF DeliveryInv, LockInv
  <2>2. Backlog \in 0..(RingSize - 1)
    BY <2>1, Numbers DEF WindowKept, Backlog
  <2>3. getXmitHistBacklog = Backlog
    BY <2>1, BacklogCounts
  <2>4. ASSUME NEW k \in 0..(Backlog - 1)
        PROVE  hist[Slot(k)] = retired + k + 1
    <3>1. k \in 0..RingSize
      BY <2>2, <2>1, Numbers
    <3> QED
      BY <2>1, <3>1, SlotWraps DEF WindowKept
  <2> QED
    BY <2>3, <2>4 DEF BacklogIntact, Backlog
<1> QED
  BY <1>1, DeliveryInvariant, PTL

(* If the backlog fits in the ring, every publish mq_marshal builds starts *)
(* at the oldest transition not retired and carries them in order.         *)
THEOREM BatchStaysOldest ==
  ASSUME MaxBacklog < RingSize
  PROVE  Spec => []BatchIsTheOldest
<1>1. DeliveryInv => BatchIsTheOldest
  BY DEF DeliveryInv, JobFits, CarriesFrom, BatchIsTheOldest
<1> QED
  BY <1>1, DeliveryInvariant, PTL

(* A message in the outbox brings the broker a prefix of what was captured.*)
LEMMA DeliverIsDeliver ==
  ASSUME DeliveryInv, NEW m \in outbox, Deliver(m)
  PROVE  Delivery!Deliver \/ UNCHANGED Delivery!vars
<1> USE Numbers DEF DeliveryInv, LockInv
<1>1. received' = received \cup Range(m.batch) /\ UNCHANGED <<captured, retired>>
  BY DEF Deliver, histVars
<1>2. PICK a \in 0..retired : a + Len(m.batch) <= captured /\ CarriesFrom(a, m.batch)
  BY DEF OutboxInOrder
<1>3. Len(m.batch) \in Nat /\ DOMAIN m.batch = 1..Len(m.batch)
  BY DEF TypeOK, NetworkType, Message
<1>4. Range(m.batch) = (a + 1)..(a + Len(m.batch))
  <2>1. ASSUME NEW x \in Range(m.batch)
        PROVE  x \in (a + 1)..(a + Len(m.batch))
    <3>1. PICK k \in 1..Len(m.batch) : x = m.batch[k]
      BY <1>3 DEF Range
    <3>2. x = a + k
      BY <1>2, <3>1 DEF CarriesFrom
    <3> QED
      BY <1>3, <3>2
  <2>2. ASSUME NEW x \in (a + 1)..(a + Len(m.batch))
        PROVE  x \in Range(m.batch)
    <3>1. x - a \in 1..Len(m.batch) /\ a + (x - a) = x
      BY <1>3
    <3>2. m.batch[x - a] = x
      BY <1>2, <3>1 DEF CarriesFrom
    <3> QED
      BY <1>3, <3>1, <3>2 DEF Range
  <2> QED
    BY <2>1, <2>2
<1>5. CASE Len(m.batch) = 0
  <2>1. Range(m.batch) = {}
    BY <1>4, <1>5
  <2> QED
    BY <1>1, <2>1 DEF Delivery!vars
<1>6. CASE Len(m.batch) # 0
  <2> DEFINE n == a + Len(m.batch)
  <2>1. n \in 1..captured
    BY <1>2, <1>3, <1>6
  <2>2. received \cup (a + 1)..n = received \cup 1..n
    <3>1. \A x \in 1..n : x \in 1..retired \/ x \in (a + 1)..n
      BY <1>3
    <3>2. (a + 1)..n \subseteq 1..n
      BY <1>3
    <3> HIDE DEF n
    <3> QED
      BY <3>1, <3>2 DEF NothingForgotten
  <2> QED
    BY <1>1, <1>4, <2>1, <2>2 DEF Delivery!Deliver
<1> QED
  BY <1>5, <1>6

LEMMA RetireIsRetire ==
  ASSUME DeliveryInv, DeliveryInv', AckApply
  PROVE  Delivery!Retire \/ UNCHANGED Delivery!vars
<1> USE Numbers DEF DeliveryInv, LockInv
<1>1. UNCHANGED <<captured, received>>
  BY DEF AckApply, networkVars
<1>2. CASE inFlight.id = NoId \/ inFlight.lanes = 0
  BY <1>1, <1>2 DEF AckApply, Delivery!vars
<1>3. CASE inFlight.id # NoId /\ inFlight.lanes # 0
  <2>1. retired' = retired + inFlight.lanes /\ inFlight.lanes <= Backlog
    BY <1>3, AckAlone DEF AckApply
  <2>2. retired + inFlight.lanes \in (retired + 1)..captured
    BY <1>3, <2>1 DEF Backlog
  <2>3. 1..(retired + inFlight.lanes) \subseteq received
    BY <1>1, <2>1 DEF NothingForgotten
  <2> QED
    BY <1>1, <2>1, <2>2, <2>3 DEF Delivery!Retire
<1> QED
  BY <1>2, <1>3

(* If the backlog fits in the ring, every behaviour of the tasks and the   *)
(* network is one of LaneDelivery.                                         *)
THEOREM PublishImplementsDelivery ==
  ASSUME MaxBacklog < RingSize
  PROVE  Spec => ImplementsLaneDelivery
<1>1. Init => Delivery!Init
  BY DEF Init, Delivery!Init
<1>2. DeliveryInv /\ DeliveryInv' /\ [Next]_vars => [Delivery!Next]_(Delivery!vars)
  <2> SUFFICES ASSUME DeliveryInv, DeliveryInv', [Next]_vars
               PROVE  Delivery!Next \/ UNCHANGED Delivery!vars
    OBVIOUS
  <2>1. TypeOK
    BY DEF DeliveryInv, LockInv
  <2>2. CASE \E m \in outbox : Deliver(m)
    BY <2>2, DeliverIsDeliver DEF Delivery!Next
  <2>3. CASE AckApply
    BY <2>3, RetireIsRetire DEF Delivery!Next
  <2>4. CASE CaptureFill
    BY <2>4 DEF CaptureFill, networkVars, Delivery!vars
  <2>5. CASE CaptureAdvance
    BY <2>5 DEF CaptureAdvance, networkVars, Delivery!Next, Delivery!Capture
  <2>6. CASE UNCHANGED received /\ RingKept
    BY <2>6 DEF RingKept, Delivery!vars
  <2> QED
    BY <2>1, <2>2, <2>3, <2>4, <2>5, <2>6, RingStays, NetworkMoves
<1> QED
  BY <1>1, <1>2, DeliveryInvariant, PTL DEF Spec, ImplementsLaneDelivery, Delivery!Spec
=============================================================================
