---------------------------- MODULE TimerPublish ----------------------------
(***************************************************************************)
(* The publish pipeline: lane transitions go into the history ring, the    *)
(* mq_marshal task sends the oldest of them in one MQTT publish at a time, *)
(* and nextXmitHist moves past them when the PUBACK of that publish comes  *)
(* back.  timer_hist.c, timer_mqtt.c and timer_marshal.c run it in four    *)
(* FreeRTOS tasks that share the ring indices, the in-flight record and    *)
(* mqTxMutex:                                                              *)
(*                                                                         *)
(*   "capture"  capture_main, th_append()                                  *)
(*   "marshal"  mq_marshal: mqPubDataList() and the ack timeout            *)
(*   "mqtt"     the esp-mqtt task: mqtt_event_handler()                    *)
(*   "wifi"     the default event loop: timerMqttWifiDisconnected()        *)
(*                                                                         *)
(* A step is a stretch of one task's code between two points where another *)
(* task can change what it reads.  The chip has one core and the scheduler *)
(* is preemptive with fixed priorities, so a step is taken only when no    *)
(* task with a higher priority could run (CanRun).  Time is not measured:  *)
(* a delay that can have passed is an action that can happen.              *)
(***************************************************************************)
EXTENDS Integers, Sequences, Functions

CONSTANTS
  RingSize,       \* slots of hist, HIST_MAX + 1
  BatchMax,       \* transitions in one publish, 20 in the code
  CreditsMax,     \* MQ_PUBLISH_CREDITS_MAX
  MsgIds,         \* MQTT message ids; the code's 0 is NoId
  DropFirstPubAck,\* MQTT_TEST_DROP_FIRST_PUBACK
  MaxCaptures,    \* bound: transitions in a behaviour
  MaxBacklog      \* bound: transitions captured and not yet retired

NoId == 0

ASSUME SizesAssumption ==
  /\ RingSize \in Nat \ {0}
  /\ BatchMax \in Nat \ {0}
  /\ CreditsMax \in Nat \ {0}
  /\ MaxCaptures \in Nat
  /\ MaxBacklog \in Nat
ASSUME MsgIdsAssumption == MsgIds \subseteq Nat \ {NoId}
ASSUME DropAssumption == DropFirstPubAck \in BOOLEAN

VARIABLES
  (* the history ring *)
  hist,             \* number of the transition in each slot, 0: never written
  nextCaptureHist,  \* slot th_append() fills next
  nextXmitHist,     \* slot of the oldest transition not acknowledged
  captured,         \* history: transitions appended so far
  retired,          \* history: transitions nextXmitHist has moved past
  (* the publish in flight and what throttles the next one *)
  inFlight,         \* inFlightMsgId and inFlightRecap
  overdue,          \* inFlightXmitUs is more than 30 s ago
  credits,          \* mq_publish_credits
  healthSent,       \* lastHealthUs # 0
  publishHold,      \* mqttPublishHold of wifi_power.c
  pClient,          \* p_client is set
  droppedFirst,     \* mqttTestDroppedFirstPubAck
  (* the tasks *)
  mqTxMutex,        \* the task that holds mqTxMutex, or NoTask
  pc,               \* where each task is
  publishDue,       \* a notification or nextPublishMs asks for a publish
  publishCreditStarved,
  job,              \* locals of mqMarshalTask() and of what it calls
  ackId,            \* msg_id of the MQTT_EVENT_PUBLISHED being handled
  (* the network and the broker *)
  outbox,           \* messages enqueued and not yet at the broker
  acks,             \* ids whose PUBACK is on its way
  received          \* transitions the broker has received

histVars    == <<hist, nextCaptureHist, nextXmitHist, captured, retired>>
flightVars  == <<inFlight, overdue, healthSent, publishHold>>
marshalVars == <<publishCreditStarved, job>>
networkVars == <<outbox, acks, received>>
vars == <<histVars, flightVars, credits, pClient, droppedFirst, mqTxMutex, pc,
          publishDue, marshalVars, ackId, networkVars>>

Task   == {"capture", "marshal", "mqtt", "wifi"}
NoTask == "none"

(* Mutant of Priority: mq_marshal is created with the others' priority.    *)
OnePriority == [capture |-> 5, marshal |-> 5, mqtt |-> 5, wifi |-> 5]

(* mq_marshal 3, capture_main 5, the esp-mqtt task 5 and the event loop 20 *)
(* (the last two are the defaults of ESP-IDF).                             *)
Priority == [capture |-> 5, marshal |-> 3, mqtt |-> 5, wifi |-> 20]

NoFlight == [id |-> NoId, lanes |-> 0, health |-> FALSE]
NoJob    == [publish |-> FALSE, loaded |-> 0, count |-> 0, health |-> FALSE,
             batch |-> <<>>, msgId |-> NoId]

Steps == [capture |-> {"idle", "advance"},
          marshal |-> {"idle", "credit", "begin", "clrLock", "clrUnlock", "clrDone",
                       "pubLock", "pubCheck", "read", "send", "enqueue",
                       "recordId", "recordRecap"},
          mqtt    |-> {"idle", "ackLock", "ackApply", "ackDone",
                       "clrLock", "clrUnlock", "clrDone"},
          wifi    |-> {"idle", "clrLock", "clrUnlock", "clrDone"}]

-----------------------------------------------------------------------------
(* Scheduling.                                                             *)

WaitsForMutex(t) == pc[t] \in {"clrLock", "ackLock", "pubLock"} /\ mqTxMutex # NoTask

(* esp-mqtt holds its API lock while it dispatches an event, and           *)
(* esp_mqtt_client_enqueue() takes that lock.                              *)
WaitsForApi(t) == t = "marshal" /\ pc[t] = "enqueue" /\ pc["mqtt"] # "idle"

Blocked(t)  == WaitsForMutex(t) \/ WaitsForApi(t)
Runnable(t) == pc[t] # "idle" /\ ~Blocked(t)

(* The holder of a FreeRTOS mutex inherits the priority of its waiters.    *)
RunsAs(t) == {t} \cup IF mqTxMutex = t THEN {u \in Task : WaitsForMutex(u)} ELSE {}

CanRun(t) ==
  /\ ~Blocked(t)
  /\ \A u \in Task : Runnable(u) =>
       \A b \in RunsAs(u) : \E a \in RunsAs(t) : Priority[b] <= Priority[a]

At(t, step)   == pc[t] = step /\ CanRun(t)
Goto(t, step) == pc' = [pc EXCEPT ![t] = step]

-----------------------------------------------------------------------------
(* The ring.                                                               *)

(* Mutant of IncHist: the mask is forgotten.                               *)
UnmaskedInc(h) == h + 1

IncHist(h) == (h + 1) % RingSize

(* Mutant of getXmitHistBacklog: the mask is forgotten.                    *)
UnmaskedBacklog == nextCaptureHist - nextXmitHist

getXmitHistBacklog == (nextCaptureHist - nextXmitHist) % RingSize

Slot(k) == (nextXmitHist + k) % RingSize

-----------------------------------------------------------------------------
Init ==
  /\ hist = [i \in 0..(RingSize - 1) |-> 0]
  /\ nextCaptureHist = 0
  /\ nextXmitHist = 0
  /\ captured = 0
  /\ retired = 0
  /\ inFlight = NoFlight
  /\ overdue = FALSE
  /\ credits = CreditsMax
  /\ healthSent = FALSE
  /\ publishHold = FALSE
  /\ pClient = FALSE
  /\ droppedFirst = FALSE
  /\ mqTxMutex = NoTask
  /\ pc = [t \in Task |-> "idle"]
  /\ publishDue = FALSE
  /\ publishCreditStarved = FALSE
  /\ job = NoJob
  /\ ackId = NoId
  /\ outbox = {}
  /\ acks = {}
  /\ received = {}

-----------------------------------------------------------------------------
(* capture_main: pinHandlerLane() appends a transition and asks for a      *)
(* publish 100 ms later.  The slot is filled before the index moves.       *)

CaptureFill ==
  /\ At("capture", "idle")
  /\ captured < MaxCaptures
  /\ captured - retired < MaxBacklog
  /\ hist' = [hist EXCEPT ![nextCaptureHist] = captured + 1]
  /\ Goto("capture", "advance")
  /\ UNCHANGED <<nextCaptureHist, nextXmitHist, captured, retired, flightVars, credits,
                 pClient, droppedFirst, mqTxMutex, publishDue, marshalVars, ackId,
                 networkVars>>

CaptureAdvance ==
  /\ At("capture", "advance")
  /\ nextCaptureHist' = IncHist(nextCaptureHist)
  /\ captured' = captured + 1
  /\ publishDue' = TRUE
  /\ Goto("capture", "idle")
  /\ UNCHANGED <<hist, nextXmitHist, retired, flightVars, credits, pClient, droppedFirst,
                 mqTxMutex, marshalVars, ackId, networkVars>>

-----------------------------------------------------------------------------
(* clear_pending_mq_msg() after its test of inFlightMsgId.  Three tasks    *)
(* run it: the esp-mqtt task on a disconnect or an error, the event loop   *)
(* on a Wi-Fi disconnect, mq_marshal on the ack timeout.                   *)

(* timerHistMqPubCleared() takes the mutex, logs, and gives it back.       *)
ClearLock(t) ==
  /\ At(t, "clrLock")
  /\ mqTxMutex' = t
  /\ Goto(t, "clrUnlock")
  /\ UNCHANGED <<histVars, flightVars, credits, pClient, droppedFirst, publishDue,
                 marshalVars, ackId, networkVars>>

(* Mutant of ClearUnlock: a publish that is given up counts as sent.       *)
ClearRetires(t) ==
  /\ At(t, "clrUnlock")
  /\ nextXmitHist' = Slot(inFlight.lanes)
  /\ retired' = retired + inFlight.lanes
  /\ mqTxMutex' = NoTask
  /\ publishDue' = TRUE
  /\ Goto(t, "clrDone")
  /\ UNCHANGED <<hist, nextCaptureHist, captured, flightVars, credits, pClient,
                 droppedFirst, marshalVars, ackId, networkVars>>

ClearUnlock(t) ==
  /\ At(t, "clrUnlock")
  /\ mqTxMutex' = NoTask
  /\ publishDue' = TRUE
  /\ Goto(t, "clrDone")
  /\ UNCHANGED <<histVars, flightVars, credits, pClient, droppedFirst, marshalVars, ackId,
                 networkVars>>

(* clear_in_flight_mq_msg() and wifiPowerRelease().  The only tasks that   *)
(* can preempt between its stores find inFlightMsgId 0 and leave it alone. *)
(* mq_marshal goes on to take the mutex for its publish.                   *)
ClearDone(t) ==
  /\ At(t, "clrDone")
  /\ inFlight' = NoFlight
  /\ overdue' = FALSE
  /\ publishHold' = FALSE
  /\ Goto(t, IF t = "marshal" THEN "pubLock" ELSE "idle")
  /\ UNCHANGED <<histVars, healthSent, credits, pClient, droppedFirst, mqTxMutex,
                 publishDue, marshalVars, ackId, networkVars>>

Clear(t) == ClearLock(t) \/ ClearUnlock(t) \/ ClearDone(t)

(* The test of inFlightMsgId that clear_pending_mq_msg() starts with.      *)
BeginClear(t) == Goto(t, IF inFlight.id = NoId THEN "idle" ELSE "clrLock")

-----------------------------------------------------------------------------
(* The event loop: WIFI_EVENT_STA_DISCONNECTED.                            *)

WifiDisconnected ==
  /\ At("wifi", "idle")
  /\ pClient' = FALSE
  /\ BeginClear("wifi")
  /\ UNCHANGED <<histVars, flightVars, credits, droppedFirst, mqTxMutex, publishDue,
                 marshalVars, ackId, networkVars>>

-----------------------------------------------------------------------------
(* The esp-mqtt task: mqtt_event_handler().                                *)

MqttConnected ==
  /\ At("mqtt", "idle")
  /\ ~pClient
  /\ pClient' = TRUE
  /\ publishDue' = TRUE
  /\ UNCHANGED <<histVars, flightVars, credits, droppedFirst, mqTxMutex, pc, marshalVars,
                 ackId, networkVars>>

MqttDisconnected ==
  /\ At("mqtt", "idle")
  /\ pClient' = FALSE
  /\ BeginClear("mqtt")
  /\ UNCHANGED <<histVars, flightVars, credits, droppedFirst, mqTxMutex, publishDue,
                 marshalVars, ackId, networkVars>>

MqttError ==
  /\ At("mqtt", "idle")
  /\ BeginClear("mqtt")
  /\ UNCHANGED <<histVars, flightVars, credits, pClient, droppedFirst, mqTxMutex,
                 publishDue, marshalVars, ackId, networkVars>>

(* Mutant of MqttPublished: any ack counts for the publish in flight.      *)
AnyAckMatches(id) ==
  /\ At("mqtt", "idle")
  /\ id \in acks
  /\ acks' = acks \ {id}
  /\ droppedFirst' = DropFirstPubAck
  /\ LET matches == (DropFirstPubAck => droppedFirst) /\ inFlight.id # NoId
     IN  /\ Goto("mqtt", IF matches THEN "ackLock" ELSE "idle")
         /\ ackId' = IF matches THEN id ELSE NoId
  /\ UNCHANGED <<histVars, flightVars, credits, pClient, mqTxMutex, publishDue,
                 marshalVars, outbox, received>>

(* MQTT_EVENT_PUBLISHED, up to the comparison with inFlightMsgId, which is *)
(* made without the mutex.  The test hook swallows the first ack of a run. *)
MqttPublished(id) ==
  /\ At("mqtt", "idle")
  /\ id \in acks
  /\ acks' = acks \ {id}
  /\ droppedFirst' = DropFirstPubAck
  /\ LET dropped == DropFirstPubAck /\ ~droppedFirst
         matches == ~dropped /\ inFlight.id = id
     IN  /\ Goto("mqtt", IF matches THEN "ackLock" ELSE "idle")
         /\ ackId' = IF matches THEN id ELSE NoId
  /\ UNCHANGED <<histVars, flightVars, credits, pClient, mqTxMutex, publishDue,
                 marshalVars, outbox, received>>

(* timerHistMqPubAcked(): take the mutex ...                               *)
AckLock ==
  /\ At("mqtt", "ackLock")
  /\ mqTxMutex' = "mqtt"
  /\ Goto("mqtt", "ackApply")
  /\ UNCHANGED <<histVars, flightVars, credits, pClient, droppedFirst, publishDue,
                 marshalVars, ackId, networkVars>>

(* ... and, when a publish is still recorded, retire what it carried.      *)
AckApply ==
  /\ At("mqtt", "ackApply")
  /\ IF inFlight.id = NoId
       THEN UNCHANGED <<nextXmitHist, retired, healthSent, credits>>
       ELSE /\ nextXmitHist' = Slot(inFlight.lanes)
            /\ retired' = retired + inFlight.lanes
            /\ healthSent' = (healthSent \/ inFlight.health)
            /\ credits' = IF credits > 0 THEN credits - 1 ELSE credits
  /\ mqTxMutex' = NoTask
  /\ Goto("mqtt", "ackDone")
  /\ UNCHANGED <<hist, nextCaptureHist, captured, inFlight, overdue, publishHold, pClient,
                 droppedFirst, publishDue, marshalVars, ackId, networkVars>>

AckDone ==
  /\ At("mqtt", "ackDone")
  /\ inFlight' = NoFlight
  /\ overdue' = FALSE
  /\ publishHold' = FALSE
  /\ publishDue' = TRUE
  /\ ackId' = NoId
  /\ Goto("mqtt", "idle")
  /\ UNCHANGED <<histVars, healthSent, credits, pClient, droppedFirst, mqTxMutex,
                 marshalVars, networkVars>>

-----------------------------------------------------------------------------
(* mq_marshal: one turn of the loop of mqMarshalTask() for the deadlines   *)
(* that have passed.  The credit is loaded here and stored by the next     *)
(* step: mq_publish_credits++ is not atomic.                               *)

MarshalWake(due) ==
  /\ At("marshal", "idle")
  /\ "publish" \in due => publishDue
  /\ publishDue' = (publishDue /\ "publish" \notin due)
  /\ LET credit == "credit" \in due
         wants  == due \cap {"publish", "health"} # {} \/ (credit /\ publishCreditStarved)
     IN  IF credit /\ credits < CreditsMax
           THEN /\ job' = [NoJob EXCEPT !.publish = wants, !.loaded = credits]
                /\ Goto("marshal", "credit")
           ELSE /\ job' = job
                /\ Goto("marshal", IF wants THEN "begin" ELSE "idle")
  /\ UNCHANGED <<histVars, flightVars, credits, pClient, droppedFirst, mqTxMutex,
                 publishCreditStarved, ackId, networkVars>>

MarshalCredit ==
  /\ At("marshal", "credit")
  /\ credits' = job.loaded + 1
  /\ job' = NoJob
  /\ Goto("marshal", IF job.publish THEN "begin" ELSE "idle")
  /\ UNCHANGED <<histVars, flightVars, pClient, droppedFirst, mqTxMutex, publishDue,
                 publishCreditStarved, ackId, networkVars>>

(* clearExpiredMqttPublish() finds a publish older than 30 s.              *)
Expired == inFlight.id # NoId /\ overdue

(* Mutant of MarshalBegin: an expired publish is not given up.             *)
NeverExpires ==
  /\ At("marshal", "begin")
  /\ publishCreditStarved' = (credits < 1)
  /\ Goto("marshal", "pubLock")
  /\ UNCHANGED <<histVars, flightVars, credits, pClient, droppedFirst, mqTxMutex,
                 publishDue, job, ackId, networkVars>>

MarshalBegin ==
  /\ At("marshal", "begin")
  /\ publishCreditStarved' = (credits < 1)
  /\ Goto("marshal", IF Expired THEN "clrLock" ELSE "pubLock")
  /\ UNCHANGED <<histVars, flightVars, credits, pClient, droppedFirst, mqTxMutex,
                 publishDue, job, ackId, networkVars>>

(* mqPubDataList().                                                        *)
MarshalLock ==
  /\ At("marshal", "pubLock")
  /\ mqTxMutex' = "marshal"
  /\ Goto("marshal", "pubCheck")
  /\ UNCHANGED <<histVars, flightVars, credits, pClient, droppedFirst, publishDue,
                 marshalVars, ackId, networkVars>>

(* The label cleanup: give the mutex back and return to the loop.          *)
MarshalCleanup ==
  /\ mqTxMutex' = NoTask
  /\ job' = NoJob
  /\ Goto("marshal", "idle")

(* Mutant of MarshalCheck: a publish in flight is not looked for.          *)
ChecksCreditsOnly ==
  /\ At("marshal", "pubCheck")
  /\ \/ credits < 1 /\ MarshalCleanup
     \/ /\ credits >= 1
        /\ job' = [job EXCEPT !.health = TRUE, !.count = 0]
        /\ Goto("marshal", "read")
        /\ UNCHANGED mqTxMutex
  /\ UNCHANGED <<histVars, flightVars, credits, pClient, droppedFirst, publishDue,
                 publishCreditStarved, ackId, networkVars>>

(* Stand down for a publish in flight or for want of credits; otherwise    *)
(* size the message.  Health is due until it was first acknowledged.       *)
MarshalCheck ==
  /\ At("marshal", "pubCheck")
  /\ \/ /\ inFlight.id # NoId \/ credits < 1
        /\ MarshalCleanup
     \/ /\ inFlight.id = NoId /\ credits >= 1
        /\ \E health \in IF healthSent THEN BOOLEAN ELSE {TRUE} :
             job' = [job EXCEPT !.health = health,
                                !.count = IF getXmitHistBacklog > BatchMax
                                            THEN BatchMax ELSE getXmitHistBacklog]
        /\ Goto("marshal", "read")
        /\ UNCHANGED mqTxMutex
  /\ UNCHANGED <<histVars, flightVars, credits, pClient, droppedFirst, publishDue,
                 publishCreditStarved, ackId, networkVars>>

(* marshalRr1TimerPbTimerDataList() stops at a slot never written.         *)
Unwritten   == {k \in 0..(job.count - 1) : hist[Slot(k)] = 0}
UsableCount == IF Unwritten = {} THEN job.count
                 ELSE CHOOSE k \in Unwritten : \A m \in Unwritten : k <= m

(* Mutant of Batch: the window starts one slot late.                       *)
LateBatch == [k \in 1..UsableCount |-> hist[Slot(k)]]

Batch == [k \in 1..UsableCount |-> hist[Slot(k - 1)]]

MarshalRead ==
  /\ At("marshal", "read")
  /\ IF UsableCount = 0 /\ ~job.health
       THEN MarshalCleanup
       ELSE /\ job' = [job EXCEPT !.batch = Batch, !.count = UsableCount]
            /\ Goto("marshal", "send")
            /\ UNCHANGED mqTxMutex
  /\ UNCHANGED <<histVars, flightVars, credits, pClient, droppedFirst, publishDue,
                 publishCreditStarved, ackId, networkVars>>

(* The packed buffer or the json document cannot be allocated.             *)
MarshalAllocFails ==
  /\ At("marshal", "send")
  /\ MarshalCleanup
  /\ UNCHANGED <<histVars, flightVars, credits, pClient, droppedFirst, publishDue,
                 publishCreditStarved, ackId, networkVars>>

(* mq_pub64() up to the enqueue.  Its clearExpiredMqttPublish() is called  *)
(* with the mutex held: were it to clear, mq_marshal would wait for itself.*)
MarshalSend ==
  /\ At("marshal", "send")
  /\ \/ /\ Expired
        /\ Goto("marshal", "clrLock")
        /\ UNCHANGED <<publishHold, mqTxMutex, job>>
     \/ /\ ~Expired /\ pClient /\ inFlight.id = NoId
        /\ publishHold' = TRUE
        /\ Goto("marshal", "enqueue")
        /\ UNCHANGED <<mqTxMutex, job>>
     \/ /\ ~Expired /\ ~(pClient /\ inFlight.id = NoId)
        /\ publishHold' = FALSE
        /\ MarshalCleanup
  /\ UNCHANGED <<histVars, inFlight, overdue, healthSent, credits, pClient, droppedFirst,
                 publishDue, publishCreditStarved, ackId, networkVars>>

(* Ids in use: an id comes round again only after 65535 publishes.         *)
FreeIds == MsgIds \ ({m.id : m \in outbox} \cup acks \cup {inFlight.id, ackId})

MarshalEnqueue ==
  /\ At("marshal", "enqueue")
  /\ pClient
  /\ \E id \in FreeIds :
       /\ outbox' = outbox \cup {[id |-> id, batch |-> job.batch]}
       /\ job' = [job EXCEPT !.msgId = id]
  /\ Goto("marshal", "recordId")
  /\ UNCHANGED <<histVars, flightVars, credits, pClient, droppedFirst, mqTxMutex,
                 publishDue, publishCreditStarved, ackId, acks, received>>

(* Mutant of MarshalEnqueueFails: the radio is not let go.                 *)
HoldLeaks ==
  /\ At("marshal", "enqueue")
  /\ MarshalCleanup
  /\ UNCHANGED <<histVars, flightVars, credits, pClient, droppedFirst, publishDue,
                 publishCreditStarved, ackId, networkVars>>

(* esp-mqtt refuses: the handle was cleared meanwhile, or no memory.       *)
MarshalEnqueueFails ==
  /\ At("marshal", "enqueue")
  /\ publishHold' = FALSE
  /\ MarshalCleanup
  /\ UNCHANGED <<histVars, inFlight, overdue, healthSent, credits, pClient, droppedFirst,
                 publishDue, publishCreditStarved, ackId, networkVars>>

(* The in-flight record is filled after the enqueue, field by field.       *)
MarshalRecordId ==
  /\ At("marshal", "recordId")
  /\ inFlight' = [inFlight EXCEPT !.id = job.msgId]
  /\ overdue' = FALSE
  /\ Goto("marshal", "recordRecap")
  /\ UNCHANGED <<histVars, healthSent, publishHold, credits, pClient, droppedFirst,
                 mqTxMutex, publishDue, marshalVars, ackId, networkVars>>

MarshalRecordRecap ==
  /\ At("marshal", "recordRecap")
  /\ inFlight' = [inFlight EXCEPT !.lanes = job.count, !.health = job.health]
  /\ MarshalCleanup
  /\ UNCHANGED <<histVars, overdue, healthSent, publishHold, credits, pClient,
                 droppedFirst, publishDue, publishCreditStarved, ackId, networkVars>>

-----------------------------------------------------------------------------
(* esp-mqtt's sending side, the network and the broker (external).         *)

Deliver(m) ==
  /\ m \in outbox
  /\ outbox' = outbox \ {m}
  /\ acks' = acks \cup {m.id}
  /\ received' = received \cup Range(m.batch)
  /\ UNCHANGED <<histVars, flightVars, credits, pClient, droppedFirst, mqTxMutex, pc,
                 publishDue, marshalVars, ackId>>

LoseMessage(m) ==
  /\ m \in outbox
  /\ outbox' = outbox \ {m}
  /\ UNCHANGED <<histVars, flightVars, credits, pClient, droppedFirst, mqTxMutex, pc,
                 publishDue, marshalVars, ackId, acks, received>>

LoseAck(id) ==
  /\ id \in acks
  /\ acks' = acks \ {id}
  /\ UNCHANGED <<histVars, flightVars, credits, pClient, droppedFirst, mqTxMutex, pc,
                 publishDue, marshalVars, ackId, outbox, received>>

(* 30 s pass since inFlightXmitUs.                                         *)
AckTimeout ==
  /\ inFlight.id # NoId
  /\ ~overdue
  /\ overdue' = TRUE
  /\ UNCHANGED <<histVars, inFlight, healthSent, publishHold, credits, pClient,
                 droppedFirst, mqTxMutex, pc, publishDue, marshalVars, ackId, networkVars>>

-----------------------------------------------------------------------------
Capture == CaptureFill \/ CaptureAdvance

MqttAck == AckLock \/ AckApply \/ AckDone

MarshalStep ==
  \/ Clear("marshal")
  \/ MarshalCredit \/ MarshalBegin \/ MarshalLock \/ MarshalCheck \/ MarshalRead
  \/ MarshalAllocFails \/ MarshalSend \/ MarshalEnqueue \/ MarshalEnqueueFails
  \/ MarshalRecordId \/ MarshalRecordRecap

Deadlines == {"publish", "credit", "health"}

Next ==
  \/ Capture
  \/ \E due \in SUBSET Deadlines : MarshalWake(due)
  \/ MarshalStep
  \/ MqttConnected \/ MqttDisconnected \/ MqttError
  \/ \E id \in MsgIds : MqttPublished(id)
  \/ MqttAck \/ Clear("mqtt")
  \/ WifiDisconnected \/ Clear("wifi")
  \/ \E m \in outbox : Deliver(m) \/ LoseMessage(m)
  \/ \E id \in MsgIds : LoseAck(id)
  \/ AckTimeout

Spec == Init /\ [][Next]_vars

-----------------------------------------------------------------------------
(* Safety.                                                                 *)

Message == [id : MsgIds, batch : Seq(Nat)]

RingType ==
  /\ hist \in [0..(RingSize - 1) -> Nat]
  /\ nextCaptureHist \in 0..(RingSize - 1)
  /\ nextXmitHist \in 0..(RingSize - 1)
  /\ captured \in Nat
  /\ retired \in Nat

FlightType ==
  /\ inFlight \in [id : MsgIds \cup {NoId}, lanes : Nat, health : BOOLEAN]
  /\ overdue \in BOOLEAN
  /\ credits \in 0..CreditsMax
  /\ healthSent \in BOOLEAN
  /\ publishHold \in BOOLEAN
  /\ pClient \in BOOLEAN
  /\ droppedFirst \in BOOLEAN

TaskType ==
  /\ mqTxMutex \in Task \cup {NoTask}
  /\ pc \in [Task -> UNION {Steps[t] : t \in Task}]
  /\ \A t \in Task : pc[t] \in Steps[t]
  /\ publishDue \in BOOLEAN
  /\ publishCreditStarved \in BOOLEAN
  /\ ackId \in MsgIds \cup {NoId}

JobType == job \in [publish : BOOLEAN, loaded : 0..(CreditsMax - 1), count : Nat,
                    health : BOOLEAN, batch : Seq(Nat), msgId : MsgIds \cup {NoId}]

NetworkType ==
  /\ outbox \subseteq Message
  /\ acks \subseteq MsgIds
  /\ received \subseteq Nat

(* Every variable has its type; the ring indices stay inside the ring.     *)
TypeOK == RingType /\ FlightType /\ TaskType /\ JobType /\ NetworkType

(* mqTxMutex is not recursive and mq_pub64() calls                         *)
(* clearExpiredMqttPublish(), which would take it, with the mutex held     *)
(* (timer_hist.c:355-397, timer_mqtt.c:522-527): mq_marshal never waits    *)
(* for a mutex it holds itself.                                            *)
NoSelfDeadlock == \A t \in Task : ~(mqTxMutex = t /\ WaitsForMutex(t))

(* mq_marshal asks for esp-mqtt's API lock with mqTxMutex held and the     *)
(* esp-mqtt task asks for mqTxMutex with its API lock held: the two never  *)
(* wait for each other.  Nothing orders the two locks; what saves them is  *)
(* that no ack or clear can be between its test of inFlightMsgId and the   *)
(* mutex while mq_marshal, at the lowest priority, is in an enqueue.       *)
NoLockCycle ==
  ~(mqTxMutex = "marshal" /\ WaitsForApi("marshal") /\ WaitsForMutex("mqtt"))

(* Nothing is forgotten that the broker does not have: nextXmitHist passes *)
(* a transition only after a publish that carried it reached the broker,   *)
(* whatever acks, timeouts, disconnects and resends cross each other.      *)
(* ("timer_hist owns resend by holding nextXmitHist until                  *)
(* timerHistMqPubAcked() observes the PUBACK", timer_mqtt.c:530-534.)      *)
(* It holds as long as the backlog fits in the ring, MaxBacklog < RingSize.*)
NothingForgotten == 1..retired \subseteq received

(* A publish being built or sent carries exactly the oldest transitions    *)
(* that are not acknowledged, in order: no append, ack or clear moves the  *)
(* window under mqPubDataList().                                           *)
BatchIsTheOldest ==
  pc["marshal"] \in {"send", "enqueue", "recordId", "recordRecap"}
    => /\ job.count = Len(job.batch)
       /\ \A k \in 1..job.count : job.batch[k] = retired + k

(* When no task is in the middle of anything, the radio is held awake for  *)
(* a publish exactly while one is in flight: a hold is neither leaked      *)
(* (power) nor dropped under a publish that waits for its ack (latency).   *)
HoldMatchesFlight ==
  (\A t \in Task : pc[t] \in {"idle", "advance", "credit", "begin"})
    => (publishHold <=> inFlight.id # NoId)

(* A transition is in its slot from the append until it is retired: no     *)
(* append overwrites what still has to be sent, and getXmitHistBacklog()   *)
(* counts it.                                                              *)
BacklogIntact ==
  /\ getXmitHistBacklog = captured - retired
  /\ \A k \in 0..(captured - retired - 1) : hist[Slot(k)] = retired + k + 1

(* "The mutex serializes the handoff after enqueue succeeds: a fast MQTT   *)
(* ack can arrive before mqPubDataList() has finished cleanup and          *)
(* returned" (timer_hist.c:92-97): an ack that arrives while mq_marshal    *)
(* is still recording the publish is not ignored.                          *)
FastAckCounts ==
  [][\A id \in MsgIds :
       MqttPublished(id) /\ pc["marshal"] \in {"recordId", "recordRecap"} /\ id = job.msgId
         => pc'["mqtt"] = "ackLock"]_vars

-----------------------------------------------------------------------------
(* What TimerPublish promises about transitions, and that it keeps it.     *)

Delivery == INSTANCE LaneDelivery
              WITH captured <- captured, delivered <- received, retired <- retired

(* Every behaviour of the tasks and the network is one of LaneDelivery:    *)
(* the broker sees the captured transitions in order and without a gap,    *)
(* and nextXmitHist advances only over what it has seen.                   *)
ImplementsLaneDelivery == Delivery!Spec

-----------------------------------------------------------------------------
(* Liveness.                                                               *)

(* What the code cannot prevent, only outlast: the network drops messages  *)
(* or acks or is slower than 30 s, the connection breaks, memory is short. *)
SlowNetwork == AckTimeout /\ (inFlight.id \in acks \/ \E m \in outbox : m.id = inFlight.id)
Fault ==
  \/ \E m \in outbox : LoseMessage(m)
  \/ \E id \in MsgIds : LoseAck(id)
  \/ SlowNetwork
  \/ MqttDisconnected \/ MqttError \/ WifiDisconnected
  \/ MarshalAllocFails
  \/ MarshalEnqueueFails /\ pClient /\ FreeIds # {}

(* FreeRTOS runs a task that can run, and a deadline of mq_marshal that    *)
(* has passed stays passed until its loop takes it (the strong fairness).  *)
(* esp-mqtt reports a connection, sends what is in its outbox and hands    *)
(* over the acks.  Of the wakeups only the periodic ones are assumed: a    *)
(* notification may be overwritten by the next one.                        *)
Fairness ==
  /\ WF_vars(CaptureAdvance)
  /\ WF_vars(MarshalStep)
  /\ SF_vars(MarshalWake({"credit"}))
  /\ SF_vars(MarshalWake({"health"}))
  /\ WF_vars(MqttAck \/ Clear("mqtt"))
  /\ WF_vars(Clear("wifi"))
  /\ SF_vars(MqttConnected)
  /\ SF_vars(\E id \in MsgIds : MqttPublished(id))
  /\ WF_vars(\E m \in outbox : Deliver(m))
  /\ WF_vars(AckTimeout)

FairSpec == Spec /\ Fairness /\ <>[][~Fault]_vars

(* Once the faults stop, every transition is acknowledged and retired:     *)
(* no wakeup is lost for good, no timeout fails to free the next publish,  *)
(* and an empty credit balance refills.                                    *)
EveryTransitionRetired ==
  \A k \in 1..MaxCaptures : captured >= k ~> retired >= k

=============================================================================
