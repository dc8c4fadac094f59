---------------------------- MODULE CaptureClock ----------------------------
(***************************************************************************)
(* The time stamp of a pin edge.  The capture unit stamps edges with a     *)
(* 32-bit counter of microseconds that wraps every 71.6 minutes; the ISR   *)
(* queues them and capture_main extends each stamp to 64 bits with         *)
(* qc_get64().  That works only if the stamps keep coming: the PPS of the  *)
(* GPS does it once a second, and without PPS quadWatchdog() makes a soft  *)
(* capture on the GPS pin every 45 s, which pinHandlerGps() must not take  *)
(* for a real one.                                                         *)
(*                                                                         *)
(* qc_get64() looks only at the top two bits of a stamp, so a stamp is the *)
(* number of the quarter of the counter's range it lies in, counted from   *)
(* the start without wrapping; the code sees that number modulo 4.         *)
(***************************************************************************)
EXTENDS Integers, Sequences

CONSTANTS
  Quarter,     \* ticks in a quarter of the counter's range (2^30 us)
  PollPeriod,  \* ticks between two quadWatchdog() polls (45 s)
  Grace,       \* ticks without PPS before it acts (2 s)
  SoftWindow,  \* ticks isSoftGps() looks back (10 s)
  QueueDepth,  \* ESP_PROBE_DEFAULT_Q_DEPTH
  MaxLag,      \* bound: ticks an event waits in recv_que
  MaxTime      \* bound: ticks in a behaviour

ASSUME TicksAssumption ==
  /\ Quarter \in Nat \ {0}
  /\ PollPeriod \in Nat \ {0}
  /\ Grace \in Nat
  /\ SoftWindow \in Nat
  /\ MaxLag \in Nat \ {0}
  /\ QueueDepth \in Nat \ {0}
  /\ MaxTime \in Nat
(* The code's 45 s, 2 s and 10 s against a quarter of 1074 s: a poll is    *)
(* never later than a quarter after the last stamp, and no event waits     *)
(* longer than isSoftGps() looks back.                                     *)
ASSUME PaceAssumption ==
  /\ PollPeriod + Grace + MaxLag <= Quarter + 1
  /\ PollPeriod + MaxLag <= Quarter
  /\ MaxLag <= SoftWindow

VARIABLES
  now,        \* esp_timer_get_time()
  quarter,    \* quarter of the capture counter, counted without wrapping
  phase,      \* ticks of the counter into that quarter
  recv_que,   \* events from the ISR to capture_main
  recv_que_overflow,  \* some event found recv_que full
  qcItems,    \* gqh, the state of qc_get64()
  read,       \* history: the quarter last extended, and what came out
  nextPoll,   \* nextMs of quadWatchdog()
  softGpsUs,  \* when the last soft capture was made
  realGpsUs,  \* when the last real PPS was handled
  staleGpsUs, \* realGpsUs of the last PPS outage that was counted
  gpsemittingpps,  \* the last PPS event was a real one
  selfTest    \* the quarter testem() has reached, NotRun before it

clockVars == <<now, quarter, phase>>
queVars   == <<recv_que, recv_que_overflow>>
gpsVars   == <<softGpsUs, realGpsUs, staleGpsUs, gpsemittingpps>>
vars == <<clockVars, queVars, qcItems, read, nextPoll, gpsVars, selfTest>>

NotRun == -1

-----------------------------------------------------------------------------
(* quad_uint32.c.                                                          *)

(* init_qcontrol().                                                        *)
FreshItems == [i \in 0..3 |-> [orBits |-> 0, armed |-> i \in {2, 3}]]

(* Mutant of qcVisit: the slot stays armed after it was used.              *)
StaysArmed(items, q) ==
  LET idx   == q % 4
      polar == (idx + 2) % 4
  IN  IF items[idx].armed
        THEN [items EXCEPT ![polar].armed = TRUE,
                           ![polar].orBits = @ + 1]
        ELSE items

(* The first stamp in a quarter prepares the opposite quarter, half a      *)
(* range away, for its next turn.                                          *)
qcVisit(items, q) ==
  LET idx   == q % 4
      polar == (idx + 2) % 4
  IN  IF items[idx].armed
        THEN [items EXCEPT ![idx].armed = FALSE,
                           ![polar].armed = TRUE,
                           ![polar].orBits = @ + 1]
        ELSE items

(* The quarter number that the 64-bit result stands for.                   *)
qcExtend(items, q) == 4 * items[q % 4].orBits + (q % 4)

-----------------------------------------------------------------------------
Init ==
  /\ now = 0
  /\ quarter = 0
  /\ phase = 0
  /\ recv_que = <<>>
  /\ recv_que_overflow = FALSE
  /\ qcItems = FreshItems
  /\ read = [at |-> 0, as |-> 0]
  /\ nextPoll = 0
  /\ softGpsUs = 0
  /\ realGpsUs = 0
  /\ staleGpsUs = 0
  /\ gpsemittingpps = FALSE
  /\ selfTest = NotRun

-----------------------------------------------------------------------------
(* Time passes: capture_main is not late for a poll nor for an event.      *)
Tick ==
  /\ now < MaxTime
  /\ now < nextPoll
  /\ \A i \in DOMAIN recv_que : now - recv_que[i].since < MaxLag
  /\ now' = now + 1
  /\ phase' = IF phase + 1 = Quarter THEN 0 ELSE phase + 1
  /\ quarter' = IF phase + 1 = Quarter THEN quarter + 1 ELSE quarter
  /\ UNCHANGED <<queVars, qcItems, read, nextPoll, gpsVars, selfTest>>

(* xQueueSendFromISR() and xQueueSend() with no wait: a full queue loses   *)
(* the event, and the ISR counts it.                                       *)
Full == Len(recv_que) = QueueDepth

(* Mutant of Send: a full queue takes one more.                            *)
SendAnyway(pin, soft) ==
  recv_que' = Append(recv_que, [pin |-> pin, soft |-> soft, at |-> quarter, since |-> now])

Send(pin, soft) ==
  recv_que' = IF Full THEN recv_que
                ELSE Append(recv_que, [pin |-> pin, soft |-> soft,
                                       at |-> quarter, since |-> now])

(* mcpwm_timer_isr_callback(): an edge of a lane or of the PPS.            *)
Edge(pin) ==
  /\ Send(pin, FALSE)
  /\ recv_que_overflow' = (recv_que_overflow \/ Full)
  /\ UNCHANGED <<clockVars, qcItems, read, nextPoll, gpsVars, selfTest>>

(* awakenPoll(): another task wants the polls to run.  Bound: wakes alone  *)
(* never fill the queue.                                                   *)
awakenPoll ==
  /\ \/ Len(recv_que) + 1 < QueueDepth
     \/ \E i \in DOMAIN recv_que : recv_que[i].pin # "wake"
  /\ Send("wake", FALSE)
  /\ UNCHANGED <<clockVars, recv_que_overflow, qcItems, read, nextPoll, gpsVars, selfTest>>

(* Mutant of quadWatchdog: it waits for a poll period without PPS.         *)
WaitsLonger ==
  /\ now >= nextPoll
  /\ nextPoll' = now + PollPeriod
  /\ IF now < realGpsUs + Grace + PollPeriod
       THEN UNCHANGED <<softGpsUs, queVars>>
       ELSE /\ softGpsUs' = now
            /\ Send("gps", TRUE)
            /\ recv_que_overflow' = (recv_que_overflow \/ Full)
  /\ UNCHANGED <<clockVars, qcItems, read, realGpsUs, staleGpsUs, gpsemittingpps, selfTest>>

(* doPollAll() finds quadWatchdog() due.  Without PPS it makes a soft      *)
(* capture, which the ISR queues like an edge of the GPS pin.              *)
quadWatchdog ==
  /\ now >= nextPoll
  /\ nextPoll' = now + PollPeriod
  /\ IF now < realGpsUs + Grace
       THEN UNCHANGED <<softGpsUs, queVars>>
       ELSE /\ softGpsUs' = now
            /\ Send("gps", TRUE)
            /\ recv_que_overflow' = (recv_que_overflow \/ Full)
  /\ UNCHANGED <<clockVars, qcItems, read, realGpsUs, staleGpsUs, gpsemittingpps, selfTest>>

-----------------------------------------------------------------------------
(* capture_main takes an event from the queue.                             *)

(* apply64bitHysterisis().                                                 *)
Extend(q) ==
  /\ qcItems' = qcVisit(qcItems, q)
  /\ read' = [at |-> q, as |-> qcExtend(qcVisit(qcItems, q), q)]

Receive(pin) ==
  /\ recv_que # <<>>
  /\ Head(recv_que).pin = pin
  /\ recv_que' = Tail(recv_que)

ReceiveWake ==
  /\ Receive("wake")
  /\ UNCHANGED <<clockVars, recv_que_overflow, qcItems, read, nextPoll, gpsVars, selfTest>>

(* pinHandlerLane(): what becomes of the transition is TimerPublish's.     *)
ReceiveLane ==
  /\ Receive("lane")
  /\ Extend(Head(recv_que).at)
  /\ UNCHANGED <<clockVars, recv_que_overflow, nextPoll, gpsVars, selfTest>>

(* Mutant of isSoftGps: the window is not looked at.                       *)
OnlyThisInstant == FALSE

isSoftGps == now - softGpsUs <= SoftWindow

(* Mutant of SkipSoft: the outage stays uncounted.                         *)
ForgetsOutage ==
  /\ gpsemittingpps' = FALSE
  /\ UNCHANGED <<staleGpsUs, realGpsUs>>

(* pinHandlerGps(): a soft capture ends the spell of PPS and counts an     *)
(* outage once (gpsFlutter++ when staleGpsUs changes) ...                  *)
SkipSoft ==
  /\ gpsemittingpps' = FALSE
  /\ staleGpsUs' = realGpsUs
  /\ UNCHANGED realGpsUs

(* ... and a real one goes on to log_gps_pps().                            *)
TakeReal ==
  /\ gpsemittingpps' = TRUE
  /\ realGpsUs' = now
  /\ UNCHANGED staleGpsUs

ReceiveGps ==
  /\ Receive("gps")
  /\ Extend(Head(recv_que).at)
  /\ IF isSoftGps THEN SkipSoft ELSE TakeReal
  /\ UNCHANGED <<clockVars, recv_que_overflow, nextPoll, softGpsUs, selfTest>>

-----------------------------------------------------------------------------
(* testem(), which app_main() calls while capture_main is running.  It     *)
(* resets gqh and takes it through the stamps of 10000 s, each followed by *)
(* the one before it, to quarter 9; its calls of qc_get64() interleave     *)
(* with those of capture_main.                                             *)

SelfTestLast == 9

SelfTestStart ==
  /\ selfTest = NotRun
  /\ selfTest' = 0
  /\ qcItems' = FreshItems
  /\ UNCHANGED <<clockVars, queVars, read, nextPoll, gpsVars>>

SelfTestRead ==
  /\ selfTest \in 0..(SelfTestLast - 1)
  /\ \E q \in (selfTest - 1)..(selfTest + 1) :
       /\ q >= 0
       /\ selfTest' = IF q > selfTest THEN q ELSE selfTest
       /\ qcItems' = qcVisit(qcItems, q)
  /\ UNCHANGED <<clockVars, queVars, read, nextPoll, gpsVars>>

-----------------------------------------------------------------------------
Next ==
  \/ Tick
  \/ Edge("lane") \/ Edge("gps") \/ awakenPoll
  \/ quadWatchdog
  \/ ReceiveWake \/ ReceiveLane \/ ReceiveGps

Spec == Init /\ [][Next]_vars

SelfTestSpec == Init /\ [][Next \/ SelfTestStart \/ SelfTestRead]_vars

-----------------------------------------------------------------------------
Event == [pin : {"lane", "gps", "wake"}, soft : BOOLEAN, at : Nat, since : Nat]

(* Every variable has its type and recv_que keeps within its depth.        *)
TypeOK ==
  /\ now \in Nat /\ quarter \in Nat /\ phase \in 0..(Quarter - 1)
  /\ recv_que \in Seq(Event) /\ Len(recv_que) <= QueueDepth
  /\ recv_que_overflow \in BOOLEAN
  /\ qcItems \in [0..3 -> [orBits : Nat, armed : BOOLEAN]]
  /\ read \in [at : Nat, as : Nat]
  /\ nextPoll \in Nat
  /\ softGpsUs \in Nat /\ realGpsUs \in Nat /\ staleGpsUs \in Nat
  /\ gpsemittingpps \in BOOLEAN
  /\ selfTest \in {NotRun} \cup 0..SelfTestLast

(* qc_get64() gives every stamp its true 64-bit value, across wraps and    *)
(* outages of the PPS and even if events are lost to a full queue          *)
(* (quad_uint32.c:25-37; testem() expects it of every stamp, :46).         *)
(* quadWatchdog() keeps "the quad alive" (timer_capture.c:260).            *)
ExtensionExact == read.as = read.at

(* A soft capture is never taken for a real PPS, so it never reaches the   *)
(* GPS translation with a time that is no full second                      *)
(* (timer_capture.c:432-456).                                              *)
SoftIsNeverReal ==
  [][ReceiveGps /\ Head(recv_que).soft => ~gpsemittingpps']_vars

(* An outage of the PPS is counted exactly once: gpsFlutter is behind the  *)
(* PPS that was lost just while the PPS counts as present                  *)
(* (timer_capture.c:450-453).                                              *)
OutageCountedOnce == gpsemittingpps <=> staleGpsUs # realGpsUs

(* isGpsEmittingPps() is not stale for longer than a poll period and the   *)
(* grace, unless an event was lost to a full queue                         *)
(* (timer_capture.c:255-264, 299).                                         *)
PpsReportFresh ==
  gpsemittingpps /\ ~recv_que_overflow
    => now - realGpsUs <= PollPeriod + Grace + MaxLag

=============================================================================
