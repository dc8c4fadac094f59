--------------------------- MODULE ConnectionProofs ---------------------------
(***************************************************************************)
(* Connection: the safety of the six actors, for event queues of any       *)
(* length and any number of faults, clicks and restarts.                   *)
(***************************************************************************)
EXTENDS Connection, TLAPS

-----------------------------------------------------------------------------
(* The inductive invariant.                                                *)

(* The order in which the main task builds the client, and where a session *)
(* lets its handler be.                                                    *)
ClientOrder ==
    /\ mqttClient <=> main \in {"task", "hold", "start", "done"}
    /\ taskHandle => mqttClient
    /\ main # "done" => session = "init"
    /\ session \in {"init", "waiting"} => handler = "idle"
    /\ handler \in {"subscribe", "publish"} => session = "connected"

(* p_client and the MQTT error follow the session, from the moment its end *)
(* is handled.                                                             *)
SessionKnown ==
    /\ ClientMeansSession
    /\ handler \in {"schedule", "wait"} => ~pClient /\ "mqtt" \in errors

(* Once an end is handled only the reconnect task can hold.                *)
HoldOwned ==
    /\ ConnectHoldOwned
    /\ handler \in {"schedule", "wait"} /\ hold => recon = "request"

(* The client has scheduled the reconnect task before it begins to wait.   *)
WakeupKept ==
    (session = "waiting" \/ handler = "wait") /\ ip /\ loop # "ready" /\ taskHandle =>
        notified \/ recon # "take"

(* The address and the error change together.                              *)
IpAndError == ip <=> "wifi" \notin errors

LinkEvents == {"DISCONNECTED", "GOT_IP"}
LinkEventAt(i) == events[i] \in LinkEvents
NoneAfter(i) == \A j \in 1..Len(events) : j > i => ~LinkEventAt(j)

(* On a device that handles Wi-Fi events the last event about the link     *)
(* that is not yet taken tells its state, or the address does.             *)
QueueTells ==
    registered =>
        /\ \A i \in 1..Len(events) :
               LinkEventAt(i) /\ NoneAfter(i) => (events[i] = "GOT_IP" <=> link = "up")
        /\ NoneAfter(0) => (ip <=> link = "up")

(* Before the main task asks whether the device is provisioned, the Wi-Fi  *)
(* has done nothing.                                                       *)
NothingYet ==
    main \in {"boot", "query"} =>
        /\ ~registered /\ ~ip /\ joins = 0
        /\ events = <<>> /\ link = "off" /\ loop = "idle"

(* The station starts once, and nothing happens to it before that.         *)
StartFirst ==
    (\E i \in 1..Len(events) : events[i] = "START") =>
        registered /\ events = <<"START">> /\ link = "off" /\ loop = "idle" /\ joins = 0

(* Joins are counted from the reset on; a rejoin under way passed its      *)
(* check before the reset.                                                 *)
OneJoinLeft ==
    /\ ~resetPending => joins = 0
    /\ loop = "rejoin" => joins = 0
    /\ joins <= 1

ClientInv == ClientOrder /\ SessionKnown /\ HoldOwned /\ WakeupKept
StationInv == IpAndError /\ QueueTells /\ NothingYet /\ StartFirst /\ OneJoinLeft
IInv == TypeOK /\ ClientInv /\ StationInv

-----------------------------------------------------------------------------
LEMMA InitIInv == Init => IInv
<1> SUFFICES ASSUME Init PROVE IInv
    OBVIOUS
<1>1. TypeOK
    <2>1. BootType
        BY Zenon DEF Init, BootType
    <2>2. StationType
        <3>1. events \in Seq(WifiEvents \cup {"GOT_IP", "CRED_SUCCESS"})
            BY DEF Init
        <3> QED
            BY <3>1 DEF Init, StationType
    <2>3. ClientType
        BY Zenon DEF Init, ClientType
    <2>4. MqttType
        BY DEF Init, MqttType
    <2> QED
        BY <2>1, <2>2, <2>3, <2>4 DEF TypeOK
<1>2. ClientInv
    BY DEF Init, ClientInv, ClientOrder, SessionKnown, ClientMeansSession, HoldOwned,
           ConnectHoldOwned, WakeupKept
<1>3. StationInv
    BY DEF Init, StationInv, IpAndError, QueueTells, NoneAfter, NothingYet, StartFirst,
           OneJoinLeft
<1> QED
    BY <1>1, <1>2, <1>3 DEF IInv

LEMMA RestartIInv ==
    ASSUME IInv, Restart
    PROVE  IInv'
<1> USE DEF Restart
<1>1. TypeOK'
    <2>1. BootType'
        BY Zenon DEF IInv, TypeOK, BootType
    <2>2. StationType'
        <3>1. events' \in Seq(WifiEvents \cup {"GOT_IP", "CRED_SUCCESS"})
            OBVIOUS
        <3> QED
            BY <3>1 DEF StationType
    <2>3. ClientType'
        BY Zenon DEF ClientType
    <2>4. MqttType'
        BY DEF MqttType
    <2> QED
        BY <2>1, <2>2, <2>3, <2>4 DEF TypeOK
<1>2. ClientInv'
    BY DEF ClientInv, ClientOrder, SessionKnown, ClientMeansSession, HoldOwned,
           ConnectHoldOwned, WakeupKept
<1>3. StationInv'
    BY DEF StationInv, IpAndError, QueueTells, NoneAfter, NothingYet, StartFirst,
           OneJoinLeft
<1> QED
    BY <1>1, <1>2, <1>3 DEF IInv

-----------------------------------------------------------------------------
(* The event queue.                                                        *)

Events == WifiEvents \cup {"GOT_IP", "CRED_SUCCESS"}

LEMMA PostIsLast ==
    ASSUME StationType, NEW e \in Events, Post(e)
    PROVE  /\ events' \in Seq(Events) /\ Len(events') = Len(events) + 1
           /\ events'[Len(events) + 1] = e
           /\ \A i \in 1..Len(events) : events'[i] = events[i]
BY DEF StationType, Post, Events

LEMMA TakeIsFirst ==
    ASSUME StationType, NEW e, TakeEvent(e)
    PROVE  /\ events' \in Seq(Events) /\ Len(events') = Len(events) - 1
           /\ loop = "idle" /\ Len(events) \in Nat \ {0} /\ events[1] = e
           /\ \A i \in 1..Len(events') : events'[i] = events[i + 1]
BY DEF StationType, TakeEvent, Events

(* The actions that neither post nor take an event.                        *)
LEMMA QueueType ==
    ASSUME IInv, MainTask \/ WipeCredentials \/ Provision \/ JoinSucceeds
                 \/ LinkLost \/ EventLoop
    PROVE  events' \in Seq(Events)
<1> USE DEF IInv, TypeOK, Events, WifiEvents
<1>0. events \in Seq(Events)
    BY DEF StationType
<1>1. CASE MainTask
    BY <1>0, <1>1, PostIsLast DEF MainTask, PrepareWifi, StartProvisioning, StartStation,
         WifiConnected, CreateClient, CreateTask, HoldForStart, StartClient, station
<1>2. CASE WipeCredentials \/ JoinSucceeds \/ LinkLost
    BY <1>0, <1>2, PostIsLast DEF WipeCredentials, JoinSucceeds, LinkLost, station
<1>3. CASE Provision
    BY <1>0, <1>3 DEF Provision
<1>4. CASE EventLoop
    BY <1>0, <1>4, TakeIsFirst DEF EventLoop, OnIgnored, OnCredSuccess, OnStart,
         OnDisconnected, timerMqttWifiDisconnected, CheckReset, Rejoin, OnGotIp,
         timerMqttWifiIpReady
<1> QED
    BY <1>1, <1>2, <1>3, <1>4

-----------------------------------------------------------------------------
(* The types.                                                              *)

LEMMA MainTypes ==
    ASSUME IInv, MainTask
    PROVE  TypeOK'
<1> USE QueueType DEF IInv, TypeOK, MainTask, PrepareWifi, StartProvisioning, StartStation,
        WifiConnected, CreateClient, CreateTask, HoldForStart, StartClient, At, boot,
        click, station, status, client, mqtt, retry
<1>1. BootType'
    BY DEF BootType
<1>2. StationType'
    BY DEF StationType, Events
<1>3. ClientType'
    BY DEF ClientType
<1>4. MqttType'
    BY DEF MqttType
<1> QED
    BY <1>1, <1>2, <1>3, <1>4

LEMMA DriverTypes ==
    ASSUME IInv, Click \/ WipeCredentials \/ ShowReset
                 \/ Provision \/ JoinSucceeds \/ LinkLost
    PROVE  TypeOK'
<1> USE QueueType DEF IInv, TypeOK, Click, WipeCredentials, ShowReset, Provision,
        JoinSucceeds, LinkLost, boot, click, station, status, client, mqtt, retry
<1>1. BootType'
    <2>1. /\ joins' = joins /\ registered' = registered /\ bit' = bit /\ main' = main
          /\ button' \in {"idle", "pressed", "wiped", "delay"}
        BY DEF BootType
    <2>2. provisioned' \in BOOLEAN /\ resetPending' \in BOOLEAN
        BY DEF BootType
    <2> QED
        BY <2>1, <2>2 DEF BootType
<1>2. StationType'
    BY DEF StationType, Events
<1>3. ClientType'
    BY DEF ClientType
<1>4. MqttType'
    BY DEF MqttType
<1> QED
    BY <1>1, <1>2, <1>3, <1>4

LEMMA JoinType ==
    ASSUME BootType, StationType, esp_wifi_connect
    PROVE  joins' \in {0, 1, 2} /\ link' \in {"off", "joining", "up", "lost"}
BY DEF BootType, StationType, esp_wifi_connect

LEMMA ScheduleType ==
    ASSUME TypeOK, scheduleMqttReconnect \/ UNCHANGED notified
    PROVE  notified' \in BOOLEAN
BY Zenon DEF TypeOK, MqttType, scheduleMqttReconnect

LEMMA LoopTypes ==
    ASSUME IInv, EventLoop
    PROVE  TypeOK'
<1> USE QueueType DEF IInv, TypeOK, EventLoop, OnIgnored, OnCredSuccess, OnStart,
        OnDisconnected, timerMqttWifiDisconnected, CheckReset, Rejoin, OnGotIp,
        timerMqttWifiIpReady, boot, click, station, status, client, mqtt, retry
<1>1. BootType'
    BY JoinType DEF BootType
<1>2. StationType'
    BY JoinType DEF StationType, Events
<1>3. ClientType'
    BY DEF ClientType
<1>4. MqttType'
    BY ScheduleType DEF MqttType
<1> QED
    BY <1>1, <1>2, <1>3, <1>4

LEMMA MqttTypes ==
    ASSUME IInv, AttemptSucceeds \/ AttemptFails \/ SessionBreaks \/ MqttTask
                 \/ ReconnectTask
    PROVE  TypeOK'
<1> USE DEF IInv, TypeOK, AttemptSucceeds, AttemptFails, SessionBreaks, MqttTask,
        OnConnected, OnConnectedPublish, OnSubscribed, OnError, OnMqttDisconnected,
        OnMqttDisconnectedSchedule, WaitReconnect, ReconnectTask, TakeNotification,
        CheckLoop, HoldForReconnect, RequestReconnect, Backoff, boot, click, station,
        status, client, mqtt, retry
<1>1. BootType'
    BY DEF BootType
<1>2. StationType'
    BY DEF StationType
<1>3. ClientType'
    BY DEF ClientType
<1>4. MqttType'
    BY ScheduleType DEF MqttType, ScheduleIfIp
<1> QED
    BY <1>1, <1>2, <1>3, <1>4

-----------------------------------------------------------------------------
(* The client, its session and its hold.                                   *)

(* The driver, the button and most of the event loop ...                   *)
Outside ==
    \/ PrepareWifi \/ StartProvisioning \/ StartStation \/ WifiConnected
    \/ Click \/ WipeCredentials \/ ShowReset
    \/ Provision \/ JoinSucceeds \/ LinkLost
    \/ OnIgnored \/ OnCredSuccess \/ OnStart \/ OnDisconnected \/ CheckReset
    \/ Rejoin \/ OnGotIp

(* ... leave the client alone.                                             *)
LEMMA OutsideClient ==
    ASSUME Outside
    PROVE  /\ UNCHANGED <<mqttClient, taskHandle, pClient, hold, session, handler, suback,
                         notified, recon>>
           /\ \/ UNCHANGED main
              \/ main \in {"boot", "query"} /\ main' \in {"query", "wait"}
              \/ main = "wait" /\ main' = "client"
           /\ "mqtt" \in errors' <=> "mqtt" \in errors
           /\ ip' /\ loop' # "ready" => ip /\ loop # "ready"
<1> USE DEF boot, click, station, status, client, mqtt, retry
<1>1. CASE PrepareWifi \/ StartProvisioning \/ StartStation \/ WifiConnected
    BY <1>1 DEF PrepareWifi, StartProvisioning, StartStation, WifiConnected, At
<1>2. CASE Click \/ WipeCredentials \/ ShowReset \/ Provision \/ JoinSucceeds \/ LinkLost
    BY <1>2 DEF Click, WipeCredentials, ShowReset, Provision, JoinSucceeds, LinkLost
<1>3. CASE OnIgnored \/ OnCredSuccess \/ OnStart
    BY <1>3 DEF OnIgnored, OnCredSuccess, OnStart
<1>4. CASE OnDisconnected \/ CheckReset \/ Rejoin \/ OnGotIp
    BY <1>4 DEF OnDisconnected, CheckReset, Rejoin, OnGotIp
<1> QED
    BY <1>1, <1>2, <1>3, <1>4 DEF Outside

LEMMA OutsideKeeps ==
    ASSUME TypeOK, ClientInv, Outside
    PROVE  ClientInv'
<1> USE OutsideClient DEF Outside
<1>1. ClientOrder'
    BY DEF ClientInv, ClientOrder
<1>2. SessionKnown'
    BY DEF ClientInv, SessionKnown, ClientMeansSession
<1>3. HoldOwned'
    BY DEF ClientInv, HoldOwned, ConnectHoldOwned
<1>4. WakeupKept'
    BY DEF ClientInv, WakeupKept
<1> QED
    BY <1>1, <1>2, <1>3, <1>4 DEF ClientInv

(* The main task builds the client before there is a session.              *)
LEMMA BuildKeeps ==
    ASSUME TypeOK, ClientInv, CreateClient \/ CreateTask \/ HoldForStart \/ StartClient
    PROVE  ClientInv'
<1> USE DEF CreateClient, CreateTask, HoldForStart, StartClient, At, boot, click, station,
        status, client, mqtt, retry
<1>1. ClientOrder'
    BY DEF ClientInv, ClientOrder
<1>2. SessionKnown'
    BY DEF ClientInv, ClientOrder, SessionKnown, ClientMeansSession
<1>3. HoldOwned'
    BY DEF ClientInv, ClientOrder, HoldOwned, ConnectHoldOwned
<1>4. WakeupKept'
    BY DEF ClientInv, ClientOrder, WakeupKept
<1> QED
    BY <1>1, <1>2, <1>3, <1>4 DEF ClientInv

(* The event loop drops p_client and the hold, or wakes the reconnect task *)
(* once there is an address.                                               *)
LEMMA LoopKeeps ==
    ASSUME TypeOK, ClientInv, timerMqttWifiDisconnected \/ timerMqttWifiIpReady
    PROVE  ClientInv'
<1> USE DEF timerMqttWifiDisconnected, timerMqttWifiIpReady, boot, click, station, status,
        client, mqtt, retry
<1>1. ClientOrder'
    BY DEF ClientInv, ClientOrder
<1>2. SessionKnown'
    BY DEF ClientInv, SessionKnown, ClientMeansSession
<1>3. HoldOwned'
    BY DEF ClientInv, HoldOwned, ConnectHoldOwned
<1>4. WakeupKept'
    BY DEF ClientInv, ClientOrder, SessionKnown, ClientMeansSession, WakeupKept,
           scheduleMqttReconnect
<1> QED
    BY <1>1, <1>2, <1>3, <1>4 DEF ClientInv

(* The MQTT task: a session begins, its handler runs, it ends.             *)
LEMMA SessionKeeps ==
    ASSUME TypeOK, ClientInv, AttemptSucceeds \/ AttemptFails \/ SessionBreaks \/ MqttTask
    PROVE  ClientInv'
<1> USE DEF AttemptSucceeds, AttemptFails, SessionBreaks, MqttTask, OnConnected,
        OnConnectedPublish, OnSubscribed, OnError, OnMqttDisconnected,
        OnMqttDisconnectedSchedule, WaitReconnect, boot, click, station, status, client,
        mqtt, retry
<1>1. ClientOrder'
    BY DEF ClientInv, ClientOrder, TypeOK, MqttType
<1>2. SessionKnown'
    BY DEF ClientInv, ClientOrder, SessionKnown, ClientMeansSession
<1>3. HoldOwned'
    BY DEF ClientInv, ClientOrder, HoldOwned, ConnectHoldOwned
<1>4. WakeupKept'
    BY DEF ClientInv, WakeupKept, ScheduleIfIp, scheduleMqttReconnect
<1> QED
    BY <1>1, <1>2, <1>3, <1>4 DEF ClientInv

(* mqttReconnectTask goes back to sleep only if there is nothing to do.    *)
LEMMA ReconnectKeeps ==
    ASSUME TypeOK, ClientInv, ReconnectTask
    PROVE  ClientInv'
<1> USE DEF ReconnectTask, TakeNotification, CheckLoop, HoldForReconnect,
        RequestReconnect, Backoff, boot, click, station, status, client, mqtt, retry
<1>1. ClientOrder'
    BY DEF ClientInv, ClientOrder
<1>2. SessionKnown'
    BY DEF ClientInv, ClientOrder, SessionKnown, ClientMeansSession
<1>3. HoldOwned'
    BY DEF ClientInv, ClientOrder, HoldOwned, ConnectHoldOwned
<1>4. WakeupKept'
    BY DEF ClientInv, ClientOrder, SessionKnown, ClientMeansSession, WakeupKept
<1> QED
    BY <1>1, <1>2, <1>3, <1>4 DEF ClientInv

-----------------------------------------------------------------------------
(* The station: its events, its address and its joins.                     *)

(* The client and its tasks leave the station alone.                       *)
Client ==
    \/ WifiConnected \/ CreateClient \/ CreateTask \/ HoldForStart \/ StartClient
    \/ AttemptSucceeds \/ AttemptFails \/ SessionBreaks \/ MqttTask \/ ReconnectTask

LEMMA ClientKeepsStation ==
    ASSUME StationInv, Client
    PROVE  StationInv'
<1>1. /\ UNCHANGED <<registered, resetPending, joins, link, events, loop, ip>>
      /\ "wifi" \in errors' <=> "wifi" \in errors
      /\ main' \in {"boot", "query"} => main \in {"boot", "query"}
    <2> USE DEF boot, click, station, status, client, mqtt, retry
    <2>1. CASE WifiConnected \/ CreateClient \/ CreateTask \/ HoldForStart \/ StartClient
        BY <2>1 DEF WifiConnected, CreateClient, CreateTask, HoldForStart, StartClient, At
    <2>2. CASE AttemptSucceeds \/ AttemptFails \/ SessionBreaks \/ MqttTask
        BY <2>2 DEF AttemptSucceeds, AttemptFails, SessionBreaks, MqttTask, OnConnected,
           OnConnectedPublish, OnSubscribed, OnError, OnMqttDisconnected,
           OnMqttDisconnectedSchedule, WaitReconnect
    <2>3. CASE ReconnectTask
        BY <2>3 DEF ReconnectTask, TakeNotification, CheckLoop, HoldForReconnect,
           RequestReconnect, Backoff
    <2> QED
        BY <2>1, <2>2, <2>3 DEF Client
<1>2. IpAndError' /\ OneJoinLeft'
    BY <1>1 DEF StationInv, IpAndError, OneJoinLeft
<1>3. QueueTells'
    BY <1>1 DEF StationInv, QueueTells, NoneAfter, LinkEventAt
<1>4. NothingYet'
    BY <1>1 DEF StationInv, NothingYet
<1>5. StartFirst'
    BY <1>1 DEF StationInv, StartFirst
<1> QED
    BY <1>2, <1>3, <1>4, <1>5 DEF StationInv

(* The steps that neither post nor take an event.                          *)
Still ==
    \/ PrepareWifi \/ StartProvisioning \/ Click \/ ShowReset
    \/ timerMqttWifiDisconnected \/ CheckReset \/ Rejoin \/ timerMqttWifiIpReady

LEMMA StillKeepsStation ==
    ASSUME TypeOK, StationInv, Still
    PROVE  StationInv'
<1> USE DEF PrepareWifi, StartProvisioning, Click, ShowReset, timerMqttWifiDisconnected,
        CheckReset, Rejoin, timerMqttWifiIpReady, At, esp_wifi_connect, Still,
        boot, click, station, status, client, mqtt, retry
<1>1. /\ UNCHANGED <<registered, events, ip>>
      /\ "wifi" \in errors' <=> "wifi" \in errors
      /\ link' = "up" <=> link = "up"
      /\ main' \in {"boot", "query"} => main \in {"boot", "query"}
      /\ loop = "idle" => UNCHANGED <<loop, link, joins>>
    OBVIOUS
<1>2. IpAndError'
    BY <1>1 DEF StationInv, IpAndError
<1>3. OneJoinLeft'
    BY DEF StationInv, OneJoinLeft
<1>4. QueueTells'
    BY <1>1 DEF StationInv, QueueTells, NoneAfter, LinkEventAt
<1>5. NothingYet' /\ StartFirst'
    BY <1>1 DEF StationInv, NothingYet, StartFirst
<1> QED
    BY <1>2, <1>3, <1>4, <1>5 DEF StationInv

(* An event is posted at the end of the queue.                             *)
LEMMA PostTells ==
    ASSUME StationType, QueueTells, NEW e \in LinkEvents, Post(e),
           registered' = registered, ip' = ip, e = "GOT_IP" <=> link' = "up"
    PROVE  QueueTells'
<1>1. /\ Len(events') = Len(events) + 1 /\ Len(events) \in Nat
      /\ events'[Len(events) + 1] = e
    BY PostIsLast DEF LinkEvents, Events, WifiEvents, StationType
<1>2. ASSUME NEW i \in 1..Len(events'), NoneAfter(i)'
      PROVE  i = Len(events) + 1
    BY <1>1, <1>2 DEF NoneAfter, LinkEventAt
<1>3. ~NoneAfter(0)'
    BY <1>1 DEF NoneAfter, LinkEventAt
<1> QED
    BY <1>1, <1>2, <1>3 DEF QueueTells

LEMMA StationStarts ==
    ASSUME TypeOK, StationInv, StartStation
    PROVE  StationInv'
<1>1. /\ events = <<>> /\ link = "off" /\ ~ip /\ loop = "idle" /\ joins = 0
      /\ main' = "wait" /\ registered' = TRUE
      /\ errors' = errors \ {"provisioning"}
      /\ UNCHANGED <<link, loop, ip, resetPending, joins>>
      /\ events' = <<"START">>
    BY DEF StationInv, NothingYet, StartStation, At, Post, click
<1>2. IpAndError' /\ OneJoinLeft' /\ NothingYet' /\ StartFirst'
    BY <1>1 DEF StationInv, IpAndError, OneJoinLeft, NothingYet, StartFirst
<1>3. QueueTells'
    BY <1>1 DEF QueueTells, LinkEventAt, LinkEvents
<1> QED
    BY <1>2, <1>3 DEF StationInv

(* The driver joins or loses the link.                                     *)
LEMMA LinkChanges ==
    ASSUME TypeOK, StationInv, WipeCredentials \/ JoinSucceeds \/ LinkLost
    PROVE  StationInv'
<1> USE DEF TypeOK, boot, click, station, status, client, mqtt, retry
<1>1. CASE UNCHANGED <<link, events, loop>> /\ WipeCredentials
    BY <1>1 DEF WipeCredentials, StationInv, IpAndError, QueueTells, NoneAfter,
       LinkEventAt, NothingYet, StartFirst, OneJoinLeft
<1>2. CASE /\ link \in {"joining", "up"} /\ link' # link
           /\ \E e \in LinkEvents : Post(e) /\ (e = "GOT_IP" <=> link' = "up")
    <2>0. /\ UNCHANGED <<registered, main, resetPending, joins, loop, ip, errors>>
        BY <1>2 DEF WipeCredentials, JoinSucceeds, LinkLost
    <2>1. PICK e \in LinkEvents : Post(e) /\ (e = "GOT_IP" <=> link' = "up")
        BY <1>2
    <2>2. QueueTells'
        BY <2>0, <2>1, PostTells DEF StationInv
    <2>3. main \notin {"boot", "query"} /\ \A i \in 1..Len(events) : events[i] # "START"
        BY <1>2 DEF StationInv, NothingYet, StartFirst
    <2>4. /\ Len(events') = Len(events) + 1 /\ Len(events) \in Nat
          /\ events'[Len(events) + 1] = e
          /\ \A i \in 1..Len(events) : events'[i] = events[i]
        BY <2>1, PostIsLast DEF LinkEvents, Events, WifiEvents, StationType
    <2>5. \A i \in 1..Len(events') : events'[i] # "START"
        BY <2>3, <2>4 DEF LinkEvents
    <2>6. StartFirst' /\ NothingYet'
        BY <2>0, <2>3, <2>5 DEF StartFirst, NothingYet
    <2>7. IpAndError' /\ OneJoinLeft'
        BY <2>0 DEF StationInv, IpAndError, OneJoinLeft
    <2> QED
        BY <2>2, <2>6, <2>7 DEF StationInv
<1> QED
    BY <1>1, <1>2 DEF WipeCredentials, JoinSucceeds, LinkLost, LinkEvents

(* The provisioning manager joins, on a device without the handler.        *)
LEMMA ProvisionKeeps ==
    ASSUME TypeOK, StationInv, Provision
    PROVE  StationInv'
<1>1. /\ ~registered /\ main = "wait"
      /\ UNCHANGED <<registered, main, resetPending, joins, loop, ip, errors>>
      /\ events' = events \o <<"GOT_IP", "CRED_SUCCESS">>
    BY DEF Provision, click, status
<1>2. \A i \in 1..Len(events) : events[i] # "START"
    BY <1>1 DEF StationInv, StartFirst
<1>3. \A i \in 1..Len(events') : events'[i] # "START"
    BY <1>1, <1>2 DEF TypeOK, StationType
<1> QED
    BY <1>1, <1>3 DEF StationInv, IpAndError, QueueTells, NothingYet, StartFirst, OneJoinLeft

(* An event is taken from the front of the queue.                          *)
LEMMA TakeTells ==
    ASSUME StationType, QueueTells, NEW e, TakeEvent(e),
           registered' = registered, registered,
           link' = "up" <=> link = "up",
           e \notin LinkEvents => ip' = ip,
           e \in LinkEvents => (ip' <=> e = "GOT_IP")
    PROVE  QueueTells'
<1>1. /\ Len(events') = Len(events) - 1 /\ Len(events) \in Nat \ {0} /\ events[1] = e
      /\ \A i \in 1..Len(events') : events'[i] = events[i + 1]
    BY TakeIsFirst
<1>2. \A i \in 0..Len(events') : NoneAfter(i)' => NoneAfter(i + 1)
    <2> SUFFICES ASSUME NEW i \in 0..Len(events'), NoneAfter(i)',
                        NEW j \in 1..Len(events), j > i + 1
                 PROVE  ~LinkEventAt(j)
        BY DEF NoneAfter
    <2>1. j - 1 \in 1..Len(events') /\ j - 1 > i /\ events'[j - 1] = events[j]
        BY <1>1
    <2> QED
        BY <2>1 DEF NoneAfter, LinkEventAt
<1>3. ASSUME NEW i \in 1..Len(events'), LinkEventAt(i)', NoneAfter(i)'
      PROVE  events'[i] = "GOT_IP" <=> link' = "up"
    <2>1. i + 1 \in 1..Len(events) /\ events'[i] = events[i + 1] /\ i \in 0..Len(events')
        BY <1>1
    <2>2. LinkEventAt(i + 1) /\ NoneAfter(i + 1)
        BY <1>2, <1>3, <2>1 DEF LinkEventAt
    <2> QED
        BY <2>1, <2>2 DEF QueueTells
<1>4. ASSUME NoneAfter(0)'
      PROVE  ip' <=> link' = "up"
    <2>1. NoneAfter(1) /\ 1 \in 1..Len(events)
        BY <1>1, <1>2, <1>4
    <2>2. CASE e \in LinkEvents
        BY <1>1, <2>1, <2>2 DEF QueueTells, LinkEventAt
    <2>3. CASE e \notin LinkEvents
        BY <1>1, <2>1, <2>3 DEF QueueTells, NoneAfter, LinkEventAt
    <2> QED
        BY <2>2, <2>3
<1> QED
    BY <1>3, <1>4 DEF QueueTells

LEMMA TakeKeepsStation ==
    ASSUME TypeOK, StationInv,
           OnIgnored \/ OnCredSuccess \/ OnStart \/ OnDisconnected \/ OnGotIp
    PROVE  StationInv'
<1> USE DEF TypeOK, OnIgnored, OnCredSuccess, OnStart, OnDisconnected, OnGotIp,
        esp_wifi_connect, boot, click, station, status, client, mqtt, retry
<1>1. /\ UNCHANGED <<registered, main, resetPending>>
      /\ link' = "up" <=> link = "up"
    OBVIOUS
<1>2. PICK e : /\ TakeEvent(e)
               /\ e \notin LinkEvents => ip' = ip
               /\ registered /\ e \in LinkEvents => (ip' <=> e = "GOT_IP")
    <2> USE DEF LinkEvents, WifiEvents
    <2>1. CASE OnIgnored
        BY <2>1
    <2>2. CASE OnCredSuccess
        BY <2>2
    <2>3. CASE OnStart
        BY <2>3
    <2>4. CASE OnDisconnected
        <3>1. TakeEvent("DISCONNECTED") /\ ip' = FALSE
            BY <2>4
        <3> QED
            BY <3>1
    <2>5. CASE OnGotIp
        <3>1. TakeEvent("GOT_IP") /\ ip' = TRUE
            BY <2>5
        <3>2. "GOT_IP" \in LinkEvents
            OBVIOUS
        <3> HIDE DEF OnIgnored, OnCredSuccess, OnStart, OnDisconnected, OnGotIp,
                     LinkEvents, TypeOK
        <3> QED
            BY <3>1, <3>2, Zenon
    <2> HIDE DEF OnIgnored, OnCredSuccess, OnStart, OnDisconnected, OnGotIp,
                 TypeOK, esp_wifi_connect
    <2> QED
        BY <2>1, <2>2, <2>3, <2>4, <2>5, Zenon
<1>3. /\ Len(events') = Len(events) - 1 /\ Len(events) \in Nat \ {0}
      /\ \A i \in 1..Len(events') : events'[i] = events[i + 1]
      /\ events[1] = e /\ loop = "idle"
    BY <1>2, TakeIsFirst
<1>4. QueueTells'
    BY <1>1, <1>2, TakeTells DEF StationInv, QueueTells
<1>5. main \notin {"boot", "query"}
    BY <1>3 DEF StationInv, NothingYet
<1>6. \A i \in 1..Len(events') : events'[i] # "START"
    BY <1>3 DEF StationInv, StartFirst
<1>7. IpAndError'
    <2>1. \/ UNCHANGED ip /\ errors' \in {errors, errors \ {"provisioning"}}
          \/ ip' = FALSE /\ errors' = errors \cup {"wifi"}
          \/ ip' = TRUE /\ errors' = errors \ {"wifi"}
        OBVIOUS
    <2> QED
        BY <2>1 DEF StationInv, IpAndError
<1>8. OneJoinLeft'
    <2>1. loop' # "rejoin" /\ resetPending' = resetPending
        BY <1>3
    <2>2. CASE OnStart
        <3>1. 1 \in 1..Len(events) /\ events[1] = "START"
            BY <1>3, <2>2 DEF TakeEvent
        <3>2. joins = 0
            BY <3>1 DEF StationInv, StartFirst
        <3>3. joins' = IF resetPending THEN 1 ELSE 0
            BY <2>2, <3>2
        <3> QED
            BY <2>1, <3>3 DEF OneJoinLeft
    <2>3. CASE ~OnStart
        <3>1. joins' = joins
            BY <2>3
        <3> QED
            BY <2>1, <3>1 DEF StationInv, OneJoinLeft
    <2> QED
        BY <2>2, <2>3
<1> QED
    BY <1>1, <1>4, <1>5, <1>6, <1>7, <1>8 DEF StationInv, NothingYet, StartFirst

-----------------------------------------------------------------------------
LEMMA NextIInv == IInv /\ [Next]_vars => IInv'
<1> SUFFICES ASSUME IInv, [Next]_vars PROVE IInv'
    OBVIOUS
<1>1. CASE Restart \/ ButtonRestart
    BY <1>1, RestartIInv DEF ButtonRestart
<1>2. CASE UNCHANGED vars
    <2> USE <1>2 DEF vars, boot, click, station, status, client, mqtt, retry
    <2>1. TypeOK'
        BY DEF IInv, TypeOK, BootType, StationType, ClientType, MqttType
    <2>2. ClientInv'
        BY DEF IInv, ClientInv, ClientOrder, SessionKnown, ClientMeansSession, HoldOwned,
               ConnectHoldOwned, WakeupKept
    <2>3. StationInv'
        BY DEF IInv, StationInv, IpAndError, QueueTells, NoneAfter, LinkEventAt, NothingYet,
               StartFirst, OneJoinLeft
    <2> QED
        BY <2>1, <2>2, <2>3 DEF IInv
<1>3. CASE ~Restart /\ ~ButtonRestart /\ ~UNCHANGED vars
    <2>1. TypeOK'
        BY <1>3, MainTypes, DriverTypes, LoopTypes, MqttTypes DEF Next, ButtonTask
    <2>2. ClientInv'
        BY <1>3, OutsideKeeps, BuildKeeps, LoopKeeps, SessionKeeps, ReconnectKeeps
        DEF IInv, Next, MainTask, ButtonTask, EventLoop, Outside
    <2>3. StationInv'
        BY <1>3, ClientKeepsStation, StillKeepsStation, StationStarts, LinkChanges,
           ProvisionKeeps, TakeKeepsStation
        DEF IInv, Next, MainTask, ButtonTask, EventLoop, Client, Still
    <2> QED
        BY <2>1, <2>2, <2>3 DEF IInv
<1> QED
    BY <1>1, <1>2, <1>3

LEMMA IInvariant == Spec => []IInv
BY InitIInv, NextIInv, PTL DEF Spec, SafetySpec

-----------------------------------------------------------------------------
(* The theorems.                                                           *)

(* Every variable of Connection keeps its type, whatever is lost, clicked  *)
(* or restarted.                                                           *)
THEOREM ConnectionTypes == Spec => []TypeOK
<1>1. IInv => TypeOK
    BY DEF IInv
<1> QED
    BY <1>1, IInvariant, PTL

(* In no interleaving of the four tasks that set and clear it is the       *)
(* connect hold left behind without an owner that will release it.         *)
THEOREM HoldIsOwned == Spec => []ConnectHoldOwned
<1>1. IInv => ConnectHoldOwned
    BY DEF IInv, ClientInv, HoldOwned
<1> QED
    BY <1>1, IInvariant, PTL

(* p_client never outlives its session, and a client that waits shows the  *)
(* MQTT error.                                                             *)
THEOREM ClientHasSession == Spec => []ClientMeansSession
<1>1. IInv => ClientMeansSession
    BY DEF IInv, ClientInv, SessionKnown
<1> QED
    BY <1>1, IInvariant, PTL

(* Whichever of the address and the end of the session is handled first,   *)
(* the reconnect task is woken or awake once both are there.               *)
THEOREM WakeupNotLost == Spec => []NoLostWakeup
<1>1. IInv => NoLostWakeup
    BY DEF IInv, ClientInv, WakeupKept, NoLostWakeup
<1> QED
    BY <1>1, IInvariant, PTL

(* However many events queue up, on a device that handles them the address *)
(* and the Wi-Fi error are right once the queue is empty.                  *)
THEOREM StatusSettles == Spec => []WifiStatusSettled
<1>1. IInv => WifiStatusSettled
    BY DEF IInv, StationInv, IpAndError, QueueTells, NoneAfter, WifiStatusSettled
<1> QED
    BY <1>1, IInvariant, PTL

(* After the reset button at most one more join is asked for, however      *)
(* often the link was lost and however the button and the event loop       *)
(* interleave.                                                             *)
THEOREM OneJoinAfterReset == Spec => []ResetStopsRejoin
<1>1. IInv => ResetStopsRejoin
    BY DEF IInv, StationInv, OneJoinLeft, ResetStopsRejoin
<1> QED
    BY <1>1, IInvariant, PTL
=============================================================================
