----------------------------- MODULE Connection -----------------------------
(***************************************************************************)
(* How the timer gets and keeps its connection: start-up and provisioning, *)
(* the reset button and the Wi-Fi events (rr1_wifi_prov/app_main.c), and   *)
(* the MQTT session with its reconnect task (rr1_capture/timer_mqtt.c).    *)
(*                                                                         *)
(* Six actors interleave: the main task, the button callback, the system   *)
(* event loop, the MQTT task, mqttReconnectTask and, outside the firmware, *)
(* the Wi-Fi driver with the broker.  A handler is cut where it reads what *)
(* another actor writes.  The chip may restart at any moment; only the     *)
(* Wi-Fi credentials in flash survive.  No bound is needed: the state is   *)
(* finite although faults are unlimited.                                   *)
(***************************************************************************)
EXTENDS Naturals, Sequences

VARIABLES
    provisioned,    \* Wi-Fi credentials are in flash
    registered,     \* event_handler is registered for WIFI_EVENT
    resetPending,   \* wifi_provisioning_reset_pending
    button,         \* progress of button_single_click_cb
    joins,          \* history: joins since the reset button, at most 2
    main,           \* progress of the main task
    bit,            \* WIFI_CONNECTED_EVENT in wifi_event_group
    link,           \* the station's link; "up" means it has an address
    events,         \* events posted to the system event loop
    loop,           \* progress of event_handler on the event it took
    ip,             \* wifi_ip[0] is not zero
    errors,         \* the error priorities that are active
    mqttClient,     \* the client handle exists
    taskHandle,     \* mqttReconnectTaskHandle exists
    pClient,        \* p_client is not NULL: publishing is possible
    hold,           \* WIFI_POWER_HOLD_MQTT_CONNECT
    session,        \* the state of the ESP-MQTT client
    handler,        \* progress of mqtt_event_handler in the MQTT task
    suback,         \* the subscription waits for its SUBACK
    notified,       \* mqttReconnectTask has a notification waiting
    recon           \* progress of mqttReconnectTask

boot     == <<provisioned, registered, main, bit>>
click    == <<resetPending, button, joins>>
station  == <<link, events, loop>>
status   == <<ip, errors>>
client   == <<mqttClient, taskHandle, pClient, hold>>
mqtt     == <<session, handler, suback>>
retry    == <<notified, recon>>
vars     == <<boot, click, station, status, client, mqtt, retry>>

WifiEvents == {"START", "DISCONNECTED"}

BootType ==
    /\ provisioned \in BOOLEAN /\ registered \in BOOLEAN /\ bit \in BOOLEAN
    /\ main \in {"boot", "query", "wait", "client", "task", "hold", "start",
                 "done"}
    /\ resetPending \in BOOLEAN
    /\ button \in {"idle", "pressed", "wiped", "delay"} /\ joins \in {0, 1, 2}
StationType ==
    /\ link \in {"off", "joining", "up", "lost"}
    /\ events \in Seq(WifiEvents \cup {"GOT_IP", "CRED_SUCCESS"})
    /\ loop \in {"idle", "lost", "check", "rejoin", "ready"}
    /\ ip \in BOOLEAN /\ errors \subseteq {"provisioning", "wifi", "mqtt"}
ClientType ==
    /\ mqttClient \in BOOLEAN /\ taskHandle \in BOOLEAN
    /\ pClient \in BOOLEAN /\ hold \in BOOLEAN
MqttType ==
    /\ session \in {"init", "connecting", "connected", "waiting"}
    /\ handler \in {"idle", "subscribe", "publish", "error", "down", "schedule",
                    "wait"}
    /\ suback \in BOOLEAN /\ notified \in BOOLEAN
    /\ recon \in {"take", "check", "hold", "request", "delay"}
TypeOK == BootType /\ StationType /\ ClientType /\ MqttType

\* What a restart leaves: nothing but the flash.  init_blink() starts with
\* these three errors.
Init ==
    /\ provisioned \in BOOLEAN
    /\ registered = FALSE /\ main = "boot" /\ bit = FALSE
    /\ resetPending = FALSE /\ button = "idle" /\ joins = 0
    /\ link = "off" /\ events = <<>> /\ loop = "idle"
    /\ ip = FALSE /\ errors = {"provisioning", "wifi", "mqtt"}
    /\ mqttClient = FALSE /\ taskHandle = FALSE /\ pClient = FALSE
    /\ hold = FALSE
    /\ session = "init" /\ handler = "idle" /\ suback = FALSE
    /\ notified = FALSE /\ recon = "take"

Restart ==
    /\ UNCHANGED provisioned
    /\ registered' = FALSE /\ main' = "boot" /\ bit' = FALSE
    /\ resetPending' = FALSE /\ button' = "idle" /\ joins' = 0
    /\ link' = "off" /\ events' = <<>> /\ loop' = "idle"
    /\ ip' = FALSE /\ errors' = {"provisioning", "wifi", "mqtt"}
    /\ mqttClient' = FALSE /\ taskHandle' = FALSE /\ pClient' = FALSE
    /\ hold' = FALSE
    /\ session' = "init" /\ handler' = "idle" /\ suback' = FALSE
    /\ notified' = FALSE /\ recon' = "take"

Post(e) == events' = Append(events, e)

(***************************************************************************)
(* The main task: rr1WifiProv(), then mqtt_app_start().                    *)
(***************************************************************************)
At(here, next) == main = here /\ main' = next

\* rr1WifiProv() up to the question whether the device is provisioned: the
\* button, the provisioning and the IP handlers are there from now on.
PrepareWifi ==
    /\ At("boot", "query")
    /\ UNCHANGED <<provisioned, registered, bit, click, station, status,
                   client, mqtt, retry>>

\* The branch of a device without credentials.  It registers no handler for
\* WIFI_EVENT: the provisioning manager joins the network itself.
StartProvisioning ==
    /\ ~provisioned /\ At("query", "wait")
    /\ UNCHANGED <<provisioned, registered, bit, click, station, status,
                   client, mqtt, retry>>

\* The branch of a provisioned device: register, wifi_init_sta().
StartStation ==
    /\ provisioned /\ At("query", "wait")
    /\ registered' = TRUE
    /\ errors' = errors \ {"provisioning"}
    /\ Post("START")
    /\ UNCHANGED <<provisioned, bit, click, link, loop, ip, client, mqtt, retry>>

\* xEventGroupWaitBits() returns and clears the bit; credentials are fetched.
WifiConnected ==
    /\ bit /\ At("wait", "client") /\ bit' = FALSE
    /\ UNCHANGED <<provisioned, registered, click, station, status, client,
                   mqtt, retry>>

CreateClient ==
    /\ At("client", "task") /\ mqttClient' = TRUE
    /\ UNCHANGED <<provisioned, registered, bit, click, station, status,
                   taskHandle, pClient, hold, mqtt, retry>>

\* There may be no memory for the task.
CreateTask ==
    /\ At("task", "hold") /\ taskHandle' \in BOOLEAN
    /\ UNCHANGED <<provisioned, registered, bit, click, station, status,
                   mqttClient, pClient, hold, mqtt, retry>>

HoldForStart ==
    /\ At("hold", "start") /\ hold' = TRUE
    /\ UNCHANGED <<provisioned, registered, bit, click, station, status,
                   mqttClient, taskHandle, pClient, mqtt, retry>>

\* esp_mqtt_client_start(); on an error the hold is released and the client
\* is never started again.
StartClient ==
    /\ At("start", "done")
    /\ \/ session' = "connecting" /\ UNCHANGED hold
       \/ hold' = FALSE /\ UNCHANGED session
    /\ UNCHANGED <<provisioned, registered, bit, click, station, status,
                   mqttClient, taskHandle, pClient, handler, suback, retry>>

MainTask ==
    \/ PrepareWifi \/ StartProvisioning \/ StartStation \/ WifiConnected
    \/ CreateClient \/ CreateTask \/ HoldForStart \/ StartClient

(***************************************************************************)
(* The reset button: a flag, then the credentials, then 10 s, a restart.   *)
(***************************************************************************)
Click ==
    /\ button = "idle" /\ main # "boot"
    /\ button' = "pressed" /\ resetPending' = TRUE
    /\ UNCHANGED <<joins, boot, station, status, client, mqtt, retry>>

\* network_prov_mgr_reset_wifi_provisioning(); the driver may give up its link.
WipeCredentials ==
    /\ button = "pressed" /\ button' = "wiped"
    /\ provisioned' = FALSE
    /\ \/ UNCHANGED station
       \/ /\ link \in {"joining", "up"}
          /\ link' = "lost" /\ Post("DISCONNECTED") /\ UNCHANGED loop
    /\ UNCHANGED <<registered, main, bit, resetPending, joins, status,
                   client, mqtt, retry>>

ShowReset ==
    /\ button = "wiped" /\ button' = "delay"
    /\ errors' = errors \cup {"provisioning"}
    /\ UNCHANGED <<boot, resetPending, joins, station, ip, client, mqtt, retry>>

ButtonRestart == button = "delay" /\ Restart

ButtonTask == WipeCredentials \/ ShowReset \/ ButtonRestart

(***************************************************************************)
(* The Wi-Fi driver and the provisioning manager, outside the firmware.    *)
(***************************************************************************)
Provision ==
    /\ main = "wait" /\ ~provisioned /\ ~registered /\ link = "off"
    /\ provisioned' = TRUE /\ link' = "up"
    /\ events' = events \o <<"GOT_IP", "CRED_SUCCESS">>
    /\ UNCHANGED <<registered, main, bit, click, loop, status, client, mqtt,
                   retry>>

JoinSucceeds ==
    /\ link = "joining" /\ provisioned
    /\ link' = "up" /\ Post("GOT_IP")
    /\ UNCHANGED <<boot, click, loop, status, client, mqtt, retry>>

LinkLost ==
    /\ link \in {"joining", "up"}
    /\ link' = "lost" /\ Post("DISCONNECTED")
    /\ UNCHANGED <<boot, click, loop, status, client, mqtt, retry>>

(***************************************************************************)
(* event_handler() in the system event loop.                               *)
(***************************************************************************)
TakeEvent(e) ==
    /\ loop = "idle" /\ events # <<>> /\ Head(events) = e
    /\ events' = Tail(events)

esp_wifi_connect ==
    /\ link' = IF link = "up" THEN link ELSE "joining"
    /\ joins' = IF resetPending /\ joins < 2 THEN joins + 1 ELSE joins

OnIgnored ==
    /\ ~registered /\ \E e \in WifiEvents : TakeEvent(e)
    /\ UNCHANGED <<boot, click, link, loop, status, client, mqtt, retry>>

OnCredSuccess ==
    /\ TakeEvent("CRED_SUCCESS")
    /\ errors' = errors \ {"provisioning"}
    /\ UNCHANGED <<boot, click, link, loop, ip, client, mqtt, retry>>

OnStart ==
    /\ registered /\ TakeEvent("START")
    /\ esp_wifi_connect
    /\ UNCHANGED <<boot, resetPending, button, loop, status, client, mqtt,
                   retry>>

\* Mutant of OnDisconnected: wifi_ip keeps the address.
KeepsAddress ==
    /\ registered /\ TakeEvent("DISCONNECTED")
    /\ errors' = errors \cup {"wifi"}
    /\ loop' = "lost"
    /\ UNCHANGED <<boot, click, link, ip, client, mqtt, retry>>

OnDisconnected ==
    /\ registered /\ TakeEvent("DISCONNECTED")
    /\ ip' = FALSE /\ errors' = errors \cup {"wifi"}
    /\ loop' = "lost"
    /\ UNCHANGED <<boot, click, link, client, mqtt, retry>>

timerMqttWifiDisconnected ==
    /\ loop = "lost" /\ loop' = "check"
    /\ pClient' = FALSE /\ hold' = FALSE
    /\ UNCHANGED <<boot, click, link, events, status, mqttClient, taskHandle,
                   mqtt, retry>>

\* Mutant of CheckReset: the reset is not asked for.
AlwaysRejoins ==
    /\ loop = "check" /\ loop' = "rejoin"
    /\ UNCHANGED <<boot, click, link, events, status, client, mqtt, retry>>

\* The handler rejoins unless a provisioning reset is under way.
CheckReset ==
    /\ loop = "check"
    /\ loop' = IF resetPending THEN "idle" ELSE "rejoin"
    /\ UNCHANGED <<boot, click, link, events, status, client, mqtt, retry>>

\* Mutant of Rejoin: the handler only reports the loss.
OnlyReports ==
    /\ loop = "rejoin" /\ loop' = "idle"
    /\ UNCHANGED <<boot, click, link, events, status, client, mqtt, retry>>

Rejoin ==
    /\ loop = "rejoin" /\ loop' = "idle"
    /\ esp_wifi_connect
    /\ UNCHANGED <<boot, resetPending, button, events, status, client, mqtt,
                   retry>>

OnGotIp ==
    /\ TakeEvent("GOT_IP")
    /\ ip' = TRUE /\ errors' = errors \ {"wifi"}
    /\ loop' = "ready"
    /\ UNCHANGED <<boot, click, link, client, mqtt, retry>>

scheduleMqttReconnect == notified' = (notified \/ taskHandle)

timerMqttWifiIpReady ==
    /\ loop = "ready" /\ loop' = "idle"
    /\ bit' = TRUE
    /\ \/ mqttClient /\ ~pClient /\ scheduleMqttReconnect
       \/ (~mqttClient \/ pClient) /\ UNCHANGED notified
    /\ UNCHANGED <<provisioned, registered, main, click, link, events, status,
                   client, mqtt, recon>>

EventLoop ==
    \/ OnIgnored \/ OnCredSuccess \/ OnStart \/ OnDisconnected
    \/ timerMqttWifiDisconnected \/ CheckReset \/ Rejoin
    \/ OnGotIp \/ timerMqttWifiIpReady

(***************************************************************************)
(* The ESP-MQTT task and mqtt_event_handler(), which runs inside it.  Auto *)
(* reconnect is off: after DISCONNECTED the client waits to be asked.      *)
(***************************************************************************)
AttemptSucceeds ==
    /\ session = "connecting" /\ handler = "idle" /\ link = "up"
    /\ session' = "connected" /\ handler' = "subscribe"
    /\ UNCHANGED <<boot, click, station, status, client, suback, retry>>

AttemptFails ==
    /\ session = "connecting" /\ handler = "idle"
    /\ handler' \in {"error", "down"}
    /\ UNCHANGED <<boot, click, station, status, client, session, suback, retry>>

SessionBreaks ==
    /\ session = "connected" /\ handler = "idle"
    /\ handler' \in {"error", "down"}
    /\ UNCHANGED <<boot, click, station, status, client, session, suback, retry>>

\* Mutant of OnConnected: a refused subscription keeps the hold.
IgnoresRefusal ==
    /\ handler = "subscribe" /\ handler' = "publish"
    /\ suback' \in BOOLEAN
    /\ UNCHANGED <<boot, click, station, status, client, session, retry>>

\* MQTT_EVENT_CONNECTED: subscribe; a refused subscription ends the hold.
OnConnected ==
    /\ handler = "subscribe" /\ handler' = "publish"
    /\ \/ suback' = TRUE /\ UNCHANGED hold
       \/ suback' = FALSE /\ hold' = FALSE
    /\ UNCHANGED <<boot, click, station, status, mqttClient, taskHandle,
                   pClient, session, retry>>

OnConnectedPublish ==
    /\ handler = "publish" /\ handler' = "idle"
    /\ pClient' = TRUE /\ errors' = errors \ {"mqtt"}
    /\ UNCHANGED <<boot, click, station, ip, mqttClient, taskHandle, hold,
                   session, suback, retry>>

OnSubscribed ==
    /\ session = "connected" /\ handler = "idle" /\ suback
    /\ suback' = FALSE /\ hold' = FALSE
    /\ UNCHANGED <<boot, click, station, status, mqttClient, taskHandle,
                   pClient, session, handler, retry>>

ScheduleIfIp ==
    \/ ip /\ scheduleMqttReconnect
    \/ ~ip /\ UNCHANGED notified

OnError ==
    /\ handler = "error" /\ handler' = "down"
    /\ ScheduleIfIp
    /\ UNCHANGED <<boot, click, station, status, client, session, suback, recon>>

\* Mutant of OnMqttDisconnected: p_client outlives the session.
KeepsClient ==
    /\ handler = "down" /\ handler' = "schedule"
    /\ errors' = errors \cup {"mqtt"}
    /\ hold' = FALSE /\ suback' = FALSE
    /\ UNCHANGED <<boot, click, station, ip, mqttClient, taskHandle, pClient,
                   session, retry>>

OnMqttDisconnected ==
    /\ handler = "down" /\ handler' = "schedule"
    /\ errors' = errors \cup {"mqtt"}
    /\ pClient' = FALSE /\ hold' = FALSE /\ suback' = FALSE
    /\ UNCHANGED <<boot, click, station, ip, mqttClient, taskHandle, session,
                   retry>>

\* Mutant of OnMqttDisconnectedSchedule: nobody is asked to reconnect.
LeavesItToTheIp ==
    /\ handler = "schedule" /\ handler' = "wait"
    /\ UNCHANGED <<boot, click, station, status, client, session, suback, retry>>

OnMqttDisconnectedSchedule ==
    /\ handler = "schedule" /\ handler' = "wait"
    /\ ScheduleIfIp
    /\ UNCHANGED <<boot, click, station, status, client, session, suback, recon>>

WaitReconnect ==
    /\ handler = "wait" /\ handler' = "idle"
    /\ session' = "waiting"
    /\ UNCHANGED <<boot, click, station, status, client, suback, retry>>

MqttTask ==
    \/ OnConnected \/ OnConnectedPublish \/ OnSubscribed \/ OnError
    \/ OnMqttDisconnected \/ OnMqttDisconnectedSchedule \/ WaitReconnect

(***************************************************************************)
(* mqttReconnectTask().                                                    *)
(***************************************************************************)
TakeNotification ==
    /\ recon = "take" /\ notified
    /\ notified' = FALSE /\ recon' = "check"
    /\ UNCHANGED <<boot, click, station, status, client, mqtt>>

CheckLoop ==
    /\ recon = "check"
    /\ recon' = IF mqttClient /\ ~pClient /\ ip THEN "hold" ELSE "take"
    /\ UNCHANGED <<boot, click, station, status, client, mqtt, notified>>

HoldForReconnect ==
    /\ recon = "hold" /\ recon' = "request" /\ hold' = TRUE
    /\ UNCHANGED <<boot, click, station, status, mqttClient, taskHandle,
                   pClient, mqtt, notified>>

\* esp_mqtt_client_reconnect() accepts only a client that waits for it.
RequestReconnect ==
    /\ recon = "request" /\ recon' = "delay"
    /\ \/ session = "waiting" /\ session' = "connecting" /\ UNCHANGED hold
       \/ session # "waiting" /\ hold' = FALSE /\ UNCHANGED session
    /\ UNCHANGED <<boot, click, station, status, mqttClient, taskHandle,
                   pClient, handler, suback, notified>>

\* Mutant of Backoff: one request per notification.
AsksOnce ==
    /\ recon = "delay" /\ recon' = "take"
    /\ UNCHANGED <<boot, click, station, status, client, mqtt, notified>>

Backoff ==
    /\ recon = "delay" /\ recon' = "check"
    /\ UNCHANGED <<boot, click, station, status, client, mqtt, notified>>

ReconnectTask ==
    \/ TakeNotification \/ CheckLoop \/ HoldForReconnect
    \/ RequestReconnect \/ Backoff

Next ==
    \/ MainTask \/ Click \/ ButtonTask \/ Restart
    \/ Provision \/ JoinSucceeds \/ LinkLost \/ EventLoop
    \/ AttemptSucceeds \/ AttemptFails \/ SessionBreaks \/ MqttTask
    \/ ReconnectTask

\* Every task runs in the end, a connection attempt ends (20 s time-out), and
\* a join or an attempt that is made again and again succeeds once.
Fairness ==
    /\ WF_vars(MainTask) /\ WF_vars(ButtonTask) /\ WF_vars(EventLoop)
    /\ WF_vars(MqttTask) /\ WF_vars(ReconnectTask)
    /\ WF_vars(AttemptSucceeds \/ AttemptFails)
    /\ SF_vars(JoinSucceeds) /\ SF_vars(AttemptSucceeds)

SafetySpec == Init /\ [][Next]_vars
Spec == SafetySpec /\ Fairness

(***************************************************************************)
(* Properties.                                                             *)
(***************************************************************************)
\* The connect hold keeps the radio awake only for somebody: the main or the
\* reconnect task about to ask, an attempt or its event handler, or a
\* subscription that waits for its SUBACK.  Four tasks set and clear it.
ConnectHoldOwned ==
    hold => \/ main = "start" \/ recon = "request"
            \/ session = "connecting"
            \/ handler \in {"subscribe", "error", "down"}
            \/ session = "connected" /\ suback

\* Publishing is offered only on a session the client has, and the MQTT error
\* shows whenever the client waits without one: a late CONNECTED or a drop
\* handled by another task leaves no stale p_client.
ClientMeansSession ==
    /\ pClient => session = "connected" /\ "mqtt" \notin errors
    /\ session = "waiting" => "mqtt" \in errors

\* On a device that handles Wi-Fi events, once the event queue is empty the
\* address and the Wi-Fi error tell the truth about the link.
WifiStatusSettled ==
    registered /\ loop = "idle" /\ events = <<>> =>
        (ip <=> link = "up") /\ (ip <=> "wifi" \notin errors)

\* No lost wake-up between the two tasks that may schedule a reconnect: when
\* the client waits and there is an address, the reconnect task (if it could be
\* created) is awake or about to wake.  Each handler writes its own fact before it reads the other.
NoLostWakeup ==
    (session = "waiting" /\ ip /\ loop # "ready" /\ taskHandle) =>
        notified \/ recon # "take"

\* After the reset button the device asks at most once more to join a network:
\* a handler may have passed the check, or the station be starting, but the
\* loss of that link is not followed by another join.
ResetStopsRejoin == joins <= 1

\* If the link stays up in the end, a client that lost its session gets one
\* again, unless the chip restarts first or has no reconnect task.
SessionRecovers ==
    <>[](link = "up") =>
        (session = "waiting" /\ taskHandle ~> (pClient \/ main = "boot"))

\* A lost link is joined again, on a device that handles Wi-Fi events.
LostLinkRejoins ==
    (link = "lost" /\ registered) ~> (link # "lost" \/ resetPending)

\* The same for every device: what the comment "Register our event handler for
\* Wi-Fi, IP and Provisioning related events" promises (app_main.c:429).
EveryLostLinkRejoins == link = "lost" ~> (link # "lost" \/ resetPending)
=============================================================================
