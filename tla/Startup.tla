------------------------------- MODULE Startup -------------------------------
(***************************************************************************)
(* From power-on to the end of the update check: app_main() (main/umain.c) *)
(* fetches the MQTT credentials with two HTTPS requests until it has them  *)
(* (rr1_capture/get_mqtt_creds.c), starts MQTT and then the OTA task,      *)
(* which downloads a new image when the etag the server shows is not the   *)
(* one recorded in flash (main/rr1_ota.c, rr1_wifi_prov/nvs_utils.c).      *)
(*                                                                         *)
(* The server publishes images while the device works; requests fail,      *)
(* answer with an error page, or are cut; flash may refuse to be read or   *)
(* written; the chip may restart between any two steps.  An etag is the    *)
(* number of the image it belongs to.                                      *)
(***************************************************************************)
EXTENDS Naturals

CONSTANTS
    Buflen,     \* BUFLEN, in the unit chunks are counted in
    Attempts,   \* how often rr1_ota_task() tries
    MaxImage    \* bound: the last image the server publishes

ASSUME SizesAssumption == {Buflen, Attempts, MaxImage} \subseteq Nat \ {0}

VARIABLES
    server,     \* the image the server offers
    image,      \* flash: the image that boots
    etag,       \* flash: firmware_etag, NoTag when there is none
    main,       \* progress of app_main()
    creds,      \* creds: which fields are set, and in which attempt
    used,       \* buf_used of accum_event_handler()
    readable,   \* the response buffer holds its text from the start, whole
    credError,  \* ERROR_PRI_CREDENTIALS is active
    ota,        \* progress of rr1_ota_task()
    tries,      \* attempts begun
    latest,     \* latest_ota_etag
    otaHold,    \* WIFI_POWER_HOLD_OTA
    wifiError   \* ERROR_PRI_WIFI_CONNECTION is active

flash   == <<image, etag>>
request == <<creds, used, readable, credError>>
update  == <<ota, tries, latest, otaHold>>
vars    == <<server, flash, main, request, update, wifiError>>

NoTag == 0
PageTag == MaxImage + 1     \* the etag of an error page, of no image
Images == 1..MaxImage
Tags == Images \cup {NoTag, PageTag}

Fields == {"authUrl", "mqtt_host", "mqtt_cert", "mqtt_key"}
Needed == Fields \ {"authUrl"}
\* The two requests, and what the answer to each may set.
Requests == {"discover", "auth"}
Asked == [discover |-> {"authUrl"}, auth |-> Needed]
Asking == [discover |-> "askDiscover", auth |-> "askAuth"]
Reading == [discover |-> "readDiscover", auth |-> "readAuth"]

MainSteps == {"boot", "attempt", "start", "done"} \cup
             {Asking[q] : q \in Requests} \cup {Reading[q] : q \in Requests}
OtaSteps == {"off", "wait", "hold", "head", "compare", "get", "record",
             "reboot", "current", "failed", "done"}

ImageType ==
    /\ server \in Images /\ image \in Images
    /\ etag \in Tags /\ latest \in Tags
RequestType ==
    /\ main \in MainSteps
    /\ creds \in [Fields -> {"null", "fresh", "stale"}]
    /\ used \in 0..Buflen
    /\ readable \in BOOLEAN /\ credError \in BOOLEAN
OtaType ==
    /\ ota \in OtaSteps
    /\ tries \in 0..Attempts
    /\ otaHold \in BOOLEAN /\ wifiError \in BOOLEAN
TypeOK == ImageType /\ RequestType /\ OtaType

\* What a restart leaves of the firmware's memory.
FreshMemory ==
    /\ main' = "boot"
    /\ creds' = [f \in Fields |-> "null"]
    /\ used' = 0 /\ readable' = FALSE /\ credError' = FALSE
    /\ ota' = "off" /\ tries' = 0 /\ latest' = NoTag /\ otaHold' = FALSE
    /\ wifiError' = TRUE

Init ==
    /\ server = 1 /\ image = 1 /\ etag = NoTag
    /\ main = "boot"
    /\ creds = [f \in Fields |-> "null"]
    /\ used = 0 /\ readable = FALSE /\ credError = FALSE
    /\ ota = "off" /\ tries = 0 /\ latest = NoTag /\ otaHold = FALSE
    /\ wifiError = TRUE

(***************************************************************************)
(* https_request_creds().                                                  *)
(***************************************************************************)
RequestCreds ==
    /\ main = "boot" /\ main' = "attempt"
    /\ credError' = TRUE
    /\ UNCHANGED <<server, flash, creds, used, readable, update, wifiError>>

\* Mutant of free_creds: the key is forgotten.
FreesAllButKey(c) == [f \in Fields |->
    IF f = "mqtt_key" /\ c[f] # "null" THEN "stale" ELSE "null"]

\* A field that were kept would be one of an earlier attempt.
free_creds(c) == [f \in Fields |-> "null"]

\* The loop begins again: after power-on, or 5 s after an attempt.
BeginAttempt ==
    /\ main = "attempt" /\ main' = Asking["discover"]
    /\ creds' = free_creds(creds)
    /\ UNCHANGED <<server, flash, used, readable, credError, update, wifiError>>

\* Mutant of ResetBuffer: the handler's static index keeps its value.
KeepsIndex == UNCHANGED used /\ readable' = (used = 0)

\* A new, empty buffer, and accum_event_handler(NULL).
ResetBuffer == used' = 0 /\ readable' = (used' = 0)

SendRequest(q) ==
    /\ main = Asking[q] /\ main' = Reading[q]
    /\ ResetBuffer
    /\ UNCHANGED <<server, flash, creds, credError, update, wifiError>>

\* accum_event_handler(): what does not fit is dropped.
OnData(q) ==
    /\ main = Reading[q]
    /\ \E n \in 1..Buflen :
         /\ used' = IF used + n > Buflen THEN Buflen ELSE used + n
         /\ readable' = (readable /\ used + n <= Buflen)
    /\ UNCHANGED <<server, flash, main, creds, credError, update, wifiError>>

\* have_mqtt_creds()
HaveCreds(c) == \A f \in Needed : c[f] # "null"

\* What follows a request: authorise, hand over, or try again in 5 s.
Follow(q, c) ==
    IF q = "discover" /\ c["authUrl"] # "null"
    THEN main' = Asking["auth"] /\ UNCHANGED credError
    ELSE IF HaveCreds(c) THEN main' = "start" /\ credError' = FALSE
         ELSE main' = "attempt" /\ UNCHANGED credError

\* The answer is parsed, whatever its HTTP status: it gives none, some or all
\* of the fields asked for.
Answered(q, given) ==
    /\ main = Reading[q] /\ readable /\ used > 0
    /\ creds' = [f \in Fields |-> IF f \in given THEN "fresh" ELSE creds[f]]
    /\ Follow(q, creds')
    /\ UNCHANGED <<server, flash, used, readable, update, wifiError>>

\* No memory for the buffer, no connection, or nothing that can be parsed.
RequestFails(q) ==
    /\ main \in {Asking[q], Reading[q]}
    /\ Follow(q, creds)
    /\ UNCHANGED <<server, flash, creds, used, readable, update, wifiError>>

Request(q) ==
    \/ SendRequest(q) \/ OnData(q) \/ RequestFails(q)
    \/ \E given \in SUBSET Asked[q] : Answered(q, given)

\* mqtt_app_start(); then app_main() creates the OTA task and ends.
StartTasks ==
    /\ main = "start" /\ main' = "done"
    /\ ota' = "wait"
    /\ UNCHANGED <<server, flash, request, tries, latest, otaHold, wifiError>>

(***************************************************************************)
(* rr1_ota_task().                                                         *)
(***************************************************************************)
Goto(here, next) ==
    /\ ota = here /\ ota' = next
    /\ UNCHANGED <<server, main, request, wifiError>>

\* It is polled every 10 s whether the Wi-Fi error is over.
WifiReady ==
    /\ Goto("wait", "hold") /\ ~wifiError
    /\ UNCHANGED <<flash, tries, latest, otaHold>>

BeginOta ==
    /\ Goto("hold", "head")
    /\ tries' = tries + 1 /\ otaHold' = TRUE
    /\ UNCHANGED <<flash, latest>>

\* The HEAD request: _http_etag_event_handler() takes the etag of the image or
\* of an error page; without an answer the one of an earlier attempt stays.
AskEtag ==
    /\ Goto("head", "compare")
    /\ latest' \in {server, PageTag, latest}
    /\ UNCHANGED <<flash, tries, otaHold>>

\* What nvs_get() may give: an etag that cannot be read counts as none.
nvs_get_firmware_etag == {etag, NoTag}

\* nvs_set(), whose failure nobody notices.
nvs_set_firmware_etag(tag) == etag' \in {tag, etag}

\* Mutant of Compare: the etag is recorded before the image is there.
RecordsFirst ==
    /\ \E seen \in nvs_get_firmware_etag :
         IF latest \notin {NoTag, seen} THEN Goto("compare", "get") /\ etag' = latest
                                        ELSE Goto("compare", "current") /\ UNCHANGED etag
    /\ UNCHANGED <<image, tries, latest, otaHold>>

\* firmware_update_available()
Compare ==
    /\ \E seen \in nvs_get_firmware_etag :
         Goto("compare", IF latest \notin {NoTag, seen} THEN "get" ELSE "current")
    /\ UNCHANGED <<flash, tries, latest, otaHold>>

\* esp_https_ota() fetches what the server offers now, which may be newer.
Download ==
    /\ Goto("get", "record") /\ image' = server
    /\ UNCHANGED <<etag, tries, latest, otaHold>>

\* Mutant of DownloadFails: rc stays 0.
FailsAsCurrent ==
    /\ Goto("get", "current")
    /\ UNCHANGED <<flash, tries, latest, otaHold>>

DownloadFails ==
    /\ Goto("get", "failed")
    /\ UNCHANGED <<flash, tries, latest, otaHold>>

Record ==
    /\ Goto("record", "reboot") /\ nvs_set_firmware_etag(latest)
    /\ UNCHANGED <<image, tries, latest, otaHold>>

\* Mutant of EndOta: one attempt too many.
TriesOnceMore ==
    /\ \/ Goto("current", "done")
       \/ Goto("failed", IF tries <= Attempts THEN "wait" ELSE "done")
    /\ otaHold' = FALSE
    /\ UNCHANGED <<flash, tries, latest>>

\* The attempt releases its hold; rc 0, or the fifth failure, ends the loop.
EndOta ==
    /\ \/ Goto("current", "done")
       \/ Goto("failed", IF tries < Attempts THEN "wait" ELSE "done")
    /\ otaHold' = FALSE
    /\ UNCHANGED <<flash, tries, latest>>

OtaTask ==
    \/ WifiReady \/ BeginOta \/ AskEtag \/ Compare
    \/ Download \/ DownloadFails \/ Record \/ EndOta

(***************************************************************************)
(* A restart, wanted after an update or not; the server; the Wi-Fi.        *)
(***************************************************************************)
Restart == FreshMemory /\ UNCHANGED <<server, flash>>

Reboot == ota = "reboot" /\ Restart

Publish ==
    /\ server < MaxImage /\ server' = server + 1
    /\ UNCHANGED <<flash, main, request, update, wifiError>>

WifiChanges ==
    /\ wifiError' = ~wifiError
    /\ UNCHANGED <<server, flash, main, request, update>>

Next ==
    \/ RequestCreds \/ BeginAttempt \/ StartTasks
    \/ \E q \in Requests : Request(q)
    \/ OtaTask \/ Reboot \/ Restart \/ Publish \/ WifiChanges

\* Every task goes on and every request ends.  The server answers both
\* requests with all that was asked, in an answer that fits, if it is asked
\* again and again.  A Wi-Fi error ends (LostLinkRejoins of Connection), and one
\* of the 10 s polls finds it over.
Fairness ==
    /\ WF_vars(RequestCreds \/ BeginAttempt \/ StartTasks)
    /\ WF_vars(OtaTask) /\ WF_vars(Reboot)
    /\ WF_vars(wifiError /\ WifiChanges) /\ SF_vars(WifiReady)
    /\ \A q \in Requests :
         /\ WF_vars(SendRequest(q) \/ RequestFails(q))
         /\ SF_vars(SendRequest(q)) /\ SF_vars(OnData(q))
         /\ SF_vars(Answered(q, Asked[q]))

SafetySpec == Init /\ [][Next]_vars
Spec == SafetySpec /\ Fairness

(***************************************************************************)
(* Properties.                                                             *)
(***************************************************************************)
\* MQTT starts with a host, a certificate and a key of one answer, and the
\* credentials error shows from the first request until then.
CredentialsComplete ==
    main \in {"start", "done"} =>
        ~credError /\ \A f \in Needed : creds[f] = "fresh"

\* A device that believes it is current is: whenever the etag in flash is the
\* one the server shows, the image that boots is the server's, wherever the
\* chip restarted and whatever was published between HEAD and GET.
CurrentMeansInstalled == etag = server => image = server

\* The task gives an etag up only after all attempts: before that it ends only
\* if it saw no etag, or the one it has.
GivesUpLast ==
    ota = "done" /\ tries < Attempts => latest \in {NoTag, etag}

\* Start-up comes to its end or the chip restarts: the credentials arrive and
\* the update check ends, with its power hold given back.
StartupEnds ==
    main = "attempt" ~> (main = "boot" \/ (ota = "done" /\ ~otaHold))
=============================================================================
