---------------------------- MODULE StartupProofs ----------------------------
(***************************************************************************)
(* Startup: what holds after every restart, failed request, lost write and *)
(* image published meanwhile, for any number of attempts and images.       *)
(***************************************************************************)
EXTENDS Startup, TLAPS

-----------------------------------------------------------------------------
(* The inductive invariant.                                                *)

(* app_main() creates the OTA task when it ends, and the task begins an    *)
(* attempt only while it has attempts left.                                *)
OtaStarts ==
    /\ main # "done" => ota = "off"
    /\ ota \in {"off", "wait", "hold"} => tries < Attempts

(* No field survives from an earlier attempt, and app_main() goes on only  *)
(* with all of them.                                                       *)
CredsKnown ==
    /\ \A f \in Fields : creds[f] # "stale"
    /\ main \in {"start", "done"} => HaveCreds(creds) /\ ~credError

(* The server only moves on.  An etag was read before the image it stands  *)
(* for, or a later one, was fetched, and recorded after that.              *)
TagsFollow ==
    /\ image <= server
    /\ etag \in Images => etag <= image
    /\ latest \in Images => latest <= server
    /\ ota = "record" /\ latest \in Images => latest <= image

(* The task ends its attempt as current only if it has nothing to fetch.   *)
EndsCurrent ==
    /\ ota = "current" => latest \in {NoTag, etag}
    /\ GivesUpLast

IInv == TypeOK /\ OtaStarts /\ CredsKnown /\ TagsFollow /\ EndsCurrent

-----------------------------------------------------------------------------
LEMMA Sizes ==
    /\ Buflen \in Nat \ {0} /\ Attempts \in Nat \ {0} /\ MaxImage \in Nat \ {0}
    /\ 1 \in Images /\ NoTag \in Tags /\ NoTag \notin Images
    /\ Images \subseteq Nat /\ Tags \subseteq Nat /\ Images \subseteq Tags
    /\ PageTag \in Tags /\ PageTag \notin Images
    /\ 0 \in 0..Buflen /\ 0 \in 0..Attempts
BY SizesAssumption DEF Images, NoTag, Tags, PageTag

(* The steps of the two requests by name.                                  *)
LEMMA RequestSteps ==
    /\ \A q \in Requests : q = "discover" \/ q = "auth"
    /\ Asking["discover"] = "askDiscover" /\ Asking["auth"] = "askAuth"
    /\ Reading["discover"] = "readDiscover" /\ Reading["auth"] = "readAuth"
    /\ {Asking[q] : q \in Requests} = {"askDiscover", "askAuth"}
    /\ {Reading[q] : q \in Requests} = {"readDiscover", "readAuth"}
<1>1. Requests = {"discover", "auth"}
    BY DEF Requests
<1>2. Asking["discover"] = "askDiscover" /\ Asking["auth"] = "askAuth"
    BY DEF Asking
<1>3. Reading["discover"] = "readDiscover" /\ Reading["auth"] = "readAuth"
    BY DEF Reading
<1> QED
    BY <1>1, <1>2, <1>3

LEMMA InitIInv == Init => IInv
<1> SUFFICES ASSUME Init PROVE IInv
    OBVIOUS
<1> USE Sizes
<1>1. ImageType
    BY DEF Init, ImageType
<1>2. RequestType
    <2>1. main \in MainSteps /\ creds \in [Fields -> {"null", "fresh", "stale"}]
        BY DEF Init, MainSteps
    <2> QED
        BY <2>1 DEF Init, RequestType
<1>3. OtaType
    BY Zenon DEF Init, OtaType, OtaSteps
<1>4. OtaStarts /\ CredsKnown
    BY DEF Init, OtaStarts, CredsKnown
<1>5. TagsFollow /\ EndsCurrent
    BY DEF Init, TagsFollow, EndsCurrent, GivesUpLast
<1> QED
    BY <1>1, <1>2, <1>3, <1>4, <1>5 DEF IInv, TypeOK

(* A restart forgets the memory and keeps the flash.                       *)
LEMMA RestartIInv ==
    ASSUME IInv, Restart
    PROVE  IInv'
<1> USE Sizes DEF IInv, TypeOK, Restart, FreshMemory
<1>1. ImageType'
    BY DEF ImageType, flash
<1>2. RequestType'
    <2>1. main' \in MainSteps /\ creds' \in [Fields -> {"null", "fresh", "stale"}]
        BY DEF MainSteps
    <2> QED
        BY <2>1 DEF RequestType
<1>3. OtaType'
    BY Zenon DEF OtaType, OtaSteps
<1>4. OtaStarts' /\ CredsKnown'
    BY DEF OtaStarts, CredsKnown
<1>5. TagsFollow' /\ EndsCurrent'
    BY DEF TagsFollow, EndsCurrent, GivesUpLast, flash
<1> QED
    BY <1>1, <1>2, <1>3, <1>4, <1>5

-----------------------------------------------------------------------------
(* The steps of https_request_creds().                                     *)

(* They leave the flash, the server and the OTA task alone.                *)
RequestKept ==
    /\ UNCHANGED <<server, image, etag>>
    /\ UNCHANGED <<ota, tries, latest, otaHold, wifiError>>

LEMMA RequestKeeps ==
    ASSUME RequestCreds \/ BeginAttempt \/ \E q \in Requests : Request(q)
    PROVE  RequestKept
BY DEF RequestCreds, BeginAttempt, Request, SendRequest, OnData, RequestFails,
       Answered, flash, update, RequestKept

(* They come from a step before "start" and go on only with all fields.    *)
LEMMA FollowMoves ==
    ASSUME RequestType, NEW q \in Requests, NEW c, Follow(q, c)
    PROVE  /\ main' \in MainSteps \ {"done"}
           /\ credError' \in BOOLEAN
           /\ main' = "start" => HaveCreds(c) /\ ~credError'
<1> USE RequestSteps DEF RequestType, MainSteps
<1>1. CASE main' = "askAuth" /\ UNCHANGED credError
    BY <1>1
<1>2. CASE HaveCreds(c) /\ main' = "start" /\ credError' = FALSE
    BY <1>2
<1>3. CASE main' = "attempt" /\ UNCHANGED credError
    BY <1>3
<1> QED
    BY <1>1, <1>2, <1>3 DEF Follow

LEMMA RequestMoves ==
    ASSUME TypeOK, CredsKnown,
           RequestCreds \/ BeginAttempt \/ \E q \in Requests : Request(q)
    PROVE  RequestType' /\ CredsKnown' /\ main # "done" /\ main' # "done"
<1> USE RequestSteps DEF TypeOK
<1>1. CASE RequestCreds
    BY <1>1 DEF RequestCreds, RequestType, CredsKnown, MainSteps
<1>2. CASE BeginAttempt
    BY <1>2 DEF BeginAttempt, free_creds, RequestType, CredsKnown, MainSteps
<1>3. ASSUME NEW q \in Requests, SendRequest(q)
      PROVE  RequestType' /\ CredsKnown' /\ main # "done" /\ main' # "done"
    BY <1>3, Sizes DEF SendRequest, ResetBuffer, RequestType, CredsKnown, MainSteps
<1>4. ASSUME NEW q \in Requests, OnData(q)
      PROVE  RequestType' /\ CredsKnown' /\ main # "done" /\ main' # "done"
    <2>1. used' \in 0..Buflen
        BY <1>4, Sizes DEF OnData, RequestType
    <2>2. readable' \in BOOLEAN
        BY <1>4, Zenon DEF OnData
    <2> QED
        BY <1>4, <2>1, <2>2 DEF OnData, RequestType, CredsKnown, MainSteps
<1>5. ASSUME NEW q \in Requests, RequestFails(q)
      PROVE  RequestType' /\ CredsKnown' /\ main # "done" /\ main' # "done"
    <2>1. Follow(q, creds) /\ UNCHANGED <<creds, used, readable>> /\ main # "done"
        BY <1>5 DEF RequestFails
    <2> QED
        BY <2>1, FollowMoves DEF RequestType, CredsKnown
<1>6. ASSUME NEW q \in Requests, NEW given \in SUBSET Asked[q], Answered(q, given)
      PROVE  RequestType' /\ CredsKnown' /\ main # "done" /\ main' # "done"
    <2>1. /\ Follow(q, creds') /\ UNCHANGED <<used, readable>> /\ main # "done"
          /\ creds' = [f \in Fields |-> IF f \in given THEN "fresh" ELSE creds[f]]
        BY <1>6 DEF Answered
    <2>2. creds' \in [Fields -> {"null", "fresh", "stale"}]
          /\ \A f \in Fields : creds'[f] # "stale"
        BY <2>1 DEF RequestType, CredsKnown
    <2>3. /\ main' \in MainSteps \ {"done"}
          /\ credError' \in BOOLEAN
          /\ main' = "start" => HaveCreds(creds') /\ ~credError'
        BY <2>1, FollowMoves
    <2> QED
        BY <2>1, <2>2, <2>3 DEF RequestType, CredsKnown
<1> QED
    BY <1>1, <1>2, <1>3, <1>4, <1>5, <1>6 DEF Request

LEMMA RequestIInv ==
    ASSUME IInv, RequestCreds \/ BeginAttempt \/ \E q \in Requests : Request(q)
    PROVE  IInv'
<1> USE DEF IInv, TypeOK
<1>1. RequestType' /\ CredsKnown' /\ main # "done" /\ main' # "done"
    BY RequestMoves
<1>2. RequestKept
    BY RequestKeeps
<1>3. ImageType' /\ OtaType'
    BY <1>2 DEF RequestKept, ImageType, OtaType
<1>4. OtaStarts' /\ TagsFollow' /\ EndsCurrent'
    BY <1>1, <1>2 DEF RequestKept, OtaStarts, TagsFollow, EndsCurrent, GivesUpLast
<1> QED
    BY <1>1, <1>3, <1>4

-----------------------------------------------------------------------------
(* The steps of rr1_ota_task(), and what happens around it.                *)

LEMMA StartTasksIInv ==
    ASSUME IInv, StartTasks
    PROVE  IInv'
<1> USE DEF IInv, TypeOK, StartTasks
<1>1. ImageType' /\ OtaType'
    BY DEF ImageType, OtaType, OtaSteps, flash
<1>2. RequestType' /\ CredsKnown'
    BY DEF RequestType, CredsKnown, HaveCreds, request, MainSteps
<1>3. OtaStarts' /\ TagsFollow' /\ EndsCurrent'
    BY DEF OtaStarts, TagsFollow, EndsCurrent, GivesUpLast, flash
<1> QED
    BY <1>1, <1>2, <1>3

(* A step of the task leaves the server and the requests alone.            *)
LEMMA OtaKeepsRest ==
    ASSUME IInv, OtaTask
    PROVE  /\ UNCHANGED <<server, main, creds, used, readable, credError, wifiError>>
           /\ RequestType' /\ CredsKnown'
           /\ ota # "off" /\ ota' \in OtaSteps \ {"off"}
<1> USE DEF Goto, OtaSteps
<1>1. UNCHANGED <<server, main, creds, used, readable, credError, wifiError>>
    BY DEF OtaTask, WifiReady, BeginOta, AskEtag, Compare, Download, DownloadFails,
           Record, EndOta, request
<1>2. RequestType' /\ CredsKnown'
    BY <1>1 DEF IInv, TypeOK, RequestType, CredsKnown, HaveCreds
<1>3. ota # "off" /\ ota' \in OtaSteps \ {"off"}
    BY DEF OtaTask, WifiReady, BeginOta, AskEtag, Compare, Download, DownloadFails,
           Record, EndOta
<1> QED
    BY <1>1, <1>2, <1>3

LEMMA OtaTypes ==
    ASSUME IInv, OtaTask
    PROVE  ImageType' /\ OtaType' /\ OtaStarts'
<1> USE Sizes, OtaKeepsRest DEF IInv, TypeOK, OtaStarts, Goto
<1>1. CASE WifiReady
    BY <1>1 DEF WifiReady, ImageType, OtaType, flash
<1>2. CASE BeginOta
    BY <1>2 DEF BeginOta, ImageType, OtaType, flash
<1>3. CASE AskEtag
    BY <1>3 DEF AskEtag, ImageType, OtaType, flash
<1>4. CASE Compare
    BY <1>4 DEF Compare, ImageType, OtaType, flash
<1>5. CASE Download
    BY <1>5 DEF Download, ImageType, OtaType
<1>6. CASE DownloadFails
    BY <1>6 DEF DownloadFails, ImageType, OtaType, flash
<1>7. CASE Record
    BY <1>7 DEF Record, nvs_set_firmware_etag, ImageType, OtaType
<1>8. CASE EndOta
    BY <1>8 DEF EndOta, ImageType, OtaType, flash
<1> QED
    BY <1>1, <1>2, <1>3, <1>4, <1>5, <1>6, <1>7, <1>8 DEF OtaTask

(* The heart of the update: what each step does to the tags and images.    *)
LEMMA OtaTags ==
    ASSUME IInv, OtaTask
    PROVE  TagsFollow' /\ EndsCurrent'
<1> USE Sizes, OtaKeepsRest DEF IInv, TypeOK, TagsFollow, EndsCurrent, GivesUpLast, Goto
<1>1. CASE WifiReady \/ DownloadFails
    BY <1>1 DEF WifiReady, DownloadFails, flash
<1>2. CASE BeginOta
    BY <1>2 DEF BeginOta, flash
<1>3. CASE AskEtag
    BY <1>3 DEF AskEtag, ImageType, flash
<1>4. CASE Compare
    BY <1>4 DEF Compare, nvs_get_firmware_etag, flash
<1>5. CASE Download
    BY <1>5 DEF Download, ImageType
<1>6. CASE Record
    BY <1>6 DEF Record, nvs_set_firmware_etag
<1>7. CASE EndOta
    BY <1>7 DEF EndOta, OtaType, flash
<1> QED
    BY <1>1, <1>2, <1>3, <1>4, <1>5, <1>6, <1>7 DEF OtaTask

LEMMA OtaIInv ==
    ASSUME IInv, OtaTask
    PROVE  IInv'
BY OtaKeepsRest, OtaTypes, OtaTags DEF IInv, TypeOK

(* The server publishes; the Wi-Fi comes and goes.                         *)
LEMMA AroundIInv ==
    ASSUME IInv, Publish \/ WifiChanges \/ UNCHANGED vars
    PROVE  IInv'
<1> USE Sizes DEF IInv, TypeOK, flash, request, update, vars
<1>1. CASE Publish
    <2>1. ImageType' /\ TagsFollow'
        BY <1>1 DEF Publish, ImageType, TagsFollow, Images
    <2>2. RequestType' /\ OtaType'
        BY <1>1 DEF Publish, RequestType, OtaType
    <2>3. OtaStarts' /\ CredsKnown' /\ EndsCurrent'
        BY <1>1 DEF Publish, OtaStarts, CredsKnown, HaveCreds, EndsCurrent, GivesUpLast
    <2> QED
        BY <2>1, <2>2, <2>3
<1>2. CASE WifiChanges \/ UNCHANGED vars
    <2>1. ImageType' /\ TagsFollow'
        BY <1>2 DEF WifiChanges, ImageType, TagsFollow
    <2>2. RequestType' /\ OtaType'
        BY <1>2 DEF WifiChanges, RequestType, OtaType
    <2>3. OtaStarts' /\ CredsKnown' /\ EndsCurrent'
        BY <1>2 DEF WifiChanges, OtaStarts, CredsKnown, HaveCreds, EndsCurrent, GivesUpLast
    <2> QED
        BY <2>1, <2>2, <2>3
<1> QED
    BY <1>1, <1>2

LEMMA NextIInv == IInv /\ [Next]_vars => IInv'
<1> SUFFICES ASSUME IInv, [Next]_vars PROVE IInv'
    OBVIOUS
<1>1. CASE RequestCreds \/ BeginAttempt \/ \E q \in Requests : Request(q)
    BY <1>1, RequestIInv
<1>2. CASE StartTasks
    BY <1>2, StartTasksIInv
<1>3. CASE OtaTask
    BY <1>3, OtaIInv
<1>4. CASE Reboot \/ Restart
    BY <1>4, RestartIInv DEF Reboot
<1>5. CASE Publish \/ WifiChanges \/ UNCHANGED vars
    BY <1>5, AroundIInv
<1> QED
    BY <1>1, <1>2, <1>3, <1>4, <1>5 DEF Next

LEMMA IInvariant == Spec => []IInv
BY InitIInv, NextIInv, PTL DEF Spec, SafetySpec

-----------------------------------------------------------------------------
(* The theorems.                                                           *)

(* Every variable of Startup keeps its type.                               *)
THEOREM StartupTypes == Spec => []TypeOK
<1>1. IInv => TypeOK
    BY DEF IInv
<1> QED
    BY <1>1, IInvariant, PTL

(* MQTT starts only with a host, a certificate and a key, none of them of  *)
(* an attempt that was given up, and with the credentials error gone.      *)
THEOREM StartsWithCredentials == Spec => []CredentialsComplete
<1>1. IInv => CredentialsComplete
    BY DEF IInv, TypeOK, RequestType, CredsKnown, HaveCreds, Needed, CredentialsComplete
<1> QED
    BY <1>1, IInvariant, PTL

(* Wherever the chip restarts, whatever write is lost and whatever is      *)
(* published between the HEAD request and the download, a device whose     *)
(* recorded etag is the server's runs the server's image.                  *)
THEOREM CurrentIsInstalled == Spec => []CurrentMeansInstalled
<1>1. IInv => CurrentMeansInstalled
    BY Sizes DEF IInv, TypeOK, ImageType, TagsFollow, CurrentMeansInstalled
<1> QED
    BY <1>1, IInvariant, PTL

(* The update check ends early only if it saw nothing new.                 *)
THEOREM OtaGivesUpLast == Spec => []GivesUpLast
<1>1. IInv => GivesUpLast
    BY DEF IInv, EndsCurrent
<1> QED
    BY <1>1, IInvariant, PTL
=============================================================================
