---------------------------- MODULE Provisioning ----------------------------
(***************************************************************************)
(* DoorbellProvisioning: how the doorbell gets into a WiFi network and to  *)
(* the cloud.  The HTTP thread takes credentials and starts a worker, the  *)
(* worker connects, the button thread resets, the MQTT thread reports the  *)
(* session, and main starts and stops all of them.  They share the stage,  *)
(* the WiFi file, the access point, the station and the MQTT client, and   *)
(* no lock orders their steps.                                             *)
(***************************************************************************)
EXTENDS Naturals

CONSTANTS
  Network,       \* WiFi networks the doorbell can be told
  NoNetwork,     \* model value
  MaxEvents,     \* bound: connections to the HTTP server and long presses
  MaxRestarts    \* bound: ends of the process, by power, crash or stop()

ASSUME ProvisioningAssumption ==
  /\ NoNetwork \notin Network
  /\ MaxEvents \in Nat /\ MaxRestarts \in Nat

VARIABLES
  main,          \* where main is in start() and stop()
  http,          \* the HTTP thread and the credentials it has been sent
  worker,        \* provision_thread_ and the credentials it was started with
  button,        \* where the button thread is in handle_long_press_reset
  mqtt,          \* mqtt_thread_ of the MQTT client
  mqttStop,      \* its stop_
  live,          \* a live view has been started
  stop,          \* stop_ of DoorbellProvisioning
  stage,         \* stage_; SoftApFailed is WifiFailed with an error of the access point
  saved,         \* the WiFi file
  onDisk,        \* what it may hold after a loss of power
  sta, ap,       \* the network the station is in; hostapd and dnsmasq run
  visited,       \* history: networks the station has been in
  told,          \* history: what it was last told, "kept" when a reset could not remove the
                 \* WiFi file, "mixed" when a reset met an attempt
  events, restarts

threadVars == <<main, http, worker, button>>
mqttVars   == <<mqtt, mqttStop, live>>
wifiVars   == <<saved, onDisk, sta, ap, visited>>
boundVars  == <<events, restarts>>
vars == <<threadVars, mqttVars, stop, stage, wifiVars, told, boundVars>>

\* An ssid with a password, which is the one of the network or is not.
Credentials   == [net : Network, right : BOOLEAN]
NoCredentials == [net |-> NoNetwork, right |-> FALSE]

Idle(pc) == [pc |-> pc, wifi |-> NoCredentials]

\* The WiFi file is missing, or holds what an earlier life has saved.
Init ==
  /\ main = Idle("boot") /\ http = Idle("off") /\ worker = Idle("none") /\ button = "off"
  /\ mqtt = "none" /\ mqttStop = FALSE /\ live = FALSE
  /\ stop = FALSE /\ stage = "Idle" /\ told = "nothing"
  /\ saved \in {NoCredentials} \cup {c \in Credentials : c.right}
  /\ onDisk = {saved}
  /\ sta = NoNetwork /\ ap = FALSE
  /\ visited = {saved.net} \ {NoNetwork}
  /\ events = 0 /\ restarts = 0

Alive == main.pc \notin {"stopped", "aborted"}

Count == events < MaxEvents /\ events' = events + 1 /\ UNCHANGED restarts

SetStage(s) == stage' = s

\* The threads end with the process.
ProcessEnds ==
  /\ http' = Idle("off") /\ worker' = Idle("none") /\ button' = "off"
  /\ mqtt' = "none" /\ mqttStop' = FALSE /\ live' = FALSE
  /\ stop' = FALSE /\ stage' = "Idle"

\* std::terminate: a thread object is joined twice, or assigned while joinable.
Abort ==
  /\ main' = Idle("aborted") /\ ProcessEnds
  /\ UNCHANGED <<wifiVars, told, boundVars>>

\* The process ends by itself or the power fails.  hostapd, dnsmasq and
\* wpa_supplicant are processes of their own and survive only the former.  What was
\* written or removed without fsync survives the latter or does not; a reset that
\* it undoes is no longer asked for.
Restart ==
  /\ restarts < MaxRestarts /\ restarts' = restarts + 1
  /\ main' = Idle("boot") /\ ProcessEnds
  /\ \/ UNCHANGED <<saved, onDisk, sta, ap>>
     \/ saved' \in onDisk /\ onDisk' = {saved'} /\ sta' = NoNetwork /\ ap' = FALSE
  /\ told' = IF told = "reset" /\ saved' = NoCredentials THEN "reset" ELSE "nothing"
  /\ UNCHANGED <<visited, events>>

-----------------------------------------------------------------------------
(* The access point and the station.                                       *)

\* A missing command, an unwritable file or a failing daemon, the last after
\* the access point that was running has been killed.
StartAccessPoint ==
  \/ ap' = TRUE /\ UNCHANGED stage
  \/ ap' \in {ap, FALSE} /\ SetStage("SoftApFailed")

\* connect_sta returns true.  In the network already, only the ssid is compared;
\* otherwise wpa_supplicant has completed with the password.
StaConnects(wifi) ==
  /\ sta = wifi.net \/ wifi.right
  /\ sta' = wifi.net /\ visited' = visited \cup {wifi.net}

\* It fails before or after it has left the network it was in.
StaFails == sta' \in {sta, NoNetwork} /\ UNCHANGED visited

-----------------------------------------------------------------------------
(* MqttDeviceClient, reduced to what provisioning sees of it.              *)

MqttShouldStop == mqttStop \/ stop

MqttConnecting ==
  /\ mqtt = "top" /\ ~MqttShouldStop
  /\ SetStage("ConnectingCloud")
  /\ mqtt' = "handshake"
  /\ UNCHANGED <<threadVars, mqttStop, live, stop, wifiVars, told, boundVars>>

\* on_online, before the client says so itself
MqttGreets ==
  /\ mqtt = "handshake" /\ sta # NoNetwork
  /\ SetStage("Online")
  /\ mqtt' = "greeted"
  /\ UNCHANGED <<threadVars, mqttStop, live, stop, wifiVars, told, boundVars>>

MqttOnline ==
  /\ mqtt = "greeted"
  /\ mqtt' = "online"
  /\ UNCHANGED <<threadVars, mqttStop, live, stop, stage, wifiVars, told, boundVars>>

\* A session that does not come up, is lost, or is to stop.
MqttSessionEnds ==
  /\ mqtt \in {"handshake", "online"}
  /\ mqtt' = "top"
  /\ UNCHANGED <<threadVars, mqttStop, live, stop, stage, wifiVars, told, boundVars>>

MqttEnds ==
  /\ mqtt = "top" /\ MqttShouldStop
  /\ mqtt' = "ended"
  /\ UNCHANGED <<threadVars, mqttStop, live, stop, stage, wifiVars, told, boundVars>>

Joiners == (IF main.pc = "joining" THEN {"main"} ELSE {})
             \cup (IF worker.pc = "joining" THEN {"worker"} ELSE {})
             \cup (IF button = "joining" THEN {"button"} ELSE {})

\* Mutant of StopMqtt: the thread is told to stop and left to itself.
StopMqttUnjoined(pc, next, then) ==
  /\ pc = "mqtt" /\ next = then
  /\ mqttStop' = TRUE
  /\ UNCHANGED <<mqtt, live>>

\* MqttDeviceClient::stop by a thread that goes from pc to next, and to then
\* when it returns: nothing without an MQTT thread, else that is stopped and joined.
StopMqtt(pc, next, then) ==
  \/ /\ pc = "mqtt" /\ mqtt = "none"
     /\ next = then
     /\ UNCHANGED mqttVars
  \/ /\ pc = "mqtt" /\ mqtt # "none"
     /\ next = "join"
     /\ mqttStop' = TRUE /\ UNCHANGED <<mqtt, live>>
  \/ /\ pc = "join" /\ mqtt # "none" /\ Joiners = {}
     /\ next = "joining"
     /\ UNCHANGED mqttVars
  \/ /\ pc = "joining" /\ mqtt = "ended"
     /\ next = then
     /\ mqtt' = "none" /\ UNCHANGED <<mqttStop, live>>

\* Another thread is joining, or has joined, the thread this one is to join.
JoinedTwice == "join" \in {main.pc, worker.pc, button} /\ (mqtt = "none" \/ Joiners # {})

-----------------------------------------------------------------------------
(* LiveViewSession, reduced to the calls provisioning makes of it: LiveView *)
(* says which of them return.                                              *)

\* start_live, or a hangup; the stop() in either may never return.
MqttCommand ==
  /\ mqtt = "online"
  /\ \/ live' = ~live /\ UNCHANGED mqtt
     \/ live /\ mqtt' = "stuck" /\ UNCHANGED live
  /\ UNCHANGED <<threadVars, mqttStop, stop, stage, wifiVars, told, boundVars>>

\* LiveViewSession::stop by a thread that goes from pc to next, and to then when it
\* returns.
StopLive(pc, next, then) ==
  /\ pc = "live"
  /\ \/ next = then /\ live' = FALSE
     \/ next = "stuck" /\ live /\ UNCHANGED live
  /\ UNCHANGED <<mqtt, mqttStop>>

\* Threads that may be about to move or to assign the loop thread of the live view.
AtLive == (IF main.pc = "live" THEN {"main"} ELSE {})
            \cup (IF worker.pc = "live" THEN {"worker"} ELSE {})
            \cup (IF button = "live" THEN {"button"} ELSE {})
            \cup (IF mqtt = "online" THEN {"mqtt"} ELSE {})

\* Two of them take it without a lock, and both join it.
LiveRace ==
  /\ live /\ \E t, u \in AtLive : t # u
  /\ Abort

-----------------------------------------------------------------------------
(* start() and stop(), on main.                                            *)

\* The button thread and the HTTP thread run before the saved WiFi is used; the
\* latter ends at once when the port cannot be bound.
MainStartThreads ==
  /\ main.pc = "boot"
  /\ button' = "idle"
  /\ \E pc \in {"accept", "done"} : http' = [http EXCEPT !.pc = pc]
  /\ main' = [main EXCEPT !.pc = "wifi"]
  /\ UNCHANGED <<worker, mqttVars, stop, stage, wifiVars, told, boundVars>>

MainBegins ==
  /\ main.pc = "wifi" /\ saved # NoCredentials
  /\ main' = [pc |-> "check", wifi |-> saved]
  /\ UNCHANGED <<http, worker, button, mqttVars, stop, stage, wifiVars, told, boundVars>>

MainWaits ==
  /\ main.pc = "wifi" /\ saved = NoCredentials
  /\ \/ StartAccessPoint /\ stage' = "SoftApFailed"
     \/ ap' = TRUE /\ SetStage("WaitingProvision")
  /\ main' = [main EXCEPT !.pc = "run"]
  /\ UNCHANGED <<http, worker, button, mqttVars, stop, saved, onDisk, sta, visited, told,
                 boundVars>>

\* Mutant of MainStop: the threads are joined without being told.
MainStopUntold ==
  /\ main.pc = "run"
  /\ main' = [main EXCEPT !.pc = "endHttp"]
  /\ UNCHANGED <<http, worker, button, mqttVars, stop, stage, wifiVars, told, boundVars>>

MainStop ==
  /\ main.pc = "run"
  /\ stop' = TRUE
  /\ main' = [main EXCEPT !.pc = "endHttp"]
  /\ UNCHANGED <<http, worker, button, mqttVars, stage, wifiVars, told, boundVars>>

MainEndHttp ==
  /\ main.pc = "endHttp" /\ http.pc = "done"
  /\ main' = [main EXCEPT !.pc = "endTime"]
  /\ UNCHANGED <<http, worker, button, mqttVars, stop, stage, wifiVars, told, boundVars>>

\* TimeSyncService::stop joins its worker, which may not have heard that it is to
\* end: DeviceSettings says when.
MainEndTime ==
  /\ main.pc = "endTime"
  /\ main' = [main EXCEPT !.pc = "live"]
  /\ UNCHANGED <<http, worker, button, mqttVars, stop, stage, wifiVars, told, boundVars>>

MainStopLive ==
  /\ \E next \in {"stuck", "endWorker"} :
       StopLive(main.pc, next, "endWorker") /\ main' = [main EXCEPT !.pc = next]
  /\ UNCHANGED <<http, worker, button, stop, stage, wifiVars, told, boundVars>>

WorkerOver == worker.pc \in {"failed", "served"}

MainEndWorker ==
  /\ main.pc = "endWorker" /\ (worker.pc = "none" \/ WorkerOver)
  /\ worker' = Idle("none")
  /\ main' = [main EXCEPT !.pc = "mqtt"]
  /\ UNCHANGED <<http, button, mqttVars, stop, stage, wifiVars, told, boundVars>>

MainStopMqtt ==
  /\ \E next \in {"join", "joining", "endButton"} :
       /\ StopMqtt(main.pc, next, "endButton")
       /\ main' = [main EXCEPT !.pc = next]
  /\ UNCHANGED <<http, worker, button, stop, stage, wifiVars, told, boundVars>>

MainEndButton ==
  /\ main.pc = "endButton" /\ button = "done"
  /\ ap' = FALSE
  /\ main' = [main EXCEPT !.pc = "stopped"]
  /\ UNCHANGED <<http, worker, button, mqttVars, stop, stage, saved, onDisk, sta, visited,
                 told, boundVars>>

-----------------------------------------------------------------------------
(* handle_long_press_reset, on the button thread.                          *)

WorkerIdle == worker.pc = "none" \/ WorkerOver

\* The WiFi file is removed; whether it could be is not looked at.
ButtonReset ==
  /\ button = "idle" /\ ~stop
  /\ Count
  /\ \/ /\ saved' = NoCredentials /\ onDisk' = onDisk \cup {NoCredentials}
        /\ told' = IF WorkerIdle THEN "reset" ELSE "mixed"
     \/ /\ saved # NoCredentials /\ UNCHANGED <<saved, onDisk>>
        /\ told' = IF WorkerIdle THEN "kept" ELSE "mixed"
  /\ button' = "live"
  /\ UNCHANGED <<main, http, worker, mqttVars, stop, stage, sta, ap, visited>>

ButtonStopLive ==
  /\ \E next \in {"stuck", "mqtt"} : StopLive(button, next, "mqtt") /\ button' = next
  /\ UNCHANGED <<main, http, worker, stop, stage, wifiVars, told, boundVars>>

ButtonStopMqtt ==
  /\ \E next \in {"join", "joining", "stage"} :
       StopMqtt(button, next, "stage") /\ button' = next
  /\ UNCHANGED <<main, http, worker, stop, stage, wifiVars, told, boundVars>>

ButtonStage ==
  /\ button = "stage"
  /\ SetStage("WaitingProvision")
  /\ button' = "leave"
  /\ UNCHANGED <<main, http, worker, mqttVars, stop, wifiVars, told, boundVars>>

\* wpa_cli or timeout may be missing, or take too long.
ButtonLeave ==
  /\ button = "leave"
  /\ sta' \in {sta, NoNetwork}
  /\ button' = "ap"
  /\ UNCHANGED <<main, http, worker, mqttVars, stop, stage, saved, onDisk, ap, visited,
                 told, boundVars>>

ButtonAp ==
  /\ button = "ap"
  /\ StartAccessPoint
  /\ button' = "idle"
  /\ UNCHANGED <<main, http, worker, mqttVars, stop, saved, onDisk, sta, visited, told,
                 boundVars>>

ButtonEnds ==
  /\ button = "idle" /\ stop
  /\ button' = "done"
  /\ UNCHANGED <<main, http, worker, mqttVars, stop, stage, wifiVars, told, boundVars>>

-----------------------------------------------------------------------------
(* The HTTP thread, and begin_provisioning on it and on main.              *)

HttpAccept ==
  /\ http.pc = "accept" /\ ~stop
  /\ Count
  /\ http' = [http EXCEPT !.pc = "recv"]
  /\ UNCHANGED <<main, worker, button, mqttVars, stop, stage, wifiVars, told>>

\* GET /provision/status, a malformed request, a client that closes.
HttpAnswer ==
  /\ http.pc = "recv"
  /\ http' = [http EXCEPT !.pc = "accept"]
  /\ UNCHANGED <<main, worker, button, mqttVars, stop, stage, wifiVars, told, boundVars>>

HttpProvision(wifi) ==
  /\ http.pc = "recv"
  /\ http' = [pc |-> "check", wifi |-> wifi]
  /\ UNCHANGED <<main, worker, button, mqttVars, stop, stage, wifiVars, told, boundVars>>

HttpEnds ==
  /\ http.pc = "accept" /\ stop
  /\ http' = [http EXCEPT !.pc = "done"]
  /\ UNCHANGED <<main, worker, button, mqttVars, stop, stage, wifiVars, told, boundVars>>

\* provision_thread_ is joined if there is one, while the caller waits.
JoinWorker ==
  /\ WorkerIdle
  /\ worker' = Idle("none")

\* A request may come while main is still on its way through start().
Spawn(wifi, alone) ==
  /\ worker.pc = "none"
  /\ worker' = [pc |-> "live", wifi |-> wifi]
  /\ told' = IF alone /\ button \in {"idle", "done"} THEN "attempt" ELSE "mixed"

MainJoinWorker ==
  /\ main.pc = "check"
  /\ JoinWorker
  /\ main' = [main EXCEPT !.pc = "spawn"]
  /\ UNCHANGED <<http, button, mqttVars, stop, stage, wifiVars, told, boundVars>>

MainSpawn ==
  /\ main.pc = "spawn"
  /\ Spawn(main.wifi, TRUE)
  /\ main' = Idle("run")
  /\ UNCHANGED <<http, button, mqttVars, stop, stage, wifiVars, boundVars>>

HttpJoinWorker ==
  /\ http.pc = "check"
  /\ JoinWorker
  /\ http' = [http EXCEPT !.pc = "spawn"]
  /\ UNCHANGED <<main, button, mqttVars, stop, stage, wifiVars, told, boundVars>>

HttpSpawn ==
  /\ http.pc = "spawn"
  /\ Spawn(http.wifi, main.pc \notin {"wifi", "check", "spawn"})
  /\ http' = Idle("accept")
  /\ UNCHANGED <<main, button, mqttVars, stop, stage, wifiVars, boundVars>>

\* Two threads join or assign provision_thread_ or join the MQTT thread.
Terminate ==
  /\ \/ JoinedTwice
     \/ "spawn" \in {main.pc, http.pc} /\ worker.pc # "none"
  /\ Abort

-----------------------------------------------------------------------------
(* provisioning_worker.                                                    *)

Worker(pc) == worker' = [worker EXCEPT !.pc = pc]

WorkerStopLive ==
  /\ \E next \in {"stuck", "mqtt"} : StopLive(worker.pc, next, "mqtt") /\ Worker(next)
  /\ UNCHANGED <<main, http, button, stop, stage, wifiVars, told, boundVars>>

WorkerStopMqtt ==
  /\ \E next \in {"join", "joining", "stage"} :
       StopMqtt(worker.pc, next, "stage") /\ Worker(next)
  /\ UNCHANGED <<main, http, button, stop, stage, wifiVars, told, boundVars>>

WorkerStage ==
  /\ worker.pc = "stage"
  /\ SetStage("ConnectingWifi")
  /\ Worker("connect")
  /\ UNCHANGED <<main, http, button, mqttVars, stop, wifiVars, told, boundVars>>

\* Mutant of WorkerConnect: the credentials are stored before they are tried.
WorkerConnectSavesFirst ==
  /\ worker.pc = "connect"
  /\ \/ StaConnects(worker.wifi) /\ Worker("save") /\ UNCHANGED stage
     \/ StaFails /\ SetStage("WifiFailed") /\ Worker("fail")
  /\ saved' = worker.wifi /\ onDisk' = onDisk \cup {worker.wifi, NoCredentials}
  /\ UNCHANGED <<main, http, button, mqttVars, stop, ap, told, boundVars>>

\* connect_sta takes up to 45 s, and does not look at stop_.
WorkerConnect ==
  /\ worker.pc = "connect"
  /\ \/ StaConnects(worker.wifi) /\ Worker("save") /\ UNCHANGED stage
     \/ StaFails /\ SetStage("WifiFailed") /\ Worker("fail")
  /\ UNCHANGED <<main, http, button, mqttVars, stop, saved, onDisk, ap, told, boundVars>>

\* Mutant of WorkerFails: the failure is only shown.
WorkerFailsOffline ==
  /\ worker.pc = "fail"
  /\ Worker("failed")
  /\ UNCHANGED <<main, http, button, mqttVars, stop, stage, wifiVars, told, boundVars>>

WorkerFails ==
  /\ worker.pc = "fail"
  /\ StartAccessPoint
  /\ Worker("failed")
  /\ UNCHANGED <<main, http, button, mqttVars, stop, saved, onDisk, sta, visited, told,
                 boundVars>>

\* The file is opened, cut to nothing, written and closed; any of these may fail, and
\* the result of save_wifi is not looked at.
WorkerSave ==
  /\ worker.pc = "save"
  /\ \/ /\ saved' \in {worker.wifi, NoCredentials}
        /\ onDisk' = onDisk \cup {worker.wifi, NoCredentials}
     \/ UNCHANGED <<saved, onDisk>>
  /\ Worker("leaveAp")
  /\ UNCHANGED <<main, http, button, mqttVars, stop, stage, sta, ap, visited, told, boundVars>>

WorkerLeaveAp ==
  /\ worker.pc = "leaveAp"
  /\ ap' = FALSE
  /\ Worker("cloud")
  /\ UNCHANGED <<main, http, button, mqttVars, stop, stage, saved, onDisk, sta, visited,
                 told, boundVars>>

WorkerCloud ==
  /\ worker.pc = "cloud"
  /\ SetStage("ConnectingCloud")
  /\ Worker("start")
  /\ UNCHANGED <<main, http, button, mqttVars, stop, wifiVars, told, boundVars>>

\* MqttDeviceClient::start does nothing beside a thread not joined yet.
WorkerStartMqtt ==
  /\ worker.pc = "start"
  /\ IF mqtt = "none"
       THEN mqtt' = "top" /\ mqttStop' = FALSE /\ UNCHANGED live
       ELSE UNCHANGED mqttVars
  /\ Worker("wait")
  /\ UNCHANGED <<main, http, button, stop, stage, wifiVars, told, boundVars>>

WorkerServed ==
  /\ worker.pc = "wait" /\ mqtt = "online"
  /\ Worker("served")
  /\ UNCHANGED <<main, http, button, mqttVars, stop, stage, wifiVars, told, boundVars>>

\* Mutant of WorkerLate: the wait for the session has no deadline.
WorkerLateNever ==
  /\ worker.pc = "wait" /\ mqtt # "online" /\ MqttShouldStop
  /\ Worker("late")
  /\ UNCHANGED <<main, http, button, mqttVars, stop, stage, wifiVars, told, boundVars>>

\* 20 s are over, or the client is told to stop.
WorkerLate ==
  /\ worker.pc = "wait" /\ mqtt # "online"
  /\ Worker("late")
  /\ UNCHANGED <<main, http, button, mqttVars, stop, stage, wifiVars, told, boundVars>>

\* recovery_after_cloud_failure_with_valid_wifi: the MQTT thread goes on trying.
WorkerCloudFailed ==
  /\ worker.pc = "late"
  /\ SetStage("CloudFailed")
  /\ Worker("served")
  /\ UNCHANGED <<main, http, button, mqttVars, stop, wifiVars, told, boundVars>>

-----------------------------------------------------------------------------
MainStep ==
  \/ MainStartThreads \/ MainBegins \/ MainWaits \/ MainJoinWorker \/ MainSpawn
  \/ MainEndHttp \/ MainStopLive \/ MainEndWorker \/ MainStopMqtt
  \/ MainEndButton

ButtonStep ==
  ButtonStopLive \/ ButtonStopMqtt \/ ButtonStage \/ ButtonLeave \/ ButtonAp \/ ButtonEnds

HttpStep ==
  \/ HttpAnswer \/ HttpEnds \/ HttpJoinWorker \/ HttpSpawn
  \/ \E wifi \in Credentials : HttpProvision(wifi)

WorkerStep ==
  \/ WorkerStopLive \/ WorkerStopMqtt \/ WorkerStage \/ WorkerConnect \/ WorkerFails
  \/ WorkerSave \/ WorkerLeaveAp \/ WorkerCloud \/ WorkerStartMqtt \/ WorkerServed
  \/ WorkerLate \/ WorkerCloudFailed

MqttStep ==
  MqttConnecting \/ MqttGreets \/ MqttOnline \/ MqttCommand \/ MqttSessionEnds \/ MqttEnds

Next ==
  \/ /\ Alive
     /\ \/ MainStep \/ MainStop \/ MainEndTime \/ ButtonStep \/ ButtonReset \/ HttpStep
        \/ HttpAccept \/ WorkerStep \/ MqttStep \/ Terminate \/ LiveRace
  \/ Restart

Spec == Init /\ [][Next]_vars

MqttMustGoOn == MqttOnline \/ MqttEnds \/ (MqttShouldStop /\ MqttSessionEnds)

\* The threads run; commands and waits end; an HTTP client sends its request or
\* goes away, for recv has no timeout.  Nobody has to press, post or stop, a time
\* synchronisation does not have to end.  Main, button, HTTP thread and worker have only
\* finitely many steps for each connection, long press and start: one condition serves
\* the four.
Fairness ==
  /\ WF_vars(Alive /\ (MainStep \/ ButtonStep \/ HttpStep \/ WorkerStep \/ Terminate))
  /\ WF_vars(Alive /\ MqttMustGoOn)

FairSpec == Spec /\ Fairness

-----------------------------------------------------------------------------
(* Properties.                                                             *)

Quiet == main.pc = "run" /\ http.pc \in {"accept", "recv", "done"} /\ WorkerIdle /\ button = "idle"

\* handle_long_press_reset: a reset that no attempt overlaps stays in force until the
\* next attempt.  The WiFi stays forgotten, also when the process ends and starts
\* again, the cloud is left, and no late callback of the MQTT thread takes the stage
\* back; the last two also when the file could not be removed, which nobody notices
\* and which brings the WiFi back with the next start.  A loss of power that undoes
\* the removal ends the claim too.
ResetHolds ==
  /\ told = "reset" => saved = NoCredentials
  /\ told \in {"reset", "kept"} /\ Quiet =>
       mqtt = "none" /\ stage \in {"WaitingProvision", "SoftApFailed"}

\* When nobody is at work, the doorbell can be reached: it is in the network it
\* was told last, or offers its access point, unless that could not be started
\* or a reset and an attempt have overlapped.
NeverStranded ==
  Quiet /\ told # "mixed" =>
    \/ ap
    \/ stage = "SoftApFailed"
    \/ told = "attempt" /\ worker.pc = "served" /\ sta = worker.wifi.net

\* The WiFi file never names a network the doorbell has not been in, whatever
\* requests, resets, crashes and losses of power interleave.
SavedWasReached == saved # NoCredentials => saved.net \in visited

\* A stop of the live view does not return: LiveView says when.
Hung == "stuck" \in {main.pc, worker.pc, button, mqtt}

\* POST /provision is answered, although its thread waits for the worker of the
\* request before, unless a stop of the live view does not return.
RequestAnswered == []<>(http.pc \notin {"check", "spawn"} \/ Hung)

Stopping == {"endHttp", "live", "endWorker", "mqtt", "join", "joining", "endButton"}

\* stop() takes down the HTTP thread, the worker, the MQTT thread and the button
\* thread, which stop and join one another, and does not wait for ever in any of these
\* places: it returns, or ends the process when two threads join one.  It may wait for a
\* time synchronisation that has not heard it (endTime: DeviceSettings, WorkerStops) or
\* for a live view (LiveView, StopReturns).
StopReturns == []<>(main.pc \notin Stopping \/ Hung)
=============================================================================
