-------------------------- MODULE ProvisioningProofs --------------------------
(***************************************************************************)
(* Proofs about Provisioning, for any set of networks and any number of    *)
(* requests, long presses and ends of the process: the WiFi file names a   *)
(* network that was reached, a reset stays in force until the next         *)
(* attempt, and when nobody is at work the doorbell can be reached.        *)
(***************************************************************************)
EXTENDS Provisioning, TLAPS

MaybeCredentials == Credentials \cup {NoCredentials}

MainPc   == {"boot", "wifi", "check", "spawn", "run", "endHttp", "endTime", "live", "stuck",
             "endWorker", "mqtt", "join", "joining", "endButton", "stopped", "aborted"}
HttpPc   == {"off", "accept", "recv", "check", "spawn", "done"}
WorkerPc == {"none", "live", "stuck", "mqtt", "join", "joining", "stage", "connect", "fail",
             "failed", "save", "leaveAp", "cloud", "start", "wait", "late", "served"}
ButtonPc == {"off", "idle", "live", "stuck", "mqtt", "join", "joining", "stage", "leave", "ap",
             "done"}
MqttPc   == {"none", "top", "handshake", "greeted", "online", "stuck", "ended"}

Mains   == [pc : MainPc, wifi : MaybeCredentials]
Https   == [pc : HttpPc, wifi : MaybeCredentials]
Workers == [pc : WorkerPc, wifi : MaybeCredentials]

Typed ==
  /\ main \in Mains /\ http \in Https /\ worker \in Workers
  /\ button \in ButtonPc /\ mqtt \in MqttPc
  /\ saved \in MaybeCredentials /\ onDisk \subseteq MaybeCredentials
  /\ told \in {"nothing", "reset", "kept", "attempt", "mixed"}
  /\ main.pc = "boot" => button = "off"

\* What the worker is about to save is a network it has just been in, and so is all
\* that a loss of power may leave in the file.
SavedInv ==
  /\ SavedWasReached
  /\ \A wifi \in onDisk : wifi # NoCredentials => wifi.net \in visited
  /\ worker.pc = "save" => worker.wifi.net \in visited

OffersAp == ap \/ stage = "SoftApFailed"

\* Since the process began there was no attempt and no reset: no thread but main
\* touches the WiFi, and main has started the access point.
NothingInv ==
  told = "nothing" =>
    /\ worker.pc = "none" /\ button \in {"off", "idle", "done"} /\ mqtt = "none"
    /\ main.pc = "run" => OffersAp

\* The process has begun again after a reset, and main is about to start the access
\* point because there is no WiFi file.
BeginsAgain == told = "reset" /\ main.pc \in {"boot", "wifi"}

\* A reset that met no attempt, and the steps of the button thread behind it, also
\* when the process has begun again since.
ResetInv ==
  /\ told = "reset" => saved = NoCredentials
  /\ told \in {"reset", "kept"} /\ main.pc # "aborted" =>
       /\ WorkerIdle
       /\ button = "off" => told = "reset" /\ main.pc = "boot"
       /\ button \in {"off", "stage", "leave", "ap", "idle", "done"} => mqtt = "none"
       /\ button \in {"leave", "ap", "idle", "done"} /\ ~BeginsAgain =>
            stage \in {"WaitingProvision", "SoftApFailed"}
       /\ button \in {"idle", "done"} /\ ~BeginsAgain /\ main.pc # "stopped" => OffersAp

\* An attempt that no reset and no second starter met, and the steps of its worker.
AttemptInv ==
  told = "attempt" /\ main.pc # "aborted" =>
    /\ button \in {"idle", "done"} /\ main.pc \notin {"boot", "wifi", "check", "spawn"}
    /\ worker.pc = "none" => http.pc = "spawn" \/ main.pc # "run"
    /\ worker.pc \in {"stage", "connect", "fail", "failed", "save", "leaveAp", "cloud", "start"} =>
         mqtt = "none"
    /\ worker.pc \in {"save", "leaveAp", "cloud", "start", "wait", "late", "served"} =>
         sta = worker.wifi.net
    /\ worker.pc = "failed" /\ main.pc # "stopped" => OffersAp

ProvisioningInv == Typed /\ SavedInv /\ NothingInv /\ ResetInv /\ AttemptInv

-----------------------------------------------------------------------------
(* Types.                                                                  *)

LEMMA ProvisioningInit == Init => ProvisioningInv
<1> SUFFICES ASSUME Init PROVE ProvisioningInv
  OBVIOUS
<1>1. NoCredentials \in MaybeCredentials /\ saved \in MaybeCredentials
  BY DEF Init, MaybeCredentials
<1>2. Typed
  BY <1>1 DEF Init, Typed, Mains, Https, Workers, Idle, MainPc, HttpPc, WorkerPc, ButtonPc, MqttPc
<1>3. SavedInv
  <2>1. saved # NoCredentials => saved.net \in Network
    BY DEF Init, Credentials
  <2> QED
    BY <2>1, ProvisioningAssumption DEF Init, SavedInv, SavedWasReached, Idle
<1>4. NothingInv /\ ResetInv /\ AttemptInv
  BY DEF Init, NothingInv, ResetInv, AttemptInv, Idle
<1> QED
  BY <1>2, <1>3, <1>4 DEF ProvisioningInv

\* What a stop of the MQTT client does, for the thread that stops it.
LEMMA StopMqttTypes ==
  ASSUME mqtt \in MqttPc, NEW pc, NEW next, NEW then,
         then \notin {"join", "joining"}, StopMqtt(pc, next, then)
  PROVE  /\ mqtt' \in MqttPc /\ mqtt' \in {mqtt, "none"}
         /\ next = then => mqtt' = "none"
         /\ next \in {"join", "joining", then}
BY DEF StopMqtt, MqttPc, mqttVars

\* The same for a stop of the live view.
LEMMA StopLiveTypes ==
  ASSUME NEW pc, NEW next, NEW then, StopLive(pc, next, then)
  PROVE  /\ UNCHANGED mqtt /\ pc = "live"
         /\ next \in {"stuck", then}
BY DEF StopLive

LEMMA MainTypes ==
  ASSUME Typed, MainStep \/ MainStop \/ MainEndTime PROVE Typed'
<1>1. NoCredentials \in MaybeCredentials
  BY DEF MaybeCredentials
<1>2. CASE MainStopMqtt
  BY <1>2, StopMqttTypes DEF MainStopMqtt, Typed, Mains, MainPc, wifiVars
<1>8. CASE MainStopLive
  BY <1>8, StopLiveTypes DEF MainStopLive, Typed, Mains, MainPc, wifiVars
<1>3. CASE MainEndWorker
  BY <1>1, <1>3 DEF MainEndWorker, Typed, Mains, Workers, MainPc, WorkerPc, Idle, mqttVars,
     wifiVars
<1>4. CASE MainJoinWorker
  BY <1>1, <1>4 DEF MainJoinWorker, JoinWorker, Typed, Mains, Workers, MainPc, WorkerPc, Idle,
     mqttVars, wifiVars
<1>5. CASE MainSpawn
  BY <1>1, <1>5 DEF MainSpawn, Spawn, Typed, Mains, Workers, MainPc, WorkerPc, Idle, mqttVars,
     wifiVars
<1>6. CASE MainStartThreads
  BY <1>6 DEF MainStartThreads, Typed, Mains, Https, MainPc, HttpPc, ButtonPc, mqttVars, wifiVars
<1>7. CASE MainBegins \/ MainWaits \/ MainStop \/ MainEndHttp \/ MainEndTime \/ MainEndButton
  BY <1>7 DEF MainBegins, MainWaits, MainStop, MainEndHttp, MainEndTime, MainEndButton, Typed,
     Mains, MainPc, mqttVars, wifiVars
<1> QED
  BY <1>2, <1>3, <1>4, <1>5, <1>6, <1>7, <1>8 DEF MainStep

LEMMA ButtonTypes ==
  ASSUME Typed, ButtonStep \/ ButtonReset \/ MqttStep PROVE Typed'
<1>1. NoCredentials \in MaybeCredentials
  BY DEF MaybeCredentials
<1>2. CASE ButtonStopMqtt
  <2>1. button \in {"mqtt", "join", "joining"}
    BY <1>2 DEF ButtonStopMqtt, StopMqtt
  <2> QED
    BY <1>2, <2>1, StopMqttTypes DEF ButtonStopMqtt, Typed, ButtonPc, wifiVars
<1>5. CASE ButtonStopLive
  BY <1>5, StopLiveTypes DEF ButtonStopLive, Typed, ButtonPc, wifiVars
<1>3. CASE (ButtonStep /\ ~ButtonStopMqtt /\ ~ButtonStopLive) \/ ButtonReset
  BY <1>1, <1>3 DEF ButtonStep, ButtonStage, ButtonLeave, ButtonAp, ButtonEnds, ButtonReset, Typed,
     ButtonPc, mqttVars, wifiVars
<1>4. CASE MqttStep
  BY <1>4 DEF MqttStep, MqttConnecting, MqttGreets, MqttOnline, MqttCommand, MqttSessionEnds,
     MqttEnds, Typed, MqttPc, threadVars, wifiVars
<1> QED
  BY <1>2, <1>3, <1>4, <1>5 DEF ButtonStep

LEMMA HttpTypes ==
  ASSUME Typed, HttpStep \/ HttpAccept PROVE Typed'
<1>1. NoCredentials \in MaybeCredentials /\ Credentials \subseteq MaybeCredentials
  BY DEF MaybeCredentials
<1>2. CASE HttpSpawn
  BY <1>1, <1>2 DEF HttpSpawn, Spawn, Typed, Https, Workers, HttpPc, WorkerPc, Idle, mqttVars,
     wifiVars
<1>3. CASE HttpJoinWorker
  BY <1>1, <1>3 DEF HttpJoinWorker, JoinWorker, Typed, Https, Workers, HttpPc, WorkerPc, Idle,
     mqttVars, wifiVars
<1>4. CASE HttpAccept \/ HttpAnswer \/ HttpEnds \/ \E wifi \in Credentials : HttpProvision(wifi)
  BY <1>1, <1>4 DEF HttpAccept, HttpAnswer, HttpEnds, HttpProvision, Typed, Https, HttpPc,
     mqttVars, wifiVars
<1> QED
  BY <1>2, <1>3, <1>4 DEF HttpStep

LEMMA WorkerTypes ==
  ASSUME Typed, WorkerStep PROVE Typed'
<1>1. NoCredentials \in MaybeCredentials
  BY DEF MaybeCredentials
<1>2. CASE WorkerStopMqtt
  BY <1>2, StopMqttTypes DEF WorkerStopMqtt, Worker, Typed, Workers, WorkerPc, wifiVars
<1>3. CASE WorkerStartMqtt
  BY <1>3 DEF WorkerStartMqtt, Worker, Typed, Workers, WorkerPc, MqttPc, mqttVars, wifiVars
<1>5. CASE WorkerStopLive
  BY <1>5, StopLiveTypes DEF WorkerStopLive, Worker, Typed, Workers, WorkerPc, wifiVars
<1>4. CASE WorkerStep /\ ~WorkerStopMqtt /\ ~WorkerStopLive /\ ~WorkerStartMqtt
  BY <1>1, <1>4 DEF WorkerStep, WorkerStage, WorkerConnect, WorkerFails, WorkerSave, WorkerLeaveAp,
     WorkerCloud, WorkerServed, WorkerLate, WorkerCloudFailed, Worker, Typed, Workers, WorkerPc,
     mqttVars, wifiVars
<1> QED
  BY <1>2, <1>3, <1>4, <1>5 DEF WorkerStep

LEMMA TypedStep ==
  ASSUME Typed, [Next]_vars PROVE Typed'
<1>1. CASE Restart \/ Abort
  <2>1. NoCredentials \in MaybeCredentials
    BY DEF MaybeCredentials
  <2> QED
    BY <1>1, <2>1 DEF Restart, Abort, ProcessEnds, Typed, Mains, Https, Workers, Idle, MainPc,
       HttpPc, WorkerPc, ButtonPc, MqttPc, wifiVars
<1>2. CASE UNCHANGED vars
  BY <1>2 DEF vars, threadVars, mqttVars, wifiVars, Typed
<1> QED
  BY <1>1, <1>2, MainTypes, ButtonTypes, HttpTypes, WorkerTypes DEF Next, Terminate, LiveRace

-----------------------------------------------------------------------------
(* The WiFi file.                                                          *)

LEMMA SavedStep ==
  ASSUME Typed, SavedInv, [Next]_vars PROVE SavedInv'
<1> USE DEF SavedInv, SavedWasReached, Typed, Mains, Https, Workers
<1>1. CASE MainStep \/ MainStop \/ MainEndTime
  <2>1. /\ UNCHANGED <<saved, onDisk, visited>>
        /\ UNCHANGED worker \/ worker'.pc = "none" \/ worker'.pc = "live"
    BY <1>1 DEF MainStep, MainStartThreads, MainBegins, MainWaits, MainJoinWorker, JoinWorker,
       MainSpawn, Spawn, MainEndHttp, MainEndTime, MainStopLive, MainEndWorker, MainStopMqtt,
       MainEndButton, MainStop, Idle, wifiVars
  <2> QED
    BY <2>1
<1>2. CASE ButtonStep \/ ButtonReset \/ MqttStep
  BY <1>2 DEF ButtonStep, ButtonStopLive, ButtonStopMqtt, ButtonStage, ButtonLeave, ButtonAp,
     ButtonEnds, ButtonReset, MqttStep, MqttConnecting, MqttGreets, MqttOnline, MqttCommand,
     MqttSessionEnds, MqttEnds, threadVars, wifiVars
<1>3. CASE HttpStep \/ HttpAccept
  <2>1. /\ UNCHANGED <<saved, onDisk, visited>>
        /\ UNCHANGED worker \/ worker'.pc = "none" \/ worker'.pc = "live"
    BY <1>3 DEF HttpStep, HttpAnswer, HttpEnds, HttpJoinWorker, JoinWorker, HttpSpawn, Spawn,
       HttpProvision, HttpAccept, Idle, wifiVars
  <2> QED
    BY <2>1
<1>4. CASE WorkerStep
  <2>1. CASE WorkerConnect
    BY <1>4, <2>1 DEF WorkerConnect, StaConnects, StaFails, Worker
  <2>2. CASE WorkerSave
    BY <1>4, <2>2 DEF WorkerSave, Worker
  <2>3. CASE ~WorkerConnect /\ ~WorkerSave
    <3>1. UNCHANGED <<saved, onDisk, visited>> /\ worker'.pc # "save"
      BY <1>4, <2>3 DEF WorkerStep, WorkerStopLive, StopLive, WorkerStopMqtt, WorkerStage,
         WorkerFails, WorkerLeaveAp, WorkerCloud, WorkerStartMqtt, WorkerServed, WorkerLate,
         WorkerCloudFailed, Worker, wifiVars
    <3> QED
      BY <3>1
  <2> QED
    BY <2>1, <2>2, <2>3
<1>5. CASE Restart \/ Abort \/ UNCHANGED vars
  BY <1>5 DEF Restart, Abort, ProcessEnds, Idle, vars, threadVars, wifiVars
<1> QED
  BY <1>1, <1>2, <1>3, <1>4, <1>5 DEF Next, Terminate, LiveRace

-----------------------------------------------------------------------------
(* Before the first attempt or reset, and after a reset.                   *)
LEMMA NothingStep ==
  ASSUME Typed, NothingInv, [Next]_vars PROVE NothingInv'
<1> SUFFICES ASSUME told' = "nothing"
             PROVE  /\ worker'.pc = "none" /\ button' \in {"off", "idle", "done"} /\ mqtt' = "none"
                    /\ main'.pc = "run" => OffersAp'
  BY DEF NothingInv
<1> USE DEF NothingInv, OffersAp, Typed, Mains, Https, Workers
<1>1. CASE Restart \/ Abort
  BY <1>1 DEF Restart, Abort, ProcessEnds, Idle
<1>2. CASE MainStep \/ MainStop \/ MainEndTime
  <2>1. CASE MainWaits
    BY <2>1 DEF MainWaits, SetStage, StartAccessPoint, mqttVars
  <2>2. CASE MainStopMqtt
    BY <2>2, StopMqttTypes DEF MainStopMqtt, wifiVars
  <2>3. CASE MainJoinWorker \/ MainSpawn \/ MainEndWorker
    BY <2>3 DEF MainJoinWorker, JoinWorker, MainSpawn, Spawn, MainEndWorker, Idle, mqttVars,
       wifiVars
  <2>4. CASE MainStopLive
    BY <2>4 DEF MainStopLive, StopLive, wifiVars
  <2>5. CASE MainStartThreads \/ MainBegins \/ MainEndHttp \/ MainEndTime \/ MainEndButton
             \/ MainStop
    BY <2>5 DEF MainStartThreads, MainBegins, MainEndHttp, MainEndTime, MainEndButton, MainStop,
       mqttVars, wifiVars
  <2> QED
    BY <1>2, <2>1, <2>2, <2>3, <2>4, <2>5 DEF MainStep
<1>3. CASE ButtonStep \/ ButtonReset
  BY <1>3 DEF ButtonStep, ButtonStopLive, StopLive, ButtonStopMqtt, StopMqtt, ButtonStage,
     ButtonLeave, ButtonAp, ButtonEnds, ButtonReset, WorkerIdle, WorkerOver, mqttVars, wifiVars
<1>4. CASE HttpStep \/ HttpAccept
  BY <1>4 DEF HttpStep, HttpAnswer, HttpEnds, HttpJoinWorker, JoinWorker, HttpSpawn, Spawn,
     HttpProvision, HttpAccept, Idle, mqttVars, wifiVars
<1>5. ~WorkerStep \/ told # "nothing"
  BY DEF WorkerStep, WorkerStopLive, StopLive, WorkerStopMqtt, StopMqtt, WorkerStage, WorkerConnect,
     WorkerFails, WorkerSave, WorkerLeaveAp, WorkerCloud, WorkerStartMqtt, WorkerServed, WorkerLate,
     WorkerCloudFailed
<1>6. ~MqttStep \/ told # "nothing"
  BY DEF MqttStep, MqttConnecting, MqttGreets, MqttOnline, MqttCommand, MqttSessionEnds, MqttEnds
<1>7. WorkerStep \/ MqttStep => UNCHANGED told
  BY DEF WorkerStep, WorkerStopLive, WorkerStopMqtt, WorkerStage, WorkerConnect, WorkerFails,
     WorkerSave, WorkerLeaveAp, WorkerCloud, WorkerStartMqtt, WorkerServed, WorkerLate,
     WorkerCloudFailed, MqttStep, MqttConnecting, MqttGreets, MqttOnline, MqttCommand,
     MqttSessionEnds, MqttEnds
<1>8. CASE UNCHANGED vars
  BY <1>8 DEF vars, threadVars, mqttVars, wifiVars
<1> QED
  BY <1>1, <1>2, <1>3, <1>4, <1>5, <1>6, <1>7, <1>8 DEF Next, Terminate, LiveRace

LEMMA ResetStep ==
  ASSUME Typed, ResetInv, NothingInv, [Next]_vars PROVE ResetInv'
<1> USE DEF ResetInv, BeginsAgain, OffersAp, WorkerIdle, WorkerOver, Typed, Mains, Https, Workers
<1>1. CASE ButtonReset
  BY <1>1 DEF ButtonReset, mqttVars
<1>2. CASE Restart \/ Abort
  BY <1>2 DEF Restart, Abort, ProcessEnds, Idle, wifiVars
<1>3. ASSUME ~ButtonReset, ~Restart, ~Abort, told' \in {"reset", "kept"} PROVE UNCHANGED told
  <2>1. CASE UNCHANGED vars
    BY <2>1 DEF vars
  <2>2. CASE MainStep \/ MainStop \/ MainEndTime
    BY <1>3, <2>2 DEF MainStep, MainStartThreads, MainBegins, MainWaits, MainJoinWorker,
       MainSpawn, Spawn, MainEndHttp, MainEndTime, MainStopLive, MainEndWorker, MainStopMqtt,
       MainEndButton, MainStop
  <2>3. CASE ButtonStep \/ MqttStep
    BY <2>3 DEF ButtonStep, ButtonStopLive, ButtonStopMqtt, ButtonStage, ButtonLeave, ButtonAp,
       ButtonEnds, MqttStep, MqttConnecting, MqttGreets, MqttOnline, MqttCommand, MqttSessionEnds,
       MqttEnds
  <2>4. CASE HttpStep \/ HttpAccept
    BY <1>3, <2>4 DEF HttpStep, HttpAnswer, HttpEnds, HttpJoinWorker, HttpSpawn, Spawn,
       HttpProvision, HttpAccept
  <2>5. CASE WorkerStep
    BY <2>5 DEF WorkerStep, WorkerStopLive, WorkerStopMqtt, WorkerStage, WorkerConnect, WorkerFails,
       WorkerSave, WorkerLeaveAp, WorkerCloud, WorkerStartMqtt, WorkerServed, WorkerLate,
       WorkerCloudFailed
  <2> QED
    BY <1>3, <2>1, <2>2, <2>3, <2>4, <2>5 DEF Next, Terminate, LiveRace
<1> SUFFICES ASSUME ~ButtonReset, ~Restart, ~Abort, told' \in {"reset", "kept"}, UNCHANGED told
             PROVE  ResetInv'
  BY <1>1, <1>2, <1>3
<1>4. CASE Alive /\ (MainStep \/ MainStop \/ MainEndTime)
  <2>1. CASE MainWaits
    BY <2>1 DEF MainWaits, SetStage, StartAccessPoint, mqttVars
  <2>2. CASE MainStopMqtt
    <3>1. main.pc \in {"mqtt", "join", "joining"} /\ main'.pc \in {"join", "joining", "endButton"}
      BY <2>2 DEF MainStopMqtt, StopMqtt
    <3> QED
      BY <2>2, <3>1, StopMqttTypes DEF MainStopMqtt, wifiVars
  <2>3. CASE MainJoinWorker \/ MainEndWorker
    BY <2>3 DEF MainJoinWorker, JoinWorker, MainEndWorker, Idle, mqttVars, wifiVars
  <2>4. CASE MainSpawn
    BY <2>4 DEF MainSpawn, Spawn
  <2>5. CASE MainStopLive
    BY <2>5 DEF MainStopLive, StopLive, wifiVars
  <2>6. CASE MainStartThreads \/ MainBegins
    BY <2>6 DEF MainStartThreads, MainBegins, mqttVars, wifiVars
  <2>7. CASE MainEndHttp \/ MainEndTime \/ MainEndButton \/ MainStop
    BY <1>4, <2>7 DEF MainEndHttp, MainEndTime, MainEndButton, MainStop, Alive, mqttVars, wifiVars
  <2> QED
    BY <1>4, <2>1, <2>2, <2>3, <2>4, <2>5, <2>6, <2>7 DEF MainStep
<1>5. CASE ButtonStep
  <2>1. CASE ButtonStopMqtt
    BY <2>1, StopMqttTypes DEF ButtonStopMqtt, wifiVars
  <2>2. CASE ButtonStopLive
    BY <2>2, StopLiveTypes DEF ButtonStopLive, wifiVars
  <2>3. CASE ~ButtonStopMqtt /\ ~ButtonStopLive
    BY <1>5, <2>3 DEF ButtonStep, ButtonStage, ButtonLeave, ButtonAp, StartAccessPoint, SetStage,
       ButtonEnds, mqttVars, wifiVars
  <2> QED
    BY <2>1, <2>2, <2>3
<1>6. CASE HttpStep \/ HttpAccept
  BY <1>6 DEF HttpStep, HttpAnswer, HttpEnds, HttpJoinWorker, JoinWorker, HttpSpawn, Spawn,
     HttpProvision, HttpAccept, Idle, mqttVars, wifiVars
<1>7. CASE Alive /\ WorkerStep
  BY <1>7 DEF Alive, WorkerStep, WorkerStopLive, StopLive, WorkerStopMqtt, StopMqtt, WorkerStage,
     WorkerConnect, WorkerFails, WorkerSave, WorkerLeaveAp, WorkerCloud, WorkerStartMqtt,
     WorkerServed, WorkerLate, WorkerCloudFailed
<1>8. CASE MqttStep
  BY <1>8 DEF MqttStep, MqttConnecting, MqttGreets, MqttOnline, MqttCommand, MqttSessionEnds,
     MqttEnds, threadVars, wifiVars
<1>9. CASE UNCHANGED vars
  BY <1>9 DEF vars, threadVars, mqttVars, wifiVars
<1> QED
  BY <1>4, <1>5, <1>6, <1>7, <1>8, <1>9 DEF Next, Terminate, LiveRace

-----------------------------------------------------------------------------
(* An attempt.                                                             *)

\* Where the attempt that was started last is, and what it has done so far.
Attempting ==
  /\ button \in {"idle", "done"} /\ main.pc \notin {"boot", "wifi", "check", "spawn"}
  /\ worker.pc = "none" => http.pc = "spawn" \/ main.pc # "run"
  /\ worker.pc \in {"stage", "connect", "fail", "failed", "save", "leaveAp", "cloud", "start"} =>
       mqtt = "none"
  /\ worker.pc \in {"save", "leaveAp", "cloud", "start", "wait", "late", "served"} =>
       sta = worker.wifi.net
  /\ worker.pc = "failed" /\ main.pc # "stopped" => OffersAp

\* An attempt begins.
LEMMA AttemptBegins ==
  ASSUME Typed, MainSpawn \/ HttpSpawn, told' = "attempt" PROVE Attempting'
<1>1. CASE MainSpawn
  BY <1>1 DEF MainSpawn, Spawn, Idle, Attempting, Typed, Mains
<1>2. CASE HttpSpawn
  BY <1>2 DEF HttpSpawn, Spawn, Idle, Attempting, Typed, Mains
<1> QED
  BY <1>1, <1>2

LEMMA AttemptWorks ==
  ASSUME Typed, Attempting, WorkerStep
  PROVE  Attempting'
<1> USE DEF Attempting, OffersAp, Typed, Mains, Https, Workers, Worker
<1>1. UNCHANGED <<main, http, button>>
  BY DEF WorkerStep, WorkerStopLive, WorkerStopMqtt, WorkerStage, WorkerConnect, WorkerFails,
     WorkerSave, WorkerLeaveAp, WorkerCloud, WorkerStartMqtt, WorkerServed, WorkerLate,
     WorkerCloudFailed
<1>2. CASE WorkerStopMqtt
  BY <1>1, <1>2, StopMqttTypes DEF WorkerStopMqtt, wifiVars
<1>7. CASE WorkerStopLive
  BY <1>1, <1>7, StopLiveTypes DEF WorkerStopLive, wifiVars
<1>3. CASE WorkerStage \/ WorkerConnect
  BY <1>1, <1>3 DEF WorkerStage, WorkerConnect, StaConnects, StaFails, mqttVars, wifiVars
<1>4. CASE WorkerFails
  BY <1>1, <1>4 DEF WorkerFails, StartAccessPoint, SetStage, mqttVars
<1>5. CASE WorkerSave \/ WorkerLeaveAp \/ WorkerCloud
  BY <1>1, <1>5 DEF WorkerSave, WorkerLeaveAp, WorkerCloud, mqttVars, wifiVars
<1>6. CASE WorkerStartMqtt \/ WorkerServed \/ WorkerLate \/ WorkerCloudFailed
  BY <1>1, <1>6 DEF WorkerStartMqtt, WorkerServed, WorkerLate, WorkerCloudFailed, mqttVars, wifiVars
<1> QED
  BY <1>2, <1>3, <1>4, <1>5, <1>6, <1>7 DEF WorkerStep

LEMMA AttemptBesideMain ==
  ASSUME Typed, Attempting, Alive, told' = "attempt", MainStep \/ MainStop \/ MainEndTime
  PROVE  Attempting'
<1> USE DEF Attempting, OffersAp, Typed, Mains, Https, Workers
<1>1. CASE MainStopMqtt
  <2>1. main.pc \in {"mqtt", "join", "joining"}
    BY <1>1 DEF MainStopMqtt, StopMqtt
  <2> QED
    BY <1>1, <2>1, StopMqttTypes DEF MainStopMqtt, wifiVars
<1>2. CASE MainEndWorker
  BY <1>2 DEF MainEndWorker, Idle, mqttVars, wifiVars
<1>3. CASE MainStopLive
  BY <1>3, StopLiveTypes DEF MainStopLive, wifiVars
<1>4. CASE MainEndHttp \/ MainEndTime \/ MainEndButton \/ MainStop
  BY <1>4 DEF MainEndHttp, MainEndTime, MainEndButton, MainStop, Alive, mqttVars, wifiVars
<1>5. ~(MainStartThreads \/ MainBegins \/ MainWaits \/ MainJoinWorker \/ MainSpawn)
  BY DEF MainStartThreads, MainBegins, MainWaits, MainJoinWorker, MainSpawn
<1> QED
  BY <1>1, <1>2, <1>3, <1>4, <1>5 DEF MainStep

LEMMA AttemptBesideOthers ==
  ASSUME Typed, Attempting, ButtonStep \/ MqttStep \/ HttpAccept \/ (HttpStep /\ ~HttpSpawn)
  PROVE  Attempting'
<1> USE DEF Attempting, OffersAp, Typed, Mains, Https, Workers
<1>1. CASE ButtonStep
  BY <1>1 DEF ButtonStep, ButtonStopLive, StopLive, ButtonStopMqtt, StopMqtt, ButtonStage,
     ButtonLeave, ButtonAp, ButtonEnds, mqttVars, wifiVars
<1>2. CASE MqttStep
  BY <1>2 DEF MqttStep, MqttConnecting, MqttGreets, MqttOnline, MqttCommand, MqttSessionEnds,
     MqttEnds, threadVars, wifiVars
<1>3. CASE HttpJoinWorker
  BY <1>3 DEF HttpJoinWorker, JoinWorker, Idle, mqttVars, wifiVars
<1>4. CASE HttpAccept \/ HttpAnswer \/ HttpEnds \/ \E wifi \in Credentials : HttpProvision(wifi)
  <2>1. UNCHANGED <<main, worker, button, mqtt, stage, sta, ap>> /\ http.pc # "spawn"
    BY <1>4 DEF HttpAccept, HttpAnswer, HttpEnds, HttpProvision, mqttVars, wifiVars
  <2> QED
    BY <2>1
<1> QED
  BY <1>1, <1>2, <1>3, <1>4 DEF HttpStep

LEMMA AttemptStep ==
  ASSUME Typed, AttemptInv, [Next]_vars PROVE AttemptInv'
<1> SUFFICES ASSUME told' = "attempt", main'.pc # "aborted" PROVE Attempting'
  BY DEF AttemptInv, Attempting
<1>0. ~Abort
  BY DEF Abort, Idle
<1>1. ASSUME told # "attempt" PROVE MainSpawn \/ HttpSpawn
  <2>1. ~UNCHANGED told
    BY <1>1
  <2>2. CASE MainStep \/ MainStop \/ MainEndTime
    BY <2>1, <2>2 DEF MainStep, MainStartThreads, MainBegins, MainWaits, MainJoinWorker,
       MainEndHttp, MainEndTime, MainStopLive, MainEndWorker, MainStopMqtt, MainEndButton, MainStop
  <2>3. CASE ButtonStep \/ ButtonReset \/ MqttStep
    BY <2>1, <2>3 DEF ButtonStep, ButtonStopLive, ButtonStopMqtt, ButtonStage, ButtonLeave,
       ButtonAp, ButtonEnds, ButtonReset, MqttStep, MqttConnecting, MqttGreets, MqttOnline,
       MqttCommand, MqttSessionEnds, MqttEnds
  <2>4. CASE HttpStep \/ HttpAccept
    BY <2>1, <2>4 DEF HttpStep, HttpAnswer, HttpEnds, HttpJoinWorker, HttpProvision, HttpAccept
  <2>5. ~WorkerStep
    BY <2>1 DEF WorkerStep, WorkerStopLive, WorkerStopMqtt, WorkerStage, WorkerConnect, WorkerFails,
       WorkerSave, WorkerLeaveAp, WorkerCloud, WorkerStartMqtt, WorkerServed, WorkerLate,
       WorkerCloudFailed
  <2> QED
    BY <1>0, <2>1, <2>2, <2>3, <2>4, <2>5 DEF Next, Restart, vars, Terminate, LiveRace
<1>2. CASE told = "attempt"
  <2>1. CASE UNCHANGED vars
    BY <1>2, <2>1 DEF vars, threadVars, mqttVars, wifiVars, AttemptInv, Attempting, OffersAp
  <2>2. CASE Alive
    <3>1. Attempting
      BY <1>2, <2>2 DEF Alive, AttemptInv, Attempting
    <3>2. ~ButtonReset /\ ~Restart
      BY DEF ButtonReset, Restart
    <3> QED
      BY <1>0, <2>1, <2>2, <3>1, <3>2, AttemptBegins, AttemptWorks, AttemptBesideMain,
         AttemptBesideOthers DEF Next, Terminate, LiveRace
  <2> QED
    BY <2>1, <2>2 DEF Next, Restart
<1> QED
  BY <1>1, <1>2, AttemptBegins

-----------------------------------------------------------------------------
(* The theorems.                                                           *)

\* What the WiFi file, the threads and their last order keep in every reachable state.
THEOREM ProvisioningIsKept == Spec => []ProvisioningInv
<1>1. ProvisioningInv /\ [Next]_vars => ProvisioningInv'
  BY TypedStep, SavedStep, NothingStep, ResetStep, AttemptStep DEF ProvisioningInv
<1> QED
  BY <1>1, ProvisioningInit, PTL DEF Spec

\* save_wifi: no network is stored that was not reached, for any networks, requests,
\* resets and ends of the process, and for wrong passwords.
THEOREM SavedNetworkWasReached == Spec => []SavedWasReached
<1>1. ProvisioningInv => SavedWasReached
  BY DEF ProvisioningInv, SavedInv
<1> QED
  BY <1>1, ProvisioningIsKept, PTL

\* handle_long_press_reset: nothing undoes a reset but the next attempt, a removal
\* that failed, and a loss of power that takes the removal back; an end of the process
\* and its next start do not.
THEOREM ResetStaysInForce == Spec => []ResetHolds
<1>1. ProvisioningInv => ResetHolds
  BY DEF ProvisioningInv, ResetInv, BeginsAgain, ResetHolds, Quiet
<1> QED
  BY <1>1, ProvisioningIsKept, PTL

\* begin_provisioning and provisioning_worker: when all threads have done what they
\* were told, the doorbell is in its network or offers its access point.
THEOREM DoorbellStaysReachable == Spec => []NeverStranded
<1>1. ProvisioningInv => NeverStranded
  BY DEF ProvisioningInv, Typed, NothingInv, ResetInv, BeginsAgain, AttemptInv, NeverStranded,
     Quiet, WorkerIdle, WorkerOver, OffersAp
<1> QED
  BY <1>1, ProvisioningIsKept, PTL
=============================================================================
