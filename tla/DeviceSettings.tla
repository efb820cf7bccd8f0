--------------------------- MODULE DeviceSettings ---------------------------
(***************************************************************************)
(* The settings of the doorbell: the file and its copy in memory, the      *)
(* apply_settings command on the MQTT thread, the zone files of the system,*)
(* the start of main that puts the stored values into effect, and the time *)
(* synchronisation that keeps its state in the same file.  The process may *)
(* end at any step.                                                        *)
(***************************************************************************)
EXTENDS Naturals, Sequences

CONSTANTS
  Patched,       \* the fields commands set here
  MaxCommands,   \* bound: apply_settings commands
  MaxNotices,    \* bound: sessions that tell the time synchronisation
  MaxRestarts    \* bound: ends of the process

\* The order in which a command deals with them.  Person stands for detection
\* and sensitivity.
Fields == <<"person", "led", "rotate", "quality", "zone">>
Field  == {Fields[i] : i \in DOMAIN Fields}

ASSUME DeviceSettingsAssumption ==
  /\ Patched \subseteq Field
  /\ MaxCommands \in Nat /\ MaxNotices \in Nat /\ MaxRestarts \in Nat

VARIABLES
  \* DeviceSettingsStore
  disk,          \* settings.json
  stored, sync,  \* snapshot_: the settings, and the state of the time_sync
  \* what is in effect
  runtime,       \* person detection, status LED and camera rotation
  files, backup, \* /etc/localtime and /etc/timezone, and their backups
  fresh,         \* which of them hold what may not be on the disk yet
  \* main
  main,          \* where it is in its start
  seen,          \* the snapshot set_settings_apply_handlers works from
  handlers,      \* the handlers are installed
  \* the MQTT thread
  command,       \* handle_mqtt_command
  zone,          \* TimezoneManager::apply, for main or for a command
  \* TimeSyncService
  worker,        \* where worker_loop is
  immediate,     \* immediate_
  stop,          \* stop_
  \* history and bounds
  overtaken,     \* main has applied a snapshot that a command had overtaken
  torn,          \* a roll back has failed, too
  missed,        \* stop_ was set between the test and the sleep of worker_loop
  synced,        \* the last time_sync state that was stored
  commands, notices, restarts

storeVars  == <<disk, stored, sync, synced>>
fileVars   == <<files, backup, fresh, zone, torn>>
mainVars   == <<main, seen, handlers, overtaken>>
workerVars == <<worker, immediate, stop, missed, notices>>
boundVars  == <<commands, restarts>>
vars == <<storeVars, runtime, fileVars, mainVars, command, workerVars, boundVars>>

Value   == {0, 1}
Missing == 2      \* no such file
Broken  == 3      \* a file with nothing or half of its content
File    == {"localtime", "timezone"}
Runtime == {"person", "led", "rotate"}

Defaults  == [f \in Field |-> 0]
NoCommand == [pc |-> "idle", patch |-> <<>>, at |-> 1, current |-> Defaults]
NoZone    == [pc |-> "idle", file |-> "localtime", new |-> 0,
              had |-> [f \in File |-> FALSE], for |-> "main"]

Patch == UNION {[fs -> Value] : fs \in SUBSET Patched \ {{}}}

\* The defaults have been stored by an earlier start, the files have some zone.
Init ==
  /\ disk = [settings |-> Defaults, sync |-> "unsynced"]
  /\ stored = Defaults /\ sync = "unsynced" /\ synced = "unsynced"
  /\ runtime = [f \in Runtime |-> 0]
  /\ files = [f \in File |-> 1] /\ backup = [f \in File |-> Missing]
  /\ fresh = [files |-> {}, backup |-> {}]
  /\ main = "off" /\ seen = Defaults /\ handlers = FALSE
  /\ command = NoCommand /\ zone = NoZone
  /\ worker = "off" /\ immediate = FALSE /\ stop = FALSE
  /\ overtaken = FALSE /\ torn = FALSE /\ missed = FALSE
  /\ commands = 0 /\ notices = 0 /\ restarts = 0

\* Contents that were never flushed to the disk are lost or not.  Renames and
\* removals, and settings.json, which is flushed, are kept.
PowerFails ==
  \E lost \in SUBSET fresh.files, lostBackup \in SUBSET fresh.backup :
    /\ files'  = [f \in File |-> IF f \in lost THEN Broken ELSE files[f]]
    /\ backup' = [f \in File |-> IF f \in lostBackup THEN Broken ELSE backup[f]]
    /\ fresh'  = [files |-> {}, backup |-> {}]

\* The process ends by itself or with the power; what is in memory is gone.
Restart ==
  /\ restarts < MaxRestarts /\ main # "off"
  /\ restarts' = restarts + 1
  /\ stored' = Defaults /\ sync' = "unsynced"
  /\ runtime' = [f \in Runtime |-> 0]
  /\ main' = "off" /\ seen' = Defaults /\ handlers' = FALSE
  /\ command' = NoCommand /\ zone' = NoZone
  /\ worker' = "off" /\ immediate' = FALSE /\ stop' = FALSE
  /\ overtaken' = FALSE /\ missed' = FALSE
  /\ PowerFails \/ UNCHANGED <<files, backup, fresh>>
  /\ UNCHANGED <<disk, synced, torn, commands, notices>>

-----------------------------------------------------------------------------
(* DeviceSettingsStore, every operation under its mutex.                   *)

\* Mutant of ReplaceSettings: the rest of the snapshot is not carried over.
ReplaceSettingsAlone(settings) ==
  /\ stored' = settings /\ sync' = "unsynced"
  /\ disk' = [settings |-> settings, sync |-> "unsynced"]
  /\ UNCHANGED synced

\* persist_locked replaces the file by a complete one, then memory follows.
ReplaceSettings(settings) ==
  /\ stored' = settings
  /\ disk' = [settings |-> settings, sync |-> sync]
  /\ UNCHANGED <<sync, synced>>

\* A temporary file that cannot be written or renamed changes nothing.
PersistFails == UNCHANGED storeVars

UpdateTimeSync(state) ==
  \/ /\ sync' = state /\ synced' = state
     /\ disk' = [settings |-> stored, sync |-> state]
     /\ UNCHANGED stored
  \/ PersistFails

-----------------------------------------------------------------------------
(* TimezoneManager::apply.                                                 *)

ZoneStarts(new, for) ==
  zone' = [NoZone EXCEPT !.pc = "prepare", !.new = new, !.for = for]

ZonePc(pc) == zone' = [zone EXCEPT !.pc = pc]

\* The name, the zone file or the space for the copies may be missing.  The copies are
\* flushed to the kernel and no further.
ZonePrepare ==
  /\ zone.pc = "prepare"
  /\ ZonePc("recover") \/ ZonePc("failed")
  /\ UNCHANGED <<storeVars, runtime, files, backup, fresh, torn, mainVars, command, workerVars,
                 boundVars>>

\* rename of a file to its backup and of a backup to its file: a content goes with its
\* name, and stays as fresh as it was.
RenameAside(f) ==
  /\ backup' = [backup EXCEPT ![f] = files[f]]
  /\ files' = [files EXCEPT ![f] = Missing]
  /\ fresh' = [files |-> fresh.files \ {f},
               backup |-> (fresh.backup \ {f}) \cup (fresh.files \cap {f})]

RenameBack(f) ==
  /\ files' = [files EXCEPT ![f] = backup[f]]
  /\ backup' = [backup EXCEPT ![f] = Missing]
  /\ fresh' = [files |-> (fresh.files \ {f}) \cup (fresh.backup \cap {f}),
               backup |-> fresh.backup \ {f}]

RemoveBackups(fs) ==
  /\ backup' = [f \in File |-> IF f \in fs THEN Missing ELSE backup[f]]
  /\ fresh' = [fresh EXCEPT !.backup = @ \ fs]
  /\ UNCHANGED files

\* replace_with_backup has failed: for the second file, the first is restored.
ReplaceFails == IF zone.file = "localtime" THEN ZonePc("failed") ELSE ZonePc("unlink")

\* Mutant of ZoneRecover: a backup of an earlier life is only removed.
ZoneRecoverNothing ==
  /\ zone.pc = "recover"
  /\ LET f == zone.file IN
       \/ RemoveBackups({f}) /\ ZonePc("aside") /\ UNCHANGED torn
       \/ backup[f] # Missing /\ ReplaceFails /\ UNCHANGED <<files, backup, fresh, torn>>
  /\ UNCHANGED <<storeVars, runtime, mainVars, command, workerVars, boundVars>>

\* A backup without its file is what a loss of power has left.
ZoneRecover ==
  /\ zone.pc = "recover"
  /\ LET f == zone.file IN
       \/ backup[f] # Missing /\ files[f] = Missing /\ RenameBack(f) /\ ZonePc("aside")
       \/ backup[f] = Missing /\ ZonePc("aside") /\ UNCHANGED <<files, backup, fresh>>
       \/ backup[f] # Missing /\ files[f] # Missing /\ RemoveBackups({f}) /\ ZonePc("aside")
       \/ backup[f] # Missing /\ ReplaceFails /\ UNCHANGED <<files, backup, fresh>>
  /\ UNCHANGED <<storeVars, runtime, torn, mainVars, command, workerVars, boundVars>>

ZoneAside ==
  /\ zone.pc = "aside"
  /\ LET f == zone.file IN
       \/ /\ files[f] # Missing /\ RenameAside(f)
          /\ zone' = [zone EXCEPT !.pc = "in", !.had[f] = TRUE]
       \/ files[f] = Missing /\ ZonePc("in") /\ UNCHANGED <<files, backup, fresh>>
       \/ files[f] # Missing /\ ReplaceFails /\ UNCHANGED <<files, backup, fresh>>
  /\ UNCHANGED <<storeVars, runtime, torn, mainVars, command, workerVars, boundVars>>

\* The new file takes the place; if it cannot, the old one returns to it.
ZoneIn ==
  /\ zone.pc = "in"
  /\ LET f == zone.file IN
       \/ /\ files' = [files EXCEPT ![f] = zone.new]
          /\ fresh' = [fresh EXCEPT !.files = @ \cup {f}]
          /\ zone' = IF f = "localtime" THEN [zone EXCEPT !.pc = "recover", !.file = "timezone"]
                                        ELSE [zone EXCEPT !.pc = "clean"]
          /\ UNCHANGED <<backup, torn>>
       \/ zone.had[f] /\ RenameBack(f) /\ ReplaceFails /\ UNCHANGED torn
       \/ torn' = (torn \/ zone.had[f]) /\ ReplaceFails /\ UNCHANGED <<files, backup, fresh>>
  /\ UNCHANGED <<storeVars, runtime, mainVars, command, workerVars, boundVars>>

\* restore_backup of the first file, in two steps.
ZoneUnlink ==
  /\ zone.pc = "unlink"
  /\ \/ /\ files' = [files EXCEPT !["localtime"] = Missing]
        /\ fresh' = [fresh EXCEPT !.files = @ \ {"localtime"}]
        /\ UNCHANGED torn
     \/ torn' = TRUE /\ UNCHANGED <<files, fresh>>
  /\ ZonePc("restore")
  /\ UNCHANGED <<storeVars, runtime, backup, mainVars, command, workerVars, boundVars>>

ZoneRestore ==
  /\ zone.pc = "restore"
  /\ \/ zone.had["localtime"] /\ RenameBack("localtime") /\ UNCHANGED torn
     \/ torn' = (torn \/ zone.had["localtime"]) /\ UNCHANGED <<files, backup, fresh>>
  /\ ZonePc("failed")
  /\ UNCHANGED <<storeVars, runtime, mainVars, command, workerVars, boundVars>>

\* Backups that cannot be removed are left to the next apply.
ZoneClean ==
  /\ zone.pc = "clean"
  /\ \E gone \in SUBSET File : RemoveBackups(gone)
  /\ torn' = FALSE
  /\ ZonePc("done")
  /\ UNCHANGED <<storeVars, runtime, mainVars, command, workerVars, boundVars>>

ZoneIs(for, pc) == zone.for = for /\ zone.pc = pc
ZoneEnds        == zone' = NoZone

-----------------------------------------------------------------------------
(* The start of main.                                                      *)

\* initialize reads the file; the LED setting is in effect at once.
MainLoad ==
  /\ main = "off"
  /\ stored' = disk.settings /\ sync' = disk.sync
  /\ runtime' = [runtime EXCEPT !["led"] = disk.settings["led"]]
  /\ ZoneStarts(disk.settings["zone"], "main")
  /\ main' = "zone"
  /\ UNCHANGED <<disk, synced, files, backup, fresh, torn, seen, handlers, overtaken, command,
                 workerVars, boundVars>>

\* Without its zone the service does not start; the process runs without it.
MainDisabled ==
  /\ main = "zone" /\ ZoneIs("main", "failed")
  /\ ZoneEnds /\ main' = "disabled"
  /\ UNCHANGED <<storeVars, runtime, files, backup, fresh, torn, seen, handlers, overtaken,
                 command, workerVars, boundVars>>

\* The time synchronisation starts, and soon the MQTT thread.
MainStarted ==
  /\ main = "zone" /\ ZoneIs("main", "done")
  /\ ZoneEnds /\ main' = "started"
  /\ worker' = "test"
  /\ UNCHANGED <<storeVars, runtime, files, backup, fresh, torn, seen, handlers, overtaken,
                 command, immediate, stop, missed, notices, boundVars>>

MainCamera ==
  /\ main = "started"
  /\ runtime' = [runtime EXCEPT !["rotate"] = stored["rotate"]]
  /\ main' = "camera"
  /\ UNCHANGED <<storeVars, fileVars, seen, handlers, overtaken, command, workerVars, boundVars>>

MainHandlers ==
  /\ main = "camera"
  /\ handlers' = TRUE
  /\ main' = "handlers"
  /\ UNCHANGED <<storeVars, runtime, fileVars, seen, overtaken, command, workerVars, boundVars>>

MainSnapshot ==
  /\ main = "handlers"
  /\ seen' = stored
  /\ main' = "person"
  /\ UNCHANGED <<storeVars, runtime, fileVars, handlers, overtaken, command, workerVars,
                 boundVars>>

\* A command may have changed the value since it was read.
Overtakes == overtaken' = (overtaken \/ command.pc # "idle" \/ seen # stored)

MainPerson ==
  /\ main = "person"
  /\ runtime' = [runtime EXCEPT !["person"] = seen["person"]]
  /\ Overtakes
  /\ main' = "rotate"
  /\ UNCHANGED <<storeVars, fileVars, seen, handlers, command, workerVars, boundVars>>

MainRotate ==
  /\ main = "rotate"
  /\ IF seen["rotate"] = 1
       THEN runtime' = [runtime EXCEPT !["rotate"] = 1] /\ Overtakes
       ELSE UNCHANGED <<runtime, overtaken>>
  /\ main' = "up"
  /\ UNCHANGED <<storeVars, fileVars, seen, handlers, command, workerVars, boundVars>>

-----------------------------------------------------------------------------
(* apply_settings, on the MQTT thread.                                     *)

Started == main \notin {"off", "zone", "disabled"}

Receive(patch) ==
  /\ command.pc = "idle" /\ Started /\ ~stop
  /\ commands < MaxCommands
  /\ commands' = commands + 1
  /\ command' = [pc |-> "field", patch |-> patch, at |-> 1, current |-> stored]
  /\ UNCHANGED <<storeVars, runtime, fileVars, mainVars, workerVars, restarts>>

Command(pc)  == command' = [command EXCEPT !.pc = pc]
Proceed      == command' = [command EXCEPT !.pc = "field", !.at = @ + 1]
At           == Fields[command.at]
Old          == command.current[At]
New          == command.patch[At]

\* The camera handler is needed, the others are not.
HandlerMissing(f) == f = "rotate" /\ ~handlers

ApplyRuntime(f, v) ==
  runtime' = IF f = "led" \/ (f \in Runtime /\ handlers)
               THEN [runtime EXCEPT ![f] = v] ELSE runtime

Changes == command.at <= Len(Fields) /\ At \in DOMAIN command.patch /\ New # Old

\* Not in the patch, unchanged, or nothing there to apply it.
FieldSkipped ==
  /\ command.pc = "field" /\ command.at <= Len(Fields)
  /\ Changes => HandlerMissing(At)
  /\ Proceed
  /\ UNCHANGED <<storeVars, runtime, fileVars, mainVars, workerVars, boundVars>>

FieldApplied ==
  /\ command.pc = "field" /\ Changes /\ ~HandlerMissing(At)
  /\ At # "zone"
  /\ ApplyRuntime(At, New)
  /\ Command("store")
  /\ UNCHANGED <<storeVars, fileVars, mainVars, workerVars, boundVars>>

FieldZone ==
  /\ command.pc = "field" /\ Changes /\ At = "zone"
  /\ ZoneStarts(New, "apply")
  /\ Command("zone")
  /\ UNCHANGED <<storeVars, runtime, files, backup, fresh, torn, mainVars, workerVars, boundVars>>

ZoneApplied ==
  /\ command.pc = "zone" /\ zone.pc \in {"done", "failed"}
  /\ IF zone.pc = "done" THEN Command("store") ELSE Proceed
  /\ ZoneEnds
  /\ UNCHANGED <<storeVars, runtime, files, backup, fresh, torn, mainVars, workerVars, boundVars>>

FieldStored ==
  /\ command.pc = "store"
  /\ ReplaceSettings([command.current EXCEPT ![At] = New])
  /\ command' = [command EXCEPT !.pc = "field", !.at = @ + 1, !.current[At] = New]
  /\ UNCHANGED <<runtime, fileVars, mainVars, workerVars, boundVars>>

FieldNotStored ==
  /\ command.pc = "store"
  /\ PersistFails
  /\ Command("undo")
  /\ UNCHANGED <<runtime, fileVars, mainVars, workerVars, boundVars>>

\* Mutant of FieldUndone: only the file is rolled back.
FieldUndoneInStore ==
  /\ command.pc = "undo"
  /\ Command("unstore")
  /\ UNCHANGED <<storeVars, runtime, fileVars, mainVars, workerVars, boundVars>>

FieldUndone ==
  /\ command.pc = "undo"
  /\ IF At = "zone"
       THEN /\ ZoneStarts(Old, "undo") /\ Command("unzone")
            /\ UNCHANGED <<runtime, files, backup, fresh, torn>>
       ELSE /\ ApplyRuntime(At, Old) /\ Command("unstore")
            /\ UNCHANGED fileVars
  /\ UNCHANGED <<storeVars, mainVars, workerVars, boundVars>>

\* The result of the roll back is not looked at.
ZoneUndone ==
  /\ command.pc = "unzone" /\ zone.pc \in {"done", "failed"}
  /\ torn' = (torn \/ zone.pc = "failed")
  /\ ZoneEnds /\ Command("unstore")
  /\ UNCHANGED <<storeVars, runtime, files, backup, fresh, mainVars, workerVars, boundVars>>

\* The settings from before this field are stored again, and the command ends:
\* the fields before this one stay applied, those behind it are not looked at.
FieldUnstored ==
  /\ command.pc = "unstore"
  /\ ReplaceSettings(command.current) \/ PersistFails
  /\ command' = NoCommand
  /\ UNCHANGED <<runtime, fileVars, mainVars, workerVars, boundVars>>

CommandEnds ==
  /\ command.pc = "field" /\ command.at > Len(Fields)
  /\ command' = NoCommand
  /\ UNCHANGED <<storeVars, runtime, fileVars, mainVars, workerVars, boundVars>>

-----------------------------------------------------------------------------
(* TimeSyncService.  The wait tests its condition and goes to sleep with   *)
(* the mutex held; the first wait has no timeout.                          *)

WorkerTest ==
  /\ worker \in {"test", "retest"}
  /\ worker' = CASE stop -> "done"
                 [] ~stop /\ immediate -> "begin"
                 [] OTHER -> IF worker = "test" THEN "sleep" ELSE "resleep"
  /\ UNCHANGED <<storeVars, runtime, fileVars, mainVars, command, immediate, stop, missed,
                 notices, boundVars>>

WorkerSleep ==
  /\ worker \in {"sleep", "resleep"}
  /\ worker' = IF worker = "sleep" THEN "asleep" ELSE "reasleep"
  /\ UNCHANGED <<storeVars, runtime, fileVars, mainVars, command, immediate, stop, missed,
                 notices, boundVars>>

\* 6 h after a success, 30 s to 30 min after failures.
WorkerTimeout ==
  /\ worker = "reasleep"
  /\ worker' = IF stop THEN "done" ELSE "begin"
  /\ UNCHANGED <<storeVars, runtime, fileVars, mainVars, command, immediate, stop, missed,
                 notices, boundVars>>

WorkerBegin ==
  /\ worker = "begin"
  /\ immediate' = FALSE
  /\ UpdateTimeSync("syncing")
  /\ worker' = "query"
  /\ UNCHANGED <<runtime, fileVars, mainVars, command, stop, missed, notices, boundVars>>

\* Mutant of WorkerQuery: what came during the query is taken as served.
WorkerQueryForgets ==
  /\ worker = "query"
  /\ UpdateTimeSync("synced") \/ UpdateTimeSync("failed")
  /\ immediate' = FALSE
  /\ worker' = "retest"
  /\ UNCHANGED <<runtime, fileVars, mainVars, command, stop, missed, notices, boundVars>>

\* A server answers and the clock is set if need be, or none does.
WorkerQuery ==
  /\ worker = "query"
  /\ UpdateTimeSync("synced") \/ UpdateTimeSync("failed")
  /\ worker' = "retest"
  /\ UNCHANGED <<runtime, fileVars, mainVars, command, immediate, stop, missed, notices,
                 boundVars>>

\* notify_all reaches a thread that sleeps, not one that is about to.
Notified == CASE worker = "asleep" -> "test"
              [] worker = "reasleep" -> "retest"
              [] OTHER -> worker

\* Under the mutex, which a worker between test and sleep holds.
NotifyNetworkOnline ==
  /\ Started /\ ~stop
  /\ worker \notin {"sleep", "resleep"}
  /\ notices < MaxNotices
  /\ notices' = notices + 1
  /\ immediate' = TRUE
  /\ worker' = Notified
  /\ UNCHANGED <<storeVars, runtime, fileVars, mainVars, command, stop, missed, boundVars>>

\* Mutant of StopWorker: nobody is woken.
StopWorkerQuietly ==
  /\ main = "up" /\ ~stop
  /\ stop' = TRUE
  /\ UNCHANGED <<worker, missed>>
  /\ UNCHANGED <<storeVars, runtime, fileVars, mainVars, command, immediate, notices, boundVars>>

\* stop() sets stop_ and notifies without the mutex.
StopWorker ==
  /\ main = "up" /\ ~stop
  /\ stop' = TRUE
  /\ missed' = (worker \in {"sleep", "resleep"})
  /\ worker' = Notified
  /\ UNCHANGED <<storeVars, runtime, fileVars, mainVars, command, immediate, notices, boundVars>>

-----------------------------------------------------------------------------
Main ==
  \/ MainLoad \/ MainDisabled \/ MainStarted \/ MainCamera \/ MainHandlers \/ MainSnapshot
  \/ MainPerson \/ MainRotate \/ StopWorker

Zone ==
  \/ ZonePrepare \/ ZoneRecover \/ ZoneAside \/ ZoneIn \/ ZoneUnlink \/ ZoneRestore
  \/ ZoneClean

MqttThread ==
  \/ \E patch \in Patch : Receive(patch)
  \/ FieldSkipped \/ FieldApplied \/ FieldZone \/ ZoneApplied \/ FieldStored
  \/ FieldNotStored \/ FieldUndone \/ ZoneUndone \/ FieldUnstored \/ CommandEnds
  \/ NotifyNetworkOnline

Worker == WorkerTest \/ WorkerSleep \/ WorkerBegin \/ WorkerQuery

Next == Main \/ Zone \/ MqttThread \/ Worker \/ WorkerTimeout \/ Restart

Spec == Init /\ [][Next]_vars

\* worker_loop runs and its queries have timeouts.  Its timed waits of up to six
\* hours count as endless: nothing below may depend on their end.
FairSpec == Spec /\ WF_vars(Worker)

-----------------------------------------------------------------------------
(* Properties.                                                             *)

Settled == main = "up" /\ command.pc = "idle"

\* What is in effect is what is stored, once main is up and no command runs:
\* whichever fields were refused or could not be stored, and wherever an earlier
\* process ended.  Excepted are a command that overtakes the start of main, and a
\* roll back that fails as well.
StoredIsInEffect ==
  Settled /\ ~overtaken =>
    /\ \A f \in Runtime : runtime[f] = stored[f]
    /\ ~torn => \A f \in File : files[f] = stored["zone"]

\* Memory is never ahead of the file: what a query or an acknowledgement shows
\* survives a loss of power, and the two writers of the file keep each other's part.
MemoryIsOnDisk ==
  main # "off" => /\ disk = [settings |-> stored, sync |-> sync]
                  /\ sync = synced

\* TimezoneManager::apply, whatever rename fails and wherever the process or the power
\* ends: no zone file is ever gone without its backup; and once the service is up, no
\* matter what it found, each is complete, or its backup is.  Between a loss of power
\* and the apply of the next start nothing complete is promised: the new content was
\* never flushed, and the backup is removed as soon as it has its place.
ZoneFilesSurvive ==
  \A f \in File :
    /\ files[f] # Missing \/ backup[f] # Missing
    /\ Started => files[f] \in Value \/ (files[f] = Missing /\ backup[f] \in Value)

\* A session that comes up brings a synchronisation after it, and not only with the
\* next timeout; also when one was running already.
OnlineSynchronizes == immediate ~> worker = "begin" \/ stop \/ main = "off"

\* stop() ends the worker without waiting for a timeout, unless stop_ is set in the
\* one gap in which nobody hears the notification.
WorkerStops == []<>(stop => worker = "done" \/ missed \/ main = "off")
=============================================================================
