------------------------ MODULE DeviceSettingsProofs ------------------------
(***************************************************************************)
(* Proofs about DeviceSettings, for any set of patched fields and any      *)
(* number of commands, sessions and ends of the process: memory is never   *)
(* ahead of the file, no zone file is gone without its backup and none is  *)
(* incomplete once the service is up, and what is in effect is what is     *)
(* stored.                                                                 *)
(***************************************************************************)
EXTENDS DeviceSettings, TLAPS

Settings   == [Field -> Value]
SyncState  == {"unsynced", "syncing", "synced", "failed"}
Content    == Value \cup {Missing, Broken}
FieldNames == {"person", "led", "rotate", "quality", "zone"}
MainPc     == {"off", "zone", "disabled", "started", "camera", "handlers", "person",
               "rotate", "up"}
CommandPc  == {"idle", "field", "zone", "store", "undo", "unzone", "unstore"}
ZonePcs    == {"idle", "prepare", "recover", "aside", "in", "unlink", "restore", "clean",
               "done", "failed"}
Commands   == [pc : CommandPc, patch : Patch \cup {<<>>}, at : 1..6, current : Settings]
Zones      == [pc : ZonePcs, file : File, new : Value, had : [File -> BOOLEAN],
               for : {"main", "apply", "undo"}]

-----------------------------------------------------------------------------
(* The inductive invariant, by parts.                                      *)

\* The store: its file, its memory, and the history of the time synchronisation.
StoreTyped ==
  /\ disk \in [settings : Settings, sync : SyncState]
  /\ stored \in Settings /\ sync \in SyncState
  /\ disk.sync = synced

\* The rest of the state.
SystemTyped ==
  /\ runtime \in [Runtime -> Value]
  /\ files \in [File -> Content] /\ backup \in [File -> Content]
  /\ seen \in Settings
  /\ main \in MainPc /\ command \in Commands /\ zone \in Zones
  /\ overtaken \in BOOLEAN /\ torn \in BOOLEAN /\ handlers \in BOOLEAN

\* A command that deals with a field of its patch.
AtField == command.pc \in {"zone", "store", "undo", "unzone", "unstore"}

\* Who is where: a command works from the settings that are stored, it needs main's
\* start behind it, and the zone files are changed for one of main and the command.
Threads ==
  /\ command.pc # "idle" => Started /\ stored = command.current
  /\ AtField => command.at \in 1..5 /\ At \in DOMAIN command.patch
  /\ command.pc \in {"zone", "unzone"} => At = "zone"
  /\ AtField /\ At = "rotate" => handlers
  /\ handlers <=> main \in {"handlers", "person", "rotate", "up"}
  /\ zone.pc # "idle" <=> main = "zone" \/ command.pc \in {"zone", "unzone"}
  /\ main = "zone" => zone.for = "main" /\ zone.new = stored["zone"]
  /\ command.pc = "zone" => zone.for = "apply" /\ zone.new = New
  /\ command.pc = "unzone" => zone.for = "undo" /\ zone.new = Old

\* TimezoneManager::apply is past the first file, which has its new content; the
\* old one is its backup.
FirstReplaced == zone.file = "timezone" /\ zone.pc \in {"recover", "aside", "in"}

\* What the steps of TimezoneManager::apply leave behind them.
ZoneSteps ==
  /\ zone.pc = "prepare" => zone.file = "localtime"
  /\ zone.pc \in {"unlink", "restore"} => zone.file = "timezone"
  /\ zone.pc = "aside" => files[zone.file] # Missing
  /\ zone.pc = "in" => zone.had[zone.file] /\ backup[zone.file] # Missing
  /\ FirstReplaced \/ zone.pc \in {"unlink", "restore"} =>
       zone.had["localtime"] /\ backup["localtime"] # Missing
  /\ FirstReplaced => files["localtime"] = zone.new
  /\ zone.pc \in {"clean", "done"} => \A f \in File : files[f] = zone.new

\* The files have the content v, unless a roll back has failed.
FilesHave(v) == ~torn => \A f \in File : files[f] = v

\* Where the old content of a file is while an apply is under way.
InBackup(f) ==
  \/ f = zone.file /\ zone.pc = "in"
  \/ f = "localtime" /\ (FirstReplaced \/ zone.pc \in {"unlink", "restore"})

\* No zone file is gone without its backup.
NeverGone == \A f \in File : files[f] # Missing \/ backup[f] # Missing

\* Once the service is up the zone files are complete, or their backups are, and so is
\* every backup to which an apply may return.
FilesWhole ==
  Started => \A f \in File :
    /\ files[f] # Broken
    /\ files[f] = Missing \/ InBackup(f) => backup[f] \in Value

\* An apply that is not finished can go back to the settings that are stored.
ApplyCanReturn ==
  command.pc = "zone" /\ zone.pc \notin {"clean", "done"} /\ ~torn =>
    \A f \in File : (IF InBackup(f) THEN backup[f] ELSE files[f]) = stored["zone"]

\* A new value of the field f is in effect and not stored yet.
Ahead(f) == command.pc \in {"store", "undo"} /\ At = f

\* The zone files agree with the settings between the applies.
FilesInEffect ==
  Started /\ command.pc \notin {"zone", "unzone"} =>
    FilesHave(IF Ahead("zone") THEN New ELSE stored["zone"])

\* So does the runtime field f.
InEffect(f) == runtime[f] = IF Ahead(f) THEN New ELSE stored[f]

\* Each runtime field from the point of main's start on at which it is applied.
RuntimeInEffect ==
  /\ main # "off" => InEffect("led")
  /\ main \in {"camera", "handlers", "person", "rotate", "up"} /\ ~overtaken =>
       InEffect("rotate")
  /\ main \in {"rotate", "up"} /\ ~overtaken => InEffect("person")

SettingsInv ==
  /\ StoreTyped /\ SystemTyped /\ MemoryIsOnDisk
  /\ Threads /\ ZoneSteps /\ NeverGone /\ FilesWhole
  /\ ApplyCanReturn /\ FilesInEffect /\ RuntimeInEffect

-----------------------------------------------------------------------------
(* Facts about the fields, the commands and the settings.                  *)

LEMMA FieldsAre ==
  /\ Field = FieldNames
  /\ Len(Fields) = 5
  /\ \A i \in 1..5 : Fields[i] \in Field
<1>1. /\ Len(Fields) = 5 /\ DOMAIN Fields = 1..5
      /\ Fields[1] = "person" /\ Fields[2] = "led" /\ Fields[3] = "rotate"
      /\ Fields[4] = "quality" /\ Fields[5] = "zone"
  BY DEF Fields
<1> HIDE DEF Fields
<1>2. \A i \in 1..5 : i = 1 \/ i = 2 \/ i = 3 \/ i = 4 \/ i = 5
  OBVIOUS
<1> QED
  BY <1>1, <1>2 DEF Field, FieldNames

LEMMA FieldKinds ==
  /\ Runtime \subseteq Field /\ "zone" \in Field /\ "zone" \notin Runtime
  /\ Value \subseteq Content /\ Missing \notin Value /\ Missing \in Content
BY FieldsAre DEF FieldNames, Runtime, Content, Value, Missing, Broken

\* Values of a patch are values, its fields are fields.
LEMMA PatchValues ==
  ASSUME NEW p \in Patch \cup {<<>>}, NEW f \in DOMAIN p
  PROVE  f \in Field /\ p[f] \in Value
<1>1. p \in Patch
  <2>1. DOMAIN <<>> = {}
    OBVIOUS
  <2> QED
    BY <2>1
<1>2. PICK fs \in SUBSET Patched : p \in [fs -> Value]
  BY <1>1 DEF Patch
<1> QED
  BY <1>2, DeviceSettingsAssumption

\* The old and the new value of the field a command deals with.
LEMMA ValuesAtField ==
  ASSUME SystemTyped, Threads, AtField
  PROVE  /\ command.at \in 1..5 /\ At \in Field
         /\ Old \in Value /\ New \in Value
<1>1. command \in Commands /\ command.at \in 1..5 /\ At \in DOMAIN command.patch
  BY DEF SystemTyped, Threads
<1>2. At \in Field
  BY <1>1, FieldsAre DEF At
<1>3. command.current \in Settings /\ command.patch \in Patch \cup {<<>>}
  BY <1>1 DEF Commands
<1> QED
  BY <1>1, <1>2, <1>3, PatchValues DEF Settings, Old, New

LEMMA DefaultsTyped ==
  /\ Defaults \in Settings
  /\ NoCommand \in Commands
  /\ NoZone \in Zones
<1>1. Defaults \in Settings
  BY DEF Defaults, Settings, Value
<1>2. NoCommand \in Commands
  BY <1>1 DEF NoCommand, Commands, CommandPc
<1>3. NoZone \in Zones
  BY DEF NoZone, Zones, ZonePcs, File, Value
<1> QED
  BY <1>1, <1>2, <1>3

LEMMA CommandSteps ==
  ASSUME NEW c \in Commands
  PROVE  /\ \A pc \in CommandPc : [c EXCEPT !.pc = pc] \in Commands
         /\ \A n \in 1..6 : [c EXCEPT !.pc = "field", !.at = n] \in Commands
         /\ \A n \in 1..6, s \in Settings :
              [c EXCEPT !.pc = "field", !.at = n, !.current = s] \in Commands
BY DEF Commands, CommandPc

LEMMA ZoneSteps1 ==
  ASSUME NEW z \in Zones
  PROVE  /\ \A pc \in ZonePcs : [z EXCEPT !.pc = pc] \in Zones
         /\ \A pc \in ZonePcs, f \in File : [z EXCEPT !.pc = pc, !.file = f] \in Zones
         /\ \A h \in [File -> BOOLEAN] : [z EXCEPT !.pc = "in", !.had = h] \in Zones
BY DEF Zones, ZonePcs

LEMMA SettingsChange ==
  ASSUME NEW s \in Settings, NEW f \in Field, NEW v \in Value
  PROVE  [s EXCEPT ![f] = v] \in Settings
BY DEF Settings

-----------------------------------------------------------------------------
LEMMA SettingsInit == Init => SettingsInv
<1> SUFFICES ASSUME Init PROVE SettingsInv
  OBVIOUS
<1> USE DefaultsTyped
<1>1. /\ command.pc = "idle" /\ zone.pc = "idle" /\ zone.file = "localtime"
      /\ main = "off" /\ handlers = FALSE
  BY DEF Init, NoCommand, NoZone
<1>2. StoreTyped /\ SystemTyped
  <2>1. runtime \in [Runtime -> Value] /\ files \in [File -> Content]
        /\ backup \in [File -> Content]
    BY DEF Init, Value, Content, Missing, Broken
  <2> QED
    BY <2>1 DEF Init, StoreTyped, SystemTyped, SyncState, MainPc
<1>3. MemoryIsOnDisk /\ Threads /\ ZoneSteps
  BY <1>1 DEF MemoryIsOnDisk, Threads, ZoneSteps, FirstReplaced, AtField, Started
<1>4. NeverGone /\ FilesWhole
  BY <1>1 DEF Init, NeverGone, FilesWhole, Started, Missing
<1>5. ApplyCanReturn /\ FilesInEffect /\ RuntimeInEffect
  BY <1>1 DEF ApplyCanReturn, FilesInEffect, RuntimeInEffect, Started
<1> QED
  BY <1>2, <1>3, <1>4, <1>5 DEF SettingsInv

-----------------------------------------------------------------------------
(* Every step preserves the invariant, part by part.                       *)

LEMMA StoreStep == SettingsInv /\ [Next]_vars => StoreTyped' /\ MemoryIsOnDisk'
<1> SUFFICES ASSUME SettingsInv, [Next]_vars PROVE StoreTyped' /\ MemoryIsOnDisk'
  OBVIOUS
<1> USE DEF StoreTyped, MemoryIsOnDisk
<1>0. StoreTyped /\ MemoryIsOnDisk /\ SystemTyped /\ Threads
  BY DEF SettingsInv
<1>1. CASE UNCHANGED storeVars /\ (main' # "off" => main # "off")
  BY <1>0, <1>1 DEF storeVars
<1>2. CASE MainLoad
  BY <1>0, <1>2, FieldKinds DEF MainLoad
<1>3. CASE FieldStored
  <2>1. AtField /\ main # "off" /\ main' = main
    BY <1>0, <1>3 DEF FieldStored, AtField, Threads, Started, mainVars
  <2>2. [command.current EXCEPT ![At] = New] \in Settings
    BY <1>0, <2>1, ValuesAtField, SettingsChange DEF SystemTyped, Commands
  <2> QED
    BY <1>0, <1>3, <2>1, <2>2 DEF FieldStored, ReplaceSettings
<1>4. CASE FieldUnstored
  <2>1. main # "off" /\ main' = main /\ command.current \in Settings
    BY <1>0, <1>4 DEF FieldUnstored, Threads, Started, mainVars, SystemTyped, Commands
  <2> QED
    BY <1>0, <1>4, <2>1 DEF FieldUnstored, ReplaceSettings, PersistFails, storeVars
<1>5. CASE WorkerBegin \/ WorkerQuery
  <2>1. main' = main
    BY <1>5 DEF WorkerBegin, WorkerQuery, mainVars
  <2>2. \E state \in SyncState : UpdateTimeSync(state)
    BY <1>5 DEF WorkerBegin, WorkerQuery, SyncState
  <2> QED
    BY <1>0, <2>1, <2>2 DEF UpdateTimeSync, PersistFails, storeVars
<1>6. CASE Restart
  BY <1>0, <1>6, DefaultsTyped DEF Restart, SyncState
<1>7. CASE Zone
  BY <1>0, <1>7, <1>1 DEF Zone, ZonePrepare, ZoneRecover, ZoneAside, ZoneIn, ZoneUnlink,
        ZoneRestore, ZoneClean, mainVars
<1>8. CASE MainDisabled \/ MainStarted \/ MainCamera \/ MainHandlers \/ MainSnapshot
           \/ MainPerson \/ MainRotate \/ StopWorker
  BY <1>0, <1>8, <1>1 DEF MainDisabled, MainStarted, MainCamera, MainHandlers, MainSnapshot,
        MainPerson, MainRotate, StopWorker, mainVars
<1>9. CASE (\E patch \in Patch : Receive(patch)) \/ FieldSkipped \/ FieldApplied
           \/ FieldZone \/ ZoneApplied \/ FieldNotStored \/ FieldUndone \/ ZoneUndone
           \/ CommandEnds \/ NotifyNetworkOnline
  BY <1>0, <1>9, <1>1 DEF Receive, FieldSkipped, FieldApplied, FieldZone, ZoneApplied,
        FieldNotStored, FieldUndone, ZoneUndone, CommandEnds, NotifyNetworkOnline,
        mainVars, PersistFails
<1>10. CASE WorkerTest \/ WorkerSleep \/ WorkerTimeout \/ UNCHANGED vars
  BY <1>0, <1>10, <1>1 DEF WorkerTest, WorkerSleep, WorkerTimeout, vars, mainVars
<1> QED
  BY <1>2, <1>3, <1>4, <1>5, <1>6, <1>7, <1>8, <1>9, <1>10
  DEF Next, Main, MqttThread, Worker

LEMMA TypesStep == SettingsInv /\ [Next]_vars => SystemTyped'
<1> SUFFICES ASSUME SettingsInv, [Next]_vars PROVE SystemTyped'
  OBVIOUS
<1> USE DEF SystemTyped
<1>0. StoreTyped /\ SystemTyped /\ Threads
  BY DEF SettingsInv
<1>1. AtField => command.at \in 1..5 /\ At \in Field /\ Old \in Value /\ New \in Value
  BY <1>0, ValuesAtField
<1>2. CASE Restart
  <2>1. files' \in [File -> Content] /\ backup' \in [File -> Content]
    BY <1>0, <1>2 DEF Restart, PowerFails, Content
  <2> QED
    BY <1>0, <1>2, <2>1, DefaultsTyped DEF Restart, Value, MainPc
<1>3. CASE Main
  <2>1. disk.settings \in Settings /\ stored \in Settings
        /\ disk.settings["led"] \in Value /\ disk.settings["zone"] \in Value
        /\ stored["rotate"] \in Value /\ seen["person"] \in Value
    BY <1>0, FieldsAre DEF StoreTyped, Settings, FieldNames
  <2>2. zone' \in Zones
    <3>1. ASSUME NEW v \in Value, ZoneStarts(v, "main") PROVE zone' \in Zones
      BY <3>1 DEF ZoneStarts, NoZone, Zones, ZonePcs, File, Value
    <3> QED
      BY <1>0, <1>3, <2>1, <3>1, DefaultsTyped DEF Main, MainLoad, MainDisabled, MainStarted,
         MainCamera, MainHandlers, MainSnapshot, MainPerson, MainRotate, StopWorker, fileVars,
         ZoneEnds
  <2>3. runtime' \in [Runtime -> Value]
    BY <1>0, <1>3, <2>1 DEF Main, MainLoad, MainDisabled, MainStarted, Value,
         MainCamera, MainHandlers, MainSnapshot, MainPerson, MainRotate, StopWorker
  <2>4. main' \in MainPc /\ seen' \in Settings
    BY <1>0, <1>3, <2>1 DEF Main, MainLoad, MainDisabled, MainStarted,
         MainCamera, MainHandlers, MainSnapshot, MainPerson, MainRotate, StopWorker, MainPc,
         mainVars
  <2>5. overtaken' \in BOOLEAN /\ handlers' \in BOOLEAN
    BY <1>0, <1>3 DEF Main, MainLoad, MainDisabled, MainStarted, MainCamera, MainHandlers,
         MainSnapshot, MainPerson, MainRotate, StopWorker, mainVars, Overtakes
  <2>6. UNCHANGED <<files, backup, torn, command>>
    BY <1>3 DEF Main, MainLoad, MainDisabled, MainStarted, MainCamera, MainHandlers,
         MainSnapshot, MainPerson, MainRotate, StopWorker, fileVars
  <2> QED
    BY <1>0, <2>2, <2>3, <2>4, <2>5, <2>6
<1>4. CASE Zone
  <2>1. UNCHANGED <<runtime, seen, main, command, overtaken, handlers>>
    BY <1>4 DEF Zone, ZonePrepare, ZoneRecover, ZoneAside, ZoneIn, ZoneUnlink, ZoneRestore,
         ZoneClean, mainVars
  <2>2. zone' \in Zones
    <3>1. ASSUME NEW pc \in ZonePcs, ZonePc(pc) PROVE zone' \in Zones
      BY <1>0, <3>1, ZoneSteps1 DEF ZonePc
    <3>2. ASSUME ReplaceFails PROVE zone' \in Zones
      BY <3>1, <3>2 DEF ReplaceFails, ZonePcs
    <3>3. CASE ZoneAside
      <4>1. [zone.had EXCEPT ![zone.file] = TRUE] \in [File -> BOOLEAN]
        BY <1>0 DEF Zones
      <4>2. [zone EXCEPT !.pc = "in", !.had[zone.file] = TRUE] \in Zones
        BY <1>0, <4>1, ZoneSteps1 DEF Zones
      <4> QED
        BY <3>1, <3>2, <3>3, <4>2 DEF ZoneAside, ZonePcs
    <3>4. CASE ZoneIn
      <4>1. [zone EXCEPT !.pc = "recover", !.file = "timezone"] \in Zones
            /\ [zone EXCEPT !.pc = "clean"] \in Zones
        BY <1>0, ZoneSteps1 DEF ZonePcs, File
      <4> QED
        BY <3>2, <3>4, <4>1 DEF ZoneIn
    <3>5. \A pc \in {"recover", "aside", "failed", "restore", "done", "in"} : pc \in ZonePcs
      BY DEF ZonePcs
    <3> QED
      BY <1>4, <3>1, <3>2, <3>3, <3>4, <3>5 DEF Zone, ZonePrepare, ZoneRecover, ZoneUnlink,
           ZoneRestore, ZoneClean
  <2>3. files' \in [File -> Content]
    BY <1>0, <1>4 DEF Zone, ZonePrepare, ZoneRecover, ZoneAside, ZoneIn, ZoneUnlink,
         ZoneRestore, ZoneClean, RenameAside, RenameBack, RemoveBackups, Content, Zones, File
  <2>4. backup' \in [File -> Content]
    BY <1>0, <1>4 DEF Zone, ZonePrepare, ZoneRecover, ZoneAside, ZoneIn, ZoneUnlink,
         ZoneRestore, ZoneClean, RenameAside, RenameBack, RemoveBackups, Content, Zones, File
  <2>5. torn' \in BOOLEAN
    <3>1. zone.had \in [File -> BOOLEAN] /\ zone.file \in File /\ "localtime" \in File
      BY <1>0 DEF Zones, File
    <3> QED
      BY <1>0, <1>4, <3>1 DEF Zone, ZonePrepare, ZoneRecover, ZoneAside, ZoneIn, ZoneUnlink,
         ZoneRestore, ZoneClean
  <2> QED
    BY <1>0, <2>1, <2>2, <2>3, <2>4, <2>5
<1>5. CASE MqttThread
  <2>1. UNCHANGED <<seen, main, overtaken, handlers, files, backup>>
    BY <1>5 DEF MqttThread, Receive, FieldSkipped, FieldApplied, FieldZone, ZoneApplied,
         FieldStored, FieldNotStored, FieldUndone, ZoneUndone, FieldUnstored, CommandEnds,
         NotifyNetworkOnline, mainVars, fileVars
  <2>2. torn' \in BOOLEAN
    BY <1>0, <1>5 DEF MqttThread, Receive, FieldSkipped, FieldApplied, FieldZone, ZoneApplied,
         FieldStored, FieldNotStored, FieldUndone, ZoneUndone, FieldUnstored, CommandEnds,
         NotifyNetworkOnline, fileVars
  <2>3. zone' \in Zones
    <3>1. ASSUME NEW v \in Value, NEW who \in {"apply", "undo"}, ZoneStarts(v, who)
          PROVE zone' \in Zones
      BY <3>1 DEF ZoneStarts, NoZone, Zones, ZonePcs, File, Value
    <3>2. CASE FieldZone
      <4>1. command.pc = "field" /\ command.at <= Len(Fields) /\ At \in DOMAIN command.patch
        BY <3>2 DEF FieldZone, Changes
      <4>2. New \in Value
        BY <1>0, <4>1, PatchValues DEF New, Commands
      <4> QED
        BY <3>1, <3>2, <4>2 DEF FieldZone
    <3>3. CASE FieldUndone
      BY <1>0, <1>1, <3>1, <3>3 DEF FieldUndone, AtField, fileVars
    <3> QED
      BY <1>0, <1>5, <3>2, <3>3, DefaultsTyped DEF MqttThread, Receive, FieldSkipped,
         FieldApplied, ZoneApplied, FieldStored, FieldNotStored, ZoneUndone, FieldUnstored,
         CommandEnds, NotifyNetworkOnline, fileVars, ZoneEnds
  <2>4. runtime' \in [Runtime -> Value]
    <3>1. ASSUME NEW v \in Value, ApplyRuntime(At, v) PROVE runtime' \in [Runtime -> Value]
      BY <1>0, <3>1 DEF ApplyRuntime
    <3>2. CASE FieldApplied
      BY <1>0, <3>1, <3>2, PatchValues DEF FieldApplied, Changes, New, Commands
    <3>3. CASE FieldUndone
      BY <1>0, <1>1, <3>1, <3>3 DEF FieldUndone, AtField
    <3> QED
      BY <1>0, <1>5, <3>2, <3>3 DEF MqttThread, Receive, FieldSkipped,
         FieldZone, ZoneApplied, FieldStored, FieldNotStored, ZoneUndone, FieldUnstored,
         CommandEnds, NotifyNetworkOnline
  <2>5. command' \in Commands
    <3>1. ASSUME NEW pc \in CommandPc, Command(pc) PROVE command' \in Commands
      BY <1>0, <3>1, CommandSteps DEF Command
    <3>2. ASSUME command.at <= 5, Proceed PROVE command' \in Commands
      <4>1. command.at + 1 \in 1..6
        BY <1>0, <3>2 DEF Commands
      <4> QED
        BY <1>0, <3>2, <4>1, CommandSteps DEF Proceed
    <3>3. ASSUME NEW patch \in Patch, Receive(patch) PROVE command' \in Commands
      BY <1>0, <3>3 DEF Receive, Commands, CommandPc, StoreTyped
    <3>4. CASE FieldStored
      <4>1. command.at \in 1..5 /\ [command.current EXCEPT ![At] = New] \in Settings
        BY <1>0, <1>1, <3>4, SettingsChange DEF FieldStored, AtField, Commands
      <4>2. command.at + 1 \in 1..6
        BY <4>1
      <4> QED
        BY <1>0, <3>4, <4>1, <4>2, CommandSteps DEF FieldStored, Commands
    <3>5. CASE ZoneApplied
      <4>1. command.at <= 5
        BY <1>1, <3>5 DEF ZoneApplied, AtField
      <4> QED
        BY <3>1, <3>2, <3>5, <4>1 DEF ZoneApplied, CommandPc
    <3>6. CASE FieldSkipped
      BY <3>2, <3>6, FieldsAre DEF FieldSkipped
    <3>7. \A pc \in {"store", "zone", "undo", "unstore", "unzone"} : pc \in CommandPc
      BY DEF CommandPc
    <3> QED
      BY <1>0, <1>5, <3>1, <3>3, <3>4, <3>5, <3>6, <3>7, DefaultsTyped DEF MqttThread,
         FieldApplied, FieldZone, FieldNotStored, FieldUndone, ZoneUndone, FieldUnstored,
         CommandEnds, NotifyNetworkOnline
  <2> QED
    BY <1>0, <2>1, <2>2, <2>3, <2>4, <2>5
<1>6. CASE Worker \/ WorkerTimeout \/ UNCHANGED vars
  BY <1>0, <1>6 DEF Worker, WorkerTest, WorkerSleep, WorkerBegin, WorkerQuery, WorkerTimeout,
       vars, mainVars, fileVars
<1> QED
  BY <1>2, <1>3, <1>4, <1>5, <1>6 DEF Next

LEMMA ThreadsStep == SettingsInv /\ [Next]_vars => Threads'
<1> SUFFICES ASSUME SettingsInv, [Next]_vars PROVE Threads'
  OBVIOUS
<1>0. StoreTyped /\ SystemTyped /\ Threads /\ MemoryIsOnDisk
  BY DEF SettingsInv
<1>1. command \in Commands /\ zone \in Zones /\ "zone" # "rotate"
  BY <1>0 DEF SystemTyped
<1> USE DEF Threads, AtField, At, Old, New, Started
<1>2. CASE Restart
  BY <1>2 DEF Restart, NoCommand, NoZone
<1>3. CASE MainLoad
  BY <1>0, <1>3 DEF MainLoad, ZoneStarts, NoZone
<1>4. CASE MainDisabled \/ MainStarted
  BY <1>0, <1>4 DEF MainDisabled, MainStarted, ZoneIs, ZoneEnds, NoZone, storeVars
<1>5. CASE MainCamera \/ MainHandlers \/ MainSnapshot \/ MainPerson \/ MainRotate \/ StopWorker
  BY <1>0, <1>5 DEF MainCamera, MainHandlers, MainSnapshot, MainPerson, MainRotate,
     StopWorker, storeVars, fileVars, mainVars
<1>6. CASE Zone
  <2>1. UNCHANGED <<stored, main, handlers, command>>
    BY <1>6 DEF Zone, ZonePrepare, ZoneRecover, ZoneAside, ZoneIn, ZoneUnlink, ZoneRestore,
       ZoneClean, storeVars, mainVars
  <2>2. zone.pc # "idle" /\ zone'.pc # "idle" /\ zone'.for = zone.for /\ zone'.new = zone.new
    BY <1>1, <1>6 DEF Zone, ZonePrepare, ZoneRecover, ZoneAside, ZoneIn, ZoneUnlink,
       ZoneRestore, ZoneClean, ZonePc, ReplaceFails, Zones
  <2> QED
    BY <1>0, <2>1, <2>2
<1>7. ASSUME NEW patch \in Patch, Receive(patch) PROVE Threads'
  BY <1>0, <1>7 DEF Receive, storeVars, mainVars, fileVars
<1>8. CASE FieldSkipped
  BY <1>0, <1>1, <1>8 DEF FieldSkipped, Proceed, storeVars, mainVars, fileVars, Commands
<1>9. CASE FieldApplied
  BY <1>0, <1>1, <1>9, FieldsAre DEF FieldApplied, Changes, HandlerMissing, Command,
     storeVars, mainVars, fileVars, Commands
<1>10. CASE FieldZone
  BY <1>0, <1>1, <1>10, FieldsAre DEF FieldZone, Changes, ZoneStarts, NoZone, Command,
     storeVars, mainVars, Commands
<1>11. CASE ZoneApplied
  BY <1>0, <1>1, <1>11 DEF ZoneApplied, Command, Proceed, ZoneEnds, NoZone, storeVars,
     mainVars, Commands
<1>12. CASE FieldStored
  BY <1>0, <1>1, <1>12 DEF FieldStored, ReplaceSettings, mainVars, fileVars, Commands
<1>13. CASE FieldNotStored
  BY <1>0, <1>1, <1>13 DEF FieldNotStored, PersistFails, Command, storeVars, mainVars,
     fileVars, Commands
<1>14. CASE FieldUndone
  BY <1>0, <1>1, <1>14 DEF FieldUndone, Command, ZoneStarts, NoZone, storeVars, mainVars,
     fileVars, Commands
<1>15. CASE ZoneUndone
  BY <1>0, <1>1, <1>15 DEF ZoneUndone, Command, ZoneEnds, NoZone, storeVars, mainVars,
     Commands
<1>16. CASE FieldUnstored
  BY <1>0, <1>16 DEF FieldUnstored, NoCommand, ReplaceSettings, PersistFails, storeVars,
     mainVars, fileVars
<1>17. CASE CommandEnds
  BY <1>0, <1>17 DEF CommandEnds, NoCommand, storeVars, mainVars, fileVars
<1>18. CASE NotifyNetworkOnline \/ Worker \/ WorkerTimeout \/ UNCHANGED vars
  <2>1. UNCHANGED <<stored, main, handlers, command, zone>>
    BY <1>18 DEF NotifyNetworkOnline, Worker, WorkerTest, WorkerSleep, WorkerBegin,
       WorkerQuery, WorkerTimeout, UpdateTimeSync, PersistFails, vars, storeVars, mainVars,
       fileVars
  <2> QED
    BY <1>0, <2>1
<1> QED
  BY <1>2, <1>3, <1>4, <1>5, <1>6, <1>7, <1>8, <1>9, <1>10, <1>11, <1>12, <1>13, <1>14,
     <1>15, <1>16, <1>17, <1>18
  DEF Next, Main, MqttThread

\* The steps of TimezoneManager::apply, and what else touches its state.
LEMMA ZoneStepsStep == SettingsInv /\ [Next]_vars => ZoneSteps' /\ NeverGone'
<1> SUFFICES ASSUME SettingsInv, [Next]_vars PROVE ZoneSteps' /\ NeverGone'
  OBVIOUS
<1>0. ZoneSteps /\ NeverGone
  BY DEF SettingsInv
<1>1. /\ zone \in Zones
      /\ files \in [File -> Content] /\ backup \in [File -> Content]
      /\ File = {"localtime", "timezone"}
      /\ zone.new # Missing
  BY DEF SettingsInv, SystemTyped, File, Zones, Value, Missing
<1>2. ASSUME UNCHANGED <<files, backup>>,
             \/ UNCHANGED zone
             \/ zone'.pc \in {"idle", "prepare"} /\ zone'.file = "localtime"
      PROVE  ZoneSteps' /\ NeverGone'
  BY <1>0, <1>2 DEF ZoneSteps, NeverGone, FirstReplaced
<1>a. ASSUME NEW v, NEW who, ZoneStarts(v, who)
      PROVE  zone'.pc \in {"idle", "prepare"} /\ zone'.file = "localtime"
  BY <1>a DEF ZoneStarts, NoZone
<1>b. ASSUME ZoneEnds PROVE zone'.pc \in {"idle", "prepare"} /\ zone'.file = "localtime"
  BY <1>b DEF ZoneEnds, NoZone
<1>c. CASE Restart
  <2>1. /\ zone'.pc = "idle" /\ zone'.file = "localtime"
        /\ \A f \in File : files[f] # Missing => files'[f] # Missing
        /\ \A f \in File : backup[f] # Missing => backup'[f] # Missing
    <3>1. zone'.pc = "idle" /\ zone'.file = "localtime"
      BY <1>c DEF Restart, NoZone
    <3>2. CASE PowerFails
      BY <1>1, <3>1, <3>2 DEF PowerFails, Missing, Broken
    <3>3. CASE UNCHANGED <<files, backup>>
      BY <3>1, <3>3
    <3> QED
      BY <1>c, <3>2, <3>3 DEF Restart
  <2> QED
    BY <1>0, <2>1 DEF ZoneSteps, NeverGone, FirstReplaced
<1>3. CASE Main
  <2>1. /\ UNCHANGED <<files, backup>>
        /\ \/ UNCHANGED zone
           \/ zone'.pc \in {"idle", "prepare"} /\ zone'.file = "localtime"
    BY <1>3, <1>a, <1>b DEF Main, MainLoad, MainDisabled, MainStarted, MainCamera,
       MainHandlers, MainSnapshot, MainPerson, MainRotate, StopWorker, ZoneEnds, fileVars
  <2> QED
    BY <1>2, <2>1
<1>4. CASE MqttThread
  <2>1. /\ UNCHANGED <<files, backup>>
        /\ \/ UNCHANGED zone
           \/ zone'.pc \in {"idle", "prepare"} /\ zone'.file = "localtime"
    BY <1>4, <1>a, <1>b DEF MqttThread, Receive, FieldSkipped, FieldApplied, FieldZone,
       ZoneApplied, FieldStored, FieldNotStored, FieldUndone, ZoneUndone, FieldUnstored,
       CommandEnds, NotifyNetworkOnline, fileVars
  <2> QED
    BY <1>2, <2>1
<1>5. ASSUME NEW pc \in ZonePcs, ZonePc(pc)
      PROVE  /\ zone'.pc = pc /\ zone'.file = zone.file
             /\ zone'.new = zone.new /\ zone'.had = zone.had
  BY <1>1, <1>5 DEF ZonePc, Zones
<1>6. ASSUME ReplaceFails
      PROVE  /\ zone'.pc = IF zone.file = "localtime" THEN "failed" ELSE "unlink"
             /\ zone'.file = zone.file
             /\ zone'.new = zone.new /\ zone'.had = zone.had
  BY <1>1, <1>6 DEF ReplaceFails, ZonePc, Zones
<1> USE DEF ZoneSteps, NeverGone, FirstReplaced
<1>7. CASE Zone
  <2>1. CASE ZonePrepare
    BY <1>0, <1>1, <2>1 DEF ZonePrepare, ZonePc, Zones
  <2>2. CASE ZoneRecover
    BY <1>0, <1>1, <2>2 DEF ZoneRecover, RenameBack, RemoveBackups, ZonePc, ReplaceFails, Zones
  <2>3. CASE ZoneAside
    <3>1. CASE ReplaceFails /\ UNCHANGED <<files, backup>>
      BY <1>0, <1>1, <1>6, <2>3, <3>1 DEF ZoneAside, Zones
    <3>2. ASSUME files[zone.file] # Missing,
                 backup' = [backup EXCEPT ![zone.file] = files[zone.file]],
                 files' = [files EXCEPT ![zone.file] = Missing],
                 zone' = [zone EXCEPT !.pc = "in", !.had[zone.file] = TRUE]
          PROVE  ZoneSteps' /\ NeverGone'
      <4>1. /\ zone'.pc = "in" /\ zone'.file = zone.file
            /\ zone'.new = zone.new /\ zone'.had = [zone.had EXCEPT ![zone.file] = TRUE]
        BY <1>1, <3>2 DEF Zones
      <4>2. zone.had \in [File -> BOOLEAN] /\ zone.file \in File
        BY <1>1 DEF Zones
      <4> QED
        BY <1>0, <1>1, <2>3, <3>2, <4>1, <4>2 DEF ZoneAside
    <3> QED
      BY <1>0, <2>3, <3>1, <3>2 DEF ZoneAside, RenameAside
  <2>4. CASE ZoneIn
    <3>0. zone.had \in [File -> BOOLEAN] /\ zone.file \in File /\ zone.pc = "in"
      BY <1>1, <2>4 DEF Zones, ZoneIn
    <3>1. CASE ReplaceFails /\ UNCHANGED <<files, backup>>
      BY <1>0, <1>1, <1>6, <3>0, <3>1
    <3>2. CASE /\ files' = [files EXCEPT ![zone.file] = backup[zone.file]]
               /\ backup' = [backup EXCEPT ![zone.file] = Missing]
               /\ ReplaceFails
      BY <1>0, <1>1, <1>6, <3>0, <3>2
    <3>3. ASSUME files' = [files EXCEPT ![zone.file] = zone.new], UNCHANGED backup,
                 zone' = IF zone.file = "localtime"
                           THEN [zone EXCEPT !.pc = "recover", !.file = "timezone"]
                           ELSE [zone EXCEPT !.pc = "clean"]
          PROVE  ZoneSteps' /\ NeverGone'
      <4>1. CASE zone.file = "localtime"
        <5>1. /\ zone'.pc = "recover" /\ zone'.file = "timezone"
              /\ zone'.new = zone.new /\ zone'.had = zone.had
          BY <1>1, <3>3, <4>1 DEF Zones
        <5> QED
          BY <1>0, <1>1, <3>0, <3>3, <4>1, <5>1
      <4>2. CASE zone.file = "timezone"
        <5>1. /\ zone'.pc = "clean" /\ zone'.file = "timezone"
              /\ zone'.new = zone.new /\ zone'.had = zone.had
          BY <1>1, <3>3, <4>2 DEF Zones
        <5> QED
          BY <1>0, <1>1, <3>0, <3>3, <4>2, <5>1
      <4> QED
        BY <1>1, <3>0, <4>1, <4>2
    <3> QED
      BY <2>4, <3>1, <3>2, <3>3 DEF ZoneIn, RenameBack
  <2>5. CASE ZoneUnlink
    BY <1>0, <1>1, <2>5 DEF ZoneUnlink, ZonePc, Zones
  <2>6. CASE ZoneRestore
    BY <1>0, <1>1, <2>6 DEF ZoneRestore, RenameBack, ZonePc, Zones
  <2>7. CASE ZoneClean
    BY <1>0, <1>1, <2>7 DEF ZoneClean, RemoveBackups, ZonePc, Zones
  <2> QED
    BY <1>7, <2>1, <2>2, <2>3, <2>4, <2>5, <2>6, <2>7 DEF Zone
<1>8. CASE Worker \/ WorkerTimeout \/ UNCHANGED vars
  BY <1>0, <1>8 DEF Worker, WorkerTest, WorkerSleep, WorkerBegin, WorkerQuery, WorkerTimeout,
     vars, fileVars
<1> QED
  BY <1>c, <1>3, <1>4, <1>7, <1>8 DEF Next

\* What a loss of power leaves incomplete is complete again when the service is up.
LEMMA WholeStep == SettingsInv /\ [Next]_vars => FilesWhole'
<1> SUFFICES ASSUME SettingsInv, [Next]_vars PROVE FilesWhole'
  OBVIOUS
<1>0. FilesWhole /\ NeverGone /\ ZoneSteps /\ Threads
  BY DEF SettingsInv
<1>1. /\ zone \in Zones /\ zone.new \in Value
      /\ files \in [File -> Content] /\ backup \in [File -> Content]
      /\ File = {"localtime", "timezone"}
  BY DEF SettingsInv, SystemTyped, File, Zones
<1>2. /\ Missing \notin Value /\ Broken \notin Value /\ Missing # Broken
      /\ Content = Value \cup {Missing, Broken}
  BY DEF Missing, Broken, Value, Content
<1>3. ASSUME UNCHANGED <<files, backup>>, Started' => Started,
             UNCHANGED zone \/ zone'.pc \in {"idle", "prepare"}
      PROVE  FilesWhole'
  BY <1>0, <1>3 DEF FilesWhole, ZoneSteps, InBackup, FirstReplaced
<1>4. CASE Restart \/ MainLoad \/ MainDisabled
  BY <1>4 DEF Restart, MainLoad, MainDisabled, FilesWhole, Started
<1>5. CASE MainStarted
  BY <1>0, <1>1, <1>2, <1>5 DEF MainStarted, ZoneIs, ZoneEnds, NoZone, ZoneSteps, FilesWhole,
     InBackup, FirstReplaced
<1>6. CASE MainCamera \/ MainHandlers \/ MainSnapshot \/ MainPerson \/ MainRotate \/ StopWorker
  BY <1>3, <1>6 DEF MainCamera, MainHandlers, MainSnapshot, MainPerson, MainRotate, StopWorker,
     fileVars, mainVars, Started
<1>7. CASE MqttThread
  <2>1. UNCHANGED <<files, backup, main>>
    BY <1>7 DEF MqttThread, Receive, FieldSkipped, FieldApplied, FieldZone, ZoneApplied,
       FieldStored, FieldNotStored, FieldUndone, ZoneUndone, FieldUnstored, CommandEnds,
       NotifyNetworkOnline, fileVars, mainVars
  <2>2. UNCHANGED zone \/ zone'.pc \in {"idle", "prepare"}
    <3>1. ASSUME NEW v, NEW who, ZoneStarts(v, who) PROVE zone'.pc = "prepare"
      BY <3>1 DEF ZoneStarts, NoZone
    <3>2. ASSUME ZoneEnds PROVE zone'.pc = "idle"
      BY <3>2 DEF ZoneEnds, NoZone
    <3> QED
      BY <1>7, <3>1, <3>2 DEF MqttThread, Receive, FieldSkipped, FieldApplied, FieldZone,
         ZoneApplied, FieldStored, FieldNotStored, FieldUndone, ZoneUndone, FieldUnstored,
         CommandEnds, NotifyNetworkOnline, fileVars
  <2> QED
    BY <1>3, <2>1, <2>2 DEF Started
<1>8. CASE Worker \/ WorkerTimeout \/ UNCHANGED vars
  BY <1>3, <1>8 DEF Worker, WorkerTest, WorkerSleep, WorkerBegin, WorkerQuery, WorkerTimeout,
     vars, fileVars, mainVars, Started
<1>9. CASE Zone
  <2>1. UNCHANGED main
    BY <1>9 DEF Zone, ZonePrepare, ZoneRecover, ZoneAside, ZoneIn, ZoneUnlink, ZoneRestore,
       ZoneClean, mainVars
  <2> SUFFICES ASSUME Started PROVE FilesWhole'
    BY <2>1 DEF FilesWhole, Started
  <2> DEFINE Whole(f) == /\ files[f] # Broken
                         /\ files[f] = Missing \/ InBackup(f) => backup[f] \in Value
  <2>2. ASSUME \A f \in File : Whole(f)' PROVE FilesWhole'
    BY <2>2 DEF FilesWhole
  <2>3. \A f \in File : Whole(f)
    BY <1>0 DEF FilesWhole
  <2>4. zone.file \in File
    BY <1>1 DEF Zones
  <2>5. ASSUME NEW pc \in ZonePcs, ZonePc(pc) PROVE zone'.pc = pc /\ zone'.file = zone.file
    BY <1>1, <2>5 DEF ZonePc, Zones
  <2>6. ASSUME ReplaceFails
        PROVE  /\ zone'.pc = IF zone.file = "localtime" THEN "failed" ELSE "unlink"
               /\ zone'.file = zone.file
    BY <1>1, <2>6 DEF ReplaceFails, ZonePc, Zones
  <2> USE DEF InBackup, FirstReplaced
  <2>7. CASE ZonePrepare
    BY <1>0, <2>2, <2>3, <2>5, <2>7 DEF ZonePrepare, ZonePcs, ZoneSteps
  <2>8. CASE ZoneRecover
    <3>1. CASE RenameBack(zone.file) /\ files[zone.file] = Missing /\ ZonePc("aside")
      BY <1>1, <1>2, <2>2, <2>3, <2>4, <2>5, <2>8, <3>1 DEF ZoneRecover, RenameBack, ZonePcs
    <3>2. CASE UNCHANGED <<files, backup>> /\ ZonePc("aside")
      BY <1>1, <1>2, <2>2, <2>3, <2>4, <2>5, <2>8, <3>2 DEF ZoneRecover, ZonePcs
    <3>3. CASE RemoveBackups({zone.file}) /\ files[zone.file] # Missing /\ ZonePc("aside")
      BY <1>1, <1>2, <2>2, <2>3, <2>4, <2>5, <2>8, <3>3 DEF ZoneRecover, RemoveBackups, ZonePcs
    <3>4. CASE UNCHANGED <<files, backup>> /\ ReplaceFails
      BY <1>1, <1>2, <2>2, <2>3, <2>4, <2>6, <2>8, <3>4 DEF ZoneRecover
    <3> QED
      BY <2>8, <3>1, <3>2, <3>3, <3>4 DEF ZoneRecover
  <2>9. CASE ZoneAside
    <3>1. CASE /\ files[zone.file] # Missing /\ RenameAside(zone.file)
               /\ zone' = [zone EXCEPT !.pc = "in", !.had[zone.file] = TRUE]
      <4>1. zone'.pc = "in" /\ zone'.file = zone.file
        BY <1>1, <3>1 DEF Zones
      <4> QED
        BY <1>1, <1>2, <2>2, <2>3, <2>4, <2>9, <3>1, <4>1 DEF ZoneAside, RenameAside
    <3>2. CASE UNCHANGED <<files, backup>> /\ ReplaceFails
      BY <1>1, <1>2, <2>2, <2>3, <2>4, <2>6, <2>9, <3>2 DEF ZoneAside
    <3> QED
      BY <1>0, <2>9, <3>1, <3>2 DEF ZoneAside, ZoneSteps
  <2>10. CASE ZoneIn
    <3>1. CASE /\ files' = [files EXCEPT ![zone.file] = zone.new] /\ UNCHANGED backup
               /\ zone' = IF zone.file = "localtime"
                            THEN [zone EXCEPT !.pc = "recover", !.file = "timezone"]
                            ELSE [zone EXCEPT !.pc = "clean"]
      <4>1. CASE zone.file = "localtime"
        <5>1. zone'.pc = "recover" /\ zone'.file = "timezone"
          BY <1>1, <3>1, <4>1 DEF Zones
        <5> QED
          BY <1>1, <1>2, <2>2, <2>3, <2>10, <3>1, <4>1, <5>1 DEF ZoneIn
      <4>2. CASE zone.file = "timezone"
        <5>1. zone'.pc = "clean" /\ zone'.file = "timezone"
          BY <1>1, <3>1, <4>2 DEF Zones
        <5> QED
          BY <1>1, <1>2, <2>2, <2>3, <2>10, <3>1, <4>2, <5>1 DEF ZoneIn
      <4> QED
        BY <1>1, <2>4, <4>1, <4>2
    <3>2. CASE RenameBack(zone.file) /\ ReplaceFails
      BY <1>1, <1>2, <2>2, <2>3, <2>4, <2>6, <2>10, <3>2 DEF ZoneIn, RenameBack
    <3>3. CASE UNCHANGED <<files, backup>> /\ ReplaceFails
      BY <1>1, <1>2, <2>2, <2>3, <2>4, <2>6, <2>10, <3>3 DEF ZoneIn
    <3> QED
      BY <2>10, <3>1, <3>2, <3>3 DEF ZoneIn
  <2>11. CASE ZoneUnlink
    BY <1>0, <1>1, <1>2, <2>2, <2>3, <2>5, <2>11 DEF ZoneUnlink, ZonePcs, ZoneSteps
  <2>12. CASE ZoneRestore
    BY <1>0, <1>1, <1>2, <2>2, <2>3, <2>5, <2>12 DEF ZoneRestore, RenameBack, ZonePcs, ZoneSteps
  <2>13. CASE ZoneClean
    <3>1. \A f \in File : files'[f] \in Value
      BY <1>0, <1>1, <2>13 DEF ZoneClean, RemoveBackups, ZoneSteps
    <3> QED
      BY <1>2, <2>2, <2>5, <2>13, <3>1 DEF ZoneClean, ZonePcs
  <2> QED
    BY <1>9, <2>7, <2>8, <2>9, <2>10, <2>11, <2>12, <2>13 DEF Zone
<1> QED
  BY <1>4, <1>5, <1>6, <1>7, <1>8, <1>9 DEF Next, Main

\* The zone files while a command applies a zone.
LEMMA ApplyStep == SettingsInv /\ [Next]_vars => ApplyCanReturn'
<1> SUFFICES ASSUME SettingsInv, [Next]_vars PROVE ApplyCanReturn'
  OBVIOUS
<1>0. ApplyCanReturn /\ ZoneSteps /\ Threads
  BY DEF SettingsInv
<1>1. /\ zone \in Zones /\ command \in Commands
      /\ files \in [File -> Content] /\ backup \in [File -> Content]
      /\ File = {"localtime", "timezone"}
  BY DEF SettingsInv, SystemTyped, File
<1>2. ASSUME command'.pc # "zone" PROVE ApplyCanReturn'
  BY <1>2 DEF ApplyCanReturn
<1>3. CASE UNCHANGED <<files, backup, zone, command, torn, stored>>
  BY <1>0, <1>3 DEF ApplyCanReturn, InBackup, FirstReplaced
<1>4. CASE Zone
  <2>1. UNCHANGED <<command, stored>>
    BY <1>4 DEF Zone, ZonePrepare, ZoneRecover, ZoneAside, ZoneIn, ZoneUnlink, ZoneRestore,
       ZoneClean, storeVars
  <2>2. ASSUME NEW pc \in ZonePcs, ZonePc(pc)
        PROVE  zone'.pc = pc /\ zone'.file = zone.file
    BY <1>1, <2>2 DEF ZonePc, Zones
  <2>3. ASSUME ReplaceFails
        PROVE  /\ zone'.pc = IF zone.file = "localtime" THEN "failed" ELSE "unlink"
               /\ zone'.file = zone.file
    BY <1>1, <2>3 DEF ReplaceFails, ZonePc, Zones
  <2>4. zone.had \in [File -> BOOLEAN] /\ zone.file \in File
    BY <1>1 DEF Zones
  <2> USE DEF ApplyCanReturn, ZoneSteps, InBackup, FirstReplaced
  <2>5. CASE ZonePrepare
    BY <1>0, <1>1, <2>1, <2>2, <2>5 DEF ZonePrepare, ZonePcs
  <2>6. CASE ZoneRecover
    <3>1. ~torn /\ command.pc = "zone" => files[zone.file] # Missing
      BY <1>0, <1>1, <2>4, <2>6, FieldKinds DEF ZoneRecover, Threads, SettingsInv, StoreTyped,
         Settings
    <3>2. CASE ReplaceFails /\ UNCHANGED <<files, backup>>
      BY <1>0, <1>1, <2>1, <2>3, <2>4, <2>6, <3>2 DEF ZoneRecover
    <3>3. CASE ZonePc("aside") /\ UNCHANGED files
               /\ (UNCHANGED backup \/ RemoveBackups({zone.file}))
      BY <1>0, <1>1, <2>1, <2>2, <2>4, <2>6, <3>3 DEF ZoneRecover, RemoveBackups, ZonePcs
    <3> QED
      BY <2>1, <2>6, <3>1, <3>2, <3>3 DEF ZoneRecover, RemoveBackups
  <2>7. CASE ZoneAside
    <3>1. CASE ReplaceFails /\ UNCHANGED <<files, backup>>
      BY <1>0, <1>1, <2>1, <2>3, <2>4, <2>7, <3>1 DEF ZoneAside
    <3>2. ASSUME backup' = [backup EXCEPT ![zone.file] = files[zone.file]],
                 files' = [files EXCEPT ![zone.file] = Missing],
                 zone' = [zone EXCEPT !.pc = "in", !.had[zone.file] = TRUE]
          PROVE  ApplyCanReturn'
      <4>1. zone'.pc = "in" /\ zone'.file = zone.file
        BY <1>1, <3>2 DEF Zones
      <4> QED
        BY <1>0, <1>1, <2>1, <2>4, <2>7, <3>2, <4>1 DEF ZoneAside
    <3> QED
      BY <1>0, <2>7, <3>1, <3>2 DEF ZoneAside, RenameAside
  <2>8. CASE ZoneIn
    <3>0. zone.pc = "in" /\ zone.had[zone.file] /\ (torn' \/ (~torn => ~torn'))
      BY <1>0, <2>4, <2>8 DEF ZoneIn
    <3>1. CASE torn' = (torn \/ zone.had[zone.file])
      BY <3>0, <3>1
    <3>2. CASE /\ files' = [files EXCEPT ![zone.file] = backup[zone.file]]
               /\ backup' = [backup EXCEPT ![zone.file] = Missing]
               /\ ReplaceFails /\ UNCHANGED torn
      BY <1>0, <1>1, <2>1, <2>3, <2>4, <3>0, <3>2
    <3>3. ASSUME files' = [files EXCEPT ![zone.file] = zone.new],
                 UNCHANGED <<backup, torn>>,
                 zone' = IF zone.file = "localtime"
                           THEN [zone EXCEPT !.pc = "recover", !.file = "timezone"]
                           ELSE [zone EXCEPT !.pc = "clean"]
          PROVE  ApplyCanReturn'
      <4>1. CASE zone.file = "localtime"
        <5>1. zone'.pc = "recover" /\ zone'.file = "timezone"
          BY <1>1, <3>3, <4>1 DEF Zones
        <5> QED
          BY <1>0, <1>1, <2>1, <3>0, <3>3, <4>1, <5>1
      <4>2. CASE zone.file = "timezone"
        BY <1>1, <3>3, <4>2 DEF Zones
      <4> QED
        BY <1>1, <2>4, <4>1, <4>2
    <3> QED
      BY <2>8, <3>1, <3>2, <3>3 DEF ZoneIn, RenameBack
  <2>9. CASE ZoneUnlink
    BY <1>0, <1>1, <2>1, <2>2, <2>9 DEF ZoneUnlink, ZonePcs
  <2>10. CASE ZoneRestore
    BY <1>0, <1>1, <2>1, <2>2, <2>4, <2>10 DEF ZoneRestore, RenameBack, ZonePcs
  <2>11. CASE ZoneClean
    BY <2>2, <2>11 DEF ZoneClean, ZonePcs
  <2> QED
    BY <1>4, <2>5, <2>6, <2>7, <2>8, <2>9, <2>10, <2>11 DEF Zone
<1>5. CASE FieldZone
  <2>1. zone'.pc = "prepare" /\ zone'.file = "localtime"
    BY <1>5 DEF FieldZone, ZoneStarts, NoZone
  <2>2. FilesHave(stored["zone"]) /\ UNCHANGED <<files, torn, stored>>
    BY <1>0, <1>5 DEF FieldZone, SettingsInv, FilesInEffect, Threads, Ahead, storeVars
  <2> QED
    BY <2>1, <2>2 DEF ApplyCanReturn, InBackup, FirstReplaced, FilesHave
<1>6. CASE Main
  <2>1. command.pc = "zone" => Started /\ zone.for = "apply"
    BY <1>0 DEF Threads
  <2>2. command' = command /\ (Started /\ zone.for = "apply" =>
          UNCHANGED <<files, backup, zone, torn, stored>>)
    BY <1>6 DEF Main, MainLoad, MainDisabled, MainStarted, MainCamera, MainHandlers,
       MainSnapshot, MainPerson, MainRotate, StopWorker, fileVars, storeVars, Started
  <2> QED
    BY <1>2, <1>3, <2>1, <2>2
<1>7. CASE NotifyNetworkOnline \/ Worker \/ WorkerTimeout \/ UNCHANGED vars
  BY <1>3, <1>7 DEF NotifyNetworkOnline, Worker, WorkerTest, WorkerSleep, WorkerBegin,
     WorkerQuery, WorkerTimeout, UpdateTimeSync, PersistFails, vars, fileVars, storeVars
<1>8. CASE \/ Restart \/ \E patch \in Patch : Receive(patch)
           \/ FieldSkipped \/ FieldApplied \/ ZoneApplied \/ FieldStored
           \/ FieldNotStored \/ FieldUndone \/ ZoneUndone \/ FieldUnstored \/ CommandEnds
  <2>1. ASSUME NEW pc \in CommandPc \ {"zone"}, Command(pc) PROVE command'.pc # "zone"
    BY <1>1, <2>1 DEF Command, Commands
  <2>2. ASSUME Proceed PROVE command'.pc # "zone"
    BY <1>1, <2>2 DEF Proceed, Commands
  <2>3. ASSUME Restart \/ FieldUnstored \/ CommandEnds \/ FieldStored
        PROVE  command'.pc # "zone"
    <3>1. CASE command' = NoCommand
      BY <3>1 DEF NoCommand
    <3>2. CASE FieldStored
      BY <1>1, <3>2 DEF FieldStored, Commands
    <3> QED
      BY <2>3, <3>1, <3>2 DEF Restart, FieldUnstored, CommandEnds
  <2>5. ASSUME NEW patch \in Patch, Receive(patch) PROVE command'.pc # "zone"
    BY <2>5 DEF Receive
  <2>4. ASSUME \/ FieldSkipped \/ FieldApplied \/ ZoneApplied
               \/ FieldNotStored \/ FieldUndone \/ ZoneUndone
        PROVE  command'.pc # "zone"
    BY <2>1, <2>2, <2>4 DEF FieldSkipped, FieldApplied, ZoneApplied, FieldNotStored,
       FieldUndone, ZoneUndone, CommandPc
  <2> QED
    BY <1>2, <1>8, <2>3, <2>4, <2>5
<1> QED
  BY <1>4, <1>5, <1>6, <1>7, <1>8 DEF Next, MqttThread

LEMMA FilesStep == SettingsInv /\ [Next]_vars => FilesInEffect'
<1> SUFFICES ASSUME SettingsInv, [Next]_vars PROVE FilesInEffect'
  OBVIOUS
<1>0. FilesInEffect /\ ApplyCanReturn /\ ZoneSteps /\ Threads
  BY DEF SettingsInv
<1>1. /\ zone \in Zones /\ command \in Commands /\ stored \in Settings
      /\ "zone" \in Field /\ \A i \in 1..5 : Fields[i] \in Field
  BY FieldsAre, FieldKinds DEF SettingsInv, StoreTyped, SystemTyped
<1>2. CASE UNCHANGED <<files, torn, command, stored>> /\ (Started' => Started)
  BY <1>0, <1>2 DEF FilesInEffect, FilesHave, Ahead, At, New
<1>3. ASSUME UNCHANGED <<files, torn, stored>>, Started,
             command.pc \in {"field", "undo", "unstore", "idle"}, ~Ahead("zone"),
             command'.pc \in {"idle", "field", "unstore"}
      PROVE  FilesInEffect'
  BY <1>0, <1>3 DEF FilesInEffect, FilesHave, Ahead
<1>4. CASE Zone
  <2>1. UNCHANGED <<command, main>> /\ zone.pc # "idle"
    BY <1>4 DEF Zone, ZonePrepare, ZoneRecover, ZoneAside, ZoneIn, ZoneUnlink, ZoneRestore,
       ZoneClean, mainVars
  <2> QED
    BY <1>0, <2>1 DEF FilesInEffect, Threads, Started
<1>5. CASE MainStarted
  <2>1. command.pc = "idle" /\ command' = command /\ UNCHANGED <<files, stored>>
    BY <1>0, <1>5 DEF MainStarted, Threads, Started, storeVars
  <2>2. \A f \in File : files[f] = stored["zone"]
    BY <1>0, <1>5 DEF MainStarted, ZoneIs, ZoneSteps, Threads
  <2> QED
    BY <2>1, <2>2 DEF FilesInEffect, FilesHave, Ahead
<1>6. CASE Restart \/ MainLoad \/ MainDisabled
  BY <1>6 DEF Restart, MainLoad, MainDisabled, FilesInEffect, Started
<1>7. CASE MainCamera \/ MainHandlers \/ MainSnapshot \/ MainPerson \/ MainRotate \/ StopWorker
  BY <1>2, <1>7 DEF MainCamera, MainHandlers, MainSnapshot, MainPerson, MainRotate, StopWorker,
     fileVars, storeVars, mainVars, Started
<1>8. CASE NotifyNetworkOnline \/ Worker \/ WorkerTimeout \/ UNCHANGED vars
  BY <1>2, <1>8 DEF NotifyNetworkOnline, Worker, WorkerTest, WorkerSleep, WorkerBegin,
     WorkerQuery, WorkerTimeout, UpdateTimeSync, PersistFails, vars, fileVars, storeVars,
     mainVars, Started
<1>9. ASSUME NEW patch \in Patch, Receive(patch) PROVE FilesInEffect'
  BY <1>3, <1>9 DEF Receive, storeVars, fileVars, Ahead
<1>10. CASE FieldSkipped
  BY <1>0, <1>1, <1>3, <1>10 DEF FieldSkipped, Proceed, Commands, storeVars, fileVars, Ahead,
     Threads
<1>11. CASE FieldApplied
  <2>1. /\ command'.pc = "store" /\ command'.at = command.at
        /\ command.pc = "field" /\ At # "zone" /\ Started
        /\ UNCHANGED <<files, torn, stored>>
    BY <1>0, <1>1, <1>11 DEF FieldApplied, Command, Commands, storeVars, fileVars, Threads
  <2> QED
    BY <1>0, <2>1 DEF FilesInEffect, FilesHave, Ahead, At
<1>12. CASE FieldZone
  <2>1. command'.pc = "zone"
    BY <1>1, <1>12 DEF FieldZone, Command, Commands
  <2> QED
    BY <2>1 DEF FilesInEffect
<1>13. CASE ZoneApplied
  <2>1. command.pc = "zone" /\ At = "zone" /\ zone.new = New /\ UNCHANGED <<files, torn, stored>>
    BY <1>0, <1>13 DEF ZoneApplied, Threads, storeVars
  <2>2. CASE zone.pc = "done"
    <3>1. /\ command'.pc = "store" /\ command'.at = command.at
          /\ command'.patch = command.patch
      BY <1>1, <1>13, <2>2 DEF ZoneApplied, Command, Commands
    <3>2. \A f \in File : files[f] = New
      BY <1>0, <2>1, <2>2 DEF ZoneSteps
    <3> QED
      BY <2>1, <3>1, <3>2 DEF FilesInEffect, FilesHave, Ahead, At, New
  <2>3. CASE zone.pc = "failed"
    <3>1. command'.pc = "field"
      BY <1>1, <1>13, <2>3 DEF ZoneApplied, Proceed, Commands
    <3>2. FilesHave(stored["zone"])
      BY <1>0, <2>1, <2>3 DEF ApplyCanReturn, InBackup, FirstReplaced, FilesHave
    <3> QED
      BY <2>1, <3>1, <3>2 DEF FilesInEffect, FilesHave, Ahead
  <2> QED
    BY <1>13, <2>2, <2>3 DEF ZoneApplied
<1>14. CASE FieldStored
  <2>1. /\ command.pc = "store" /\ Started /\ stored = command.current
        /\ At \in Field /\ command'.pc = "field"
        /\ UNCHANGED <<files, torn>>
    BY <1>0, <1>1, <1>14 DEF FieldStored, Threads, AtField, Commands, fileVars, At
  <2>2. stored' = [stored EXCEPT ![At] = New]
    BY <1>14, <2>1 DEF FieldStored, ReplaceSettings
  <2>3. stored'["zone"] = IF Ahead("zone") THEN New ELSE stored["zone"]
    BY <1>1, <2>1, <2>2 DEF Settings, Ahead
  <2> QED
    BY <1>0, <2>1, <2>3 DEF FilesInEffect, FilesHave, Ahead
<1>15. CASE FieldNotStored
  <2>1. /\ command.pc = "store" /\ command'.pc = "undo" /\ command'.at = command.at
        /\ command'.patch = command.patch /\ Started
        /\ UNCHANGED <<files, torn, stored>>
    BY <1>0, <1>1, <1>15 DEF FieldNotStored, Command, Commands, PersistFails, storeVars,
       fileVars, Threads
  <2> QED
    BY <1>0, <2>1 DEF FilesInEffect, FilesHave, Ahead, At, New
<1>16. CASE FieldUndone
  <2>1. CASE At = "zone"
    BY <1>1, <1>16, <2>1 DEF FieldUndone, Command, Commands, FilesInEffect
  <2>2. CASE At # "zone"
    BY <1>0, <1>1, <1>3, <1>16, <2>2 DEF FieldUndone, Command, Commands, storeVars, fileVars,
       Ahead, Threads
  <2> QED
    BY <2>1, <2>2
<1>17. CASE ZoneUndone
  <2>1. /\ zone.new = stored["zone"] /\ command'.pc = "unstore"
        /\ UNCHANGED <<files, stored>>
    BY <1>0, <1>1, <1>17 DEF ZoneUndone, Threads, Old, Command, Commands, storeVars
  <2>2. zone.pc = "done" \/ torn'
    BY <1>17 DEF ZoneUndone
  <2> QED
    BY <1>0, <2>1, <2>2 DEF ZoneSteps, FilesInEffect, FilesHave, Ahead
<1>18. CASE FieldUnstored
  <2>1. command.pc = "unstore" /\ Started /\ stored = command.current
    BY <1>0, <1>18 DEF FieldUnstored, Threads
  <2>2. UNCHANGED <<files, torn, stored>> /\ command'.pc = "idle"
    BY <1>18, <2>1 DEF FieldUnstored, ReplaceSettings, PersistFails, storeVars, fileVars,
       NoCommand
  <2> QED
    BY <1>3, <2>1, <2>2 DEF Ahead
<1>19. CASE CommandEnds
  BY <1>0, <1>3, <1>19 DEF CommandEnds, NoCommand, storeVars, fileVars, Ahead, Threads
<1> QED
  BY <1>4, <1>5, <1>6, <1>7, <1>8, <1>9, <1>10, <1>11, <1>12, <1>13, <1>14, <1>15, <1>16,
     <1>17, <1>18, <1>19
  DEF Next, Main, MqttThread

LEMMA RuntimeStep == SettingsInv /\ [Next]_vars => RuntimeInEffect'
<1> SUFFICES ASSUME SettingsInv, [Next]_vars PROVE RuntimeInEffect'
  OBVIOUS
<1>0. RuntimeInEffect /\ Threads
  BY DEF SettingsInv
<1>1. /\ command \in Commands /\ stored \in Settings /\ seen \in Settings
      /\ runtime \in [Runtime -> Value] /\ overtaken \in BOOLEAN /\ disk.settings \in Settings
      /\ Runtime = {"person", "led", "rotate"} /\ Runtime \subseteq Field
      /\ \A i \in 1..5 : Fields[i] \in Field
  BY FieldsAre, FieldKinds DEF SettingsInv, StoreTyped, SystemTyped, Runtime
\* Where neither the runtime nor the settings change.
<1>2. ASSUME UNCHANGED <<runtime, stored, main, overtaken>>,
             \A f \in Runtime : Ahead(f)' <=> Ahead(f),
             Ahead("led") \/ Ahead("rotate") \/ Ahead("person") => New' = New
      PROVE  RuntimeInEffect'
  BY <1>0, <1>1, <1>2 DEF RuntimeInEffect, InEffect
\* Where a field is applied, undone or stored.
<1>3. ASSUME UNCHANGED <<main, overtaken, handlers>>, Started,
             \A f \in Runtime :
               (f = "led" \/ handlers \/ f # At) /\ InEffect(f) => InEffect(f)',
             At = "rotate" => handlers
      PROVE  RuntimeInEffect'
  BY <1>0, <1>1, <1>3 DEF RuntimeInEffect, Threads
<1>4. CASE UNCHANGED <<runtime, stored, main, overtaken, command>>
  BY <1>2, <1>4 DEF Ahead, At, New
<1>5. CASE Main
  <2>1. command' = command /\ (command.pc # "idle" => Started)
    BY <1>0, <1>5 DEF Main, MainLoad, MainDisabled, MainStarted, MainCamera, MainHandlers,
       MainSnapshot, MainPerson, MainRotate, StopWorker, Threads
  <2>2. \A f : Ahead(f)' <=> Ahead(f)
    BY <2>1 DEF Ahead, At
  <2>3. New' = New
    BY <2>1 DEF New, At
  <2>4. CASE MainLoad
    <3>1. command.pc = "idle"
      BY <2>1, <2>4 DEF MainLoad, Started
    <3>2. runtime'["led"] = stored'["led"]
      BY <1>1, <2>4 DEF MainLoad
    <3> QED
      BY <2>1, <2>4, <3>1, <3>2 DEF MainLoad, RuntimeInEffect, InEffect, Ahead
  <2>5. CASE MainDisabled \/ MainStarted
    BY <1>0, <2>2, <2>3, <2>5 DEF MainDisabled, MainStarted, RuntimeInEffect, InEffect, storeVars
  <2>6. CASE MainCamera
    <3>1. /\ UNCHANGED <<stored, overtaken>>
          /\ runtime' = [runtime EXCEPT !["rotate"] = stored["rotate"]]
      BY <2>6 DEF MainCamera, storeVars
    <3>2. ~Ahead("rotate")
      BY <1>0, <2>6 DEF MainCamera, Threads, AtField, Ahead
    <3>3. InEffect("led")'
      BY <1>0, <1>1, <2>2, <2>3, <2>6, <3>1 DEF MainCamera, RuntimeInEffect, InEffect
    <3>4. InEffect("rotate")'
      BY <1>1, <2>2, <3>1, <3>2 DEF InEffect
    <3> QED
      BY <2>6, <3>3, <3>4 DEF MainCamera, RuntimeInEffect
  <2>7. CASE MainHandlers \/ MainSnapshot \/ StopWorker
    BY <1>0, <2>2, <2>3, <2>7 DEF MainHandlers, MainSnapshot, StopWorker, RuntimeInEffect,
       InEffect, storeVars, mainVars
  <2>8. CASE MainPerson
    <3>1. /\ UNCHANGED stored /\ runtime' = [runtime EXCEPT !["person"] = seen["person"]]
          /\ ~overtaken' => ~overtaken /\ command.pc = "idle" /\ seen = stored
          /\ main = "person" /\ main' = "rotate"
      BY <2>8 DEF MainPerson, storeVars, Overtakes
    <3>2. InEffect("led")' /\ (~overtaken' => InEffect("rotate")')
      BY <1>0, <1>1, <2>2, <2>3, <3>1 DEF RuntimeInEffect, InEffect
    <3>3. ~overtaken' => InEffect("person")'
      BY <1>1, <2>2, <3>1 DEF InEffect, Ahead
    <3> QED
      BY <3>1, <3>2, <3>3 DEF RuntimeInEffect
  <2>9. CASE MainRotate
    <3>1. main = "rotate" /\ main' = "up" /\ UNCHANGED stored
      BY <2>9 DEF MainRotate, storeVars
    <3>2. CASE UNCHANGED <<runtime, overtaken>>
      BY <1>0, <2>2, <2>3, <3>1, <3>2 DEF RuntimeInEffect, InEffect
    <3>3. CASE seen["rotate"] = 1 /\ runtime' = [runtime EXCEPT !["rotate"] = 1] /\ Overtakes
      <4>1. ~overtaken' => ~overtaken /\ command.pc = "idle" /\ seen = stored
        BY <3>3 DEF Overtakes
      <4>2. InEffect("led")' /\ (~overtaken' => InEffect("person")')
        BY <1>0, <1>1, <2>2, <2>3, <3>1, <3>3, <4>1 DEF RuntimeInEffect, InEffect
      <4>3. ~overtaken' => InEffect("rotate")'
        BY <1>1, <2>2, <3>1, <3>3, <4>1 DEF InEffect, Ahead
      <4> QED
        BY <3>1, <4>2, <4>3 DEF RuntimeInEffect
    <3> QED
      BY <2>9, <3>2, <3>3 DEF MainRotate
  <2> QED
    BY <1>5, <2>4, <2>5, <2>6, <2>7, <2>8, <2>9 DEF Main
<1>6. CASE Zone \/ NotifyNetworkOnline \/ Worker \/ WorkerTimeout \/ UNCHANGED vars
  BY <1>4, <1>6 DEF Zone, ZonePrepare, ZoneRecover, ZoneAside, ZoneIn, ZoneUnlink, ZoneRestore,
     ZoneClean, NotifyNetworkOnline, Worker, WorkerTest, WorkerSleep, WorkerBegin, WorkerQuery,
     WorkerTimeout, UpdateTimeSync, PersistFails, vars, storeVars, mainVars
<1>7. CASE Restart
  BY <1>7 DEF Restart, RuntimeInEffect
<1>8. ASSUME NEW patch \in Patch, Receive(patch) PROVE RuntimeInEffect'
  BY <1>2, <1>8 DEF Receive, storeVars, mainVars, Ahead
<1>9. ASSUME command.pc \in {"field", "zone", "unzone", "unstore"},
             command.pc = "zone" => At = "zone",
             UNCHANGED <<runtime, stored, mainVars>>,
             \/ command'.pc \in {"field", "zone", "unstore", "idle"}
             \/ command.pc = "zone" /\ command'.pc = "store" /\ command'.at = command.at
      PROVE  RuntimeInEffect'
  BY <1>1, <1>2, <1>9 DEF mainVars, Ahead, At
<1>10. CASE FieldSkipped \/ FieldZone
  BY <1>1, <1>9, <1>10 DEF FieldSkipped, FieldZone, Proceed, Command, Commands, storeVars
<1>11. CASE ZoneApplied \/ ZoneUndone
  BY <1>0, <1>1, <1>9, <1>11 DEF ZoneApplied, ZoneUndone, Proceed, Command, Commands, storeVars,
     Threads
<1>12. CASE CommandEnds
  BY <1>9, <1>12 DEF CommandEnds, NoCommand, storeVars
<1>13. CASE FieldUnstored
  <2>1. stored' = stored /\ command'.pc = "idle" /\ command.pc = "unstore"
    BY <1>0, <1>13 DEF FieldUnstored, Threads, ReplaceSettings, PersistFails, storeVars, NoCommand
  <2> QED
    BY <1>9, <1>13, <2>1 DEF FieldUnstored
\* ApplyRuntime does what the handlers that are there can do.
<1>14. ASSUME NEW v, At \in Field, ApplyRuntime(At, v)
       PROVE  \A f \in Runtime :
                runtime'[f] = IF f = At /\ (f = "led" \/ handlers) THEN v ELSE runtime[f]
  BY <1>1, <1>14 DEF ApplyRuntime
<1>15. CASE FieldApplied
  <2>1. /\ command.pc = "field" /\ command'.pc = "store" /\ command'.at = command.at
        /\ command'.patch = command.patch
        /\ UNCHANGED <<stored, main, overtaken, handlers>>
        /\ At = "rotate" => handlers
    BY <1>1, <1>15 DEF FieldApplied, Command, Commands, storeVars, mainVars, HandlerMissing
  <2>2. At \in Field /\ Started
    BY <1>0, <1>1, <1>15, FieldsAre DEF FieldApplied, Changes, At, Threads, Commands
  <2>3. At' = At /\ New' = New /\ ApplyRuntime(At, New)
    BY <1>15, <2>1 DEF FieldApplied, At, New
  <2>4. ASSUME NEW f \in Runtime, f = "led" \/ handlers \/ f # At, InEffect(f)
        PROVE  InEffect(f)'
    BY <1>14, <2>1, <2>2, <2>3, <2>4 DEF InEffect, Ahead
  <2> QED
    BY <1>3, <2>1, <2>2, <2>4
<1>16. CASE FieldNotStored
  <2>1. /\ command.pc = "store" /\ command'.pc = "undo" /\ command'.at = command.at
        /\ command'.patch = command.patch
        /\ UNCHANGED <<runtime, stored, main, overtaken>>
    BY <1>1, <1>16 DEF FieldNotStored, Command, Commands, PersistFails, storeVars, mainVars
  <2> QED
    BY <1>2, <2>1 DEF Ahead, At, New
<1>17. CASE FieldStored
  <2>1. /\ command.pc = "store" /\ command'.pc = "field"
        /\ UNCHANGED <<runtime, main, overtaken, handlers>>
        /\ Started /\ stored = command.current /\ At \in Field
        /\ At = "rotate" => handlers
    BY <1>0, <1>1, <1>17 DEF FieldStored, Commands, mainVars, Threads, AtField, At
  <2>2. stored' = [stored EXCEPT ![At] = New]
    BY <1>17, <2>1 DEF FieldStored, ReplaceSettings
  <2>3. ASSUME NEW f \in Runtime, InEffect(f) PROVE InEffect(f)'
    BY <1>1, <2>1, <2>2, <2>3 DEF InEffect, Ahead, Settings
  <2> QED
    BY <1>3, <2>1, <2>3
<1>18. CASE FieldUndone
  <2>1. /\ command.pc = "undo" /\ command'.pc \in {"unzone", "unstore"}
        /\ UNCHANGED <<stored, main, overtaken, handlers>>
        /\ At = "rotate" => handlers
        /\ At \in Field /\ Started /\ Old = stored[At]
    BY <1>0, <1>1, <1>18 DEF FieldUndone, Command, Commands, storeVars, mainVars, Threads,
       AtField, At, Old
  <2>2. CASE At = "zone"
    <3>1. UNCHANGED runtime
      BY <1>18, <2>2 DEF FieldUndone
    <3> QED
      BY <1>2, <1>1, <2>1, <2>2, <3>1 DEF Ahead
  <2>3. CASE At # "zone"
    <3>1. ApplyRuntime(At, Old)
      BY <1>18, <2>3 DEF FieldUndone
    <3>2. ASSUME NEW f \in Runtime, f = "led" \/ handlers \/ f # At, InEffect(f)
          PROVE  InEffect(f)'
      BY <1>14, <2>1, <3>1, <3>2 DEF InEffect, Ahead
    <3> QED
      BY <1>3, <2>1, <3>2
  <2> QED
    BY <2>2, <2>3
<1> QED
  BY <1>5, <1>6, <1>7, <1>8, <1>10, <1>11, <1>12, <1>13, <1>15, <1>16, <1>17, <1>18
  DEF Next, MqttThread

-----------------------------------------------------------------------------
(* The theorems.                                                           *)

\* What the store, the commands, TimezoneManager::apply and main's start keep in
\* every reachable state, whatever is patched, refused or interrupted.
THEOREM SettingsAreKept == Spec => []SettingsInv
<1>1. SettingsInv /\ [Next]_vars => SettingsInv'
  BY StoreStep, TypesStep, ThreadsStep, ZoneStepsStep, WholeStep, ApplyStep, FilesStep, RuntimeStep
  DEF SettingsInv
<1> QED
  BY <1>1, SettingsInit, PTL DEF Spec

\* DeviceSettingsStore: what a reader sees in memory is what the file says, also
\* when a file could not be written.
THEOREM MemoryFollowsTheFile == Spec => []MemoryIsOnDisk
<1>1. SettingsInv => MemoryIsOnDisk
  BY DEF SettingsInv
<1> QED
  BY <1>1, SettingsAreKept, PTL

\* TimezoneManager::apply: at no step, after no failed rename and no loss of power, is
\* a zone file gone without its backup; and whatever a loss of power has broken, once
\* the service is up each is complete or its backup is.
THEOREM ZoneFilesAreNeverLost == Spec => []ZoneFilesSurvive
<1>1. SettingsInv => ZoneFilesSurvive
  BY FieldKinds DEF SettingsInv, SystemTyped, NeverGone, FilesWhole, Content, ZoneFilesSurvive
<1> QED
  BY <1>1, SettingsAreKept, PTL

\* apply_settings and main's start: between the commands what is in effect is what is
\* stored, after any number of commands, failures and ends of the process.
THEOREM EffectFollowsTheStore == Spec => []StoredIsInEffect
<1>1. SettingsInv => StoredIsInEffect
  <2> SUFFICES ASSUME SettingsInv, Settled, ~overtaken PROVE
        /\ \A f \in Runtime : runtime[f] = stored[f]
        /\ ~torn => \A f \in File : files[f] = stored["zone"]
    BY DEF StoredIsInEffect
  <2>1. \A f \in Runtime : InEffect(f)
    BY DEF SettingsInv, RuntimeInEffect, Settled, Runtime
  <2>2. ~torn => \A f \in File : files[f] = stored["zone"]
    BY DEF SettingsInv, FilesInEffect, FilesHave, Settled, Started, Ahead
  <2> QED
    BY <2>1, <2>2 DEF InEffect, Ahead, Settled
<1> QED
  BY <1>1, SettingsAreKept, PTL
=============================================================================
