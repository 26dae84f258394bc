-------------------------------- MODULE Updater --------------------------------
(***************************************************************************)
(* The processes that share one data directory and one code directory: the  *)
(* gunicorn worker, the worker that takes over after a restart, and the     *)
(* flask commands (app.py), each with a memory of its own that it loads     *)
(* when it starts and saves whole; software updates and rollbacks by the    *)
(* settings page (btpay/frontend/settings_views.py) and by the commands     *)
(* (btpay/updater).  Data is the set of changes it contains.                *)
(*                                                                         *)
(* "Slip" introduces a mistaken form that a property is tested with.        *)
(***************************************************************************)
EXTENDS Integers, Sequences

CONSTANTS
    Servers,        \* gunicorn workers, each for one life
    Commands,       \* runs of flask commands
    Changes,        \* changes of the data, by requests and by commands
    Releases,       \* versions to update to
    MaxUpdates,     \* bound on the recorded updates
    Mixed,          \* the code directory after a copy that broke off
    NoBackup

ASSUME UpdaterAssumption == Servers \cap Commands = {} /\ MaxUpdates \in Nat

VARIABLES
    onDisk,         \* the data files
    code,           \* the version in the code directory
    updates,        \* update_history.json
    proc,           \* every process, its memory, its version and its update
    spawns,         \* workers that the gunicorn master has to start
    requested,      \* history: changes that were answered
    shared          \* history: a change was made beside another process, a restart
                    \* or a start, or was lost in a crash, or in the flush before a
                    \* restart or the save at exit, a file of which failed

updaterVars == <<onDisk, code, updates, proc, spawns, requested, shared>>

Processes == Servers \cup Commands
NotStarted == [run |-> "new", memory |-> {}, version |-> Mixed, job |-> "none",
               entry |-> NoBackup, owed |-> {}]

UpdaterInit ==
    /\ onDisk = {} /\ \E v \in Releases : code = v
    /\ updates = <<>>
    /\ proc = [p \in Processes |-> NotStarted]
    /\ spawns = 1
    /\ requested = {} /\ shared = FALSE

Gone == [NotStarted EXCEPT !.run = "off"]
Running(p) == proc[p].run \in {"up", "ending"}
Working(p, job) == proc[p].run = "up" /\ proc[p].job = job
Goes(p, job) == proc' = [proc EXCEPT ![p].job = job, ![p].entry = NoBackup, ![p].owed = {}]
\* The page can be used again; a command does one thing and returns.
After(p) == IF p \in Servers THEN "none" ELSE "done"
ByItself(p) == \A q \in Processes \ {p} : ~ Running(q)
\* A process that goes on with a memory that is not on disk.
Unsaved(q) == proc[q].run = "up" /\ proc[q].job # "hup" /\ proc[q].memory # onDisk
NoHistoryChange == UNCHANGED <<requested, shared>>
\* save_to_disk: a file that cannot be written keeps what it had, and the save goes
\* on and reports nothing.
Written(p, files) == (proc[p].memory \cap files) \cup (onDisk \ files)

-------------------------------------------------------------------------------
(* Processes *)

\* create_app: load_from_disk, the version of the code that is there.  A command
\* starts the background services too, as it does not run under gunicorn.
StartProcess(p) ==
    /\ proc[p].run = "new" /\ code # Mixed
    /\ p \in Servers => spawns > 0
    /\ spawns' = IF p \in Servers THEN spawns - 1 ELSE spawns
    /\ proc' = [proc EXCEPT ![p] = [NotStarted EXCEPT !.run = "up", !.memory = onDisk,
                                                      !.version = code]]
    /\ shared' = (shared \/ \E q \in Processes : Unsaved(q))
    /\ UNCHANGED <<onDisk, code, updates, requested>>

\* A save of a row, by a request, user-create, wallet-create or user-reset-totp.
Change(p, c) ==
    /\ Running(p) /\ c \notin requested
    /\ p \in Commands => proc[p].job = "none"
    /\ proc' = [proc EXCEPT ![p].memory = @ \cup {c},
                            ![p].job = IF p \in Servers THEN @ ELSE "done"]
    /\ requested' = requested \cup {c}
    /\ shared' = (shared \/ ~ ByItself(p) \/ proc[p].run = "ending" \/ proc[p].job = "hup")
    /\ UNCHANGED <<onDisk, code, updates, spawns>>

\* AutoSaver._run; save_to_disk at the end of a command.
AutoSave(p, files) ==
    /\ proc[p].run = "up" /\ onDisk # proc[p].memory
    /\ onDisk' = Written(p, files)
    /\ NoHistoryChange /\ UNCHANGED <<code, updates, proc, spawns>>

\* A command returns, a worker has finished its requests: shutdown_save runs at
\* exit, whatever the process has been started for; nobody learns that it failed.
EndProcess(p, files) ==
    /\ IF p \in Servers THEN proc[p].run = "ending"
       ELSE proc[p].run = "up" /\ proc[p].job \in {"none", "done"}
    /\ onDisk' = Written(p, files)
    /\ shared' = (shared \/ onDisk' # proc[p].memory)
    /\ proc' = [proc EXCEPT ![p] = Gone]
    /\ UNCHANGED <<code, updates, spawns, requested>>

\* The worker is killed; the master starts another.
KillServer(p) ==
    /\ p \in Servers /\ Running(p)
    /\ proc' = [proc EXCEPT ![p] = Gone]
    /\ spawns' = IF proc[p].run = "up" THEN spawns + 1 ELSE spawns
    /\ shared' = (shared \/ ~ proc[p].memory \subseteq onDisk)
    /\ UNCHANGED <<onDisk, code, updates, requested>>

-------------------------------------------------------------------------------
(* Updates: updates_apply, and the update command, which does not save first. *)

\* Slip: the page backs up what was saved last.
UpdatesApplyUnsaved(p, files) ==
    /\ p \in Servers /\ Working(p, "none") /\ Len(updates) < MaxUpdates
    /\ proc' = [proc EXCEPT ![p].job = "backup", ![p].owed = proc[p].memory]
    /\ NoHistoryChange /\ UNCHANGED <<onDisk, code, updates, spawns>>

\* The checks passed or were skipped.  A save that fails is passed over.
UpdatesApply(p, files) ==
    /\ p \in Servers /\ Working(p, "none") /\ Len(updates) < MaxUpdates
    /\ onDisk' = Written(p, files)
    /\ proc' = [proc EXCEPT ![p].job = "backup", ![p].owed = proc[p].memory \cap files]
    /\ NoHistoryChange /\ UNCHANGED <<code, updates, spawns>>

UpdateCmd(p) ==
    /\ p \in Commands /\ Working(p, "none") /\ Len(updates) < MaxUpdates
    /\ Goes(p, "backup")
    /\ NoHistoryChange /\ UNCHANGED <<onDisk, code, updates, spawns>>

\* create_code_backup, create_data_backup: either may fail, and the update goes on
\* without it.  The files include update_history.json.
BackUp(p, ofCode, ofData) ==
    /\ Working(p, "backup")
    /\ proc' = [proc EXCEPT ![p].job = "apply", ![p].entry =
            [from |-> proc[p].version,
             code |-> IF ofCode THEN code ELSE NoBackup,
             data |-> IF ofData THEN [rows |-> onDisk, updates |-> updates] ELSE NoBackup,
             owed |-> proc[p].owed \cap requested, to |-> NoBackup]]
    /\ NoHistoryChange /\ UNCHANGED <<onDisk, code, updates, spawns>>

\* fetch_tags, checkout_tag: what they return is not looked at.
CheckOut(p, v, done) ==
    /\ Working(p, "apply")
    /\ code' = IF done THEN v ELSE code
    /\ proc' = [proc EXCEPT ![p].job = "record", ![p].entry.to = v]
    /\ NoHistoryChange /\ UNCHANGED <<onDisk, updates, spawns>>

\* validate_zip, apply_zip: refused, copied, or broken off among the files.
ApplyZip(p, v) ==
    /\ Working(p, "apply")
    /\ \/ code' = v /\ proc' = [proc EXCEPT ![p].job = "record", ![p].entry.to = v]
       \/ code' \in {code, Mixed} /\ Goes(p, After(p))
    /\ NoHistoryChange /\ UNCHANGED <<onDisk, updates, spawns>>

\* pip_install failed.
InstallFails(p) ==
    /\ Working(p, "record")
    /\ Goes(p, After(p))
    /\ NoHistoryChange /\ UNCHANGED <<onDisk, code, updates, spawns>>

\* record_update; the page restarts two seconds later.
RecordUpdate(p) ==
    /\ Working(p, "record")
    /\ updates' = Append(updates, proc[p].entry)
    /\ Goes(p, IF p \in Servers THEN "restart" ELSE "done")
    /\ NoHistoryChange /\ UNCHANGED <<onDisk, code, spawns>>

\* restore_code_backup, restore_data_backup: what they return is not looked at.  The
\* code is unpacked, or that fails before the first file or among them.
RestoreCode(entry) == entry.code # NoBackup /\ code' \in {entry.code, code, Mixed}
\* File by file, of which "files" are written before it breaks off.  The history of
\* updates is one of them.
RestoreData(entry, files) ==
    /\ entry.data # NoBackup
    /\ onDisk' = (entry.data.rows \cap files) \cup (onDisk \ files)
    /\ requested' = (entry.data.rows \cap files) \cup (requested \ files)
    /\ updates' \in {entry.data.updates, updates}
Restores(entry) ==
    \/ \E files \in SUBSET Changes : RestoreData(entry, files)
    \/ UNCHANGED <<onDisk, updates, requested>>

\* The page rolls back what the owner asks for, and restarts.
UpdatesRollback(p, n) ==
    /\ p \in Servers /\ Working(p, "none")
    /\ RestoreCode(updates[n])
    /\ Restores(updates[n])
    /\ Goes(p, "restart")
    /\ UNCHANGED <<spawns, shared>>

\* The command rolls back what there is.
UpdateRollbackCmd(p, n) ==
    /\ p \in Commands /\ Working(p, "none")
    /\ RestoreCode(updates[n])
    /\ Restores(updates[n])
    /\ Goes(p, "done")
    /\ UNCHANGED <<spawns, shared>>

\* Slip: the worker is replaced without saving.
FlushNothing(p, files) ==
    /\ Working(p, "restart")
    /\ Goes(p, "hup")
    /\ UNCHANGED <<onDisk, code, updates, spawns, requested, shared>>

\* trigger_restart: save_to_disk, which may fail, and then SIGHUP to the master.
Flush(p, files) ==
    /\ Working(p, "restart")
    /\ onDisk' = Written(p, files)
    /\ shared' = (shared \/ onDisk' # proc[p].memory)
    /\ Goes(p, "hup")
    /\ UNCHANGED <<code, updates, spawns, requested>>

\* The master starts a worker and asks the old one to leave.
HangUp(p) ==
    /\ Working(p, "hup")
    /\ proc' = [proc EXCEPT ![p].run = "ending", ![p].job = "none"]
    /\ spawns' = spawns + 1
    /\ NoHistoryChange /\ UNCHANGED <<onDisk, code, updates>>

UpdateStep(p) ==
    \/ \E files \in SUBSET Changes : UpdatesApply(p, files) \/ Flush(p, files)
    \/ UpdateCmd(p)
    \/ \E ofCode, ofData \in BOOLEAN : BackUp(p, ofCode, ofData)
    \/ \E v \in Releases : ApplyZip(p, v) \/ \E done \in BOOLEAN : CheckOut(p, v, done)
    \/ InstallFails(p) \/ RecordUpdate(p)
    \/ \E n \in DOMAIN updates : UpdatesRollback(p, n) \/ UpdateRollbackCmd(p, n)
    \/ HangUp(p)

UpdaterNext ==
    \E p \in Processes :
        \/ StartProcess(p) \/ KillServer(p)
        \/ \E files \in SUBSET Changes : AutoSave(p, files) \/ EndProcess(p, files)
        \/ UpdateStep(p)
        \/ \E c \in Changes : Change(p, c)

UpdaterSpec == UpdaterInit /\ [][UpdaterNext]_updaterVars

-------------------------------------------------------------------------------
(* Properties *)

\* A worker that takes over has everything that was answered and not rolled back,
\* if every change was made by a process that had the directory to itself and was
\* not about to leave, none was killed before it saved, and no file failed in the
\* last save of one, the flush before a restart or the save at exit, which swallow
\* it.  An earlier save may fail.
HandoverIsComplete ==
    ~ shared =>
        \A p \in Processes : Running(p) /\ ByItself(p) => requested \subseteq proc[p].memory

\* The data backup of an update has what the process had in memory when the owner
\* started it and nobody rolled back before it was taken, as far as the files of
\* its save could be written.
BackupIsComplete ==
    ~ shared =>
        \A n \in DOMAIN updates :
            updates[n].data # NoBackup => updates[n].owed \subseteq updates[n].data.rows
===============================================================================
