------------------------------ MODULE LocalBackup ------------------------------
(***************************************************************************)
(* Backup and restore of LocalRuntimeManager (local_runtime/manager.py):   *)
(* one command at a time, file by file, in a process that may be lost      *)
(* between any two writes or in the middle of one.  Services run beside    *)
(* it, use the database, and may be started while a command is under way.  *)
(*                                                                         *)
(* The database is the value of its content; local.json always exists and  *)
(* is the value of its settings, without the secret reference, which a     *)
(* backup never holds and a restore leaves alone.  The files a command     *)
(* only appends to (audit and logs) are left out.                          *)
(***************************************************************************)
EXTENDS Naturals, FiniteSets

CONSTANTS
    Versions,     \* contents of a sound database, "empty" among them
    Settings,     \* contents of local.json
    Retention,    \* backup_retention_count
    MaxBackups    \* bound of the model on the backups ever begun

\* validate() does not look at backup_retention_count; with zero every backup
\* is removed by the command that made it.
ASSUME BackupAssumption ==
    /\ Retention \in Nat \ {0}
    /\ MaxBackups \in Nat
    /\ "empty" \in Versions
    /\ {"torn", "none"} \cap (Versions \cup Settings) = {}

Stamps == 1..MaxBackups

VARIABLES
    database,   \* a version, or "torn": it fails the integrity check
    config,     \* settings, or "torn": no command can load it
    backups,    \* the directory of each stamp
    made,       \* the last stamp used
    op,         \* the command under way
    running,    \* the services run
    ended       \* how the last command ended

vars == <<database, config, backups, made, op, running, ended>>

\* A directory is complete once its manifest is written and as long as no file
\* of it is missing.
Dir(kind, db, settings) == [kind |-> kind, db |-> db, config |-> settings]
Absent == Dir("absent", "none", "none")
Partial == Dir("partial", "none", "none")

\* of: the stamp to restore, or 0.  For the properties: its directory when it
\* was validated, whether retention will keep it, and whether no service ran
\* since the command began.
Idle == [name |-> "none", at |-> "none", of |-> 0,
         want |-> Absent, recent |-> FALSE, offline |-> FALSE]

Init ==
    /\ database = "empty"
    /\ config \in Settings
    /\ backups = [b \in Stamps |-> Absent]
    /\ made = 0
    /\ op = Idle
    /\ running = FALSE
    /\ ended = "none"

Goto(at) == op' = [op EXCEPT !.at = at] /\ UNCHANGED ended

End(how) == op' = Idle /\ ended' = how

Complete == {b \in Stamps : backups[b].kind = "complete"}

Present == {b \in Stamps : backups[b].kind # "absent"}

Newer(b) == Cardinality({c \in Present : c > b})

-----------------------------------------------------------------------------
(* backup, which restore calls too.                                         *)

\* A slip: a restore makes no safety backup.
MutantFirst(name) == IF name = "restore" THEN "replace" ELSE "begin"

\* Both commands begin with a backup.
First(name) == "begin"

\* restore validates before anything else: services, manifest.
Restorable == IF running THEN {} ELSE Complete

Begin(name, b) ==
    /\ op = Idle
    /\ config # "torn"
    /\ op' = [name |-> name, at |-> First(name), of |-> b,
              want |-> IF b = 0 THEN Absent ELSE backups[b],
              recent |-> b # 0 /\ Newer(b) < Retention - 1, offline |-> ~running]
    /\ UNCHANGED <<database, config, backups, made, running, ended>>

BeginBackup == Begin("backup", 0)

BeginRestore == \E b \in Restorable : Begin("restore", b)

\* initialize checks the integrity of the database and raises; then mkdir.
MakeDirectory ==
    /\ op.at = "begin"
    /\ IF database = "torn"
       THEN End("raised") /\ UNCHANGED <<backups, made>>
       ELSE /\ made < MaxBackups
            /\ made' = made + 1
            /\ backups' = [backups EXCEPT ![made'] = Partial]
            /\ Goto("copy")
    /\ UNCHANGED <<database, config, running>>

\* shutil.copy2 of the database; of a live one the copy may be torn.
CopyDatabase ==
    /\ op.at = "copy"
    /\ \E db \in {database} \cup (IF running THEN {"torn"} ELSE {}) :
          backups' = [backups EXCEPT ![made].db = db]
    /\ Goto("settings")
    /\ UNCHANGED <<database, config, made, running>>

CopySettings ==
    /\ op.at = "settings"
    /\ backups' = [backups EXCEPT ![made].config = config]
    /\ Goto("manifest")
    /\ UNCHANGED <<database, config, made, running>>

WriteManifest ==
    /\ op.at = "manifest"
    /\ backups' = [backups EXCEPT ![made].kind = "complete"]
    /\ Goto("retain")
    /\ UNCHANGED <<database, config, made, running>>

\* A slip: the sort is not reversed.
MutantExcess == {b \in Present : Cardinality({c \in Present : c < b}) >= Retention}

\* _apply_retention counts directories, complete or not, and spares none.
Excess == {b \in Present : Newer(b) >= Retention}

\* rmtree, from the newest of them on.
Remove ==
    /\ op.at = "retain"
    /\ \E b \in Excess :
          /\ \A c \in Excess : c <= b
          /\ backups' = [backups EXCEPT ![b] = Absent]
    /\ UNCHANGED <<database, config, made, op, running, ended>>

\* A slip: a restore ends with its safety backup.
MutantAfterBackup == "done"

AfterBackup == IF op.name = "restore" THEN "replace" ELSE "done"

Retained ==
    /\ op.at = "retain"
    /\ Excess = {}
    /\ IF AfterBackup = "done" THEN End("returned") ELSE Goto(AfterBackup)
    /\ UNCHANGED <<database, config, backups, made, running>>

-----------------------------------------------------------------------------
(* restore, once the safety backup is made.                                 *)

\* copy2 over the database; it raises where the source is gone.
Replace ==
    /\ op.at = "replace"
    /\ IF backups[op.of].kind = "absent"
       THEN End("raised") /\ UNCHANGED database
       ELSE database' = backups[op.of].db /\ Goto("reconfigure")
    /\ UNCHANGED <<config, backups, made, running>>

Reconfigure ==
    /\ op.at = "reconfigure"
    /\ config' = backups[op.of].config
    /\ End("returned")
    /\ UNCHANGED <<database, backups, made, running>>

-----------------------------------------------------------------------------
(* The loss of the process, services and operators.                         *)

\* What is being written when the process is lost keeps its old content or is
\* cut off.  A directory is a partial one until its manifest is whole, and again
\* as soon as a file of it is removed; what is in it is never looked at again.
Lose ==
    /\ op # Idle
    /\ \/ UNCHANGED <<database, config>>
          /\ backups' = [b \in Stamps |->
                IF backups[b].kind = "partial" THEN Partial ELSE backups[b]]
       \/ op.at = "replace" /\ backups[op.of].kind # "absent"
          /\ database' \in {"torn", "empty"} /\ UNCHANGED <<config, backups>>
       \/ op.at = "reconfigure" /\ config' = "torn" /\ UNCHANGED <<database, backups>>
       \/ op.at = "retain" /\ UNCHANGED <<database, config>>
          /\ \E b \in Excess :
                /\ \A c \in Excess : c <= b
                /\ backups' = [backups EXCEPT ![b] = Partial]
    /\ End("lost")
    /\ UNCHANGED <<made, running>>

\* The services' processes; a command under way does not look again.
Start ==
    /\ ~running /\ config # "torn"
    /\ running' = TRUE
    /\ op' = IF op = Idle THEN Idle ELSE [op EXCEPT !.offline = FALSE]
    /\ UNCHANGED <<database, config, backups, made, ended>>

Stop ==
    /\ running
    /\ running' = FALSE
    /\ UNCHANGED <<database, config, backups, made, op, ended>>

\* A service commits a transaction.
Write ==
    /\ running /\ database # "torn"
    /\ database' \in Versions
    /\ UNCHANGED <<config, backups, made, op, running, ended>>

\* An operator edits local.json, or replaces a torn one, between commands.
Edit ==
    /\ op = Idle
    /\ config' \in Settings
    /\ UNCHANGED <<database, backups, made, op, running, ended>>

-----------------------------------------------------------------------------

Step ==
    \/ MakeDirectory \/ CopyDatabase \/ CopySettings \/ WriteManifest
    \/ Remove \/ Retained \/ Replace \/ Reconfigure

Next ==
    \/ BeginBackup \/ BeginRestore \/ Step \/ Lose
    \/ Start \/ Stop \/ Write \/ Edit

Spec == Init /\ [][Next]_vars

-----------------------------------------------------------------------------
(* Properties.                                                              *)

TypeOK ==
    /\ database \in Versions \cup {"torn"}
    /\ config \in Settings \cup {"torn"}
    /\ backups \in [Stamps -> [kind : {"absent", "partial", "complete"},
                              db : Versions \cup {"none", "torn"},
                              config : Settings \cup {"none"}]]
    /\ made \in 0..MaxBackups
    /\ op.of \in 0..MaxBackups
    /\ running \in BOOLEAN

\* Whatever is lost, raised or removed, a complete backup remains once there is
\* one: retention, which counts the directories that lost commands left behind,
\* too, never removes the last one that can be restored.
OneRemains == [][Complete # {} => Complete' # {}]_vars

\* A restore replaces the database only while a complete backup holds what it
\* replaces, unless a service was started meanwhile.
ReplacedIsKept ==
    [][op.at = "replace" /\ op.offline /\ database' # database =>
          \E b \in Complete : backups[b].db = database]_vars

\* What a restore that was not lost, and during which no service ran, has to
\* end with when the database was sound.
Delivers ==
    op.name = "restore" /\ op' = Idle /\ ended' # "lost" /\ op.offline /\ database # "torn"
        => database' = op.want.db /\ config' = op.want.config

\* A restore of one of the newer backups, those that the safety backup does not
\* displace, ends with the database and the settings that were validated.
RecentIsDelivered == [][op.recent => Delivers]_vars

\* docs/BackupRestore.md: restore verifies checksums, creates a safety backup
\* and then replaces the database, whichever backup it is given.
RestoreDelivers == [][Delivers]_vars
=============================================================================
