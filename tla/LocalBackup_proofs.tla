--------------------------- MODULE LocalBackup_proofs ---------------------------
(***************************************************************************)
(* The three action properties of LocalBackup, for every contents and      *)
(* every backup_retention_count of at least one.  The invariant says what  *)
(* a command under way has achieved: the newest directory is its own, the  *)
(* safety backup holds the database of a restore that runs offline, and a  *)
(* backup that was recent when it was validated has stayed below the       *)
(* retention count.                                                        *)
(***************************************************************************)
EXTENDS LocalBackup, FiniteSetTheorems, TLAPS

Kinds == {"absent", "partial", "complete"}
Dirs == [kind : Kinds, db : Versions \cup {"none", "torn"},
         config : Settings \cup {"none"}]
Ops == [name : {"none", "backup", "restore"},
        at : {"none", "begin", "copy", "settings", "manifest", "retain",
              "replace", "reconfigure"},
        of : 0..MaxBackups, want : Dirs, recent : BOOLEAN, offline : BOOLEAN]

Types ==
    /\ database \in Versions \cup {"torn"}
    /\ config \in Settings \cup {"torn"}
    /\ backups \in [Stamps -> Dirs]
    /\ made \in 0..MaxBackups
    /\ op \in Ops
    /\ running \in BOOLEAN

\* A command has loaded its settings, a torn local.json lets none begin; only a
\* restore has a last part and a backup to keep.
Commands ==
    /\ op.at = "none" <=> op = Idle
    /\ op.at # "none" => config # "torn"
    /\ op.at \in {"replace", "reconfigure"} => op.name = "restore"
    /\ op.recent => op.name = "restore"
    /\ op.name = "restore" => op.of \in Stamps

\* The newest directory is that of the command under way, complete from the
\* manifest on; no stamp is used twice.
Newest ==
    /\ \A b \in Stamps : b > made => backups[b] = Absent
    /\ op.at \in {"copy", "settings", "manifest", "retain", "replace", "reconfigure"}
          => made \in Stamps
    /\ op.at \in {"copy", "settings", "manifest"} => backups[made].kind = "partial"
    /\ op.at \in {"retain", "replace"} => backups[made].kind = "complete"

\* Without a service the newest directory holds the database.
Safe ==
    op.at # "none" /\ op.offline =>
        /\ ~running
        /\ op.at \in {"settings", "manifest", "retain", "replace"}
              => backups[made].db = database

\* A complete directory has both files; the one to restore was made before the
\* newest, and is complete or removed.
Whole ==
    /\ \A b \in Complete : backups[b].db # "none" /\ backups[b].config # "none"
    /\ op.at \in {"settings", "manifest"} => backups[made].db # "none"
    /\ op.at = "manifest" => backups[made].config # "none"
    /\ op.name = "restore" =>
          /\ backups[op.of].kind # "partial"
          /\ IF op.at = "begin" THEN op.of <= made ELSE op.of < made
          /\ op.at = "reconfigure" => op.of \in Complete

\* A recent backup stays as it was validated, and is what the last part of the
\* restore finds.
Kept ==
    op.recent =>
        /\ backups[op.of] = op.want
        /\ op.want.kind = "complete"
        /\ op.at = "begin" => Newer(op.of) < Retention - 1
        /\ op.at \in {"copy", "settings", "manifest", "retain"} => Newer(op.of) < Retention
        /\ op.at = "reconfigure" /\ op.offline => database = op.want.db

IInv == Types /\ Commands /\ Newest /\ Safe /\ Whole /\ Kept

-----------------------------------------------------------------------------
(* Counting the newer directories.                                          *)

\* Sets of stamps are finite.
LEMMA StampsFinite == ASSUME NEW S \in SUBSET Stamps PROVE IsFiniteSet(S) /\ Cardinality(S) \in Nat
<1>1. IsFiniteSet(Stamps)
  BY FS_Interval, BackupAssumption DEF Stamps
<1>2. IsFiniteSet(S)
  BY <1>1, FS_Subset
<1> QED
  BY <1>2, FS_CardinalityType

\* A directory has no more newer ones when none appears.
LEMMA NewerShrinks ==
    ASSUME Present' \subseteq Present, NEW b \in Stamps
    PROVE  Cardinality({c \in Present' : c > b}) <= Newer(b)
<1>1. {c \in Present : c > b} \in SUBSET Stamps
  BY DEF Present
<1>2. {c \in Present' : c > b} \in SUBSET {c \in Present : c > b}
  OBVIOUS
<1> QED
  BY <1>1, <1>2, StampsFinite, FS_Subset DEF Newer

\* It has at most one more when one appears.
LEMMA NewerGrows ==
    ASSUME NEW n \in Stamps, Present' \subseteq Present \cup {n}, NEW b \in Stamps
    PROVE  Cardinality({c \in Present' : c > b}) <= Newer(b) + 1
<1> DEFINE Old == {c \in Present : c > b}
<1>1. Old \in SUBSET Stamps
  BY DEF Present
<1>2. IsFiniteSet(Old) /\ Cardinality(Old) \in Nat
  BY <1>1, StampsFinite
<1>3. IsFiniteSet(Old \cup {n}) /\ Cardinality(Old \cup {n}) <= Cardinality(Old) + 1
  BY <1>2, FS_AddElement
<1>4. {c \in Present' : c > b} \in SUBSET (Old \cup {n})
  OBVIOUS
<1>5. /\ Cardinality({c \in Present' : c > b}) <= Cardinality(Old \cup {n})
      /\ Cardinality({c \in Present' : c > b}) \in Nat
      /\ Cardinality(Old \cup {n}) \in Nat
  BY <1>3, <1>4, FS_Subset, FS_CardinalityType
<1> QED
  BY <1>2, <1>3, <1>5 DEF Newer

\* The newest directory is never in excess.
LEMMA NewestIsKept == ASSUME Types, Newest PROVE made \notin Excess
<1>1. {c \in Present : c > made} = {}
  BY DEF Newest, Present, Absent, Dir
<1>2. Newer(made) = 0
  BY <1>1, FS_EmptySet DEF Newer
<1> QED
  BY <1>2, BackupAssumption DEF Excess

\* Nor is a backup whose restore may count on it.
LEMMA RecentIsKept == ASSUME Types, Commands, Kept, op.at = "retain", op.recent PROVE op.of \notin Excess
<1>1. Newer(op.of) < Retention /\ op.of \in Stamps
  BY DEF Kept, Commands
<1>2. Newer(op.of) \in Nat
  <2>1. {c \in Present : c > op.of} \in SUBSET Stamps
    BY DEF Present
  <2> QED
    BY <2>1, StampsFinite DEF Newer
<1> QED
  BY <1>1, <1>2, BackupAssumption DEF Excess

-----------------------------------------------------------------------------
(* Steps of the program.                                                    *)

\* No command is one, too.
LEMMA IdleIsOp == Idle \in Ops
BY BackupAssumption DEF Idle, Ops, Dirs, Kinds, Absent, Dir

\* A command that ended leaves the newest directory and nothing else to say.
LEMMA EndKeeps ==
    ASSUME IInv, op' = Idle, Types', made' = made, Complete' \subseteq Complete,
           \A b \in Complete' : backups'[b] = backups[b],
           \A b \in Stamps : b > made => backups'[b] = Absent
    PROVE  IInv'
<1>1. Commands' /\ Newest'
  BY BackupAssumption DEF IInv, Commands, Newest, Idle
<1>2. Safe' /\ Kept'
  BY DEF Safe, Kept, Idle
<1>3. Whole'
  BY DEF IInv, Whole, Idle
<1> QED
  BY <1>1, <1>2, <1>3 DEF IInv

\* In particular when no directory changed.
LEMMA EndUnchanged ==
    ASSUME IInv, op' = Idle, backups' = backups, made' = made, running' = running,
           database' \in Versions \cup {"torn"}, config' \in Settings \cup {"torn"}
    PROVE  IInv'
<1>1. Types'
  BY IdleIsOp DEF IInv, Types
<1> QED
  BY <1>1, EndKeeps DEF IInv, Newest, Complete

\* A command begins with what it has validated.
LEMMA BeginKeeps ==
    ASSUME IInv,
           \/ BeginBackup
           \/ BeginRestore
    PROVE  IInv'
<1>1. PICK name \in {"backup", "restore"}, b \in 0..MaxBackups :
        /\ Begin(name, b)
        /\ name = "backup" => b = 0
        /\ name = "restore" => b \in Complete
  BY BackupAssumption DEF BeginBackup, BeginRestore, Restorable, Complete, Stamps
<1>2. /\ op = Idle /\ config # "torn" /\ op'.at = "begin" /\ op'.name = name /\ op'.of = b
      /\ op'.want = (IF b = 0 THEN Absent ELSE backups[b])
      /\ op'.recent = (b # 0 /\ Newer(b) < Retention - 1)
      /\ op'.offline = ~running
      /\ UNCHANGED <<database, config, backups, made, running>>
  BY <1>1 DEF Begin, First
<1>3. op'.want \in Dirs
  BY <1>2 DEF IInv, Types, Stamps, Dirs, Kinds, Absent, Dir
<1>4. Types'
  BY <1>1, <1>2, <1>3 DEF IInv, Types, Begin, First, Ops
<1>5. b \in Complete => b \in Stamps /\ b <= made /\ backups[b].kind = "complete"
  BY DEF IInv, Types, Newest, Complete, Stamps, Absent, Dir
<1>6. Commands'
  <2>1. op' # Idle
    BY <1>2 DEF Idle
  <2>2. op'.recent => op'.name = "restore"
    BY <1>1, <1>2
  <2>3. op'.name = "restore" => op'.of \in Stamps
    BY <1>1, <1>2, <1>5
  <2> QED
    BY <1>2, <2>1, <2>2, <2>3 DEF Commands
<1>7. Newest' /\ Safe'
  BY <1>2 DEF IInv, Newest, Safe
<1>8. Whole'
  <2>1. op'.name = "restore" => b \in Complete
    BY <1>1, <1>2
  <2>2. (backups[b].kind # "partial" /\ b <= made) \/ op'.name # "restore"
    BY <1>5, <2>1
  <2>3. Complete' = Complete
    BY <1>2 DEF Complete
  <2> QED
    BY <1>2, <2>2, <2>3 DEF IInv, Whole
<1>9. Kept'
  <2> SUFFICES ASSUME op'.recent PROVE Kept'
    BY DEF Kept
  <2>1. b # 0 /\ b \in Complete /\ Newer(b) < Retention - 1
    BY <1>1, <1>2
  <2>2. Newer(op.of)' = Newer(b)
    BY <1>2 DEF Newer, Present
  <2> QED
    BY <1>2, <1>5, <2>1, <2>2 DEF Kept
<1> QED
  BY <1>4, <1>6, <1>7, <1>8, <1>9 DEF IInv

\* The new directory is one more above a recent backup.
LEMMA MakeDirectoryKeeps == ASSUME IInv, MakeDirectory PROVE IInv'
<1>1. CASE database = "torn"
  <2>1. op' = Idle /\ UNCHANGED <<backups, made, database, config, running>>
    BY <1>1 DEF MakeDirectory, End
  <2> QED
    BY <2>1, EndUnchanged DEF IInv, Types
<1>2. CASE database # "torn"
  <2>1. /\ op.at = "begin" /\ made < MaxBackups /\ made' = made + 1
        /\ backups' = [backups EXCEPT ![made + 1] = Partial]
        /\ op' = [op EXCEPT !.at = "copy"]
        /\ UNCHANGED <<database, config, running>>
    BY <1>2 DEF MakeDirectory, Goto
  <2>2. made' \in Stamps /\ made \in Nat /\ made' \in 0..MaxBackups
    BY <2>1, BackupAssumption DEF IInv, Types, Stamps
  <2>3. Partial \in Dirs /\ Partial.kind = "partial"
    BY DEF Partial, Dir, Dirs, Kinds
  <2>4. Types'
    BY <2>1, <2>2, <2>3 DEF IInv, Types, Ops
  <2>5. Commands'
    BY <2>1 DEF IInv, Commands, Types, Ops, Idle
  <2>6. Newest'
    BY <2>1, <2>2, <2>3 DEF IInv, Newest, Types, Ops, Stamps
  <2>7. Safe'
    BY <2>1 DEF IInv, Safe, Types, Ops
  <2>8. Kept'
    <3> SUFFICES ASSUME op'.recent PROVE Kept'
      BY DEF Kept
    <3>1. op.recent /\ op'.of = op.of /\ op'.want = op.want /\ op'.at = "copy"
      BY <2>1 DEF IInv, Types, Ops
    <3>2. op.of \in Stamps /\ op.of <= made /\ Newer(op.of) < Retention - 1
      BY <2>1, <3>1 DEF IInv, Commands, Kept, Whole
    <3>3. backups'[op.of] = op.want /\ op.want.kind = "complete" /\ op.of < made'
      BY <2>1, <2>2, <3>1, <3>2 DEF IInv, Kept, Types, Stamps
    <3>4. Present' \subseteq Present \cup {made'}
      BY <2>1 DEF IInv, Types, Present
    <3>5. Cardinality({c \in Present' : c > op.of}) <= Newer(op.of) + 1
      BY <2>2, <3>2, <3>4, NewerGrows
    <3>6. /\ Cardinality({c \in Present' : c > op.of}) \in Nat
          /\ Newer(op.of) \in Nat
      <4>1. {c \in Present' : c > op.of} \in SUBSET Stamps /\ {c \in Present : c > op.of} \in SUBSET Stamps
        BY DEF Present
      <4> QED
        BY <4>1, StampsFinite DEF Newer
    <3>7. Newer(op.of)' < Retention
      BY <3>1, <3>2, <3>5, <3>6, BackupAssumption DEF Newer
    <3> QED
      BY <3>1, <3>3, <3>7 DEF Kept
  <2>9. Whole'
    <3>1. Complete' = Complete /\ made' \notin Complete
      BY <2>1, <2>2, <2>3 DEF IInv, Types, Newest, Stamps, Complete, Absent, Dir
    <3>2. \A b \in Stamps : b # made' => backups'[b] = backups[b]
      BY <2>1 DEF IInv, Types
    <3>3. \A b \in Complete' : backups'[b].db # "none" /\ backups'[b].config # "none"
      BY <3>1, <3>2 DEF IInv, Whole, Complete
    <3>4. op.name = "restore" => op.of \in Stamps /\ op.of <= made /\ backups[op.of].kind # "partial"
      BY <2>1 DEF IInv, Whole, Commands
    <3>5. op'.at = "copy" /\ op'.name = op.name /\ op'.of = op.of
      BY <2>1 DEF IInv, Types, Ops
    <3>6. op.name = "restore" => op.of < made' /\ backups'[op.of] = backups[op.of]
      BY <2>1, <2>2, <3>2, <3>4 DEF Stamps
    <3> QED
      BY <3>3, <3>4, <3>5, <3>6 DEF Whole
  <2> QED
    BY <2>4, <2>5, <2>6, <2>7, <2>8, <2>9 DEF IInv
<1> QED
  BY <1>1, <1>2

\* The copies write to the newest directory alone, which is no kept one.
LEMMA CopyKeeps ==
    ASSUME IInv, CopyDatabase \/ CopySettings \/ WriteManifest PROVE IInv'
<1>1. PICK next \in {"settings", "manifest", "retain"} :
        /\ op.at \in {"copy", "settings", "manifest"}
        /\ op' = [op EXCEPT !.at = next]
        /\ UNCHANGED <<database, config, made, running>>
        /\ next = "settings" => op.at = "copy"
        /\ next = "retain" <=> WriteManifest
  BY DEF CopyDatabase, CopySettings, WriteManifest, Goto, IInv, Types, Ops
<1>2. PICK d \in Dirs :
        /\ backups' = [backups EXCEPT ![made] = d]
        /\ d.kind = IF next = "retain" THEN "complete" ELSE "partial"
        /\ d.db # "none" /\ (next # "settings" => d.config # "none")
        /\ (~running /\ (op.at = "copy" \/ backups[made].db = database)) => d.db = database
  <2>1. made \in Stamps /\ backups[made] \in Dirs /\ backups[made].kind = "partial"
    BY <1>1 DEF IInv, Newest, Types
  <2>2. CASE CopyDatabase
    <3>1. PICK db \in {database} \cup (IF running THEN {"torn"} ELSE {}) :
            backups' = [backups EXCEPT ![made].db = db]
      BY <2>2 DEF CopyDatabase
    <3>2. [backups[made] EXCEPT !.db = db] \in Dirs
      BY <2>1 DEF IInv, Types, Dirs
    <3>3. next = "settings"
      BY <1>1, <2>2 DEF CopyDatabase, Goto, IInv, Types, Ops
    <3>4. db # "none"
      BY <3>1, BackupAssumption DEF IInv, Types
    <3>5. [backups[made] EXCEPT !.db = db].db = db /\ [backups[made] EXCEPT !.db = db].kind = "partial"
      BY <2>1 DEF Dirs
    <3> QED
      BY <2>1, <3>1, <3>2, <3>3, <3>4, <3>5 DEF IInv, Types, Dirs
  <2>3. CASE CopySettings
    <3>1. config \in Settings
      BY <1>1 DEF IInv, Commands, Types
    <3>2. [backups[made] EXCEPT !.config = config] \in Dirs
      BY <2>1, <3>1 DEF Dirs
    <3>3. next # "retain" /\ op.at = "settings"
      BY <1>1, <2>3 DEF CopySettings, WriteManifest
    <3>4. backups[made].db # "none" /\ config # "none"
      BY <3>1, <3>3, BackupAssumption DEF IInv, Whole
    <3> QED
      BY <2>1, <2>3, <3>2, <3>3, <3>4 DEF CopySettings, IInv, Types, Dirs
  <2>4. CASE WriteManifest
    <3>1. [backups[made] EXCEPT !.kind = "complete"] \in Dirs
      BY <2>1 DEF Dirs, Kinds
    <3>2. next = "retain" /\ op.at = "manifest"
      BY <1>1, <2>4 DEF WriteManifest
    <3>3. backups[made].db # "none" /\ backups[made].config # "none"
      BY <3>2 DEF IInv, Whole
    <3> QED
      BY <2>1, <2>4, <3>1, <3>2, <3>3 DEF WriteManifest, IInv, Types, Dirs
  <2> QED
    BY <2>2, <2>3, <2>4
<1>3. /\ made \in Stamps
      /\ op'.at = next /\ op'.of = op.of /\ op'.want = op.want /\ op'.name = op.name
      /\ op'.recent = op.recent /\ op'.offline = op.offline /\ op' \in Ops
      /\ backups' \in [Stamps -> Dirs]
  BY <1>1, <1>2 DEF IInv, Newest, Types, Ops
<1>4. Types'
  BY <1>1, <1>3 DEF IInv, Types
<1>5. Commands'
  BY <1>1, <1>3 DEF IInv, Commands, Idle
<1>6. Newest'
  BY <1>1, <1>2, <1>3 DEF IInv, Newest, Types, Stamps
<1>7. Safe'
  BY <1>1, <1>2, <1>3 DEF IInv, Safe, Types
<1>8. Kept'
  <2> SUFFICES ASSUME op'.recent PROVE Kept'
    BY DEF Kept
  <2>1. /\ op.recent /\ op.of \in Stamps /\ op.of < made /\ Newer(op.of) < Retention
        /\ backups[op.of] = op.want /\ op.want.kind = "complete"
    BY <1>1, <1>3 DEF IInv, Kept, Commands, Whole
  <2>2. backups'[op.of] = op.want
    BY <1>2, <1>3, <2>1 DEF IInv, Types, Stamps
  <2>3. Present' = Present
    BY <1>1, <1>2, <1>3 DEF IInv, Newest, Types, Present
  <2>4. Newer(op.of)' < Retention
    BY <1>3, <2>1, <2>3 DEF Newer
  <2> QED
    BY <1>1, <1>3, <2>1, <2>2, <2>4 DEF Kept
<1>9. Whole'
  <2>1. \A b \in Stamps : b # made => backups'[b] = backups[b]
    BY <1>2 DEF IInv, Types
  <2>2. backups'[made] = d
    BY <1>2, <1>3 DEF IInv, Types
  <2>3. \A b \in Complete' : backups'[b].db # "none" /\ backups'[b].config # "none"
    BY <1>2, <2>1, <2>2 DEF IInv, Whole, Complete
  <2>4. op.name = "restore" => op.of \in Stamps /\ op.of < made /\ backups[op.of].kind # "partial"
    BY <1>1 DEF IInv, Whole, Commands
  <2>5. op.name = "restore" => backups'[op.of].kind # "partial"
    BY <2>1, <2>4 DEF Stamps
  <2> QED
    BY <1>1, <1>2, <1>3, <2>2, <2>3, <2>4, <2>5 DEF Whole
<1> QED
  BY <1>4, <1>5, <1>6, <1>7, <1>8, <1>9 DEF IInv

\* Retention removes neither the newest directory nor a recent backup.
LEMMA RemoveKeeps == ASSUME IInv, Remove PROVE IInv'
<1>1. PICK b \in Excess : backups' = [backups EXCEPT ![b] = Absent]
  BY DEF Remove
<1>2. op.at = "retain" /\ UNCHANGED <<database, config, made, op, running>>
  BY DEF Remove
<1>3. b \in Stamps /\ Absent \in Dirs /\ Absent.kind = "absent"
  BY <1>1 DEF Excess, Present, Absent, Dir, Dirs, Kinds
<1>4. b # made
  BY <1>1, NewestIsKept DEF IInv
<1>5. Types'
  BY <1>1, <1>2, <1>3 DEF IInv, Types
<1>6. Commands'
  BY <1>2 DEF IInv, Commands
<1>7. Newest' /\ Safe'
  BY <1>1, <1>2, <1>3, <1>4 DEF IInv, Newest, Safe, Types
<1>8. Kept'
  <2> SUFFICES ASSUME op.recent PROVE Kept'
    BY <1>2 DEF Kept
  <2>1. op.of \in Stamps /\ op.of # b /\ Newer(op.of) < Retention
    BY <1>1, <1>2, RecentIsKept DEF IInv, Kept, Commands
  <2>2. Present' \subseteq Present
    BY <1>1, <1>3 DEF IInv, Types, Present
  <2>3. Cardinality({c \in Present' : c > op.of}) <= Newer(op.of)
    BY <2>1, <2>2, NewerShrinks
  <2>4. /\ Cardinality({c \in Present' : c > op.of}) \in Nat
        /\ Newer(op.of) \in Nat
    <3>1. {c \in Present' : c > op.of} \in SUBSET Stamps /\ {c \in Present : c > op.of} \in SUBSET Stamps
      BY DEF Present
    <3> QED
      BY <3>1, StampsFinite DEF Newer
  <2>5. Newer(op.of)' < Retention
    BY <1>2, <2>1, <2>3, <2>4, BackupAssumption DEF Newer
  <2>6. backups'[op.of] = backups[op.of]
    BY <1>1, <1>3, <2>1 DEF IInv, Types
  <2> QED
    BY <1>2, <2>5, <2>6 DEF IInv, Kept
<1>9. Whole'
  <2>1. Complete' \subseteq Complete /\ \A c \in Complete' : backups'[c] = backups[c]
    BY <1>1, <1>3 DEF IInv, Types, Complete
  <2>2. op.name = "restore" => op.of \in Stamps /\ backups'[op.of].kind # "partial"
    BY <1>1, <1>2, <1>3 DEF IInv, Types, Whole, Commands
  <2> QED
    BY <1>2, <2>1, <2>2 DEF IInv, Whole
<1> QED
  BY <1>5, <1>6, <1>7, <1>8, <1>9 DEF IInv

\* A restore goes on with its last part, a backup ends.
LEMMA RetainedKeeps == ASSUME IInv, Retained PROVE IInv'
<1>1. op.at = "retain" /\ UNCHANGED <<database, config, backups, made, running>>
  BY DEF Retained
<1>2. CASE op.name = "restore"
  <2>1. op' = [op EXCEPT !.at = "replace"]
    BY <1>2 DEF Retained, AfterBackup, Goto
  <2>2. Types' /\ Commands'
    BY <1>1, <1>2, <2>1 DEF IInv, Types, Ops, Commands, Idle
  <2>3. Newest' /\ Safe'
    BY <1>1, <2>1 DEF IInv, Types, Ops, Newest, Safe
  <2>4. Kept'
    BY <1>1, <2>1 DEF IInv, Types, Ops, Kept
  <2>5. Whole'
    BY <1>1, <2>1 DEF IInv, Types, Ops, Whole, Complete
  <2> QED
    BY <2>2, <2>3, <2>4, <2>5 DEF IInv
<1>3. CASE op.name # "restore"
  <2>1. op' = Idle
    BY <1>3 DEF Retained, AfterBackup, End
  <2> QED
    BY <1>1, <2>1, EndUnchanged DEF IInv, Types
<1> QED
  BY <1>2, <1>3

\* The database is that of the backup.
LEMMA ReplaceKeeps == ASSUME IInv, Replace PROVE IInv'
<1>1. op.at = "replace" /\ UNCHANGED <<config, backups, made, running>>
  BY DEF Replace
<1>2. CASE backups[op.of].kind = "absent"
  <2>1. op' = Idle /\ UNCHANGED database
    BY <1>2 DEF Replace, End
  <2> QED
    BY <1>1, <2>1, EndUnchanged DEF IInv, Types
<1>3. CASE backups[op.of].kind # "absent"
  <2>1. database' = backups[op.of].db /\ op' = [op EXCEPT !.at = "reconfigure"]
    BY <1>3 DEF Replace, Goto
  <2>2. op.name = "restore" /\ op.of \in Complete
    BY <1>1, <1>3 DEF IInv, Commands, Types, Dirs, Kinds, Whole, Complete
  <2>3. database' \in Versions \cup {"torn"}
    BY <2>1, <2>2 DEF IInv, Types, Dirs, Whole, Complete
  <2>4. /\ op'.at = "reconfigure" /\ op'.of = op.of /\ op'.want = op.want /\ op'.name = op.name
        /\ op'.recent = op.recent /\ op'.offline = op.offline /\ op' \in Ops
    BY <2>1 DEF IInv, Types, Ops
  <2>5. Types'
    BY <1>1, <2>3, <2>4 DEF IInv, Types
  <2>6. Commands' /\ Newest' /\ Safe'
    BY <1>1, <2>2, <2>4 DEF IInv, Commands, Newest, Safe, Idle
  <2>7. Whole'
    BY <1>1, <2>2, <2>4 DEF IInv, Whole, Complete
  <2>8. Kept'
    BY <1>1, <2>1, <2>4 DEF IInv, Kept
  <2> QED
    BY <2>5, <2>6, <2>7, <2>8 DEF IInv
<1> QED
  BY <1>2, <1>3

\* The settings are those of the backup, and the command ends.
LEMMA ReconfigureKeeps == ASSUME IInv, Reconfigure PROVE IInv'
<1>1. op.of \in Complete
  BY DEF Reconfigure, IInv, Commands, Whole
<1>2. config' \in Settings
  BY <1>1 DEF Reconfigure, IInv, Types, Dirs, Whole, Complete
<1> QED
  BY <1>2, EndUnchanged DEF Reconfigure, End, IInv, Types

-----------------------------------------------------------------------------
(* Steps of the environment.                                                *)

\* A lost command leaves no more complete directories than it found.
LEMMA LoseKeeps == ASSUME IInv, Lose PROVE IInv'
<1>1. op' = Idle /\ UNCHANGED <<made, running>>
  BY DEF Lose, End
<1>2. Partial \in Dirs /\ Partial.kind = "partial" /\ Partial # Absent
  BY DEF Partial, Absent, Dir, Dirs, Kinds
<1>3. database' \in Versions \cup {"torn"} /\ config' \in Settings \cup {"torn"}
  BY BackupAssumption DEF Lose, IInv, Types
<1>4. CASE UNCHANGED backups
  BY <1>1, <1>3, <1>4, EndUnchanged
<1>5. CASE backups' = [b \in Stamps |->
                IF backups[b].kind = "partial" THEN Partial ELSE backups[b]]
  <2>1. Types'
    BY <1>1, <1>2, <1>3, <1>5, IdleIsOp DEF IInv, Types
  <2>2. Complete' \subseteq Complete /\ \A b \in Complete' : backups'[b] = backups[b]
    BY <1>2, <1>5 DEF Complete
  <2>3. \A b \in Stamps : b > made => backups'[b] = Absent
    BY <1>5 DEF IInv, Newest, Absent, Dir
  <2> QED
    BY <1>1, <2>1, <2>2, <2>3, EndKeeps
<1>6. ASSUME op.at = "retain", NEW b \in Excess, backups' = [backups EXCEPT ![b] = Partial]
      PROVE IInv'
  <2>1. b \in Stamps /\ backups[b].kind # "absent"
    BY DEF Excess, Present
  <2>2. b <= made
    BY <2>1 DEF IInv, Newest, Types, Stamps, Absent, Dir
  <2>3. Types'
    BY <1>1, <1>2, <1>3, <1>6, <2>1, IdleIsOp DEF IInv, Types
  <2>4. Complete' \subseteq Complete /\ \A c \in Complete' : backups'[c] = backups[c]
    BY <1>2, <1>6, <2>1 DEF Complete, IInv, Types
  <2>5. \A c \in Stamps : c > made => backups'[c] = Absent
    BY <1>6, <2>1, <2>2 DEF IInv, Newest, Types, Stamps
  <2> QED
    BY <1>1, <2>3, <2>4, <2>5, EndKeeps
<1> QED
  BY <1>4, <1>5, <1>6 DEF Lose

\* A service that starts takes the offline promise from the command.
LEMMA ServiceKeeps == ASSUME IInv, Start \/ Stop \/ Write \/ Edit PROVE IInv'
<1>1. CASE Start
  <2>1. /\ UNCHANGED <<database, config, backups, made>> /\ running' = TRUE
        /\ op'.at = op.at /\ op'.of = op.of /\ op'.want = op.want /\ op'.name = op.name
        /\ op'.recent = op.recent /\ op'.offline = FALSE /\ op' \in Ops
        /\ op' = Idle <=> op = Idle
    BY <1>1, IdleIsOp DEF Start, IInv, Types, Ops, Commands, Idle
  <2>2. Types' /\ Commands' /\ Newest' /\ Safe'
    BY <2>1 DEF IInv, Types, Commands, Newest, Safe
  <2>3. Whole' /\ Kept'
    BY <2>1 DEF IInv, Whole, Kept, Newer, Present, Complete
  <2> QED
    BY <2>2, <2>3 DEF IInv
<1>2. CASE Stop
  <2>1. UNCHANGED <<database, config, backups, made, op>> /\ running' = FALSE
    BY <1>2 DEF Stop
  <2>2. Types' /\ Commands' /\ Newest' /\ Safe'
    BY <2>1 DEF IInv, Types, Commands, Newest, Safe
  <2>3. Whole' /\ Kept'
    BY <2>1 DEF IInv, Whole, Kept, Newer, Present, Complete
  <2> QED
    BY <2>2, <2>3 DEF IInv
<1>3. CASE Write
  <2>1. UNCHANGED <<config, backups, made, op, running>> /\ running /\ database' \in Versions
    BY <1>3 DEF Write
  <2>2. op.at = "none" \/ ~op.offline
    BY <2>1 DEF IInv, Safe
  <2>3. Types' /\ Commands' /\ Newest' /\ Safe'
    BY <2>1, <2>2 DEF IInv, Types, Commands, Newest, Safe
  <2>4. Whole' /\ Kept'
    BY <2>1, <2>2 DEF IInv, Whole, Kept, Newer, Present, Complete
  <2> QED
    BY <2>3, <2>4 DEF IInv
<1>4. CASE Edit
  BY <1>4, EndUnchanged DEF Edit, IInv, Types
<1> QED
  BY <1>1, <1>2, <1>3, <1>4

-----------------------------------------------------------------------------
(* The theorems.                                                            *)

LEMMA InitIInv == Init => IInv
<1> SUFFICES ASSUME Init PROVE IInv
  OBVIOUS
<1>1. Absent \in Dirs /\ Absent.kind = "absent"
  BY DEF Absent, Dir, Dirs, Kinds
<1>2. Types
  <2>1. database \in Versions \cup {"torn"} /\ config \in Settings \cup {"torn"}
    BY BackupAssumption DEF Init
  <2>2. backups \in [Stamps -> Dirs] /\ op \in Ops
    BY <1>1, IdleIsOp DEF Init
  <2>3. made \in 0..MaxBackups
    BY BackupAssumption DEF Init
  <2>4. running \in BOOLEAN
    BY Zenon DEF Init
  <2> QED
    BY <2>1, <2>2, <2>3, <2>4 DEF Types
<1>3. Commands /\ Newest
  BY BackupAssumption DEF Init, Commands, Newest, Idle, Stamps
<1>4. Safe /\ Whole /\ Kept
  BY <1>1 DEF Init, Safe, Whole, Kept, Complete, Idle
<1> QED
  BY <1>2, <1>3, <1>4 DEF IInv

LEMMA StepIInv == IInv /\ [Next]_vars => IInv'
<1> SUFFICES ASSUME IInv, [Next]_vars PROVE IInv'
  OBVIOUS
<1>1. CASE BeginBackup \/ BeginRestore
  BY <1>1, BeginKeeps
<1>2. CASE Step
  BY <1>2, MakeDirectoryKeeps, CopyKeeps, RemoveKeeps, RetainedKeeps, ReplaceKeeps,
     ReconfigureKeeps DEF Step
<1>3. CASE Lose
  BY <1>3, LoseKeeps
<1>4. CASE Start \/ Stop \/ Write \/ Edit
  BY <1>4, ServiceKeeps
<1>5. CASE UNCHANGED vars
  BY <1>5 DEF vars, IInv, Types, Commands, Newest, Safe, Whole, Kept, Newer, Present, Complete
<1> QED
  BY <1>1, <1>2, <1>3, <1>4, <1>5 DEF Next

\* What a command has achieved at each of its steps, in every reachable state.
THEOREM Invariant == Spec => []IInv
BY InitIInv, StepIInv, PTL DEF Spec

\* Contents of files and directories, commands and stamps stay what they are
\* declared to be.
THEOREM TypeCorrect == Spec => []TypeOK
<1>1. IInv => TypeOK
  BY DEF IInv, Types, TypeOK, Ops, Dirs, Kinds
<1> QED
  BY <1>1, Invariant, PTL

\* Whatever is lost, raised or removed, a complete backup remains once there is
\* one (_apply_retention).
THEOREM OneRemainsHolds == Spec => OneRemains
<1>1. ASSUME IInv, [Next]_vars, Complete # {} PROVE Complete' # {}
  <2>1. CASE Remove \/ (Lose /\ op.at = "retain")
    <3>1. made \in Stamps /\ made \in Complete /\ made \notin Excess
      BY <1>1, <2>1, NewestIsKept DEF IInv, Newest, Remove, Complete
    <3>2. backups'[made] = backups[made]
      BY <1>1, <2>1, <3>1 DEF Remove, Lose, IInv, Types, Complete
    <3> QED
      BY <3>1, <3>2 DEF Complete
  <2>2. CASE MakeDirectory
    <3>1. PICK b \in Complete : TRUE
      BY <1>1
    <3>2. b \in Stamps /\ b # made + 1
      BY <1>1, <3>1 DEF IInv, Newest, Types, Complete, Stamps, Absent, Dir
    <3>3. backups'[b] = backups[b]
      BY <1>1, <2>2, <3>2 DEF MakeDirectory, IInv, Types
    <3> QED
      BY <3>1, <3>3 DEF Complete
  <2>3. CASE CopyDatabase \/ CopySettings \/ WriteManifest
    <3>1. PICK b \in Complete : TRUE
      BY <1>1
    <3>2. b \in Stamps /\ b # made
      BY <1>1, <2>3, <3>1 DEF IInv, Newest, Complete, CopyDatabase, CopySettings, WriteManifest
    <3>3. backups'[b] = backups[b]
      BY <1>1, <2>3, <3>2 DEF CopyDatabase, CopySettings, WriteManifest, IInv, Types
    <3> QED
      BY <3>1, <3>3 DEF Complete
  <2>4. CASE UNCHANGED backups
    BY <1>1, <2>4 DEF Complete
  <2>5. CASE Lose /\ op.at # "retain"
    BY <1>1, <2>5 DEF Lose, Complete, IInv, Types
  <2>6. CASE BeginBackup \/ BeginRestore \/ Retained \/ Replace \/ Reconfigure
             \/ Start \/ Stop \/ Write \/ Edit \/ UNCHANGED vars
    <3>1. UNCHANGED backups
      BY <2>6 DEF Begin, BeginBackup, BeginRestore, Retained, Replace, Reconfigure,
                  Start, Stop, Write, Edit, vars
    <3> QED
      BY <2>4, <3>1
  <2> QED
    BY <1>1, <2>1, <2>2, <2>3, <2>5, <2>6 DEF Next, Step
<1>2. IInv /\ [Next]_vars => [Complete # {} => Complete' # {}]_vars
  BY <1>1
<1> QED
  BY <1>2, Invariant, PTL DEF Spec, OneRemains

\* What a restore replaces is in a complete backup, unless a service was
\* started meanwhile (restore: self.backup()).
THEOREM ReplacedIsKeptHolds == Spec => ReplacedIsKept
<1>1. ASSUME IInv, [Next]_vars, op.at = "replace", op.offline, database' # database
      PROVE  \E b \in Complete : backups[b].db = database
  <2>1. made \in Complete /\ backups[made].db = database
    BY <1>1 DEF IInv, Newest, Safe, Complete
  <2> QED
    BY <2>1
<1> QED
  BY <1>1, Invariant, PTL DEF Spec, ReplacedIsKept

\* A restore of one of the newer backups ends with the database and the settings
\* that were validated (restore, _apply_retention).
THEOREM RecentIsDeliveredHolds == Spec => RecentIsDelivered
<1>1. ASSUME IInv, [Next]_vars, op.recent PROVE Delivers
  <2> SUFFICES ASSUME op.name = "restore", op' = Idle, ended' # "lost", op.offline,
                      database # "torn"
               PROVE  database' = op.want.db /\ config' = op.want.config
    BY DEF Delivers
  <2>1. op # Idle /\ op.at # "none"
    BY <1>1 DEF IInv, Commands, Idle
  <2>2. backups[op.of] = op.want /\ op.want.kind = "complete"
    BY <1>1 DEF IInv, Kept
  <2>3. ~Goto("copy") /\ ~Goto("settings") /\ ~Goto("manifest") /\ ~Goto("retain")
        /\ ~Goto("replace") /\ ~Goto("reconfigure")
    <3>1. ASSUME NEW at, Goto(at) PROVE op'.at = at
      BY <1>1, <3>1 DEF Goto, IInv, Types, Ops
    <3>2. op'.at = "none"
      BY DEF Idle
    <3> QED
      BY <3>1, <3>2
  <2>4. op' # op
    BY <2>1
  <2>5. Reconfigure
    <3>1. ~Lose
      BY DEF Lose, End
    <3>2. ~MakeDirectory /\ ~Retained /\ ~Replace
      BY <2>2, <2>3 DEF MakeDirectory, Retained, Replace, AfterBackup
    <3>3. ~CopyDatabase /\ ~CopySettings /\ ~WriteManifest /\ ~Remove
      BY <2>3, <2>4 DEF CopyDatabase, CopySettings, WriteManifest, Remove
    <3>4. ~BeginBackup /\ ~BeginRestore /\ ~Stop /\ ~Write /\ ~Edit
      BY <2>1, <2>4 DEF BeginBackup, BeginRestore, Begin, Stop, Write, Edit
    <3>5. ~Start
      <4>1. [op EXCEPT !.offline = FALSE].at = op.at
        BY <1>1 DEF IInv, Types, Ops
      <4>2. op'.at = "none"
        BY DEF Idle
      <4> QED
        BY <2>1, <4>1, <4>2 DEF Start
    <3>6. ~UNCHANGED vars
      BY <2>4 DEF vars
    <3> QED
      BY <1>1, <3>1, <3>2, <3>3, <3>4, <3>5, <3>6 DEF Next, Step
  <2> QED
    BY <1>1, <2>2, <2>5 DEF Reconfigure, IInv, Kept
<1> QED
  BY <1>1, Invariant, PTL DEF Spec, RecentIsDelivered
=============================================================================
