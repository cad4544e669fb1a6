---------------------------- MODULE ConfigBackup ----------------------------
(***************************************************************************)
(* Export of the configuration into a bundle, and import of a bundle: the  *)
(* chosen files are copied to a snapshot, replaced one by one, and put     *)
(* back from the snapshot when a replacement fails.  The content of a file *)
(* is the number of the save that wrote it; 0 is an absent file, Defaults  *)
(* what an export packs for one.                                           *)
(***************************************************************************)
EXTENDS Naturals, Sequences
CONSTANTS
  History,       \* backup_max_history
  MaxSaves,      \* bound: saves by the rest of the server
  MaxImports     \* bound: imports
ASSUME BackupBounds ==
  History \in Nat /\ MaxSaves \in Nat \ {0} /\ MaxImports \in Nat
VARIABLES
  live,          \* the files of the running server
  bundles,       \* bundle files at hand: the content of some of the files, and whether intact
  export,        \* an export in progress: what it has read, what it still reads
  job,           \* an import in progress
  snapshots,     \* the snapshot directory, oldest first
  before,        \* history: the files when the import began
  meddled,       \* history: another writer saved during the import
  broken,        \* history: a crash or a failed rollback ended an import
  saves, imports
backupVars == <<live, bundles, export, job, snapshots, before, meddled, broken, saves, imports>>

Files == {"users", "cameras", "settings", "hostname", "certs"}
Components == {"users", "cameras", "settings", "trust"}
FilesOf(scope) ==
  (scope \cap {"users", "cameras"})
    \cup (IF "settings" \in scope THEN {"settings", "hostname"} ELSE {})
    \cup (IF "trust" \in scope THEN {"certs"} ELSE {})
(* _normalise_export_options, _normalise_restore_options                   *)
Scopes == {s \in SUBSET Components : s # {} /\ ("trust" \in s => "cameras" \in s)}

(* The order of _build_payload's reads and of _render_targets              *)
ReadOrder == [settings |-> 1, users |-> 2, cameras |-> 3, certs |-> 4, hostname |-> 5]
ApplyOrder == [users |-> 1, cameras |-> 2, settings |-> 3, hostname |-> 4, certs |-> 5]
First(order, files) == {f \in files : \A g \in files : order[f] <= order[g]}

Defaults == MaxSaves + 1
NoFiles == [f \in {} |-> 0]
NoExport == [got |-> NoFiles, todo |-> {}, on |-> FALSE]
NoJob == [at |-> "idle", todo |-> {}, from |-> NoFiles, snap |-> NoFiles, cleared |-> {}, stuck |-> {}]
Targets == DOMAIN job.snap

BackupInit ==
  /\ live = [f \in Files |-> IF f = "hostname" THEN 0 ELSE 1]
  /\ bundles = {} /\ export = NoExport /\ job = NoJob /\ snapshots = <<>>
  /\ before = live /\ meddled = FALSE /\ broken = FALSE
  /\ saves = 1 /\ imports = 0

BeginExport(scope) ==
  /\ ~export.on /\ bundles = {}
  /\ export' = [got |-> NoFiles, todo |-> FilesOf(scope), on |-> TRUE]
  /\ UNCHANGED <<live, bundles, job, snapshots, before, meddled, broken, saves, imports>>

(* The store reads defaults where a file is absent, _read_hostname falls   *)
(* back on the settings that were read before.                             *)
Reads(f) ==
  IF live[f] # 0 THEN live[f] ELSE IF f = "hostname" THEN export.got["settings"] ELSE Defaults

ExportRead ==
  /\ export.on
  /\ \E f \in First(ReadOrder, export.todo) :
       export' = [export EXCEPT !.todo = @ \ {f},
                    !.got = [g \in DOMAIN @ \cup {f} |-> IF g = f THEN Reads(f) ELSE @[g]]]
  /\ UNCHANGED <<live, bundles, job, snapshots, before, meddled, broken, saves, imports>>

EndExport ==
  /\ export.on /\ export.todo = {}
  /\ bundles' = bundles \cup {[files |-> export.got, intact |-> TRUE]} /\ export' = NoExport
  /\ UNCHANGED <<live, job, snapshots, before, meddled, broken, saves, imports>>

(* A bundle file is damaged on its way                                     *)
Damage(b) ==
  /\ b.intact /\ bundles' = bundles \cup {[b EXCEPT !.intact = FALSE]}
  /\ UNCHANGED <<live, export, job, snapshots, before, meddled, broken, saves, imports>>

(* _load_bundle: the passphrase decrypts it and the signature fits         *)
Authentic(b) == b.intact
(* _normalise_payload: every component asked for is in it                  *)
Complete(b, scope) == FilesOf(scope) \subseteq DOMAIN b.files
(* _create_snapshot                                                        *)
Snapshot(scope) == [f \in FilesOf(scope) |-> live[f]]

(* import_bundle up to _create_snapshot; a bundle that is not accepted     *)
(* changes nothing.                                                        *)
BeginImport(b, scope) ==
  /\ job.at = "idle" /\ imports < MaxImports /\ imports' = imports + 1
  /\ Authentic(b) /\ Complete(b, scope)
  /\ job' = [at |-> "apply", todo |-> FilesOf(scope), from |-> b.files,
             snap |-> Snapshot(scope), cleared |-> {}, stuck |-> {}]
  /\ snapshots' = Append(snapshots, Snapshot(scope))
  /\ before' = live /\ meddled' = FALSE /\ broken' = FALSE
  /\ UNCHANGED <<live, bundles, export, saves>>

(* rmtree in _replace_dir; unlink or rmtree in _restore_snapshot           *)
Clear ==
  /\ job.at # "idle"
  /\ \E f \in First(ApplyOrder, job.todo) \ job.cleared :
       /\ job.at = "rollback" \/ f = "certs"
       /\ live' = [live EXCEPT ![f] = 0]
       /\ job' = [job EXCEPT !.cleared = {f}]
  /\ UNCHANGED <<bundles, export, snapshots, before, meddled, broken, saves, imports>>

(* _restore_snapshot goes on although what is there could not be removed   *)
ClearFails ==
  /\ job.at = "rollback"
  /\ \E f \in First(ApplyOrder, job.todo) \ job.cleared :
       /\ live[f] # 0
       /\ job' = [job EXCEPT !.cleared = {f}, !.stuck = @ \cup {f}]
  /\ UNCHANGED <<live, bundles, export, snapshots, before, meddled, broken, saves, imports>>

(* what did not exist is not put back *)
Contents(f) ==
  IF job.at = "apply" THEN job.from[f] ELSE IF job.snap[f] = 0 THEN live[f] ELSE job.snap[f]

(* The rename of _replace_file, the move of _replace_dir, the copy of      *)
(* _restore_snapshot; copytree raises where the directory is still there   *)
PutFile ==
  /\ job.at # "idle"
  /\ \E f \in First(ApplyOrder, job.todo) :
       /\ f \in job.cleared \/ (job.at = "apply" /\ f # "certs")
       /\ job.at = "rollback" /\ f = "certs" => 0 \in {live[f], job.snap[f]}
       /\ live' = [live EXCEPT ![f] = Contents(f)]
       /\ job' = [job EXCEPT !.todo = @ \ {f}, !.cleared = {}]
  /\ UNCHANGED <<bundles, export, snapshots, before, meddled, broken, saves, imports>>

\* mutant of Rollback: only the targets already replaced are put back
RollbackDone(targets) == targets \ job.todo

(* The targets of _restore_snapshot                                        *)
Rollback(targets) == targets

(* A replacement raises                                                    *)
ApplyFails ==
  /\ job.at = "apply" /\ job.todo # {}
  /\ job' = [job EXCEPT !.at = "rollback", !.todo = Rollback(Targets), !.cleared = {}]
  /\ UNCHANGED <<live, bundles, export, snapshots, before, meddled, broken, saves, imports>>

(* _prune_snapshots                                                        *)
Newest(s) == IF Len(s) > History THEN SubSeq(s, Len(s) - History + 1, Len(s)) ELSE s

(* The end of an import: _prune_snapshots follows success only             *)
EndImport ==
  /\ job.at # "idle" /\ job.todo = {}
  /\ snapshots' = IF job.at = "apply" THEN Newest(snapshots) ELSE snapshots
  /\ job' = NoJob
  /\ UNCHANGED <<live, bundles, export, before, meddled, broken, saves, imports>>

(* The process ends, or the rollback raises as well                        *)
Abandon ==
  /\ job.at # "idle" /\ broken' = TRUE /\ job' = NoJob
  /\ UNCHANGED <<live, bundles, export, snapshots, before, meddled, saves, imports>>

(* Another writer saves; a pairing writes a certificate and the camera     *)
SaveOther(files) ==
  /\ saves < MaxSaves /\ saves' = saves + 1
  /\ files \in {{"users"}, {"settings"}, {"cameras", "certs"}}
  /\ live' = [f \in Files |-> IF f \in files THEN saves + 1 ELSE live[f]]
  /\ meddled' = (meddled \/ job.at # "idle")
  /\ UNCHANGED <<bundles, export, job, snapshots, before, broken, imports>>

BackupNext ==
  \/ \E s \in Scopes : BeginExport(s) \/ \E b \in bundles : BeginImport(b, s)
  \/ ExportRead \/ EndExport \/ Clear \/ ClearFails \/ PutFile \/ ApplyFails \/ EndImport \/ Abandon
  \/ (\E b \in bundles : Damage(b)) \/ \E fs \in SUBSET Files : SaveOther(fs)

BackupTypeOK ==
  /\ live \in [Files -> 0..Defaults] /\ before \in [Files -> 0..Defaults]
  /\ job.at \in {"idle", "apply", "rollback"} /\ Targets \subseteq Files
  /\ \A b \in bundles : DOMAIN b.files \subseteq Files /\ b.intact \in BOOLEAN
  /\ {meddled, broken} \subseteq BOOLEAN /\ Len(snapshots) <= imports

Ends == job.at # "idle" /\ job'.at = "idle" /\ ~broken'
AllNew == \A f \in Files : live[f] = IF f \in Targets THEN job.from[f] ELSE before[f]

(* An import that answers has replaced every chosen file by the bundle's,  *)
(* or, on an error at any point, none: the files are as they were, but for *)
(* those that did not exist before and could not be removed again.  Saves  *)
(* that other requests make meanwhile are outside the claim.               *)
ImportAtomic ==
  [][Ends /\ ~meddled =>
       IF job.at = "apply" THEN AllNew
       ELSE \A f \in Files : live[f] = before[f] \/ (f \in job.stuck /\ before[f] = 0)]_backupVars

(* "Restore failed and prior state was restored" (violated: an error of    *)
(* unlink is passed over, and a file that was not there before stays)      *)
RestoredAsSaid == [][Ends /\ ~meddled /\ job.at = "rollback" => live = before]_backupVars

(* "all changes succeed or none do" (violated: nothing takes a snapshot    *)
(* back after a crash between two files)                                   *)
AllOrNothing ==
  [][(job.at # "idle" /\ job'.at = "idle" /\ ~meddled) => AllNew \/ live = before]_backupVars

(* "Partial-restore mode ... does not orphan related data" (violated: the  *)
(* camera records of a bundle come back without the certificates, or the   *)
(* bundle holds records and certificates of two moments)                   *)
TrustMatches == [][Ends /\ ~meddled => live["cameras"] = live["certs"]]_backupVars
=============================================================================
