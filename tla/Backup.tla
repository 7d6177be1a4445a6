-------------------------------- MODULE Backup --------------------------------
(***************************************************************************)
(* Backups of the database (backup.py), their schedule and the restore     *)
(* (api/routes/backup.py).  A backup is a snapshot, an archive written in  *)
(* place under the time it began, and the removal of the oldest archives;  *)
(* the scheduled loop and requests run it in threads of their own.  A      *)
(* restore stops the loop and the tunnel monitor, closes the connection    *)
(* they share, writes the archive's content over the database file, and    *)
(* starts both again on a new connection (core/orchestrator.py); other     *)
(* requests have connections of their own (state/db.py).                   *)
(***************************************************************************)
EXTENDS Naturals, FiniteSets

CONSTANTS
  Backups, Loop,  \* threads that run backups; the one of the schedule
  Restorers,      \* restore requests
  Writers,        \* other requests and threads with a connection each
  Retention,      \* backup.retention_count
  MaxTime,        \* bound: seconds in which a backup begins
  MaxFailures     \* bound: archives that could not be written, interruptions

ASSUME BackupBounds ==
  /\ IsFiniteSet(Backups)
  /\ Retention \in Nat /\ MaxTime \in Nat \ {0} /\ MaxFailures \in Nat

VARIABLES
  archives,       \* the archive files: the second of their name, completeness
  succeeded,      \* a backup reported success
  clash,          \* history: two backups began in the same second
  overtaken,      \* history: a backup that looked for old archives found as
                  \* many newer than its own as are kept
  backup,         \* what each backup thread does next
  time, failures,
  file,           \* the database file: "live", "restored" or "mixed"
  handle,         \* connections of writers: "none", "open", or "old", opened
                  \* before the file was replaced
  shared,         \* the connection of the server and its loops is open
  monitor,        \* the tunnel monitor runs
  schedule,       \* the backup loop runs
  restore         \* what each restore does next

backupVars ==
  <<archives, succeeded, clash, overtaken, backup, time, failures, file,
    handle, shared, monitor, schedule, restore>>
retentionVars ==
  <<archives, succeeded, clash, overtaken, backup, time, failures>>
restoreVars == <<file, handle, shared, monitor, schedule, restore>>

NoBackup == [at |-> "idle", second |-> 0, old |-> {}]

BackupInit ==
  /\ archives = {} /\ succeeded = FALSE
  /\ clash = FALSE /\ overtaken = FALSE
  /\ backup = [b \in Backups |-> NoBackup]
  /\ time = 1 /\ failures = 0
  /\ file = "live"
  /\ handle = [w \in Writers |-> "none"]
  /\ shared = TRUE /\ monitor = TRUE /\ schedule = TRUE
  /\ restore = [r \in Restorers |-> "idle"]

Tick ==
  /\ time < MaxTime
  /\ time' = time + 1
  /\ UNCHANGED <<archives, succeeded, clash, overtaken, backup, failures,
                 restoreVars>>

-----------------------------------------------------------------------------
(* run_backup.  The snapshot is consistent; its copy is a temporary file.  *)

Named(second) == {a \in archives : a.second = second}
BackupStep(b, at) == backup' = [backup EXCEPT ![b].at = at]
EndBackup(b) == backup' = [backup EXCEPT ![b] = NoBackup]

\* The archive's name is the second in which the backup began: a second
\* backup of that second writes into the same file.
BeginBackup(b) ==
  /\ backup[b].at = "idle"
  /\ b = Loop => schedule
  /\ backup' = [backup EXCEPT ![b].at = "write", ![b].second = time]
  /\ clash' = (clash \/ Named(time) # {}
                     \/ \E c \in Backups : backup[c].at # "idle"
                                        /\ backup[c].second = time)
  /\ UNCHANGED <<archives, succeeded, overtaken, time, failures, restoreVars>>

\* encrypt_to_zip opens the archive under its final name ...
OpenArchive(b) ==
  /\ backup[b].at = "write"
  /\ archives' = (archives \ Named(backup[b].second))
                 \cup {[second |-> backup[b].second, complete |-> FALSE]}
  /\ BackupStep(b, "close")
  /\ UNCHANGED <<succeeded, clash, overtaken, time, failures, restoreVars>>

\* ... and completes it, unless it was pruned meanwhile.
CloseArchive(b) ==
  LET mine == Named(backup[b].second) IN
  /\ backup[b].at = "close"
  /\ archives' = (archives \ mine)
                 \cup {[a EXCEPT !.complete = TRUE] : a \in mine}
  /\ BackupStep(b, "list")
  /\ UNCHANGED <<succeeded, clash, overtaken, time, failures, restoreVars>>

\* A failed snapshot, a failed write, or the end of the server: what was
\* written stays.
BackupFails(b) ==
  /\ backup[b].at \in {"write", "close"} /\ failures < MaxFailures
  /\ failures' = failures + 1
  /\ EndBackup(b)
  /\ UNCHANGED <<archives, succeeded, clash, overtaken, time, restoreVars>>

Names == {a.second : a \in archives}
Newer(second) == {n \in Names : n > second}

\* Mutant: one archive less is kept.
OldestAndOne ==
  {a \in archives : Cardinality(Newer(a.second)) + 1 >= Retention}

\* _prune_old_backups: all but the newest, by their names; 0 keeps all.
Oldest ==
  {a \in archives : Cardinality(Newer(a.second)) >= Retention}

ListOld(b) ==
  /\ backup[b].at = "list"
  /\ backup' = [backup EXCEPT ![b].at = "prune",
                  ![b].old = IF Retention = 0 THEN {} ELSE Oldest]
  /\ overtaken' =
       \/ overtaken
       \/ /\ Retention # 0
          /\ Cardinality(Newer(backup[b].second)) >= Retention
  /\ UNCHANGED <<archives, succeeded, clash, time, failures, restoreVars>>

\* A file that another prune removed, or the own archive gone by now, is an
\* error; otherwise the backup succeeded.
Prune(b) ==
  LET old == {a.second : a \in backup[b].old} IN
  /\ backup[b].at = "prune"
  /\ archives' = {a \in archives : a.second \notin old}
  /\ succeeded' =
       \/ succeeded
       \/ /\ \A s \in old : Named(s) # {}
          /\ \E a \in archives' : a.second = backup[b].second
  /\ EndBackup(b)
  /\ UNCHANGED <<clash, overtaken, time, failures, restoreVars>>

-----------------------------------------------------------------------------
(* restore_from_backup.                                                    *)

RestoreStep(r, from, to) ==
  /\ restore[r] = from
  /\ restore' = [restore EXCEPT ![r] = to]

\* Read the settings; stop the monitor, await its end ...
BeginRestore(r) ==
  /\ RestoreStep(r, "idle", "schedule")
  /\ monitor' = FALSE
  /\ UNCHANGED <<retentionVars, file, handle, shared, schedule>>

\* ... and the loop; a backup that it handed to a thread goes on.
StopSchedule(r) ==
  /\ RestoreStep(r, "schedule", "replace")
  /\ schedule' = FALSE /\ shared' = FALSE
  /\ UNCHANGED <<retentionVars, file, handle, monitor>>

\* restore_backup: the WAL is unlinked and the file written over.
ReplaceDatabase(r) ==
  /\ RestoreStep(r, "replace", "reopen")
  /\ \/ /\ file' = "restored"
        /\ handle' = [w \in Writers |-> IF handle[w] = "open" THEN "old"
                                        ELSE handle[w]]
     \/ UNCHANGED <<file, handle>>      \* no such archive, wrong password
  /\ UNCHANGED <<retentionVars, shared, monitor, schedule>>

ReopenDatabase(r) ==
  /\ RestoreStep(r, "reopen", "idle")
  /\ shared' = TRUE /\ monitor' = TRUE /\ schedule' = TRUE
  /\ UNCHANGED <<retentionVars, file, handle>>

WriterOpens(w) ==
  /\ handle[w] = "none"
  /\ handle' = [handle EXCEPT ![w] = "open"]
  /\ UNCHANGED <<retentionVars, file, shared, monitor, schedule, restore>>

\* A connection with the unlinked WAL checkpoints it into the file when it is
\* closed.
WriterCloses(w) ==
  /\ handle[w] # "none"
  /\ handle' = [handle EXCEPT ![w] = "none"]
  /\ file' = IF handle[w] = "old" THEN "mixed" ELSE file
  /\ UNCHANGED <<retentionVars, shared, monitor, schedule, restore>>

BackupNext ==
  \/ Tick
  \/ \E b \in Backups :
       \/ BeginBackup(b) \/ OpenArchive(b) \/ CloseArchive(b) \/ BackupFails(b)
       \/ ListOld(b) \/ Prune(b)
  \/ \E r \in Restorers :
       \/ BeginRestore(r) \/ StopSchedule(r) \/ ReplaceDatabase(r)
       \/ ReopenDatabase(r)
  \/ \E w \in Writers : WriterOpens(w) \/ WriterCloses(w)

BackupSpec == BackupInit /\ [][BackupNext]_backupVars

-----------------------------------------------------------------------------
\* Once a backup succeeded there is a complete archive, although archives are
\* written in place, an incomplete one counts for the retention, and runs that
\* overlap remove what they listed earlier (backup.py, run_backup and
\* _prune_old_backups): however many runs fail, unless two begin in the same
\* second, or one is overtaken: when it looks for old archives, as many were
\* begun after it as are kept, of which none needs to be complete.
KeepsABackup ==
  succeeded /\ ~clash /\ ~overtaken => \E a \in archives : a.complete

\* "5. Replace the database file - no open handles at this point"
\* (api/routes/backup.py): what a connection wrote to the old database does
\* not get into the restored one.
RestoredIsWhatWasSaved == file # "mixed"

=============================================================================
