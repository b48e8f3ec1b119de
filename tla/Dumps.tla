------------------------------- MODULE Dumps -------------------------------
(***************************************************************************)
(* Native dumps of managed databases (src/dbservice/backup.go): artifacts  *)
(* in the backup repository and the db_backups rows that list them.  The   *)
(* repository is changed first and the rows after it; either may fail.     *)
(* The repository is external: Put stores, Prune and Delete remove.        *)
(***************************************************************************)
EXTENDS Naturals, Sequences, FiniteSets, SequencesExt

CONSTANTS
  Dumps,    \* artifacts and the records made for them
  Keep,     \* artifacts the retention policy keeps
  Workers

VARIABLES
  artifact,  \* what the repository stores, oldest first
  record,    \* db_backups: listed or tombstoned
  worker,    \* statements a handler still has to run
  lost,      \* a statement has failed
  overlap    \* two handlers have been under way at once

vars == <<artifact, record, worker, lost, overlap>>

Init ==
  /\ artifact = <<>>
  /\ record = [d \in Dumps |-> "none"]
  /\ worker = [w \in Workers |-> <<>>]
  /\ lost = FALSE
  /\ overlap = FALSE

-----------------------------------------------------------------------------
Stored == ToSet(artifact)

ListBackups == {d \in Dumps : record[d] = "listed"}

Do(op, d) == [op |-> op, dump |-> d]

Start(w, statements) ==
  /\ worker[w] = <<>>
  /\ worker' = [worker EXCEPT ![w] = statements]
  /\ overlap' = (overlap \/ \E v \in Workers : worker[v] # <<>>)
  /\ UNCHANGED <<record, lost>>

Unused(d) ==
  /\ d \notin Stored /\ record[d] = "none"
  /\ \A w \in Workers : Do("CreateBackup", d) \notin ToSet(worker[w])

\* Mutant: the dump is listed before the repository has it.
BackupEarly(w, d) ==
  /\ Unused(d)
  /\ Start(w, <<Do("CreateBackup", d), Do("Put", d)>>)
  /\ UNCHANGED artifact

\* The dump is streamed to the repository while the engine produces it.
Backup(w, d) ==
  /\ Unused(d)
  /\ Start(w, <<Do("Put", d), Do("CreateBackup", d)>>)
  /\ UNCHANGED artifact

DeleteBackup(w, d) ==
  /\ d \in ListBackups
  /\ Start(w, <<Do("Delete", d), Do("MarkBackupDeleted", d)>>)
  /\ UNCHANGED artifact

\* Mutant: retention removes artifacts and leaves their records listed.
PruneBackupsOnly(w) ==
  /\ Len(artifact) > Keep
  /\ artifact' = SubSeq(artifact, Len(artifact) - Keep + 1, Len(artifact))
  /\ Start(w, <<>>)

\* The repository says which artifacts it removed; the records of exactly those
\* are tombstoned, one statement each.
PruneBackups(w) ==
  LET removed == SubSeq(artifact, 1, Len(artifact) - Keep)
      gone == SelectSeq(removed, LAMBDA d : d \in ListBackups)
  IN /\ Len(artifact) > Keep
     /\ artifact' = SubSeq(artifact, Len(artifact) - Keep + 1, Len(artifact))
     /\ Start(w, [k \in 1..Len(gone) |-> Do("MarkBackupDeleted", gone[k])])

-----------------------------------------------------------------------------
MarkBackupDeleted(d) == [record EXCEPT ![d] = IF @ = "listed" THEN "deleted" ELSE @]

Statement(w) ==
  LET s == Head(worker[w])
  IN /\ worker[w] # <<>>
     /\ worker' = [worker EXCEPT ![w] = Tail(@)]
     /\ artifact' = CASE s.op = "Put" -> Append(artifact, s.dump)
                      [] s.op = "Delete" -> SelectSeq(artifact, LAMBDA d : d # s.dump)
                      [] OTHER -> artifact
     /\ record' = CASE s.op = "CreateBackup" -> [record EXCEPT ![s.dump] = "listed"]
                    [] s.op = "MarkBackupDeleted" -> MarkBackupDeleted(s.dump)
                    [] OTHER -> record
     /\ UNCHANGED <<lost, overlap>>

HandlerFails(w) ==
  /\ worker[w] # <<>>
  /\ worker' = [worker EXCEPT ![w] = <<>>]
  /\ lost' = TRUE
  /\ UNCHANGED <<artifact, record, overlap>>

Next ==
  \E w \in Workers :
    \/ Statement(w) \/ HandlerFails(w) \/ PruneBackups(w)
    \/ \E d \in Dumps : Backup(w, d) \/ DeleteBackup(w, d)

Spec == Init /\ [][Next]_vars

-----------------------------------------------------------------------------
(* Properties.                                                              *)

\* A dump is listed only after the repository took it, and leaves the list when
\* it leaves the repository: unless a statement failed or handlers overlapped, a
\* listed dump is one that Restore can open, but for the one being removed now.
ListedIsStored ==
  ~ overlap /\ ~ lost =>
    \A d \in ListBackups :
      d \in Stored \/ \E w \in Workers : Do("MarkBackupDeleted", d) \in ToSet(worker[w])

(* Statements of the source that TLC refutes; see the README.               *)

\* backup.go: "ListBackups returns an instance's restorable backups"; once a
\* tombstone has not been written no later prune writes it.
ListedIsRestorable ==
  ~ overlap /\ (\A w \in Workers : worker[w] = <<>>) => ListBackups \subseteq Stored
=============================================================================
