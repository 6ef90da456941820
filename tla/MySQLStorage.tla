----------------------------- MODULE MySQLStorage -----------------------------
(***************************************************************************)
(* The logs table and its hourly cleanup                                    *)
(* (src/internal/storage/mysql_storage.go).  A row keeps the hours that      *)
(* have passed since the entry's own timestamp; it does not age while the    *)
(* model runs.  MySQL itself is taken to keep a statement or a transaction   *)
(* whole.                                                                   *)
(***************************************************************************)
EXTENDS Integers, FiniteSets

CONSTANTS Retentions,   \* values of retention_hours config.json and the API give
          DefaultRetention,  \* what normalizeStorageConfig puts for zero or less
          Entries,      \* what anyone may save: records with fields age and fits
          Deletable     \* bound: the entries clients delete one by one

ASSUME MySQLAssumption ==
    /\ Retentions \subseteq Int /\ Retentions # {} /\ DefaultRetention \in Nat \ {0}
    /\ \A e \in Entries : e.age \in Nat /\ e.fits \in BOOLEAN
    /\ Deletable \subseteq Entries

VARIABLES rows,        \* the table
          retention,   \* retention_hours as it was given
          cleaner      \* cleanupRoutine: what cleanup has read

tvars == <<rows, retention, cleaner>>

\* The storage is handed the configuration normalised: s.config.RetentionHours.
Normalised(hours) == IF hours <= 0 THEN DefaultRetention ELSE hours
RetentionHours == Normalised(retention)

\* seen is history: the retentions given, of those in force during this cleanup.
TableTypeOK ==
    /\ rows \subseteq Entries
    /\ retention \in Retentions
    /\ cleaner \in [at : {"waiting", "deleting"}, hours : Int, seen : SUBSET Retentions]

Waiting == [at |-> "waiting", hours |-> 0, seen |-> {}]

TableInit ==
    /\ rows = {}
    /\ retention \in Retentions
    /\ cleaner = Waiting

\* SaveBatch is one transaction, but an entry whose INSERT fails (it does not fit
\* the table) is only counted and logged; INSERT IGNORE skips an id the table has.
\* SaveBatch returns nil.
SaveRows(batch) == rows' = rows \cup {e \in batch : e.fits}

\* cleanup copies the retention under the read lock ...
CleanupReads ==
    /\ cleaner.at = "waiting"
    /\ cleaner' = IF RetentionHours <= 0 THEN cleaner
                  ELSE [at |-> "deleting", hours |-> RetentionHours, seen |-> {retention}]
    /\ UNCHANGED <<rows, retention>>

\* ... and deletes after it has let go of the lock.
Expired_Inclusive(e, hours) == e.age >= hours
Expired(e, hours) == e.age > hours

CleanupDeletes ==
    /\ cleaner.at = "deleting"
    /\ rows' = {e \in rows : ~Expired(e, cleaner.hours)}
    /\ cleaner' = Waiting
    /\ UNCHANGED retention

\* The DELETE fails and is logged.
CleanupFails ==
    /\ cleaner.at = "deleting"
    /\ cleaner' = Waiting
    /\ UNCHANGED <<rows, retention>>

UpdateConfig(hours) ==
    /\ retention' = hours
    /\ cleaner' = [cleaner EXCEPT !.seen = IF cleaner.at = "deleting" THEN @ \cup {hours} ELSE @]
    /\ UNCHANGED rows

\* DELETE /api/logs/:id of a row there is, and TRUNCATE.
Delete(e) == e \in rows /\ rows' = rows \ {e} /\ UNCHANGED <<retention, cleaner>>
Clear == rows # {} /\ rows' = {} /\ UNCHANGED <<retention, cleaner>>

TableStep ==
    \/ CleanupReads \/ CleanupDeletes \/ CleanupFails \/ Clear
    \/ \E hours \in Retentions : UpdateConfig(hours)
    \/ \E e \in Deletable : Delete(e)

CleanupEnds == cleaner.at = "deleting" /\ cleaner'.at = "waiting"

\* The cleanup removes no entry younger than every retention that was in force
\* while it ran, whatever is saved, cleared and configured between its two halves.
RetentionRespected ==
    [][CleanupEnds =>
          \A e \in rows \ rows' : \E hours \in cleaner.seen : e.age > Normalised(hours)]_tvars

\* "0 = never clean" (README.md on retention_hours): a cleanup removes nothing while
\* zero is what the configuration was given.
ZeroNeverCleans == [][CleanupEnds /\ cleaner.seen = {0} => rows \subseteq rows']_tvars
===============================================================================
