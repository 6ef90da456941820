-------------------------------- MODULE Import --------------------------------
(***************************************************************************)
(* POST /api/logs/import (importLogsFast, src/internal/server/server.go)    *)
(* with its progress, over the logs table and the file in ./temp.           *)
(*                                                                         *)
(* Requests run concurrently, each on its goroutine.  The uploaded file is   *)
(* kept under its own name, so uploads of one name share a directory entry,  *)
(* and, while it is not removed, the inode.  The pre-scan and the second     *)
(* reading see whatever is there then.  What the live pipeline stores        *)
(* meanwhile (StoreLive) counts in the table's statistics.                   *)
(***************************************************************************)
EXTENDS MySQLStorage, LineFormat, FiniteSetsExt

CONSTANTS Imports,        \* the import requests
          Uploads,        \* [name, lines]: what clients may upload; the lines have an
                          \* age and may fit the table, besides what LineFormat reads
          Settings,       \* what config.Parser.Format may be when a request reads it
          MaxImportLines, \* config.Import.MaxLines, normalised
          BatchSize,      \* importBatchSize
          LiveEntries     \* bound: what the live pipeline stores meanwhile

\* The entry an import makes of line n of its file.
EntryOf(i, n, line) == [from |-> i, line |-> n, age |-> line.age, fits |-> line.fits]

ASSUME ImportAssumption ==
    /\ MaxImportLines \in Nat \ {0} /\ BatchSize \in Nat \ {0}
    /\ IsFiniteSet(Imports) /\ LiveEntries \subseteq Entries
    /\ Uploads # {}
    /\ \A u \in Uploads :
          /\ u.lines \in Seq(LogLine)
          /\ \A i \in Imports, n \in DOMAIN u.lines : EntryOf(i, n, u.lines[n]) \in Entries

VARIABLES
    temp,      \* ./temp: inode of each name, 0: no such file
    inode,     \* what is in each inode
    imp,       \* the requests
    progress   \* s.importProgress

ivars == <<temp, inode, imp, progress>>
vars == <<tvars, ivars>>

FileNames == {u.name : u \in Uploads}
\* A request makes at most one inode.
Inodes == 1..Cardinality(Imports)
Content(n) == IF n = 0 THEN <<>> ELSE inode[n]

Ignored(line) == line.blank \/ line.comment
Valid(lines) == {n \in DOMAIN lines : ~Ignored(lines[n])}

Idle == [at |-> "idle", upload |-> CHOOSE u \in Uploads : TRUE, node |-> 0, before |-> 0,
         format |-> "unknown", target |-> 0, limit |-> FALSE, pos |-> 0,
         accepted |-> 0, dropped |-> 0, written |-> 0, batch |-> {},
         status |-> "none", imported |-> 0, shared |-> FALSE]
NoProgress == [phase |-> "none", target |-> 0, percent |-> 0]

Phases == {"none", "preparing", "processing", "completed", "partial", "warning", "error"}

TypeOK ==
    /\ TableTypeOK
    /\ temp \in [FileNames -> {0} \cup Inodes]
    /\ \A i \in Imports :
        /\ imp[i].at \in {"idle", "create", "write", "scan", "open", "read", "save", "flush",
                        "report", "done"}
        /\ imp[i].dropped \in Nat
        /\ imp[i].written + Cardinality(imp[i].batch) = imp[i].accepted
        /\ Cardinality(imp[i].batch) <= BatchSize /\ imp[i].batch \subseteq Entries
        /\ imp[i].status \in {"none"} \cup {"ok", "partial", "warning", "error"}
        /\ progress[i].phase \in Phases /\ progress[i].percent \in 0..100

Init ==
    /\ TableInit
    /\ temp = [f \in FileNames |-> 0] /\ inode = [n \in Inodes |-> <<>>]
    /\ imp = [i \in Imports |-> Idle] /\ progress = [i \in Imports |-> NoProgress]

Running(i) == imp[i].at \notin {"idle", "done"}

-------------------------------------------------------------------------------
\* Progress

\* updateImportProgress.
Percent(handled, target) == IF target = 0 THEN 0
                            ELSE Min({100, (100 * handled) \div target})

Update_OfFile(i, handled, phase) ==
    [phase |-> phase, target |-> imp[i].target,
     percent |-> Percent(handled, Len(Content(imp[i].node)))]
Update(i, handled, phase) ==
    [phase |-> phase, target |-> imp[i].target,
     percent |-> IF imp[i].target > 0 THEN Percent(handled, imp[i].target)
                 ELSE IF phase \in {"completed", "partial"} THEN 100 ELSE 0]

\* finishImportProgress.
Ended(p, phase) ==
    [p EXCEPT !.phase = phase,
              !.percent = IF p.target > 0 /\ phase \in {"completed", "partial"} THEN 100 ELSE @]

\* The request answers and its deferred calls run: the file is removed once it was
\* uploaded, whoever's it is by then.
Answer(i, status, imported, uploaded) ==
    /\ imp' = [imp EXCEPT ![i].at = "done", ![i].status = status, ![i].imported = imported,
                          ![i].before = 0, ![i].node = 0, ![i].pos = 0]
    /\ temp' = IF uploaded THEN [temp EXCEPT ![imp[i].upload.name] = 0] ELSE temp
    /\ UNCHANGED inode

GiveUp(i, phase, status, uploaded) ==
    /\ progress' = [progress EXCEPT ![i] = Ended(@, phase)]
    /\ Answer(i, status, 0, uploaded)
    /\ UNCHANGED tvars

-------------------------------------------------------------------------------
\* The upload

\* createImportProgress.  shared is history: another request with the same file
\* name was in progress at some time.
Begin(i, u) ==
    LET others == {j \in Imports : Running(j) /\ imp[j].upload.name = u.name} IN
    /\ imp[i].at = "idle"
    /\ imp' = [j \in Imports |->
                 IF j = i THEN [Idle EXCEPT !.at = "create", !.upload = u, !.shared = others # {}]
                 ELSE [imp[j] EXCEPT !.shared = @ \/ j \in others]]
    /\ progress' = [progress EXCEPT ![i] = [NoProgress EXCEPT !.phase = "preparing"]]
    /\ UNCHANGED <<tvars, temp, inode>>

\* SaveUploadedFile creates the file, or truncates the one of that name ...
Created(name) == IF temp[name] # 0 THEN temp[name]
                 ELSE Min({n \in Inodes : /\ \A f \in FileNames : temp[f] # n
                                          /\ \A j \in Imports : Running(j) => imp[j].node # n})

UploadCreates(i) ==
    LET name == imp[i].upload.name
        n == Created(name)
    IN  /\ imp[i].at = "create"
        /\ temp' = [temp EXCEPT ![name] = n]
        /\ inode' = [inode EXCEPT ![n] = <<>>]
        /\ imp' = [imp EXCEPT ![i].at = "write", ![i].node = n]
        /\ UNCHANGED <<tvars, progress>>

\* ... and copies the upload into it, over what another upload has put there.
Over(new, old) == new \o SubSeq(old, Len(new) + 1, Len(old))

UploadWrites(i) ==
    /\ imp[i].at = "write"
    /\ inode' = [inode EXCEPT ![imp[i].node] = Over(imp[i].upload.lines, @)]
    /\ imp' = [imp EXCEPT ![i].at = "scan"]
    /\ UNCHANGED <<tvars, temp, progress>>

\* The file cannot be created or written: what is there of it stays.
UploadFails(i) == imp[i].at \in {"create", "write"} /\ GiveUp(i, "error", "error", FALSE)

-------------------------------------------------------------------------------
\* The two readings

\* The table is counted, the file opened and read to its end or to the limit.
LimitMet_Beyond(n) == n > MaxImportLines
LimitMet(n) == n >= MaxImportLines

Scan(i, setting) ==
    LET node == temp[imp[i].upload.name]
        valid == Valid(Content(node))
        format == DetectFormat(Content(node)[Min(valid)])
        target == Min({Cardinality(valid), MaxImportLines})
        scanned == [imp[i] EXCEPT !.at = "open", !.before = Cardinality(rows), !.format = format,
                                  !.target = target, !.limit = LimitMet(Cardinality(valid))]
    IN  /\ imp[i].at = "scan" /\ node # 0
        /\ IF valid = {} THEN GiveUp(i, "completed", "ok", TRUE)
           ELSE IF ~Compatible(format, setting) THEN GiveUp(i, "warning", "warning", TRUE)
           ELSE /\ imp' = [imp EXCEPT ![i] = scanned]
                /\ progress' = [progress EXCEPT ![i] =
                       [NoProgress EXCEPT !.phase = "processing", !.target = target]]
                /\ UNCHANGED <<tvars, temp, inode>>

\* The file is opened again; from here on its name no longer matters.
Reopen(i) ==
    /\ imp[i].at = "open" /\ temp[imp[i].upload.name] # 0
    /\ imp' = [imp EXCEPT ![i].at = "read", ![i].node = temp[imp[i].upload.name]]
    /\ UNCHANGED <<tvars, temp, inode, progress>>

\* Another request has removed the file.
OpenFails(i) ==
    /\ imp[i].at \in {"scan", "open"} /\ temp[imp[i].upload.name] = 0
    /\ GiveUp(i, "error", "error", TRUE)

\* A line too long for the scanner, or a read error, in either reading.
ReadFails(i) == imp[i].at \in {"scan", "read"} /\ GiveUp(i, "error", "error", TRUE)

Handled(i) == imp[i].accepted + imp[i].dropped
Line(i) == Content(imp[i].node)[imp[i].pos + 1]
More(i) == imp[i].pos < Len(Content(imp[i].node))

ReadIgnored(i) ==
    /\ imp[i].at = "read" /\ More(i) /\ Ignored(Line(i))
    /\ imp' = [imp EXCEPT ![i].pos = @ + 1]
    /\ UNCHANGED <<tvars, temp, inode, progress>>

MayRead_OneMore(i) == Handled(i) <= MaxImportLines
MayRead(i) == Handled(i) < MaxImportLines

\* A line that does not parse is dropped, and the progress says so.
ReadDropped(i) ==
    /\ imp[i].at = "read" /\ More(i) /\ ~Ignored(Line(i)) /\ MayRead(i)
    /\ ~Parses(Line(i), imp[i].format)
    /\ imp' = [imp EXCEPT ![i].pos = @ + 1, ![i].dropped = @ + 1]
    /\ progress' = [progress EXCEPT ![i] = Update(i, Handled(i) + 1, "processing")]
    /\ UNCHANGED <<tvars, temp, inode>>

\* A parsed line goes to the batch; a full batch is saved at once.
ReadAccepted(i) ==
    LET entry == EntryOf(i, imp[i].pos + 1, Line(i))
        batch == imp[i].batch \cup {entry}
    IN  /\ imp[i].at = "read" /\ More(i) /\ ~Ignored(Line(i)) /\ MayRead(i)
        /\ Parses(Line(i), imp[i].format)
        /\ imp' = [imp EXCEPT ![i].pos = @ + 1, ![i].accepted = @ + 1, ![i].batch = batch,
                              ![i].at = IF Cardinality(batch) >= BatchSize THEN "save" ELSE "read"]
        /\ UNCHANGED <<tvars, temp, inode, progress>>

\* The end of the file, or the limit with a valid line left: the rest is saved.
ReadEnds(i) ==
    /\ imp[i].at = "read"
    /\ More(i) => ~Ignored(Line(i)) /\ ~MayRead(i)
    /\ imp' = [imp EXCEPT ![i].at = IF imp[i].batch = {} THEN "report" ELSE "flush",
                          ![i].limit = @ \/ More(i)]
    /\ UNCHANGED <<tvars, temp, inode, progress>>

-------------------------------------------------------------------------------
\* Saving and the report

\* saveImportBatch goes past the asynchronous buffer.  Refused entries count as
\* written.
Kept_Batch(i) == imp[i].batch
Kept(i) == {}

Save(i) ==
    /\ imp[i].at \in {"save", "flush"}
    /\ SaveRows(imp[i].batch)
    /\ imp' = [imp EXCEPT ![i].at = IF @ = "save" THEN "read" ELSE "report",
                          ![i].written = @ + Cardinality(imp[i].batch),
                          ![i].batch = Kept(i)]
    /\ progress' = [progress EXCEPT ![i] = Update(i, Handled(i), "processing")]
    /\ UNCHANGED <<retention, cleaner, temp, inode>>

\* The transaction cannot begin or commit: earlier batches stay in the table.
SaveFails(i) == imp[i].at \in {"save", "flush"} /\ GiveUp(i, "error", "error", TRUE)

\* What is reported as imported: what was written, or, with nothing written, by
\* how much the table has grown since the pre-scan.
Imported_Grown(i) == IF Cardinality(rows) > imp[i].before
                     THEN Cardinality(rows) - imp[i].before ELSE 0
Imported(i) == IF imp[i].written = 0 /\ Cardinality(rows) > imp[i].before
               THEN Cardinality(rows) - imp[i].before
               ELSE imp[i].written

Status(i, imported) ==
    LET short == imported < imp[i].accepted \/ imp[i].dropped > 0
        loose == 5 * imp[i].dropped > 4 * imp[i].target
    IN  IF imported = 0 /\ imp[i].dropped > 0 THEN "error"
        ELSE IF loose THEN "warning"
        ELSE IF short \/ imp[i].limit THEN "partial"
        ELSE "ok"

\* finishImportProgress and updateImportProgress, between which nothing is done.
Report(i) ==
    LET imported == Imported(i)
        status == Status(i, imported)
        phase == CASE status = "ok" -> "completed"
                   [] status \in {"partial", "warning"} -> "partial"
                   [] status = "error" -> "error"
    IN  /\ imp[i].at = "report"
        /\ progress' = [progress EXCEPT ![i] = Update(i, Handled(i), phase)]
        /\ Answer(i, status, imported, TRUE)
        /\ UNCHANGED tvars

\* The asynchronous storage flushes a batch of live entries.
StoreLive(e) == /\ e \notin rows /\ SaveRows({e})
                /\ UNCHANGED <<retention, cleaner, ivars>>

ImportStep(i) ==
    \/ \E u \in Uploads : Begin(i, u)
    \/ UploadCreates(i) \/ UploadWrites(i) \/ UploadFails(i)
    \/ \E setting \in Settings : Scan(i, setting)
    \/ Reopen(i) \/ OpenFails(i) \/ ReadFails(i)
    \/ ReadIgnored(i) \/ ReadDropped(i) \/ ReadAccepted(i) \/ ReadEnds(i)
    \/ Save(i) \/ SaveFails(i) \/ Report(i)

Next ==
    \/ \E i \in Imports : ImportStep(i)
    \/ \E e \in LiveEntries : StoreLive(e)
    \/ TableStep /\ UNCHANGED ivars

Spec == Init /\ [][Next]_vars

-------------------------------------------------------------------------------
\* Properties

\* Of a file that only this request had: every line that is neither blank nor a
\* comment is parsed or dropped, up to the limit, over all batches; the limit is
\* reported exactly when the file has that many; and "ok" means all were parsed.
EveryLineCounted ==
    \A i \in Imports :
        (imp[i].at = "done" /\ imp[i].status \in {"ok", "partial"} /\ ~imp[i].shared) =>
            LET valid == Cardinality(Valid(imp[i].upload.lines)) IN
            /\ Handled(i) = Min({valid, MaxImportLines})
            /\ imp[i].limit <=> valid >= MaxImportLines
            /\ imp[i].status = "ok" => imp[i].accepted = valid

\* Of a request that parsed a line, "imported" is what it wrote over all its batches:
\* all that it parsed, and nothing of what imports, live entries, deletions and the
\* cleanup do to the table meanwhile.
ImportedExact ==
    \A i \in Imports :
        (imp[i].at = "done" /\ imp[i].imported > 0 /\ imp[i].accepted > 0) =>
            imp[i].imported = imp[i].accepted /\ imp[i].batch = {}

\* "Uses what this request actually wrote, so that the writes of other requests are
\* not included when imports run concurrently" (the comment above actualImported):
\* at least of a request that had its file to itself.
ImportedIsOwn ==
    \A i \in Imports :
        imp[i].at = "done" /\ ~imp[i].shared => imp[i].imported <= imp[i].written

\* The percentage a client polls never falls while the request has its file to
\* itself, and a report other than an error or a warning ends it at 100.
ProgressMonotone ==
    [][\A i \in Imports :
          (~imp'[i].shared /\ imp'[i].at # "create" /\ progress'[i].phase # "none") =>
              /\ progress'[i].percent >= progress[i].percent
              /\ (imp[i].at = "report" /\ imp'[i].status \in {"ok", "partial"}) =>
                    progress'[i].percent = 100]_vars

\* A line of the layout inferFieldName is written for gets its fields' names: a
\* size or a time is not taken for a status, whatever its value and length.
StandardLayout ==
    \A i \in Imports, d \in Delimiters :
        (imp[i].at = "read" /\ More(i)) => NamedByPlace(Line(i).cells[d])
===============================================================================
