----------------------------- MODULE Import_proofs -----------------------------
(***************************************************************************)
(* Proofs about Import and the modules it is made of, for any requests, any *)
(* uploads, any limit and any size of a batch.                              *)
(*                                                                         *)
(* IInv strengthens the properties to an inductive invariant.  Records says  *)
(* what one request has parsed, saved and reported.  Owned gives every inode *)
(* in use one file name and counts them.  Mine says that a request whose     *)
(* name nobody else used has its file to itself, Counted how far it has read *)
(* that file.                                                               *)
(***************************************************************************)
EXTENDS Import, DataLemmas

-------------------------------------------------------------------------------
\* The parser: names of the fields

\* Where inferFieldName (delimited_parser.go) finds seven fields, the place of a
\* number decides: a status at index 3, a size at 4, a response time at 5, whatever
\* their values are.
LEMMA NumbersByPlace ==
    ASSUME NEW f \in Field
    PROVE  /\ f.val \in 100..599 => InferNumber(f, 3, 7) = "status_code"
           /\ InferNumber(f, 4, 7) = "response_size"
           /\ InferNumber(f, 5, 7) = "response_time"
  BY DEF InferNumber

\* A line in the layout inferFieldName is written for gets the layout's names, even
\* when its size or its response time looks like a status (200 bytes, 200 ms).
THEOREM StandardLayoutNamed == \A fields \in Seq(Field) : NamedByPlace(fields)
  <1> SUFFICES ASSUME NEW fields \in Seq(Field), Standard(fields)
               PROVE  FieldNames(fields) = StandardNames
    BY DEF NamedByPlace
  <1>1. DOMAIN fields = 1..7 /\ Len(fields) = 7 /\ \A n \in 1..7 : fields[n] \in Field
    <2>1. DOMAIN fields = 1..Len(fields) /\ \A n \in 1..Len(fields) : fields[n] \in Field
      OBVIOUS
    <2> QED
      BY <2>1 DEF Standard
  <1> DEFINE Name(n) == InferFieldName(fields[n], n - 1, 7)
  <1>2. Name(1) = "client_ip" /\ Name(2) = "method" /\ Name(3) = "path" /\ Name(7) = "timestamp"
    BY DEF Standard, InferFieldName
  <1>3. /\ Name(4) = InferNumber(fields[4], 3, 7)
        /\ Name(5) = InferNumber(fields[5], 4, 7)
        /\ Name(6) = InferNumber(fields[6], 5, 7)
    BY DEF Standard, InferFieldName
  <1>4. Name(4) = "status_code" /\ Name(5) = "response_size" /\ Name(6) = "response_time"
    BY <1>1, <1>3, NumbersByPlace DEF Standard
  <1>5. FieldNames(fields) = [n \in 1..7 |-> Name(n)]
    BY <1>1 DEF FieldNames
  <1>6. \A n \in 1..7 : Name(n) = StandardNames[n]
    <2> SUFFICES ASSUME NEW n \in 1..7 PROVE Name(n) = StandardNames[n]
      OBVIOUS
    <2>1. n \in {1, 2, 3, 4, 5, 6, 7}
      OBVIOUS
    <2> HIDE DEF Name
    <2> QED
      BY <1>2, <1>4, <2>1 DEF StandardNames
  <1>7. StandardNames = [n \in 1..7 |-> StandardNames[n]]
    BY DEF StandardNames
  <1> HIDE DEF Name
  <1> QED
    BY <1>5, <1>6, <1>7

-------------------------------------------------------------------------------
\* The cleanup of the logs table

Cleaner == [at : {"waiting", "deleting"}, hours : Int, seen : SUBSET Retentions]

\* A cleanup that is about to delete uses a retention that was in force during it.
CleanerInv ==
    /\ cleaner \in Cleaner /\ retention \in Retentions
    /\ cleaner.at = "deleting" =>
          \E hours \in cleaner.seen : cleaner.hours = Normalised(hours)

\* No step but one of the table moves the cleanup.
LEMMA OthersLeaveCleaner ==
    ASSUME [Next]_vars, ~(TableStep /\ UNCHANGED ivars)
    PROVE  UNCHANGED <<retention, cleaner>>
  <1>1. CASE UNCHANGED vars
    BY <1>1 DEF vars, tvars
  <1>2. ASSUME NEW e \in LiveEntries, StoreLive(e) PROVE UNCHANGED <<retention, cleaner>>
    BY <1>2 DEF StoreLive
  <1>3. ASSUME NEW i \in Imports, ImportStep(i) PROVE UNCHANGED <<retention, cleaner>>
    <2>1. CASE Save(i)
      BY <2>1 DEF Save
    <2>2. ASSUME NEW setting \in Settings, Scan(i, setting) PROVE UNCHANGED <<retention, cleaner>>
      BY <2>2, Zenon DEF Scan, GiveUp, tvars
    <2>3. CASE \/ UploadFails(i) \/ OpenFails(i) \/ ReadFails(i) \/ SaveFails(i) \/ Report(i)
      BY <2>3 DEF UploadFails, OpenFails, ReadFails, SaveFails, Report, GiveUp, tvars
    <2>4. CASE (\E u \in Uploads : Begin(i, u)) \/ UploadCreates(i) \/ UploadWrites(i) \/ Reopen(i)
      BY <2>4 DEF Begin, UploadCreates, UploadWrites, Reopen, tvars
    <2>5. CASE ReadIgnored(i) \/ ReadDropped(i) \/ ReadAccepted(i) \/ ReadEnds(i)
      BY <2>5 DEF ReadIgnored, ReadDropped, ReadAccepted, ReadEnds, tvars
    <2> QED
      BY <1>3, <2>1, <2>2, <2>3, <2>4, <2>5 DEF ImportStep
  <1> QED
    BY <1>1, <1>2, <1>3 DEF Next

LEMMA CleanerStep ==
    ASSUME CleanerInv, [Next]_vars
    PROVE  CleanerInv'
  <1>1. CASE UNCHANGED <<retention, cleaner>>
    BY <1>1 DEF CleanerInv
  <1>2. CASE CleanupReads
    <2>1. RetentionHours \in Int
      BY MySQLAssumption DEF CleanerInv, RetentionHours, Normalised
    <2>2. /\ cleaner' = cleaner
             \/ cleaner' = [at |-> "deleting", hours |-> RetentionHours, seen |-> {retention}]
          /\ retention' = retention
      BY <1>2 DEF CleanupReads
    <2> QED
      BY <2>1, <2>2 DEF CleanerInv, Cleaner, RetentionHours
  <1>3. CASE CleanupDeletes \/ CleanupFails
    BY <1>3 DEF CleanupDeletes, CleanupFails, Waiting, CleanerInv, Cleaner
  <1>4. ASSUME NEW hours \in Retentions, UpdateConfig(hours) PROVE CleanerInv'
    BY <1>4 DEF UpdateConfig, CleanerInv, Cleaner
  <1>5. CASE Clear \/ \E e \in Deletable : Delete(e)
    BY <1>1, <1>5 DEF Clear, Delete
  <1> QED
    BY <1>1, <1>2, <1>3, <1>4, <1>5, OthersLeaveCleaner DEF TableStep

\* The cleanup (mysql_storage.go) deletes no entry younger than every retention that
\* was in force while it ran, whatever the configuration, imports, deletions and the
\* live pipeline do between its two halves.
THEOREM RetentionKept == Spec => RetentionRespected
  <1>1. Init => CleanerInv
    BY DEF Init, TableInit, Waiting, CleanerInv, Cleaner
  <1>2. CleanerInv /\ [Next]_vars => CleanerInv'
    BY CleanerStep
  <1>3. CleanerInv /\ [Next]_vars =>
            [CleanupEnds =>
                \A e \in rows \ rows' : \E hours \in cleaner.seen : e.age > Normalised(hours)]_tvars
    <2> SUFFICES ASSUME CleanerInv, [Next]_vars, cleaner.at = "deleting", cleaner'.at = "waiting",
                        NEW e \in rows \ rows'
                 PROVE  \E hours \in cleaner.seen : e.age > Normalised(hours)
      BY DEF CleanupEnds
    <2>1. cleaner' # cleaner
      OBVIOUS
    <2>2. CASE CleanupDeletes
      <3>1. e.age > cleaner.hours
        BY <2>2 DEF CleanupDeletes, Expired
      <3> QED
        BY <3>1 DEF CleanerInv
    <2>3. CASE CleanupFails
      BY <2>3 DEF CleanupFails
    <2>4. ASSUME NEW hours \in Retentions, UpdateConfig(hours) PROVE FALSE
      BY <2>4 DEF UpdateConfig, CleanerInv, Cleaner
    <2>5. ~CleanupReads /\ ~Clear /\ ~\E d \in Deletable : Delete(d)
      BY <2>1 DEF CleanupReads, Clear, Delete
    <2> QED
      BY <2>1, <2>2, <2>3, <2>4, <2>5, OthersLeaveCleaner DEF TableStep
  <1> QED
    BY <1>1, <1>2, <1>3, PTL DEF Spec, RetentionRespected

-------------------------------------------------------------------------------
\* The inductive invariant of the imports

Steps == {"idle", "create", "write", "scan", "open", "read", "save", "flush", "report", "done"}

Request == [at : Steps, upload : Uploads, node : {0} \cup Inodes, before : Nat,
            format : Formats, target : Nat, limit : BOOLEAN, pos : Nat,
            accepted : Nat, dropped : Nat, written : Nat, batch : SUBSET Entries,
            status : {"none", "ok", "partial", "warning", "error"}, imported : Nat,
            shared : BOOLEAN]
Progress == [phase : Phases, target : Nat, percent : 0..100]

\* What a file may hold in its place n: the line there of some upload.
Placed(lines) == \A n \in DOMAIN lines : \E u \in Uploads : n \in DOMAIN u.lines /\ lines[n] = u.lines[n]

Types ==
    /\ rows \subseteq Entries /\ IsFiniteSet(rows)
    /\ temp \in [FileNames -> {0} \cup Inodes]
    /\ inode \in [Inodes -> Seq(LogLine)] /\ \A n \in Inodes : Placed(inode[n])
    /\ imp \in [Imports -> Request] /\ progress \in [Imports -> Progress]

\* What is so of one request, whatever the others do.
Early == {"idle", "create", "write", "scan", "open"}
Record(r) ==
    /\ IsFiniteSet(r.batch) /\ Cardinality(r.batch) <= BatchSize
    /\ r.written + Cardinality(r.batch) = r.accepted
    /\ r.at \in Early => r.batch = {} /\ r.accepted = 0 /\ r.dropped = 0 /\ r.pos = 0
    /\ r.at \in Early \ {"open"} => ~r.limit
    /\ r.at \in Steps \ {"idle", "create", "done"} => r.node # 0
    /\ r.at = "read" => Cardinality(r.batch) < BatchSize /\ \A e \in r.batch : e.line \in 1..r.pos
    /\ r.at = "report" => r.batch = {}
    /\ r.at = "done" /\ r.imported > 0 /\ r.accepted > 0 =>
          r.imported = r.accepted /\ r.batch = {}

\* The inodes in use and the requests that have made theirs.
Used == ({temp[f] : f \in FileNames} \cup {imp[j].node : j \in {k \in Imports : Running(k)}}) \ {0}
Past == {i \in Imports : imp[i].at \notin {"idle", "create"}}

\* An inode in use has one file name, whether a file has it or a request opened it.
OwnedBy(owner) ==
    /\ \A f \in FileNames : temp[f] # 0 => owner[temp[f]] = f
    /\ \A j \in Imports : Running(j) /\ imp[j].node # 0 => owner[imp[j].node] = imp[j].upload.name
Owned ==
    /\ \E owner \in [Inodes -> FileNames] : OwnedBy(owner)
    /\ Cardinality(Used) <= Cardinality(Past)

\* The file of a request that shares its name with no other.
Mine(i) ==
    (Running(i) /\ ~imp[i].shared) =>
        /\ \A j \in Imports \ {i} : Running(j) => imp[j].upload.name # imp[i].upload.name
        /\ imp[i].at # "create" => temp[imp[i].upload.name] = imp[i].node
        /\ imp[i].at = "write" => inode[imp[i].node] = <<>>
        /\ imp[i].at \notin {"create", "write"} => inode[imp[i].node] = imp[i].upload.lines

\* How far it has read.
Least(m, n) == IF m <= n THEN m ELSE n
Parsed(r) == r.accepted + r.dropped
Counted(r) ==
    LET valid == Valid(r.upload.lines) IN
    ~r.shared =>
        /\ r.at \in {"open", "read", "save", "flush", "report"} =>
              /\ valid # {} /\ r.pos <= Len(r.upload.lines)
              /\ Parsed(r) = Cardinality({n \in valid : n <= r.pos}) /\ Parsed(r) <= MaxImportLines
              /\ r.limit <=> Cardinality(valid) >= MaxImportLines
        /\ r.at \in {"flush", "report"} => Parsed(r) = Least(Cardinality(valid), MaxImportLines)
        /\ r.at = "done" /\ r.status \in {"ok", "partial"} =>
              /\ Parsed(r) = Least(Cardinality(valid), MaxImportLines)
              /\ r.limit <=> Cardinality(valid) >= MaxImportLines
              /\ r.status = "ok" => r.accepted = Cardinality(valid)

IInv ==
    /\ Types /\ Owned
    /\ \A i \in Imports : Record(imp[i]) /\ Mine(i) /\ Counted(imp[i])

-------------------------------------------------------------------------------
\* Operators

LEMMA LeastIn ==
    ASSUME NEW S \in SUBSET Nat, S # {}
    PROVE  Min(S) \in S /\ \A n \in S : Min(S) <= n
  BY LeastNumber DEF Min

LEMMA LeastOfTwo ==
    ASSUME NEW m \in Nat, NEW n \in Nat
    PROVE  Min({m, n}) = Least(m, n) /\ Least(m, n) \in Nat
  <1>1. Min({m, n}) \in {m, n} /\ Min({m, n}) <= m /\ Min({m, n}) <= n
    BY LeastIn
  <1> QED
    BY <1>1 DEF Least

LEMMA PercentRange ==
    ASSUME NEW h \in Nat, NEW t \in Nat
    PROVE  Percent(h, t) \in 0..100
  <1>1. CASE t = 0
    BY <1>1 DEF Percent
  <1>2. CASE t # 0
    <2>1. (100 * h) \div t \in Nat
      BY <1>2
    <2> DEFINE d == (100 * h) \div t
    <2> HIDE DEF d
    <2>2. Min({100, d}) = Least(100, d)
      BY <2>1, LeastOfTwo DEF d
    <2>3. Least(100, d) \in 0..100
      BY <2>1 DEF Least, d
    <2> QED
      BY <1>2, <2>2, <2>3 DEF Percent, d
  <1> QED
    BY <1>1, <1>2

LEMMA Detected ==
    ASSUME NEW line
    PROVE  DetectFormat(line) \in Formats
  <1> DEFINE seen == {n \in DOMAIN Tests : Looks(line, Tests[n])}
             first == CHOOSE n \in seen : \A k \in seen : n <= k
  <1>1. CASE line.blank \/ seen = {}
    BY <1>1 DEF DetectFormat, Formats
  <1>2. CASE ~line.blank /\ seen # {}
    <2>1. DOMAIN Tests = 1..8 /\ \A n \in 1..8 : Tests[n] \in Formats
      BY DEF Tests, Formats, Delimiters
    <2>2. seen \in SUBSET Nat
      BY <2>1
    <2>3. first \in 1..8
      <3>1. \E n \in seen : \A k \in seen : n <= k
        BY <1>2, <2>2, LeastNumber
      <3> QED
        BY <2>1, <3>1
    <2>4. DetectFormat(line) = Tests[first]
      BY <1>2 DEF DetectFormat
    <2> QED
      BY <2>1, <2>3, <2>4
  <1> QED
    BY <1>1, <1>2

\* The valid lines of a file, and of what has been read of it.
LEMMA ValidPlaces ==
    ASSUME NEW lines \in Seq(LogLine)
    PROVE  /\ Len(lines) \in Nat /\ DOMAIN lines = 1..Len(lines)
           /\ Valid(lines) \subseteq 1..Len(lines) /\ IsFiniteSet(Valid(lines))
           /\ Cardinality(Valid(lines)) \in Nat
           /\ Cardinality(Valid(lines)) = 0 <=> Valid(lines) = {}
  <1>1. Len(lines) \in Nat /\ DOMAIN lines = 1..Len(lines)
    OBVIOUS
  <1>2. Valid(lines) \subseteq 1..Len(lines)
    BY <1>1 DEF Valid
  <1>3. IsFiniteSet(1..Len(lines))
    BY <1>1, FS_Interval
  <1>4. IsFiniteSet(Valid(lines))
    BY <1>2, <1>3, FS_Subset
  <1> QED
    BY <1>1, <1>2, <1>4, FS_CardinalityType, FS_EmptySet

LEMMA ReadFurther ==
    ASSUME NEW S \in SUBSET Nat, NEW p \in Nat, IsFiniteSet(S)
    PROVE  /\ Cardinality({n \in S : n <= p + 1}) =
                 Cardinality({n \in S : n <= p}) + (IF p + 1 \in S THEN 1 ELSE 0)
           /\ Cardinality({n \in S : n <= p}) \in Nat
  <1> DEFINE A == {n \in S : n <= p}
             B == {n \in S : n <= p + 1}
  <1>1. IsFiniteSet(A) /\ Cardinality(A) \in Nat
    BY FS_Subset, FS_CardinalityType
  <1>0. \A n \in S : n <= p + 1 <=> n <= p \/ n = p + 1
    OBVIOUS
  <1>2. CASE p + 1 \in S
    <2>0. \A x : x \in B <=> x \in A \/ x = p + 1
      BY <1>0, <1>2
    <2>a. p + 1 \notin A
      OBVIOUS
    <2>1. B = A \cup {p + 1} /\ p + 1 \notin A
      BY <2>0, <2>a, Zenon
    <2> HIDE DEF A, B
    <2>2. Cardinality(B) = Cardinality(A) + 1
      BY <1>1, <2>1, FS_AddElement
    <2> QED
      BY <1>1, <1>2, <2>2 DEF A, B
  <1>3. CASE p + 1 \notin S
    <2>1. B = A
      <3>1. \A n \in S : n <= p + 1 <=> n <= p
        BY <1>0, <1>3
      <3> QED
        BY <3>1
    <2> HIDE DEF A, B
    <2>2. Cardinality(B) = Cardinality(A) + 0
      BY <1>1, <2>1
    <2> QED
      BY <1>1, <1>3, <2>2 DEF A, B
  <1> QED
    BY <1>2, <1>3

LEMMA NothingRead ==
    ASSUME NEW lines \in Seq(LogLine)
    PROVE  Cardinality({n \in Valid(lines) : n <= 0}) = 0
  <1>1. {n \in Valid(lines) : n <= 0} = {}
    BY ValidPlaces
  <1> QED
    BY <1>1, FS_EmptySet

\* What is left of a file when what is beyond its end is not.
LEMMA AllRead ==
    ASSUME NEW lines \in Seq(LogLine), NEW p \in Nat, p >= Len(lines)
    PROVE  {n \in Valid(lines) : n <= p} = Valid(lines)
  BY ValidPlaces

LEMMA Constants ==
    /\ MaxImportLines \in Nat /\ MaxImportLines > 0 /\ BatchSize \in Nat /\ BatchSize > 0
    /\ IsFiniteSet(Imports) /\ LiveEntries \subseteq Entries /\ Uploads # {}
    /\ \A u \in Uploads : u.lines \in Seq(LogLine) /\ u.name \in FileNames
  BY ImportAssumption DEF FileNames

-------------------------------------------------------------------------------
\* An upload finds a free inode: there are as many as requests, and those that
\* have one in use are past the point where they made it.

LEMMA UsedInodes ==
    ASSUME Types
    PROVE  /\ Used \subseteq Inodes /\ IsFiniteSet(Used) /\ IsFiniteSet(Past)
           /\ Cardinality(Used) \in Nat /\ Cardinality(Past) \in Nat
           /\ Past \subseteq Imports /\ Cardinality(Imports) \in Nat
           /\ IsFiniteSet(Inodes) /\ Cardinality(Inodes) = Cardinality(Imports)
  <1>1. Used \subseteq Inodes
    BY DEF Types, Used, Request
  <1>2. Cardinality(Imports) \in Nat
    BY Constants, FS_CardinalityType
  <1>3. IsFiniteSet(Inodes) /\ Cardinality(Inodes) = Cardinality(Imports)
    BY <1>2, FS_Interval DEF Inodes
  <1>4. Past \subseteq Imports
    BY DEF Past
  <1>5. IsFiniteSet(Used) /\ IsFiniteSet(Past)
    BY <1>1, <1>3, <1>4, Constants, FS_Subset
  <1> QED
    BY <1>1, <1>2, <1>3, <1>4, <1>5, FS_CardinalityType

LEMMA FreeInode ==
    ASSUME Types, Owned, NEW i \in Imports, imp[i].at = "create"
    PROVE  LET name == imp[i].upload.name IN
           /\ name \in FileNames /\ Created(name) \in Inodes
           /\ Created(name) \in Used => Created(name) = temp[name]
  <1> DEFINE name == imp[i].upload.name
             free == {n \in Inodes : /\ \A f \in FileNames : temp[f] # n
                                     /\ \A j \in Imports : Running(j) => imp[j].node # n}
  <1>1. name \in FileNames
    BY Constants DEF Types, Request
  <1>2. CASE temp[name] # 0
    BY <1>1, <1>2 DEF Created, Types
  <1>3. CASE temp[name] = 0
    <2>1. free = Inodes \ Used
      BY DEF Used, Inodes
    <2>2. free # {}
      <3> SUFFICES ASSUME Inodes \subseteq Used PROVE FALSE
        BY <2>1
      <3>1. Used = Inodes
        BY UsedInodes
      <3>2. Past \subseteq Imports \ {i} /\ i \in Imports
        BY DEF Past
      <3>3. IsFiniteSet(Imports \ {i}) /\ Cardinality(Imports \ {i}) = Cardinality(Imports) - 1
        BY Constants, FS_RemoveElement
      <3>4. Cardinality(Past) <= Cardinality(Imports) - 1
        BY <3>2, <3>3, FS_Subset
      <3>5. Cardinality(Imports) <= Cardinality(Past)
        BY <3>1, UsedInodes DEF Owned
      <3> QED
        BY <3>4, <3>5, UsedInodes
    <2>3. free \in SUBSET Nat
      BY UsedInodes DEF Inodes
    <2>4. Created(name) = Min(free)
      BY <1>3 DEF Created
    <2>5. Created(name) \in free
      BY <2>2, <2>3, <2>4, LeastIn
    <2> QED
      BY <1>1, <2>1, <2>5
  <1> QED
    BY <1>1, <1>2, <1>3

-------------------------------------------------------------------------------
\* Types

\* A step of request i: what it makes of its own record.
Goes(i, r) == r \in Request /\ imp' = [imp EXCEPT ![i] = r]

LEMMA OneRequest ==
    ASSUME Types, NEW i \in Imports, NEW r, Goes(i, r)
    PROVE  /\ imp' \in [Imports -> Request]
           /\ imp'[i] = r /\ \A j \in Imports \ {i} : imp'[j] = imp[j]
  BY DEF Types, Goes

\* Changing fields of a record leaves it one.
LEMMA Changed ==
    ASSUME NEW r \in Request
    PROVE  /\ \A x \in Steps : [r EXCEPT !.at = x] \in Request
           /\ \A x \in {0} \cup Inodes : [r EXCEPT !.node = x] \in Request
           /\ \A x \in BOOLEAN : [r EXCEPT !.limit = x] \in Request
           /\ \A x \in BOOLEAN : [r EXCEPT !.shared = x] \in Request
           /\ \A x \in Formats : [r EXCEPT !.format = x] \in Request
           /\ \A x \in Nat : [r EXCEPT !.before = x] \in Request /\ [r EXCEPT !.target = x] \in Request
           /\ \A x \in Nat : [r EXCEPT !.pos = x] \in Request /\ [r EXCEPT !.accepted = x] \in Request
           /\ \A x \in Nat : [r EXCEPT !.dropped = x] \in Request
           /\ \A x \in Nat : [r EXCEPT !.written = x] \in Request
           /\ \A x \in SUBSET Entries : [r EXCEPT !.batch = x] \in Request
           /\ r.pos \in Nat /\ r.accepted \in Nat /\ r.dropped \in Nat /\ r.written \in Nat
           /\ r.batch \in SUBSET Entries
  BY DEF Request

Answered(r, status, imported) ==
    [r EXCEPT !.at = "done", !.status = status, !.imported = imported,
              !.before = 0, !.node = 0, !.pos = 0]

LEMMA Answers ==
    ASSUME Types, NEW i \in Imports, NEW status \in {"ok", "partial", "warning", "error"},
           NEW imported \in Nat, NEW uploaded \in BOOLEAN, Answer(i, status, imported, uploaded)
    PROVE  /\ Goes(i, Answered(imp[i], status, imported)) /\ UNCHANGED inode
           /\ temp' \in [FileNames -> {0} \cup Inodes]
           /\ \A f \in FileNames : temp'[f] # temp[f] =>
                 f = imp[i].upload.name /\ temp'[f] = 0
  <1>1. imp[i] \in Request
    BY DEF Types
  <1>2. Answered(imp[i], status, imported) \in Request
    BY <1>1 DEF Request, Answered, Steps
  <1>3. imp' = [imp EXCEPT ![i] = Answered(imp[i], status, imported)]
    BY DEF Answer, Answered
  <1>4. temp \in [FileNames -> {0} \cup Inodes]
        /\ temp' = IF uploaded THEN [temp EXCEPT ![imp[i].upload.name] = 0] ELSE temp
    BY DEF Answer, Types
  <1> QED
    BY <1>2, <1>3, <1>4 DEF Goes, Answer

LEMMA ProgressSteps ==
    ASSUME Types, NEW i \in Imports
    PROVE  /\ \A h \in Nat, phase \in Phases : Update(i, h, phase) \in Progress
           /\ \A p \in Progress, phase \in Phases : Ended(p, phase) \in Progress
           /\ NoProgress \in Progress
           /\ \A p \in Progress, phase \in Phases, target \in Nat :
                 [p EXCEPT !.phase = phase, !.target = target] \in Progress
           /\ \A p \in Progress :
                 progress' = [progress EXCEPT ![i] = p] => progress' \in [Imports -> Progress]
  <1>1. imp[i].target \in Nat
    BY DEF Types, Request
  <1>2. ASSUME NEW h \in Nat, NEW phase \in Phases PROVE Update(i, h, phase) \in Progress
    <2>1. Percent(h, imp[i].target) \in 0..100
      BY <1>1, PercentRange
    <2> QED
      BY <1>1, <2>1 DEF Update, Progress
  <1>3. ASSUME NEW p \in Progress, NEW phase \in Phases PROVE Ended(p, phase) \in Progress
    <2> DEFINE percent == IF p.target > 0 /\ phase \in {"completed", "partial"} THEN 100 ELSE p.percent
    <2>1. percent \in 0..100
      BY DEF Progress
    <2>2. Ended(p, phase) = [p EXCEPT !.phase = phase, !.percent = percent]
      BY DEF Ended
    <2> HIDE DEF percent
    <2> QED
      BY <2>1, <2>2 DEF Progress
  <1>4. NoProgress \in Progress
    BY DEF NoProgress, Progress, Phases
  <1>5. \A p \in Progress, phase \in Phases, target \in Nat :
           [p EXCEPT !.phase = phase, !.target = target] \in Progress
    BY DEF Progress
  <1> QED
    BY <1>2, <1>3, <1>4, <1>5 DEF Types

LEMMA GivesUp ==
    ASSUME Types, NEW i \in Imports, NEW phase \in Phases,
           NEW status \in {"ok", "partial", "warning", "error"},
           NEW uploaded \in BOOLEAN, GiveUp(i, phase, status, uploaded)
    PROVE  /\ Goes(i, Answered(imp[i], status, 0)) /\ UNCHANGED <<tvars, inode>>
           /\ temp' \in [FileNames -> {0} \cup Inodes]
           /\ \A f \in FileNames : temp'[f] # temp[f] =>
                 f = imp[i].upload.name /\ temp'[f] = 0
           /\ progress' \in [Imports -> Progress]
  <1>1. Answer(i, status, 0, uploaded) /\ UNCHANGED tvars
    BY DEF GiveUp
  <1>2. progress[i] \in Progress /\ progress' = [progress EXCEPT ![i] = Ended(progress[i], phase)]
    BY DEF GiveUp, Types
  <1>3. progress' \in [Imports -> Progress]
    BY <1>2, ProgressSteps
  <1> QED
    BY <1>1, <1>3, Answers

\* The line a request reads next.
LEMMA NextLine ==
    ASSUME Types, NEW i \in Imports, More(i)
    PROVE  /\ imp[i].node \in Inodes /\ imp[i].pos \in Nat
           /\ Content(imp[i].node) = inode[imp[i].node]
           /\ imp[i].pos + 1 \in 1..Len(inode[imp[i].node]) /\ Len(inode[imp[i].node]) \in Nat
           /\ Line(i) = inode[imp[i].node][imp[i].pos + 1] /\ Line(i) \in LogLine
           /\ EntryOf(i, imp[i].pos + 1, Line(i)) \in Entries
  <1>1. imp[i].node \in {0} \cup Inodes /\ imp[i].pos \in Nat
    BY DEF Types, Request
  <1>2. imp[i].node # 0
    <2> SUFFICES ASSUME imp[i].node = 0 PROVE FALSE
      OBVIOUS
    <2>1. imp[i].pos < Len(<<>>)
      BY DEF More, Content
    <2> QED
      BY <1>1, <2>1
  <1>3. imp[i].node \in Inodes /\ Content(imp[i].node) = inode[imp[i].node]
    BY <1>1, <1>2 DEF Content
  <1> DEFINE lines == inode[imp[i].node]
             n == imp[i].pos + 1
  <1>4. lines \in Seq(LogLine) /\ Placed(lines)
    BY <1>3 DEF Types
  <1>5. Len(lines) \in Nat /\ DOMAIN lines = 1..Len(lines) /\ imp[i].pos < Len(lines)
    BY <1>3, <1>4 DEF More
  <1>6. n \in 1..Len(lines)
    BY <1>1, <1>5
  <1>7. Line(i) = lines[n]
    BY <1>3 DEF Line
  <1> HIDE DEF lines, n
  <1>8. lines[n] \in LogLine
    BY <1>4, <1>5, <1>6
  <1>9. PICK u \in Uploads : n \in DOMAIN u.lines /\ lines[n] = u.lines[n]
    BY <1>4, <1>5, <1>6 DEF Placed
  <1>10. EntryOf(i, n, u.lines[n]) \in Entries
    BY <1>9, ImportAssumption
  <1> QED
    BY <1>1, <1>3, <1>5, <1>6, <1>7, <1>8, <1>9, <1>10 DEF lines, n

\* What each step of a request makes of its record.
LEMMA Reading ==
    ASSUME Types, NEW i \in Imports
    PROVE  /\ ReadIgnored(i) => Goes(i, [imp[i] EXCEPT !.pos = @ + 1])
           /\ ReadDropped(i) => Goes(i, [imp[i] EXCEPT !.pos = @ + 1, !.dropped = @ + 1])
           /\ ReadAccepted(i) =>
                LET batch == imp[i].batch \cup {EntryOf(i, imp[i].pos + 1, Line(i))} IN
                Goes(i, [imp[i] EXCEPT !.pos = @ + 1, !.accepted = @ + 1, !.batch = batch,
                                       !.at = IF Cardinality(batch) >= BatchSize THEN "save" ELSE "read"])
           /\ ReadEnds(i) =>
                Goes(i, [imp[i] EXCEPT !.at = IF imp[i].batch = {} THEN "report" ELSE "flush",
                                       !.limit = @ \/ More(i)])
  <1>0. /\ imp[i] \in Request /\ imp[i].pos + 1 \in Nat
        /\ imp[i].dropped + 1 \in Nat /\ imp[i].accepted + 1 \in Nat
    BY Changed DEF Types
  <1>1. ASSUME ReadIgnored(i) PROVE Goes(i, [imp[i] EXCEPT !.pos = @ + 1])
    BY <1>0, <1>1 DEF ReadIgnored, Goes, Request
  <1>2. ASSUME ReadDropped(i) PROVE Goes(i, [imp[i] EXCEPT !.pos = @ + 1, !.dropped = @ + 1])
    <2>1. imp' = [imp EXCEPT ![i] = [imp[i] EXCEPT !.pos = @ + 1, !.dropped = @ + 1]]
      BY <1>2 DEF ReadDropped
    <2> DEFINE r1 == [imp[i] EXCEPT !.pos = @ + 1]
               r2 == [r1 EXCEPT !.dropped = imp[i].dropped + 1]
    <2>2. r2 \in Request
      <3>1. r1 \in Request
        BY <1>0, Changed
      <3> HIDE DEF r1
      <3> QED
        BY <1>0, <3>1, Changed
    <2>3. r2 = [imp[i] EXCEPT !.pos = @ + 1, !.dropped = @ + 1]
      OBVIOUS
    <2> HIDE DEF r1, r2
    <2> QED
      BY <2>1, <2>2, <2>3 DEF Goes
  <1>3. ASSUME ReadAccepted(i)
        PROVE  LET batch == imp[i].batch \cup {EntryOf(i, imp[i].pos + 1, Line(i))} IN
               Goes(i, [imp[i] EXCEPT !.pos = @ + 1, !.accepted = @ + 1, !.batch = batch,
                                      !.at = IF Cardinality(batch) >= BatchSize THEN "save" ELSE "read"])
    <2> DEFINE batch == imp[i].batch \cup {EntryOf(i, imp[i].pos + 1, Line(i))}
               next == IF Cardinality(batch) >= BatchSize THEN "save" ELSE "read"
    <2>1. batch \in SUBSET Entries
      <3>1. More(i)
        BY <1>3 DEF ReadAccepted
      <3> QED
        BY <1>0, <3>1, NextLine DEF Request
    <2>2. imp' = [imp EXCEPT ![i].pos = @ + 1, ![i].accepted = @ + 1, ![i].batch = batch, ![i].at = next]
      BY <1>3 DEF ReadAccepted
    <2>3. next \in Steps
      BY DEF Steps
    <2> HIDE DEF batch, next
    <2>4. imp' = [imp EXCEPT ![i] =
                    [imp[i] EXCEPT !.pos = @ + 1, !.accepted = @ + 1, !.batch = batch, !.at = next]]
      BY <2>2
    <2>5. [imp[i] EXCEPT !.pos = @ + 1, !.accepted = @ + 1, !.batch = batch, !.at = next] \in Request
      <3> DEFINE r1 == [imp[i] EXCEPT !.pos = @ + 1]
                 r2 == [r1 EXCEPT !.accepted = imp[i].accepted + 1]
                 r3 == [r2 EXCEPT !.batch = batch]
      <3>a. r1 \in Request
        BY <1>0, Changed
      <3>b. r2 \in Request
        <4> HIDE DEF r1
        <4> QED
          BY <1>0, <3>a, Changed
      <3>c. r3 \in Request
        <4> HIDE DEF r2
        <4> QED
          BY <3>b, <2>1, Changed
      <3>1. [r3 EXCEPT !.at = next] \in Request
        <4> HIDE DEF r3
        <4> QED
          BY <3>c, <2>3, Changed
      <3> QED
        BY <3>1
    <2>6. Goes(i, [imp[i] EXCEPT !.pos = @ + 1, !.accepted = @ + 1, !.batch = batch, !.at = next])
      BY <2>4, <2>5 DEF Goes
    <2> QED
      BY <2>6 DEF batch, next
  <1>4. ASSUME ReadEnds(i)
        PROVE  Goes(i, [imp[i] EXCEPT !.at = IF imp[i].batch = {} THEN "report" ELSE "flush",
                                      !.limit = @ \/ More(i)])
    <2> DEFINE more == More(i)
    <2>1. more \in BOOLEAN
      BY DEF More
    <2>2. imp' = [imp EXCEPT ![i].at = IF imp[i].batch = {} THEN "report" ELSE "flush", ![i].limit = @ \/ more]
      BY <1>4 DEF ReadEnds
    <2> HIDE DEF more
    <2>3. Goes(i, [imp[i] EXCEPT !.at = IF imp[i].batch = {} THEN "report" ELSE "flush", !.limit = @ \/ more])
      BY <1>0, <2>1, <2>2 DEF Goes, Request, Steps
    <2> QED
      BY <2>3 DEF more
  <1> QED
    BY <1>1, <1>2, <1>3, <1>4

Scanned(r) ==
    LET content == Content(temp[r.upload.name]) IN
    [r EXCEPT !.at = "open", !.before = Cardinality(rows),
              !.format = DetectFormat(content[Min(Valid(content))]),
              !.target = Min({Cardinality(Valid(content)), MaxImportLines}),
              !.limit = LimitMet(Cardinality(Valid(content)))]

\* The scan reads the file under the request's name; three things can come of it.
ScanEnds(i) ==
    LET content == Content(temp[imp[i].upload.name]) IN
    /\ imp[i].at = "scan" /\ temp[imp[i].upload.name] # 0
    /\ \/ Valid(content) = {} /\ GiveUp(i, "completed", "ok", TRUE)
       \/ GiveUp(i, "warning", "warning", TRUE)
       \/ /\ Valid(content) # {} /\ Goes(i, Scanned(imp[i])) /\ UNCHANGED <<tvars, temp, inode>>
          /\ progress' \in [Imports -> Progress]

LEMMA ContentTyped ==
    ASSUME Types, NEW n \in {0} \cup Inodes
    PROVE  Content(n) \in Seq(LogLine)
  BY DEF Content, Types

LEMMA Scanning ==
    ASSUME Types, NEW i \in Imports, NEW setting \in Settings, Scan(i, setting)
    PROVE  ScanEnds(i)
  <1> DEFINE node == temp[imp[i].upload.name]
             valid == Valid(Content(node))
             format == DetectFormat(Content(node)[Min(valid)])
             target == Min({Cardinality(valid), MaxImportLines})
  <1>0. imp[i] \in Request /\ imp[i].upload.name \in FileNames /\ node \in {0} \cup Inodes
    BY Constants DEF Types, Request
  <1>1. Content(node) \in Seq(LogLine)
    BY <1>0, ContentTyped
  <1>2. format \in Formats /\ LimitMet(Cardinality(valid)) \in BOOLEAN
    BY Detected DEF LimitMet
  <1>3. target \in Nat
    BY <1>1, ValidPlaces, Constants, LeastOfTwo
  <1>4. Cardinality(rows) \in Nat
    BY FS_CardinalityType DEF Types
  <1>5. imp[i].at = "scan" /\ node # 0
    BY DEF Scan
  <1>6. CASE valid = {}
    <2>1. GiveUp(i, "completed", "ok", TRUE)
      BY <1>6 DEF Scan
    <2> QED
      BY <1>5, <1>6, <2>1 DEF ScanEnds
  <1>7. CASE valid # {} /\ ~Compatible(format, setting)
    <2>1. GiveUp(i, "warning", "warning", TRUE)
      BY <1>7 DEF Scan
    <2> QED
      BY <1>5, <2>1 DEF ScanEnds
  <1>8. CASE valid # {} /\ Compatible(format, setting)
    <2> DEFINE p == [NoProgress EXCEPT !.phase = "processing", !.target = target]
               r == [imp[i] EXCEPT !.at = "open", !.before = Cardinality(rows), !.format = format,
                                   !.target = target, !.limit = LimitMet(Cardinality(valid))]
    <2>1. /\ imp' = [imp EXCEPT ![i] = r] /\ progress' = [progress EXCEPT ![i] = p]
          /\ UNCHANGED <<tvars, temp, inode>>
      BY <1>8 DEF Scan
    <2>2. r = Scanned(imp[i])
      BY DEF Scanned
    <2>3. r \in Request
      <3> DEFINE limit == LimitMet(Cardinality(valid))
                 before == Cardinality(rows)
      <3>1. limit \in BOOLEAN /\ before \in Nat /\ imp[i] \in Request /\ format \in Formats /\ target \in Nat
        BY <1>0, <1>2, <1>3, <1>4
      <3> HIDE DEF limit, format, target, before, valid
      <3> DEFINE r1 == [imp[i] EXCEPT !.at = "open"]
                 r2 == [r1 EXCEPT !.before = before]
                 r3 == [r2 EXCEPT !.format = format]
                 r4 == [r3 EXCEPT !.target = target]
      <3>2. r1 \in Request
        BY <3>1, Changed DEF Steps
      <3>3. r2 \in Request
        <4> HIDE DEF r1
        <4> QED
          BY <3>1, <3>2, Changed
      <3>4. r3 \in Request
        <4> HIDE DEF r2
        <4> QED
          BY <3>1, <3>3, Changed
      <3>5. r4 \in Request
        <4> HIDE DEF r3
        <4> QED
          BY <3>1, <3>4, Changed
      <3>6. [r4 EXCEPT !.limit = limit] \in Request
        <4> HIDE DEF r4
        <4> QED
          BY <3>1, <3>5, Changed
      <3> DEFINE old == imp[i]
      <3>7. [imp[i] EXCEPT !.at = "open", !.before = before, !.format = format,
                           !.target = target, !.limit = limit] = [r4 EXCEPT !.limit = limit]
        <4> HIDE DEF old
        <4>1. [old EXCEPT !.at = "open", !.before = before, !.format = format,
                          !.target = target, !.limit = limit] =
                [[[[[old EXCEPT !.at = "open"] EXCEPT !.before = before] EXCEPT !.format = format]
                     EXCEPT !.target = target] EXCEPT !.limit = limit]
          BY Zenon
        <4> QED
          BY <4>1, Zenon DEF old
      <3> QED
        BY <3>6, <3>7 DEF limit, before
    <2>4. p \in Progress
      <3> HIDE DEF target
      <3> QED
        BY <1>3, ProgressSteps DEF Phases
    <2> HIDE DEF r, p
    <2>5. progress' \in [Imports -> Progress]
      BY <2>1, <2>4, ProgressSteps
    <2> QED
      BY <1>5, <1>8, <2>1, <2>2, <2>3, <2>5 DEF ScanEnds, Goes
  <1> QED
    BY <1>6, <1>7, <1>8

LEMMA Uploading ==
    ASSUME Types, Owned, NEW i \in Imports
    PROVE  /\ UploadCreates(i) =>
                Goes(i, [imp[i] EXCEPT !.at = "write", !.node = Created(imp[i].upload.name)])
           /\ UploadWrites(i) => Goes(i, [imp[i] EXCEPT !.at = "scan"])
           /\ Reopen(i) => Goes(i, [imp[i] EXCEPT !.at = "read", !.node = temp[imp[i].upload.name]])
  <1>0. imp[i] \in Request
    BY DEF Types
  <1>1. ASSUME UploadCreates(i)
        PROVE  Goes(i, [imp[i] EXCEPT !.at = "write", !.node = Created(imp[i].upload.name)])
    <2> DEFINE n == Created(imp[i].upload.name)
    <2>1. n \in Inodes
      BY <1>1, FreeInode DEF UploadCreates
    <2>2. imp' = [imp EXCEPT ![i].at = "write", ![i].node = n]
      BY <1>1 DEF UploadCreates
    <2> HIDE DEF n
    <2>3. [imp[i] EXCEPT !.at = "write", !.node = n] \in Request
      BY <1>0, <2>1 DEF Request, Steps
    <2>4. Goes(i, [imp[i] EXCEPT !.at = "write", !.node = n])
      BY <2>2, <2>3 DEF Goes
    <2> QED
      BY <2>4 DEF n
  <1>2. ASSUME UploadWrites(i) PROVE Goes(i, [imp[i] EXCEPT !.at = "scan"])
    BY <1>0, <1>2, Changed DEF UploadWrites, Goes, Steps
  <1>3. ASSUME Reopen(i) PROVE Goes(i, [imp[i] EXCEPT !.at = "read", !.node = temp[imp[i].upload.name]])
    <2> DEFINE n == temp[imp[i].upload.name]
    <2>1. n \in {0} \cup Inodes
      BY <1>0, Constants DEF Types, Request
    <2>2. imp' = [imp EXCEPT ![i].at = "read", ![i].node = n]
      BY <1>3 DEF Reopen
    <2> HIDE DEF n
    <2>3. [imp[i] EXCEPT !.at = "read", !.node = n] \in Request
      BY <1>0, <2>1 DEF Request, Steps
    <2>4. Goes(i, [imp[i] EXCEPT !.at = "read", !.node = n])
      BY <2>2, <2>3 DEF Goes
    <2> QED
      BY <2>4 DEF n
  <1> QED
    BY <1>1, <1>2, <1>3

LEMMA Saving ==
    ASSUME Types, NEW i \in Imports, Record(imp[i]), Save(i)
    PROVE  /\ Goes(i, [imp[i] EXCEPT !.at = IF @ = "save" THEN "read" ELSE "report",
                                     !.written = @ + Cardinality(imp[i].batch), !.batch = {}])
           /\ rows' \subseteq Entries /\ IsFiniteSet(rows')
  <1> DEFINE n == imp[i].written + Cardinality(imp[i].batch)
             next == IF imp[i].at = "save" THEN "read" ELSE "report"
             r1 == [imp[i] EXCEPT !.at = next]
             r2 == [r1 EXCEPT !.written = n]
  <1>1. imp[i] \in Request /\ imp[i].written \in Nat /\ imp[i].batch \subseteq Entries
        /\ IsFiniteSet(imp[i].batch)
    BY Changed DEF Types, Record
  <1>2. n \in Nat
    BY <1>1, FS_CardinalityType
  <1>3. r1 \in Request
    BY <1>1, Changed DEF Steps
  <1>4. r2 \in Request
    <2> HIDE DEF r1, n
    <2> QED
      BY <1>2, <1>3, Changed
  <1>5. [r2 EXCEPT !.batch = {}] \in Request
    <2> HIDE DEF r2
    <2> QED
      BY <1>4, Changed
  <1>6. imp' = [imp EXCEPT ![i].at = next, ![i].written = n, ![i].batch = {}]
    BY DEF Save, Kept
  <1>7. Goes(i, [imp[i] EXCEPT !.at = next, !.written = n, !.batch = {}])
    <2> HIDE DEF next, n
    <2> QED
      BY <1>5, <1>6 DEF Goes, next, n
  <1>8. rows' = rows \cup {e \in imp[i].batch : e.fits}
    BY DEF Save, SaveRows
  <1>9. rows' \subseteq Entries /\ IsFiniteSet(rows')
    <2>1. IsFiniteSet({e \in imp[i].batch : e.fits})
      BY <1>1, FS_Subset
    <2> QED
      BY <1>1, <1>8, <2>1, FS_Union DEF Types
  <1> QED
    BY <1>7, <1>9

LEMMA Reporting ==
    ASSUME Types, NEW i \in Imports, Report(i)
    PROVE  /\ Imported(i) \in Nat /\ Status(i, Imported(i)) \in {"ok", "partial", "warning", "error"}
           /\ Goes(i, Answered(imp[i], Status(i, Imported(i)), Imported(i))) /\ UNCHANGED <<tvars, inode>>
           /\ temp' \in [FileNames -> {0} \cup Inodes]
           /\ \A f \in FileNames : temp'[f] # temp[f] =>
                 f = imp[i].upload.name /\ temp'[f] = 0
           /\ progress' \in [Imports -> Progress]
  <1> DEFINE imported == Imported(i)
             status == Status(i, imported)
             phase == CASE status = "ok" -> "completed"
                        [] status \in {"partial", "warning"} -> "partial"
                        [] status = "error" -> "error"
  <1>1. imported \in Nat
    <2>1. Cardinality(rows) \in Nat /\ imp[i].written \in Nat /\ imp[i].before \in Nat
      BY FS_CardinalityType DEF Types, Request
    <2> QED
      BY <2>1 DEF Imported
  <1>2. status \in {"ok", "partial", "warning", "error"}
    BY DEF Status
  <1>3. phase \in Phases
    BY <1>2 DEF Phases
  <1>4. /\ progress' = [progress EXCEPT ![i] = Update(i, Handled(i), phase)]
        /\ Answer(i, status, imported, TRUE) /\ UNCHANGED tvars
    BY DEF Report
  <1>5. Handled(i) \in Nat
    BY DEF Types, Request, Handled
  <1> HIDE DEF imported, status, phase
  <1>6. progress' \in [Imports -> Progress]
    BY <1>3, <1>4, <1>5, ProgressSteps
  <1>7. /\ Goes(i, Answered(imp[i], status, imported)) /\ UNCHANGED inode
        /\ temp' \in [FileNames -> {0} \cup Inodes]
        /\ \A f \in FileNames : temp'[f] # temp[f] => f = imp[i].upload.name /\ temp'[f] = 0
    BY <1>1, <1>2, <1>4, Answers
  <1> QED
    BY <1>1, <1>2, <1>4, <1>6, <1>7 DEF imported, status

\* Every request that begins knows the others whose file has the same name.
LEMMA Beginning ==
    ASSUME Types, NEW i \in Imports, NEW u \in Uploads, Begin(i, u)
    PROVE  LET others == {j \in Imports : Running(j) /\ imp[j].upload.name = u.name} IN
           /\ imp[i].at = "idle" /\ imp' \in [Imports -> Request]
           /\ imp'[i] = [Idle EXCEPT !.at = "create", !.upload = u, !.shared = others # {}]
           /\ \A j \in Imports \ {i} : imp'[j] = [imp[j] EXCEPT !.shared = @ \/ j \in others]
           /\ progress' \in [Imports -> Progress] /\ UNCHANGED <<tvars, temp, inode>>
  <1> DEFINE others == {j \in Imports : Running(j) /\ imp[j].upload.name = u.name}
             first == [Idle EXCEPT !.at = "create", !.upload = u, !.shared = others # {}]
             p == [NoProgress EXCEPT !.phase = "preparing"]
  <1>1. /\ imp[i].at = "idle"
        /\ imp' = [j \in Imports |-> IF j = i THEN first ELSE [imp[j] EXCEPT !.shared = @ \/ j \in others]]
        /\ progress' = [progress EXCEPT ![i] = p] /\ UNCHANGED <<tvars, temp, inode>>
    BY DEF Begin
  <1>2. first \in Request
    BY DEF Idle, Request, Steps, Formats
  <1>3. ASSUME NEW j \in Imports PROVE [imp[j] EXCEPT !.shared = @ \/ j \in others] \in Request
    BY ZenonT(30) DEF Types, Request
  <1>4. p \in Progress
    BY DEF Progress, NoProgress, Phases
  <1> HIDE DEF others, first, p
  <1>5. progress' \in [Imports -> Progress]
    BY <1>1, <1>4, ProgressSteps
  <1> QED
    BY <1>1, <1>2, <1>3, <1>5 DEF others, first

\* What an upload puts into an inode.
LEMMA Written ==
    ASSUME NEW u \in Uploads, NEW old \in Seq(LogLine), Placed(old)
    PROVE  /\ Over(u.lines, old) \in Seq(LogLine) /\ Placed(Over(u.lines, old))
           /\ old = <<>> => Over(u.lines, old) = u.lines
  <1> DEFINE new == u.lines
             n == Len(new)
             rest == SubSeq(old, n + 1, Len(old))
             both == Over(new, old)
  <1>1. new \in Seq(LogLine) /\ n \in Nat /\ Len(old) \in Nat /\ DOMAIN old = 1..Len(old)
        /\ DOMAIN new = 1..n
    BY Constants
  <1>2. /\ rest \in Seq(LogLine)
        /\ n <= Len(old) => Len(rest) = Len(old) - n
        /\ n > Len(old) => Len(rest) = 0
        /\ \A k \in 1..(Len(old) - n) : rest[k] = old[n + k]
    <2> HIDE DEF n
    <2> QED
      BY <1>1, Rest
  <1>3. both = new \o rest
    BY DEF Over
  <1> HIDE DEF new, n, rest, both
  <1>4. /\ both \in Seq(LogLine) /\ Len(both) = Len(new) + Len(rest) /\ Len(rest) \in Nat
        /\ \A k \in 1..(Len(new) + Len(rest)) :
              both[k] = IF k <= Len(new) THEN new[k] ELSE rest[k - Len(new)]
    BY <1>1, <1>2, <1>3, ConcatProperties, LenProperties
  <1>5. DOMAIN both = 1..(n + Len(rest)) /\ n = Len(new)
    BY <1>4 DEF n
  <1>6. ASSUME NEW k \in DOMAIN both
        PROVE  \E v \in Uploads : k \in DOMAIN v.lines /\ both[k] = v.lines[k]
    <2>1. CASE k <= n
      <3>1. k \in DOMAIN new /\ both[k] = new[k]
        BY <1>1, <1>4, <1>5, <2>1
      <3> QED
        BY <3>1 DEF new
    <2>2. CASE ~(k <= n)
      <3>a. k \in Int /\ k > n /\ k <= n + Len(rest) /\ n + (k - n) = k
        BY <1>1, <1>4, <1>5, <2>2
      <3>b. n <= Len(old) /\ Len(rest) = Len(old) - n
        <4>1. Len(old) \in Nat /\ n \in Nat /\ Len(rest) \in Nat
          BY <1>1, <1>4
        <4>2. CASE n > Len(old)
          BY <1>2, <3>a, <4>1, <4>2
        <4>3. CASE n <= Len(old)
          BY <1>2, <4>3
        <4> QED
          BY <4>1, <4>2, <4>3
      <3>1. /\ k \in Int /\ k - n \in 1..(Len(old) - n) /\ k \in 1..Len(old) /\ n + (k - n) = k
            /\ both[k] = rest[k - n]
        <4>1. k - n \in 1..(Len(old) - n) /\ k \in 1..Len(old)
          BY <1>1, <3>a, <3>b
        <4>2. both[k] = rest[k - n]
          BY <1>4, <1>5, <2>2
        <4> QED
          BY <3>a, <4>1, <4>2
      <3>2. both[k] = old[k]
        BY <1>2, <3>1
      <3> QED
        BY <1>1, <3>1, <3>2 DEF Placed
    <2> QED
      BY <2>1, <2>2
  <1>7. ASSUME old = <<>> PROVE both = new
    <2>1. rest = <<>>
      BY <1>1, <1>2, <1>7, EmptySeq
    <2> QED
      BY <1>1, <1>3, <2>1, ConcatEmptySeq
  <1> QED
    BY <1>4, <1>6, <1>7 DEF both, new, Placed

LEMMA IdleTyped == Idle \in Request /\ Placed(<<>>) /\ <<>> \in Seq(LogLine)
  BY Constants DEF Idle, Request, Steps, Formats, Placed

LEMMA InitImports == Init => Types
  <1> SUFFICES ASSUME Init PROVE Types
    OBVIOUS
  <1>1. rows = {} /\ IsFiniteSet(rows)
    BY FS_EmptySet DEF Init, TableInit
  <1>2. NoProgress \in Progress
    BY DEF NoProgress, Progress, Phases
  <1>3. imp \in [Imports -> Request] /\ progress \in [Imports -> Progress]
    BY <1>2, IdleTyped DEF Init
  <1>4. inode \in [Inodes -> Seq(LogLine)] /\ \A n \in Inodes : Placed(inode[n])
    BY IdleTyped DEF Init
  <1>5. temp \in [FileNames -> {0} \cup Inodes]
    BY DEF Init
  <1> QED
    BY <1>1, <1>3, <1>4, <1>5 DEF Types

\* What happens to the table.
LEMMA TableTypes ==
    ASSUME Types, UNCHANGED vars \/ TableStep \/ \E e \in LiveEntries : StoreLive(e)
    PROVE  rows' \subseteq Entries /\ IsFiniteSet(rows')
  <1>1. ASSUME NEW S \in SUBSET rows, rows' = S PROVE rows' \subseteq Entries /\ IsFiniteSet(rows')
    BY <1>1, FS_Subset DEF Types
  <1>2. CASE UNCHANGED vars
    BY <1>1, <1>2 DEF vars, tvars
  <1>3. ASSUME NEW e \in LiveEntries, StoreLive(e) PROVE rows' \subseteq Entries /\ IsFiniteSet(rows')
    <2>1. rows' = rows \/ rows' = rows \cup {e}
      <3>1. rows' = rows \cup {d \in {e} : d.fits}
        BY <1>3 DEF StoreLive, SaveRows
      <3> QED
        BY <3>1
    <2>2. IsFiniteSet(rows) /\ IsFiniteSet(rows \cup {e})
      BY FS_AddElement DEF Types
    <2>3. rows \subseteq Entries /\ e \in Entries
      BY Constants DEF Types
    <2> QED
      BY <2>1, <2>2, <2>3
  <1>4. CASE TableStep
    <2>1. CASE CleanupReads
      BY <1>1, <2>1 DEF CleanupReads
    <2>2. CASE CleanupDeletes
      BY <1>1, <2>2 DEF CleanupDeletes
    <2>3. CASE CleanupFails \/ \E hours \in Retentions : UpdateConfig(hours)
      BY <1>1, <2>3 DEF CleanupFails, UpdateConfig
    <2>4. CASE Clear \/ \E e \in Deletable : Delete(e)
      BY <1>1, <2>4 DEF Clear, Delete
    <2> QED
      BY <1>4, <2>1, <2>2, <2>3, <2>4 DEF TableStep
  <1> QED
    BY <1>2, <1>3, <1>4

LEMMA UploadTypes ==
    ASSUME Types, Owned, NEW i \in Imports
    PROVE  /\ UploadCreates(i) =>
                /\ temp' \in [FileNames -> {0} \cup Inodes]
                /\ inode' \in [Inodes -> Seq(LogLine)] /\ \A n \in Inodes : Placed(inode'[n])
           /\ UploadWrites(i) =>
                inode' \in [Inodes -> Seq(LogLine)] /\ \A n \in Inodes : Placed(inode'[n])
  <1>0. /\ imp[i].upload \in Uploads /\ imp[i].upload.name \in FileNames
        /\ inode \in [Inodes -> Seq(LogLine)] /\ \A n \in Inodes : Placed(inode[n])
        /\ temp \in [FileNames -> {0} \cup Inodes]
    BY Constants DEF Types, Request
  <1>1. ASSUME UploadCreates(i)
        PROVE  /\ temp' \in [FileNames -> {0} \cup Inodes]
               /\ inode' \in [Inodes -> Seq(LogLine)] /\ \A n \in Inodes : Placed(inode'[n])
    <2> DEFINE m == Created(imp[i].upload.name)
    <2>1. m \in Inodes
      BY <1>1, FreeInode DEF UploadCreates
    <2>2. temp' = [temp EXCEPT ![imp[i].upload.name] = m] /\ inode' = [inode EXCEPT ![m] = <<>>]
      BY <1>1 DEF UploadCreates
    <2> HIDE DEF m
    <2> QED
      BY <1>0, <2>1, <2>2, IdleTyped
  <1>2. ASSUME UploadWrites(i)
        PROVE  inode' \in [Inodes -> Seq(LogLine)] /\ \A n \in Inodes : Placed(inode'[n])
    <2> DEFINE m == imp[i].node
               new == Over(imp[i].upload.lines, inode[m])
    <2>1. inode' = [inode EXCEPT ![m] = new]
      BY <1>2 DEF UploadWrites
    <2>2. m \in Inodes => new \in Seq(LogLine) /\ Placed(new)
      BY <1>0, Written
    <2> HIDE DEF m, new
    <2> QED
      BY <1>0, <2>1, <2>2
  <1> QED
    BY <1>1, <1>2

LEMMA NextTypes ==
    ASSUME Types, Owned, \A i \in Imports : Record(imp[i]), [Next]_vars
    PROVE  Types'
  <1>1. ASSUME UNCHANGED ivars, UNCHANGED vars \/ TableStep \/ \E e \in LiveEntries : StoreLive(e)
        PROVE  Types'
    BY <1>1, TableTypes DEF Types, ivars
  <1>2. ASSUME NEW i \in Imports, ImportStep(i) PROVE Types'
    <2>0. /\ rows \subseteq Entries /\ IsFiniteSet(rows)
          /\ temp \in [FileNames -> {0} \cup Inodes]
          /\ inode \in [Inodes -> Seq(LogLine)] /\ \A n \in Inodes : Placed(inode[n])
          /\ progress \in [Imports -> Progress]
      BY DEF Types
    <2>1. ASSUME NEW u \in Uploads, Begin(i, u) PROVE Types'
      BY <2>0, <2>1, Beginning DEF Types, tvars
    <2>2. CASE UploadCreates(i)
      BY <2>0, <2>2, Uploading, UploadTypes, OneRequest DEF Types, UploadCreates, tvars
    <2>3. CASE UploadWrites(i)
      BY <2>0, <2>3, Uploading, UploadTypes, OneRequest DEF Types, UploadWrites, tvars
    <2>4. ASSUME NEW phase \in Phases, NEW status \in {"ok", "warning", "error"},
                 NEW uploaded \in BOOLEAN, GiveUp(i, phase, status, uploaded)
          PROVE  Types'
      BY <2>0, <2>4, GivesUp, OneRequest DEF Types, tvars
    <2>5. CASE UploadFails(i) \/ OpenFails(i) \/ ReadFails(i) \/ SaveFails(i)
      BY <2>4, <2>5 DEF UploadFails, OpenFails, ReadFails, SaveFails, Phases
    <2>6. ASSUME NEW setting \in Settings, Scan(i, setting) PROVE Types'
      <3>1. ScanEnds(i)
        BY <2>6, Scanning
      <3>2. CASE Goes(i, Scanned(imp[i])) /\ UNCHANGED <<tvars, temp, inode>>
                 /\ progress' \in [Imports -> Progress]
        BY <2>0, <3>2, OneRequest DEF Types, tvars
      <3> QED
        BY <2>4, <3>1, <3>2 DEF ScanEnds, Phases
    <2>7. CASE Reopen(i)
      BY <2>0, <2>7, Uploading, OneRequest DEF Types, Reopen, tvars
    <2>8. CASE ReadIgnored(i)
      BY <2>0, <2>8, Reading, OneRequest DEF Types, ReadIgnored, tvars
    <2>9. CASE ReadDropped(i)
      <3> DEFINE p == Update(i, Handled(i) + 1, "processing")
      <3>1. /\ progress' = [progress EXCEPT ![i] = p] /\ UNCHANGED <<tvars, temp, inode>>
        BY <2>9 DEF ReadDropped
      <3>2. Handled(i) + 1 \in Nat /\ "processing" \in Phases
        BY DEF Types, Request, Handled, Phases
      <3>3. p \in Progress
        BY <3>2, ProgressSteps
      <3> HIDE DEF p
      <3>4. progress' \in [Imports -> Progress]
        BY <3>1, <3>3, ProgressSteps
      <3> QED
        BY <2>0, <2>9, <3>1, <3>4, Reading, OneRequest DEF Types, tvars
    <2>10. CASE ReadAccepted(i)
      <3>1. imp' \in [Imports -> Request]
        BY <2>10, Reading, OneRequest, Zenon
      <3> QED
        BY <2>0, <2>10, <3>1 DEF Types, ReadAccepted, tvars
    <2>11. CASE ReadEnds(i)
      BY <2>0, <2>11, Reading, OneRequest DEF Types, ReadEnds, tvars
    <2>12. CASE Save(i)
      <3> DEFINE p == Update(i, Handled(i), "processing")
      <3>1. /\ progress' = [progress EXCEPT ![i] = p] /\ UNCHANGED <<temp, inode>>
        BY <2>12 DEF Save
      <3>2. Handled(i) \in Nat /\ "processing" \in Phases
        BY DEF Types, Request, Handled, Phases
      <3>3. p \in Progress
        BY <3>2, ProgressSteps
      <3> HIDE DEF p
      <3>4. progress' \in [Imports -> Progress]
        BY <3>1, <3>3, ProgressSteps
      <3> QED
        BY <2>0, <2>12, <3>1, <3>4, Saving, OneRequest DEF Types
    <2>13. CASE Report(i)
      BY <2>0, <2>13, Reporting, OneRequest DEF Types, tvars
    <2> QED
      BY <1>2, <2>1, <2>2, <2>3, <2>5, <2>6, <2>7, <2>8, <2>9, <2>10, <2>11, <2>12, <2>13
         DEF ImportStep
  <1> QED
    BY <1>1, <1>2 DEF Next, StoreLive, vars, ivars

-------------------------------------------------------------------------------
\* What each step makes of a record

LEMMA RecordFields ==
    ASSUME Types, NEW i \in Imports, Record(imp[i])
    PROVE  /\ imp[i] \in Request /\ imp[i].at \in Steps
           /\ imp[i].written \in Nat /\ imp[i].accepted \in Nat /\ imp[i].dropped \in Nat
           /\ imp[i].pos \in Nat /\ Cardinality(imp[i].batch) \in Nat /\ IsFiniteSet(imp[i].batch)
  <1>1. IsFiniteSet(imp[i].batch)
    BY DEF Record
  <1> QED
    BY <1>1, FS_CardinalityType DEF Types, Request

LEMMA AcceptedRecord ==
    ASSUME Types, NEW i \in Imports, Record(imp[i]), ReadAccepted(i)
    PROVE  Record(imp'[i])
  <1> DEFINE r == imp[i]
             entry == EntryOf(i, r.pos + 1, Line(i))
             batch == r.batch \cup {entry}
             next == IF Cardinality(batch) >= BatchSize THEN "save" ELSE "read"
             s == [r EXCEPT !.pos = @ + 1, !.accepted = @ + 1, !.batch = batch, !.at = next]
  <1>1. imp'[i] = s
    BY Reading, OneRequest
  <1>2. r \in Request /\ r.at = "read" /\ Record(r)
    BY RecordFields DEF ReadAccepted
  <1>3. /\ r.written \in Nat /\ r.accepted \in Nat /\ r.pos \in Nat /\ r.node # 0
        /\ Cardinality(r.batch) \in Nat /\ IsFiniteSet(r.batch)
        /\ r.written + Cardinality(r.batch) = r.accepted /\ Cardinality(r.batch) < BatchSize
        /\ \A e \in r.batch : e.line \in 1..r.pos
    BY <1>2, RecordFields DEF Record, Steps
  <1>4. entry \notin r.batch /\ entry.line = r.pos + 1
    <2>1. entry.line = r.pos + 1
      BY DEF EntryOf
    <2> HIDE DEF entry, r
    <2> QED
      BY <1>3, <2>1
  <1> HIDE DEF entry
  <1>5. IsFiniteSet(batch) /\ Cardinality(batch) = Cardinality(r.batch) + 1
    BY <1>3, <1>4, FS_AddElement
  <1>6. \A e \in batch : e.line \in 1..(r.pos + 1)
    <2> HIDE DEF r
    <2>1. 1..r.pos \subseteq 1..(r.pos + 1) /\ r.pos + 1 \in 1..(r.pos + 1)
      BY <1>3
    <2> QED
      BY <1>3, <1>4, <2>1
  <1>7. /\ s.pos = r.pos + 1 /\ s.accepted = r.accepted + 1 /\ s.batch = batch /\ s.at = next
        /\ s.written = r.written /\ s.node = r.node
    <2> HIDE DEF r, batch, next
    <2> QED
      BY <1>2 DEF Request
  <1>8. /\ next \in {"save", "read"}
        /\ next = "read" => ~(Cardinality(batch) >= BatchSize)
    OBVIOUS
  <1> HIDE DEF s, batch, next, r
  <1>9. s.written + Cardinality(s.batch) = s.accepted /\ Cardinality(s.batch) <= BatchSize
    <2> DEFINE w == r.written
               c == Cardinality(r.batch)
               a == r.accepted
    <2>1. w \in Nat /\ c \in Nat /\ a \in Nat /\ w + c = a /\ c < BatchSize /\ BatchSize \in Nat
      BY <1>3, Constants
    <2>2. s.written = w /\ Cardinality(s.batch) = c + 1 /\ s.accepted = a + 1
      BY <1>5, <1>7
    <2> HIDE DEF w, c, a
    <2>3. w + (c + 1) = a + 1 /\ c + 1 <= BatchSize
      BY <2>1
    <2> QED
      BY <2>2, <2>3
  <1>10. Cardinality(batch) \in Nat /\ (next = "read" => Cardinality(s.batch) < BatchSize)
    BY <1>3, <1>5, <1>7, <1>8, Constants
  <1>11. Record(s)
    BY <1>3, <1>5, <1>6, <1>7, <1>8, <1>9, <1>10 DEF Record, Early, Steps
  <1> QED
    BY <1>1, <1>11

LEMMA ReadRecord ==
    ASSUME Types, NEW i \in Imports, Record(imp[i]), ReadIgnored(i) \/ ReadDropped(i) \/ ReadEnds(i)
    PROVE  Record(imp'[i])
  <1>0. imp[i].at = "read"
    BY DEF ReadIgnored, ReadDropped, ReadEnds
  <1>1. CASE ReadIgnored(i)
    <2>1. imp'[i] = [imp[i] EXCEPT !.pos = @ + 1]
      BY <1>1, Reading, OneRequest
    <2>2. \A e \in imp[i].batch : e.line \in 1..(imp[i].pos + 1)
      BY <1>0, RecordFields DEF Record
    <2> QED
      BY <1>0, <2>1, <2>2, RecordFields DEF Record, Early, Steps, Request
  <1>2. CASE ReadDropped(i)
    <2>1. imp'[i] = [imp[i] EXCEPT !.pos = @ + 1, !.dropped = @ + 1]
      BY <1>2, Reading, OneRequest
    <2>2. \A e \in imp[i].batch : e.line \in 1..(imp[i].pos + 1)
      BY <1>0, RecordFields DEF Record
    <2> QED
      BY <1>0, <2>1, <2>2, RecordFields DEF Record, Early, Steps, Request
  <1>3. CASE ReadEnds(i)
    <2> DEFINE more == imp[i].limit \/ More(i)
    <2>1. imp'[i] = [imp[i] EXCEPT !.at = IF imp[i].batch = {} THEN "report" ELSE "flush",
                                   !.limit = more]
      BY <1>3, Reading, OneRequest
    <2> HIDE DEF more
    <2> QED
      BY <1>0, <2>1, RecordFields DEF Record, Early, Steps, Request
  <1> QED
    BY <1>1, <1>2, <1>3

LEMMA UploadRecord ==
    ASSUME Types, Owned, NEW i \in Imports, Record(imp[i]),
           UploadCreates(i) \/ UploadWrites(i) \/ Reopen(i) \/ Save(i)
    PROVE  Record(imp'[i])
  <1>0. imp[i] \in Request /\ Record(imp[i])
    BY RecordFields
  <1>1. CASE UploadCreates(i)
    <2> DEFINE n == Created(imp[i].upload.name)
    <2>1. imp'[i] = [imp[i] EXCEPT !.at = "write", !.node = n] /\ imp[i].at = "create"
      BY <1>1, Uploading, OneRequest DEF UploadCreates
    <2>2. n # 0
      BY <2>1, FreeInode DEF Inodes
    <2> HIDE DEF n
    <2> QED
      BY <1>0, <2>1, <2>2, Constants, FS_EmptySet DEF Record, Early, Steps, Request
  <1>2. CASE UploadWrites(i)
    <2>1. imp'[i] = [imp[i] EXCEPT !.at = "scan"] /\ imp[i].at = "write"
      BY <1>2, Uploading, OneRequest DEF UploadWrites
    <2> QED
      BY <1>0, <2>1 DEF Record, Early, Steps, Request
  <1>3. CASE Reopen(i)
    <2> DEFINE n == temp[imp[i].upload.name]
    <2>1. imp'[i] = [imp[i] EXCEPT !.at = "read", !.node = n] /\ imp[i].at = "open" /\ n # 0
      BY <1>3, Uploading, OneRequest DEF Reopen
    <2> HIDE DEF n
    <2>2. imp[i].batch = {} /\ imp[i].pos \in Nat
      BY <1>0, <2>1 DEF Record, Early, Request
    <2>3. Cardinality(imp[i].batch) < BatchSize
      BY <2>2, Constants, FS_EmptySet
    <2> QED
      BY <1>0, <2>1, <2>2, <2>3 DEF Record, Early, Steps, Request
  <1>4. CASE Save(i)
    <2> DEFINE n == imp[i].written + Cardinality(imp[i].batch)
               next == IF imp[i].at = "save" THEN "read" ELSE "report"
    <2>1. imp'[i] = [imp[i] EXCEPT !.at = next, !.written = n, !.batch = {}]
      BY <1>4, Saving, OneRequest
    <2>2. n = imp[i].accepted /\ n \in Nat /\ imp[i].node # 0
      BY <1>4, RecordFields DEF Record, Save, Steps
    <2>3. IsFiniteSet({}) /\ Cardinality({}) = 0
      BY FS_EmptySet
    <2>4. next \in {"read", "report"}
      OBVIOUS
    <2> HIDE DEF n, next
    <2> QED
      BY <1>0, <2>1, <2>2, <2>3, <2>4, Constants DEF Record, Early, Steps, Request
  <1> QED
    BY <1>1, <1>2, <1>3, <1>4

LEMMA AnsweredFields ==
    ASSUME NEW r \in Request, NEW status, NEW imported
    PROVE  LET s == Answered(r, status, imported) IN
           /\ s.at = "done" /\ s.status = status /\ s.imported = imported
           /\ s.upload = r.upload /\ s.limit = r.limit /\ s.shared = r.shared
           /\ s.accepted = r.accepted /\ s.dropped = r.dropped /\ s.written = r.written
           /\ s.batch = r.batch
  BY DEF Answered, Request

LEMMA GivenUpRecord ==
    ASSUME NEW r \in Request, Record(r), NEW status
    PROVE  Record(Answered(r, status, 0))
  <1> DEFINE s == Answered(r, status, 0)
  <1>1. /\ s.at = "done" /\ s.imported = 0 /\ s.batch = r.batch
        /\ s.accepted = r.accepted /\ s.written = r.written
    BY AnsweredFields
  <1> HIDE DEF s
  <1>2. Record(s)
    BY <1>1 DEF Record, Early
  <1> QED
    BY <1>2 DEF s

\* Nothing is left in the batch, so what was written is what was parsed.
LEMMA ReportedRecord ==
    ASSUME Types, NEW i \in Imports, Record(imp[i]), Report(i)
    PROVE  Record(imp'[i])
  <1> DEFINE r == imp[i]
             imported == Imported(i)
             s == Answered(r, Status(i, imported), imported)
  <1>1. imp'[i] = s /\ imported \in Nat
    BY Reporting, OneRequest
  <1>2. r \in Request /\ r.at = "report" /\ Record(r)
    BY RecordFields DEF Report
  <1>3. /\ s.at = "done" /\ s.imported = imported /\ s.batch = r.batch /\ s.shared = r.shared
        /\ s.accepted = r.accepted /\ s.dropped = r.dropped /\ s.written = r.written
    BY <1>2, AnsweredFields
  <1>4. r.batch = {} /\ r.written = r.accepted /\ r.written \in Nat /\ r.dropped \in Nat
    <2>1. r.batch = {} /\ r.written + Cardinality(r.batch) = r.accepted
      BY <1>2 DEF Record
    <2> QED
      BY <2>1, RecordFields, FS_EmptySet
  <1>5. r.accepted > 0 => imported = r.accepted
    BY <1>4 DEF Imported
  <1> HIDE DEF s, imported, r
  <1>6. Record(s)
    BY <1>2, <1>3, <1>4, <1>5 DEF Record, Early
  <1> QED
    BY <1>1, <1>6

LEMMA ScannedFields ==
    ASSUME NEW r \in Request
    PROVE  LET s == Scanned(r)
               content == Content(temp[r.upload.name])
           IN  /\ s.at = "open" /\ s.limit = LimitMet(Cardinality(Valid(content)))
               /\ s.upload = r.upload /\ s.shared = r.shared /\ s.node = r.node /\ s.pos = r.pos
               /\ s.accepted = r.accepted /\ s.dropped = r.dropped /\ s.written = r.written
               /\ s.batch = r.batch
  <1> DEFINE content == Content(temp[r.upload.name])
             before == Cardinality(rows)
             format == DetectFormat(content[Min(Valid(content))])
             target == Min({Cardinality(Valid(content)), MaxImportLines})
             limit == LimitMet(Cardinality(Valid(content)))
  <1>1. Scanned(r) = [r EXCEPT !.at = "open", !.before = before, !.format = format,
                               !.target = target, !.limit = limit]
    BY DEF Scanned
  <1> HIDE DEF before, format, target, limit
  <1>2. LET s == Scanned(r) IN
        /\ s.at = "open" /\ s.limit = limit
        /\ s.upload = r.upload /\ s.shared = r.shared /\ s.node = r.node /\ s.pos = r.pos
        /\ s.accepted = r.accepted /\ s.dropped = r.dropped /\ s.written = r.written
        /\ s.batch = r.batch
    BY <1>1 DEF Request
  <1> QED
    BY <1>2 DEF limit

LEMMA BegunRecord ==
    ASSUME Types, NEW i \in Imports, NEW u \in Uploads, Begin(i, u),
           \A j \in Imports : Record(imp[j])
    PROVE  \A j \in Imports : Record(imp'[j])
  <1> DEFINE others == {j \in Imports : Running(j) /\ imp[j].upload.name = u.name}
             any == others # {}
             first == [Idle EXCEPT !.at = "create", !.upload = u, !.shared = any]
  <1>1. imp'[i] = first /\ \A j \in Imports \ {i} : imp'[j] = [imp[j] EXCEPT !.shared = @ \/ j \in others]
    BY ZenonT(30), Beginning
  <1>2. Record(first)
    <2>1. /\ first.at = "create" /\ first.batch = {} /\ first.accepted = 0 /\ first.dropped = 0
          /\ first.pos = 0 /\ first.written = 0 /\ ~first.limit
      <3> HIDE DEF any
      <3> QED
        BY DEF Idle
    <2>2. IsFiniteSet({}) /\ Cardinality({}) = 0
      BY FS_EmptySet
    <2> HIDE DEF first
    <2> QED
      BY <2>1, <2>2, Constants DEF Record, Early, Steps
  <1>3. ASSUME NEW j \in Imports \ {i}, NEW more \in BOOLEAN PROVE Record([imp[j] EXCEPT !.shared = more \/ @])
    <2> DEFINE r == imp[j]
               s == [r EXCEPT !.shared = more \/ @]
    <2>1. r \in Request /\ Record(r)
      BY DEF Types
    <2> HIDE DEF r
    <2>2. /\ s.at = r.at /\ s.limit = r.limit /\ s.node = r.node /\ s.pos = r.pos
          /\ s.accepted = r.accepted /\ s.dropped = r.dropped /\ s.written = r.written
          /\ s.batch = r.batch /\ s.imported = r.imported /\ (r.shared => s.shared)
      BY <2>1 DEF Request
    <2> HIDE DEF s
    <2>3. Record(s)
      BY <2>1, <2>2, Zenon DEF Record
    <2> QED
      BY <2>3 DEF r, s
  <1>4. ASSUME NEW j \in Imports \ {i} PROVE Record(imp'[j])
    <2> DEFINE more == j \in others
    <2>1. more \in BOOLEAN /\ imp'[j] = [imp[j] EXCEPT !.shared = @ \/ more]
      BY <1>1
    <2> HIDE DEF more
    <2>2. imp'[j] = [imp[j] EXCEPT !.shared = more \/ @]
      BY <2>1 DEF Types, Request
    <2> QED
      BY <1>3, <2>1, <2>2
  <1> QED
    BY <1>1, <1>2, <1>4

\* A request that ends its own way, reported or given up.
Ends(i) ==
    \E status \in {"ok", "partial", "warning", "error"}, imported \in Nat :
        /\ Goes(i, Answered(imp[i], status, imported))
        /\ temp' \in [FileNames -> {0} \cup Inodes]
        /\ \A f \in FileNames : temp'[f] # temp[f] => f = imp[i].upload.name /\ temp'[f] = 0
        /\ UNCHANGED inode
        /\ imported > 0 => Report(i)
        /\ status \in {"ok", "partial"} => 
              \/ Report(i) /\ status = Status(i, imported) /\ imported = Imported(i)
              \/ /\ imp[i].at = "scan" /\ status = "ok"
                 /\ Valid(Content(temp[imp[i].upload.name])) = {}

\* The steps of a request, by what they do to the files.
LEMMA StepKinds ==
    ASSUME Types, NEW i \in Imports, ImportStep(i)
    PROVE  \/ \E u \in Uploads : Begin(i, u)
           \/ UploadCreates(i) \/ UploadWrites(i) \/ Reopen(i)
           \/ ReadIgnored(i) \/ ReadDropped(i) \/ ReadAccepted(i) \/ ReadEnds(i) \/ Save(i)
           \/ /\ imp[i].at = "scan" /\ temp[imp[i].upload.name] # 0
              /\ Valid(Content(temp[imp[i].upload.name])) # {}
              /\ Goes(i, Scanned(imp[i])) /\ UNCHANGED <<temp, inode>>
           \/ Ends(i) /\ imp[i].at \notin {"idle", "done"}
  <1>1. ASSUME NEW phase \in Phases, NEW status \in {"warning", "error"}, NEW uploaded \in BOOLEAN,
               GiveUp(i, phase, status, uploaded)
        PROVE  Ends(i)
    <2>1. /\ Goes(i, Answered(imp[i], status, 0)) /\ UNCHANGED inode
          /\ temp' \in [FileNames -> {0} \cup Inodes]
          /\ \A f \in FileNames : temp'[f] # temp[f] => f = imp[i].upload.name /\ temp'[f] = 0
      BY <1>1, GivesUp, Zenon
    <2> QED
      BY <2>1 DEF Ends
  <1>2. CASE UploadFails(i) \/ OpenFails(i) \/ ReadFails(i) \/ SaveFails(i)
    <2>1. imp[i].at \notin {"idle", "done"}
      BY <1>2 DEF UploadFails, OpenFails, ReadFails, SaveFails
    <2> QED
      BY <1>1, <1>2, <2>1 DEF UploadFails, OpenFails, ReadFails, SaveFails, Phases
  <1>3. ASSUME NEW setting \in Settings, Scan(i, setting)
        PROVE  \/ /\ imp[i].at = "scan" /\ temp[imp[i].upload.name] # 0
                  /\ Valid(Content(temp[imp[i].upload.name])) # {}
                  /\ Goes(i, Scanned(imp[i])) /\ UNCHANGED <<temp, inode>>
               \/ Ends(i) /\ imp[i].at \notin {"idle", "done"}
    <2> DEFINE valid == Valid(Content(temp[imp[i].upload.name]))
    <2>1. ScanEnds(i) /\ imp[i].at = "scan"
      BY <1>3, Scanning DEF ScanEnds
    <2>2. CASE valid = {} /\ GiveUp(i, "completed", "ok", TRUE)
      <3>1. /\ Goes(i, Answered(imp[i], "ok", 0)) /\ UNCHANGED inode
            /\ temp' \in [FileNames -> {0} \cup Inodes]
            /\ \A f \in FileNames : temp'[f] # temp[f] => f = imp[i].upload.name /\ temp'[f] = 0
        BY <2>2, GivesUp DEF Phases
      <3> QED
        BY <2>1, <2>2, <3>1 DEF Ends
    <2>3. CASE GiveUp(i, "warning", "warning", TRUE)
      BY <1>1, <2>1, <2>3 DEF Phases
    <2> QED
      BY <2>1, <2>2, <2>3 DEF ScanEnds
  <1>4. CASE Report(i)
    <2> DEFINE imported == Imported(i)
               status == Status(i, imported)
    <2>1. /\ imported \in Nat /\ status \in {"ok", "partial", "warning", "error"}
          /\ Goes(i, Answered(imp[i], status, imported)) /\ UNCHANGED inode
          /\ temp' \in [FileNames -> {0} \cup Inodes]
          /\ \A f \in FileNames : temp'[f] # temp[f] => f = imp[i].upload.name /\ temp'[f] = 0
      BY <1>4, Reporting
    <2> HIDE DEF imported
    <2>2. Ends(i)
      BY <1>4, <2>1 DEF Ends, imported
    <2>3. imp[i].at = "report"
      BY <1>4 DEF Report
    <2> QED
      BY <2>2, <2>3
  <1> QED
    BY <1>2, <1>3, <1>4 DEF ImportStep

LEMMA NextRecords ==
    ASSUME Types, Owned, \A i \in Imports : Record(imp[i]) /\ Counted(imp[i]), [Next]_vars
    PROVE  \A i \in Imports : Record(imp'[i])
  <1>1. ASSUME UNCHANGED ivars PROVE \A i \in Imports : Record(imp'[i])
    BY <1>1 DEF ivars
  <1>2. ASSUME NEW i \in Imports, ImportStep(i) PROVE \A j \in Imports : Record(imp'[j])
    <2>0. ASSUME NEW r, Goes(i, r), Record(r) PROVE \A j \in Imports : Record(imp'[j])
      BY <2>0, OneRequest
    <2>a. ASSUME NEW r, Goes(i, r), Record(imp'[i]) PROVE \A j \in Imports : Record(imp'[j])
      BY <2>a, OneRequest
    <2>1. ASSUME NEW u \in Uploads, Begin(i, u) PROVE \A j \in Imports : Record(imp'[j])
      BY <2>1, BegunRecord
    <2>2. CASE UploadCreates(i) \/ UploadWrites(i) \/ Reopen(i)
      <3>1. Record(imp'[i])
        BY <2>2, UploadRecord
      <3>2. \E r : Goes(i, r)
        BY <2>2, Uploading, Zenon
      <3> QED
        BY <2>a, <3>1, <3>2
    <2>3. CASE Save(i)
      <3>1. Record(imp'[i])
        BY <2>3, UploadRecord
      <3>2. \E r : Goes(i, r)
        BY <2>3, Saving, Zenon
      <3> QED
        BY <2>a, <3>1, <3>2
    <2>4. CASE ReadIgnored(i) \/ ReadDropped(i) \/ ReadEnds(i)
      <3>1. Record(imp'[i])
        BY <2>4, ReadRecord
      <3>2. \E r : Goes(i, r)
        BY <2>4, Reading, Zenon
      <3> QED
        BY <2>a, <3>1, <3>2
    <2>5. CASE ReadAccepted(i)
      <3>1. Record(imp'[i])
        BY <2>5, AcceptedRecord
      <3> QED
        BY <2>5, <2>a, <3>1, Reading, Zenon
    <2>6. CASE imp[i].at = "scan" /\ Goes(i, Scanned(imp[i]))
      <3> DEFINE r == imp[i]
                 s == Scanned(imp[i])
      <3>1. r \in Request /\ Record(r) /\ r.at = "scan"
        BY <2>6, RecordFields
      <3>2. /\ s.at = "open" /\ s.node = r.node /\ s.pos = r.pos /\ s.accepted = r.accepted
            /\ s.dropped = r.dropped /\ s.written = r.written /\ s.batch = r.batch
        BY <3>1, ScannedFields
      <3> HIDE DEF r, s
      <3>3. Record(s)
        BY <3>1, <3>2 DEF Record, Early, Steps
      <3> QED
        BY <2>0, <2>6, <3>3 DEF s
    <2>7. CASE Ends(i)
      <3>1. PICK status \in {"ok", "partial", "warning", "error"}, imported \in Nat :
                   /\ Goes(i, Answered(imp[i], status, imported))
                   /\ imported > 0 => Report(i)
        BY <2>7 DEF Ends
      <3>2. CASE Report(i)
        BY <2>a, <3>1, <3>2, ReportedRecord
      <3>3. CASE ~Report(i)
        <4>1. imported = 0 /\ imp[i] \in Request
          BY <3>1, <3>3 DEF Types
        <4> QED
          BY <2>0, <3>1, <4>1, GivenUpRecord
      <3> QED
        BY <3>2, <3>3
    <2> QED
      BY <1>2, <2>1, <2>2, <2>3, <2>4, <2>5, <2>6, <2>7, StepKinds
  <1> QED
    BY <1>1, <1>2 DEF Next, StoreLive, vars, ivars

-------------------------------------------------------------------------------
\* The files

\* A step that touches no file: what it may open is what its file name has.
Busy == {"scan", "open", "read", "save", "flush", "report"}
Quiet(i) ==
    /\ imp[i].at \in Busy /\ imp'[i].at \in Busy
    /\ imp'[i].upload = imp[i].upload /\ imp'[i].shared = imp[i].shared
    /\ imp'[i].node \in {imp[i].node, temp[imp[i].upload.name]}
    /\ \A j \in Imports \ {i} : imp'[j] = imp[j]
    /\ UNCHANGED <<temp, inode>>

LEMMA Quietly ==
    ASSUME Types, Owned, NEW i \in Imports, Record(imp[i]),
           \/ Reopen(i) \/ Save(i)
           \/ ReadIgnored(i) \/ ReadDropped(i) \/ ReadAccepted(i) \/ ReadEnds(i)
           \/ imp[i].at = "scan" /\ Goes(i, Scanned(imp[i])) /\ UNCHANGED <<temp, inode>>
    PROVE  Quiet(i)
  <1>0. imp[i] \in Request
    BY RecordFields
  <1>a. ASSUME NEW r, Goes(i, r), imp[i].at \in Busy, r.at \in Busy, r.upload = imp[i].upload,
               r.shared = imp[i].shared, r.node \in {imp[i].node, temp[imp[i].upload.name]},
               UNCHANGED <<temp, inode>>
        PROVE  Quiet(i)
    BY <1>a, OneRequest DEF Quiet
  <1>1. CASE Reopen(i)
    <2> DEFINE n == temp[imp[i].upload.name]
               r == [imp[i] EXCEPT !.at = "read", !.node = n]
    <2>1. Goes(i, r)
      BY <1>1, Uploading, Zenon
    <2>2. imp[i].at \in Busy /\ UNCHANGED <<temp, inode>>
      BY <1>1 DEF Reopen, Busy
    <2> HIDE DEF n
    <2>4. r.upload = imp[i].upload /\ r.shared = imp[i].shared
      BY <1>0 DEF Request
    <2>5. r.node \in {imp[i].node, temp[imp[i].upload.name]} /\ r.at \in Busy
      BY <1>0, <2>2 DEF Request, Busy, Reopen, n
    <2> HIDE DEF r
    <2> QED
      BY <1>a, <2>1, <2>2, <2>4, <2>5
  <1>2. CASE Save(i)
    <2> DEFINE n == imp[i].written + Cardinality(imp[i].batch)
               next == IF imp[i].at = "save" THEN "read" ELSE "report"
               r == [imp[i] EXCEPT !.at = next, !.written = n, !.batch = {}]
    <2>1. Goes(i, r)
      BY <1>2, Saving, Zenon
    <2>2. imp[i].at \in Busy /\ UNCHANGED <<temp, inode>>
      BY <1>2 DEF Save, Busy
    <2>3. next \in {"read", "report"}
      OBVIOUS
    <2> HIDE DEF n, next
    <2>4. r.upload = imp[i].upload /\ r.shared = imp[i].shared
      BY <1>0 DEF Request
    <2>5. r.node \in {imp[i].node, temp[imp[i].upload.name]} /\ r.at \in Busy
      BY <1>0, <2>2, <2>3 DEF Request, Busy, Save
    <2> HIDE DEF r
    <2> QED
      BY <1>a, <2>1, <2>2, <2>4, <2>5
  <1>3. CASE ReadIgnored(i)
    <2> DEFINE r == [imp[i] EXCEPT !.pos = @ + 1]
    <2>1. Goes(i, r)
      BY <1>3, Reading, Zenon
    <2>2. imp[i].at \in Busy /\ UNCHANGED <<temp, inode>>
      BY <1>3 DEF ReadIgnored, Busy
    <2>4. r.upload = imp[i].upload /\ r.shared = imp[i].shared
      BY <1>0 DEF Request
    <2>5. r.node \in {imp[i].node, temp[imp[i].upload.name]} /\ r.at \in Busy
      BY <1>0, <2>2 DEF Request, Busy, ReadIgnored
    <2> HIDE DEF r
    <2> QED
      BY <1>a, <2>1, <2>2, <2>4, <2>5
  <1>4. CASE ReadDropped(i)
    <2> DEFINE r == [imp[i] EXCEPT !.pos = @ + 1, !.dropped = @ + 1]
    <2>1. Goes(i, r)
      BY <1>4, Reading, Zenon
    <2>2. imp[i].at \in Busy /\ UNCHANGED <<temp, inode>>
      BY <1>4 DEF ReadDropped, Busy
    <2>4. r.upload = imp[i].upload /\ r.shared = imp[i].shared
      BY <1>0 DEF Request
    <2>5. r.node \in {imp[i].node, temp[imp[i].upload.name]} /\ r.at \in Busy
      BY <1>0, <2>2 DEF Request, Busy, ReadDropped
    <2> HIDE DEF r
    <2> QED
      BY <1>a, <2>1, <2>2, <2>4, <2>5
  <1>5. CASE ReadAccepted(i)
    <2> DEFINE batch == imp[i].batch \cup {EntryOf(i, imp[i].pos + 1, Line(i))}
               next == IF Cardinality(batch) >= BatchSize THEN "save" ELSE "read"
               r == [imp[i] EXCEPT !.pos = @ + 1, !.accepted = @ + 1, !.batch = batch, !.at = next]
    <2>1. Goes(i, r)
      BY <1>5, Reading, Zenon
    <2>2. imp[i].at \in Busy /\ UNCHANGED <<temp, inode>>
      BY <1>5 DEF ReadAccepted, Busy
    <2>3. next \in {"read", "save"}
      OBVIOUS
    <2> HIDE DEF batch, next
    <2>4. r.upload = imp[i].upload /\ r.shared = imp[i].shared
      BY <1>0 DEF Request
    <2>5. r.node \in {imp[i].node, temp[imp[i].upload.name]} /\ r.at \in Busy
      BY <1>0, <2>2, <2>3 DEF Request, Busy, ReadAccepted
    <2> HIDE DEF r
    <2> QED
      BY <1>a, <2>1, <2>2, <2>4, <2>5
  <1>6. CASE ReadEnds(i)
    <2> DEFINE more == More(i)
               next == IF imp[i].batch = {} THEN "report" ELSE "flush"
               r == [imp[i] EXCEPT !.at = next, !.limit = @ \/ more]
    <2>1. Goes(i, r)
      BY <1>6, Reading, Zenon
    <2>2. imp[i].at \in Busy /\ UNCHANGED <<temp, inode>>
      BY <1>6 DEF ReadEnds, Busy
    <2>3. next \in {"report", "flush"}
      OBVIOUS
    <2> HIDE DEF more, next
    <2>4. r.upload = imp[i].upload /\ r.shared = imp[i].shared
      BY <1>0 DEF Request
    <2>5. r.node \in {imp[i].node, temp[imp[i].upload.name]} /\ r.at \in Busy
      BY <1>0, <2>2, <2>3 DEF Request, Busy, ReadEnds
    <2> HIDE DEF r
    <2> QED
      BY <1>a, <2>1, <2>2, <2>4, <2>5
  <1>7. CASE imp[i].at = "scan" /\ Goes(i, Scanned(imp[i])) /\ UNCHANGED <<temp, inode>>
    <2> DEFINE r == Scanned(imp[i])
    <2>1. r.at = "open" /\ r.upload = imp[i].upload /\ r.shared = imp[i].shared /\ r.node = imp[i].node
      BY <1>0, ScannedFields
    <2> HIDE DEF r
    <2> QED
      BY <1>a, <1>7, <2>1 DEF Busy, r
  <1> QED
    BY <1>1, <1>2, <1>3, <1>4, <1>5, <1>6, <1>7

\* No more inodes are in use than there are requests past making theirs.
LEMMA StillFits ==
    ASSUME Types, Owned, Past \subseteq Past', Past' \subseteq Imports,
           \/ Used' \subseteq Used
           \/ \E n, i : Used' \subseteq Used \cup {n} /\ i \in Past' \ Past
    PROVE  Cardinality(Used') <= Cardinality(Past')
  <1>0. /\ IsFiniteSet(Past') /\ IsFiniteSet(Used) /\ IsFiniteSet(Past)
        /\ Cardinality(Past') \in Nat /\ Cardinality(Past) <= Cardinality(Past')
        /\ Cardinality(Used) \in Nat /\ Cardinality(Past) \in Nat
        /\ Cardinality(Used) <= Cardinality(Past)
    BY UsedInodes, Constants, FS_Subset, FS_CardinalityType DEF Owned
  <1>1. CASE Used' \subseteq Used
    <2>1. Cardinality(Used') <= Cardinality(Used) /\ Cardinality(Used') \in Nat
      BY <1>0, <1>1, FS_Subset, FS_CardinalityType
    <2> QED
      BY <1>0, <2>1
  <1>2. ASSUME NEW n, NEW i, Used' \subseteq Used \cup {n}, i \in Past' \ Past
        PROVE  Cardinality(Used') <= Cardinality(Past')
    <2>1. IsFiniteSet(Used \cup {n}) /\ Cardinality(Used \cup {n}) <= Cardinality(Used) + 1
          /\ Cardinality(Used \cup {n}) \in Nat
      <3>1. /\ IsFiniteSet(Used \cup {n})
            /\ \/ Cardinality(Used \cup {n}) = Cardinality(Used)
               \/ Cardinality(Used \cup {n}) = Cardinality(Used) + 1
        BY <1>0, FS_AddElement
      <3> QED
        BY <1>0, <3>1
    <2>2. Cardinality(Used') <= Cardinality(Used \cup {n}) /\ Cardinality(Used') \in Nat
      BY <1>2, <2>1, FS_Subset, FS_CardinalityType
    <2>3. IsFiniteSet(Past \cup {i}) /\ Cardinality(Past \cup {i}) = Cardinality(Past) + 1
      BY <1>0, <1>2, FS_AddElement
    <2>4. Cardinality(Past \cup {i}) <= Cardinality(Past')
      BY <1>0, <1>2, FS_Subset
    <2> QED
      BY <1>0, <2>1, <2>2, <2>3, <2>4
  <1> QED
    BY <1>1, <1>2

Files == Owned /\ \A i \in Imports : Mine(i)

LEMMA QuietFiles ==
    ASSUME Types, Files, NEW i \in Imports, Quiet(i)
    PROVE  Files'
  <1>0. /\ imp[i].upload.name \in FileNames /\ temp[imp[i].upload.name] \in {0} \cup Inodes
        /\ temp' = temp /\ inode' = inode
        /\ \A j \in Imports \ {i} : imp'[j] = imp[j]
    BY Constants DEF Types, Request, Quiet
  <1>1. \A j \in Imports : Running(j)' <=> Running(j)
    BY DEF Quiet, Busy, Running
  <1>2. Running(i) /\ imp'[i].upload = imp[i].upload
    BY DEF Quiet, Busy, Running
  <1>3. ASSUME NEW owner, OwnedBy(owner) PROVE OwnedBy(owner)'
    <2>1. ASSUME NEW j \in Imports, Running(j)', imp'[j].node # 0
          PROVE  owner[imp'[j].node] = imp'[j].upload.name
      <3>1. CASE j = i
        BY <1>0, <1>2, <1>3, <2>1, <3>1 DEF OwnedBy, Quiet
      <3>2. CASE j # i
        BY <1>0, <1>1, <1>3, <2>1, <3>2 DEF OwnedBy
      <3> QED
        BY <3>1, <3>2
    <2> QED
      BY <1>0, <1>3, <2>1 DEF OwnedBy
  <1>4. Past' = Past
    BY DEF Quiet, Busy, Past
  <1>5. Used' \subseteq Used
    <2>1. ASSUME NEW n \in Used' PROVE n \in Used
      <3>1. CASE \E f \in FileNames : n = temp[f]
        BY <2>1, <3>1 DEF Used
      <3>2. ASSUME NEW j \in Imports, Running(j)', n = imp'[j].node PROVE n \in Used
        <4>1. CASE j = i
          BY <1>0, <1>2, <2>1, <3>2, <4>1 DEF Used, Quiet
        <4>2. CASE j # i
          BY <1>0, <1>1, <2>1, <3>2, <4>2 DEF Used
        <4> QED
          BY <4>1, <4>2
      <3> QED
        BY <1>0, <2>1, <3>1, <3>2 DEF Used
    <2> QED
      BY <2>1
  <1>6. Cardinality(Used') <= Cardinality(Past')
    BY <1>4, <1>5, StillFits DEF Files, Past
  <1>7. ASSUME NEW j \in Imports PROVE Mine(j)'
    <2> SUFFICES ASSUME Running(j)', ~imp'[j].shared PROVE Mine(j)'
      BY DEF Mine
    <2>1. Running(j) /\ ~imp[j].shared /\ imp'[j].upload = imp[j].upload
      BY <1>0, <1>1 DEF Quiet
    <2>2. \A k \in Imports \ {j} : Running(k)' => imp'[k].upload.name # imp'[j].upload.name
      <3>1. \A k \in Imports : Running(k)' => Running(k) /\ imp'[k].upload = imp[k].upload
        BY <1>0, <1>1, <1>2
      <3> QED
        BY <2>1, <3>1 DEF Files, Mine
    <2>3. CASE j = i
      <3>1. imp[i].at \in Busy /\ imp'[i].at \in Busy
        BY DEF Quiet
      <3>2. temp[imp[i].upload.name] = imp[i].node /\ inode[imp[i].node] = imp[i].upload.lines
        BY <2>1, <2>3, <3>1 DEF Files, Mine, Busy
      <3>3. imp'[i].node = imp[i].node
        BY <3>2 DEF Quiet
      <3> QED
        BY <1>0, <1>2, <2>2, <2>3, <3>1, <3>2, <3>3 DEF Mine, Busy
    <2>4. CASE j # i
      BY <1>0, <2>1, <2>2, <2>4 DEF Mine, Files
    <2> QED
      BY <2>3, <2>4
  <1> QED
    BY <1>3, <1>6, <1>7 DEF Files, Owned

\* A request that ends may take the file's name away; only its own requests had it.
LEMMA EndFiles ==
    ASSUME Types, Files, NEW i \in Imports, Ends(i), Running(i)
    PROVE  Files'
  <1>0. /\ imp[i].upload.name \in FileNames /\ inode' = inode
        /\ \A j \in Imports \ {i} : imp'[j] = imp[j]
        /\ \A f \in FileNames : temp'[f] # temp[f] => f = imp[i].upload.name /\ temp'[f] = 0
        /\ imp'[i].at = "done"
    <2>1. PICK status \in {"ok", "partial", "warning", "error"}, imported \in Nat :
                 Goes(i, Answered(imp[i], status, imported))
      BY DEF Ends
    <2>2. imp[i] \in Request /\ imp[i].upload.name \in FileNames
      BY Constants DEF Types, Request
    <2>3. imp'[i] = Answered(imp[i], status, imported) /\ \A j \in Imports \ {i} : imp'[j] = imp[j]
      BY <2>1, OneRequest
    <2>4. imp'[i].at = "done"
      BY <2>2, <2>3, AnsweredFields
    <2> QED
      BY <2>2, <2>3, <2>4 DEF Ends
  <1>1. \A j \in Imports : Running(j)' => j # i /\ Running(j) /\ imp'[j] = imp[j]
    BY <1>0 DEF Running
  <1>2. \A f \in FileNames : temp'[f] = temp[f] \/ temp'[f] = 0
    BY <1>0
  <1>3. ASSUME NEW owner, OwnedBy(owner) PROVE OwnedBy(owner)'
    BY <1>1, <1>2, <1>3 DEF OwnedBy
  <1>4. Past \subseteq Past' /\ Past' \subseteq Imports
    BY <1>0 DEF Past
  <1>5. Used' \subseteq Used
    <2>1. \A n : (\E f \in FileNames : n = temp'[f]) /\ n # 0 => \E f \in FileNames : n = temp[f]
      BY <1>2
    <2>2. \A n : (\E j \in Imports : Running(j)' /\ n = imp'[j].node)
                    => \E j \in Imports : Running(j) /\ n = imp[j].node
      BY <1>1
    <2> QED
      BY <2>1, <2>2 DEF Used
  <1>6. Cardinality(Used') <= Cardinality(Past')
    BY <1>4, <1>5, StillFits DEF Files
  <1>7. ASSUME NEW j \in Imports PROVE Mine(j)'
    <2> SUFFICES ASSUME Running(j)', ~imp'[j].shared PROVE Mine(j)'
      BY DEF Mine
    <2>1. j # i /\ Running(j) /\ ~imp[j].shared /\ imp'[j] = imp[j]
      BY <1>1
    <2>2. \A k \in Imports \ {j} : Running(k)' => imp'[k].upload.name # imp'[j].upload.name
      BY <1>1, <2>1 DEF Files, Mine
    <2>3. imp[i].upload.name # imp[j].upload.name /\ imp[j].upload.name \in FileNames
      <3>1. imp[j].upload.name \in FileNames
        BY Constants DEF Types, Request
      <3> QED
        BY <2>1, <3>1 DEF Files, Mine
    <2>4. temp'[imp[j].upload.name] = temp[imp[j].upload.name]
      BY <1>0, <2>3
    <2> QED
      BY <1>0, <2>1, <2>2, <2>4 DEF Mine, Files
  <1> QED
    BY <1>3, <1>6, <1>7 DEF Files, Owned

\* An upload that makes a file takes the inode of its name, or one nobody uses.
LEMMA CreateFiles ==
    ASSUME Types, Files, \A j \in Imports : Record(imp[j]), NEW i \in Imports, UploadCreates(i)
    PROVE  Files'
  <1> DEFINE name == imp[i].upload.name
             n == Created(name)
  <1>0. /\ imp[i].at = "create" /\ name \in FileNames /\ n \in Inodes /\ n # 0
        /\ n \in Used => n = temp[name]
        /\ temp \in [FileNames -> {0} \cup Inodes] /\ inode \in [Inodes -> Seq(LogLine)]
    BY FreeInode DEF UploadCreates, Files, Types, Inodes
  <1>1. temp' = [temp EXCEPT ![name] = n] /\ inode' = [inode EXCEPT ![n] = <<>>]
    BY DEF UploadCreates
  <1>2. imp'[i] = [imp[i] EXCEPT !.at = "write", !.node = n] /\ \A j \in Imports \ {i} : imp'[j] = imp[j]
    <2>1. Goes(i, [imp[i] EXCEPT !.at = "write", !.node = n])
      BY Uploading, Zenon DEF Files
    <2> DEFINE r == [imp[i] EXCEPT !.at = "write", !.node = n]
    <2> HIDE DEF r
    <2>2. imp'[i] = r /\ \A j \in Imports \ {i} : imp'[j] = imp[j]
      BY <2>1, OneRequest DEF r
    <2> QED
      BY <2>2 DEF r
  <1> HIDE DEF n
  <1>3. /\ imp'[i].at = "write" /\ imp'[i].node = n /\ imp'[i].upload = imp[i].upload
        /\ imp'[i].shared = imp[i].shared
    BY <1>2 DEF Types, Request
  <1>4. \A j \in Imports : Running(j)' <=> Running(j)
    BY <1>0, <1>2, <1>3 DEF Running
  <1>5. Running(i)
    BY <1>0 DEF Running
  <1>6. /\ temp'[name] = n /\ \A f \in FileNames \ {name} : temp'[f] = temp[f]
        /\ inode'[n] = <<>> /\ \A m \in Inodes \ {n} : inode'[m] = inode[m]
    BY <1>0, <1>1
  <1> HIDE DEF name
  <1>7. ASSUME NEW owner \in [Inodes -> FileNames], OwnedBy(owner)
        PROVE  \E new \in [Inodes -> FileNames] : OwnedBy(new)'
    <2>0. PICK new : new = [owner EXCEPT ![n] = name]
      OBVIOUS
    <2>1. new \in [Inodes -> FileNames] /\ new[n] = name /\ \A m \in Inodes \ {n} : new[m] = owner[m]
      BY <1>0, <1>7, <2>0
    <2>2. n \in Used => owner[n] = name
      BY <1>0, <1>7 DEF OwnedBy
    <2>3. \A m \in Used : m \in Inodes /\ new[m] = owner[m]
      BY <2>1, <2>2, UsedInodes
    <2>4. ASSUME NEW f \in FileNames, temp'[f] # 0 PROVE new[temp'[f]] = f
      <3>1. CASE f = name
        BY <1>6, <2>1, <3>1
      <3>2. CASE f # name
        <4>1. temp'[f] = temp[f] /\ temp[f] \in Used
          BY <1>6, <2>4, <3>2 DEF Used
        <4> QED
          BY <1>7, <2>3, <2>4, <4>1 DEF OwnedBy
      <3> QED
        BY <3>1, <3>2
    <2>5. ASSUME NEW j \in Imports, Running(j)', imp'[j].node # 0
          PROVE  new[imp'[j].node] = imp'[j].upload.name
      <3>1. CASE j = i
        BY <1>3, <2>1, <3>1 DEF name
      <3>2. CASE j # i
        <4>1. Running(j) /\ imp'[j] = imp[j] /\ imp[j].node \in Used
          BY <1>2, <1>4, <2>5, <3>2 DEF Used
        <4> QED
          BY <1>7, <2>3, <2>5, <4>1 DEF OwnedBy
      <3> QED
        BY <3>1, <3>2
    <2>6. OwnedBy(new)'
      BY <2>4, <2>5 DEF OwnedBy
    <2> QED
      BY <2>1, <2>6
  <1>8. Past \subseteq Past' /\ Past' \subseteq Imports /\ i \in Past' \ Past
    BY <1>0, <1>2, <1>3 DEF Past
  <1>9. Used' \subseteq Used \cup {n}
    <2>1. ASSUME NEW m \in Used' PROVE m \in Used \cup {n}
      <3>0. /\ m # 0
            /\ (\E f \in FileNames : m = temp'[f]) \/ \E j \in Imports : Running(j)' /\ m = imp'[j].node
        BY <2>1 DEF Used
      <3>1. ASSUME NEW f \in FileNames, m = temp'[f] PROVE m \in Used \cup {n}
        <4>1. f = name => m = n
          BY <1>6, <3>1
        <4>2. f # name => m = temp[f]
          BY <1>6, <3>1
        <4> QED
          BY <3>0, <4>1, <4>2 DEF Used
      <3>2. ASSUME NEW j \in Imports, Running(j)', m = imp'[j].node PROVE m \in Used \cup {n}
        <4>1. j = i => m = n
          BY <1>3, <3>2
        <4>2. j # i => m = imp[j].node /\ Running(j)
          BY <1>2, <1>4, <3>2
        <4> QED
          BY <3>0, <4>1, <4>2 DEF Used
      <3> QED
        BY <3>0, <3>1, <3>2
    <2> QED
      BY <2>1
  <1>10. Cardinality(Used') <= Cardinality(Past')
    BY <1>8, <1>9, StillFits DEF Files
  <1>11. ASSUME NEW j \in Imports PROVE Mine(j)'
    <2> SUFFICES ASSUME Running(j)', ~imp'[j].shared PROVE Mine(j)'
      BY DEF Mine
    <2>1. Running(j) /\ ~imp[j].shared /\ imp'[j].upload = imp[j].upload
      BY <1>2, <1>3, <1>4
    <2>2. \A k \in Imports \ {j} : Running(k)' => imp'[k].upload.name # imp'[j].upload.name
      <3>1. \A k \in Imports : Running(k)' => Running(k) /\ imp'[k].upload = imp[k].upload
        BY <1>2, <1>3, <1>4
      <3> QED
        BY <2>1, <3>1 DEF Files, Mine
    <2>3. CASE j = i
      BY <1>3, <1>6, <2>2, <2>3 DEF Mine, name
    <2>4. CASE j # i
      <3>1. imp'[j] = imp[j] /\ imp[j].upload.name \in FileNames /\ imp[j].upload.name # name
        <4>1. imp[j].upload.name \in FileNames
          BY Constants DEF Types, Request
        <4> QED
          BY <1>2, <1>5, <2>1, <2>4, <4>1 DEF Files, Mine, name
      <3>2. imp[j].at = "create" \/ (imp[j].node # 0 /\ imp[j].node # n)
        <4> SUFFICES ASSUME imp[j].at # "create" PROVE imp[j].node # 0 /\ imp[j].node # n
          OBVIOUS
        <4>1. imp[j].node # 0
          BY <2>1 DEF Record, Running, Types, Request
        <4>2. PICK owner \in [Inodes -> FileNames] : OwnedBy(owner)
          BY DEF Files, Owned
        <4>3. owner[imp[j].node] = imp[j].upload.name /\ imp[j].node \in Used
          BY <2>1, <4>1, <4>2 DEF OwnedBy, Used
        <4>4. imp[j].node = n => owner[n] = name
          BY <1>0, <4>2, <4>3 DEF OwnedBy
        <4> QED
          BY <3>1, <4>1, <4>3, <4>4
      <3>3. imp[j].node \in {0} \cup Inodes
        BY DEF Types, Request
      <3>4. temp'[imp[j].upload.name] = temp[imp[j].upload.name]
        BY <1>6, <3>1
      <3>5. imp[j].at # "create" => inode'[imp[j].node] = inode[imp[j].node]
        BY <1>6, <3>2, <3>3
      <3> QED
        BY <2>1, <2>2, <3>1, <3>4, <3>5 DEF Mine, Files
    <2> QED
      BY <2>3, <2>4
  <1> QED
    BY <1>7, <1>10, <1>11 DEF Files, Owned

LEMMA WriteFiles ==
    ASSUME Types, Files, \A j \in Imports : Record(imp[j]), NEW i \in Imports, UploadWrites(i)
    PROVE  Files'
  <1> DEFINE n == imp[i].node
             new == Over(imp[i].upload.lines, inode[n])
  <1>0. /\ imp[i].at = "write" /\ imp[i] \in Request /\ n # 0 /\ n \in Inodes
        /\ inode \in [Inodes -> Seq(LogLine)]
    <2>1. imp[i].at = "write" /\ imp[i] \in Request /\ n \in {0} \cup Inodes
      BY DEF UploadWrites, Types, Request
    <2>2. n # 0
      BY <2>1 DEF Record, Steps
    <2> QED
      BY <2>1, <2>2 DEF Types
  <1>1. inode' = [inode EXCEPT ![n] = new] /\ temp' = temp
    BY DEF UploadWrites
  <1>2. imp'[i] = [imp[i] EXCEPT !.at = "scan"] /\ \A j \in Imports \ {i} : imp'[j] = imp[j]
    <2> DEFINE r == [imp[i] EXCEPT !.at = "scan"]
    <2>1. Goes(i, r)
      BY Uploading, Zenon DEF Files
    <2> HIDE DEF r
    <2>2. imp'[i] = r /\ \A j \in Imports \ {i} : imp'[j] = imp[j]
      BY <2>1, OneRequest
    <2> QED
      BY <2>2 DEF r
  <1>3. /\ imp'[i].at = "scan" /\ imp'[i].node = n /\ imp'[i].upload = imp[i].upload
        /\ imp'[i].shared = imp[i].shared
    BY <1>0, <1>2 DEF Request
  <1>4. \A j \in Imports : /\ Running(j)' <=> Running(j)
                           /\ imp'[j].upload = imp[j].upload /\ imp'[j].node = imp[j].node
                           /\ imp'[j].shared = imp[j].shared
    BY <1>0, <1>2, <1>3 DEF Running
  <1>5. Running(i)
    BY <1>0 DEF Running
  <1>6. inode'[n] = new /\ \A m \in Inodes \ {n} : inode'[m] = inode[m]
    BY <1>0, <1>1
  <1>7. \A owner : OwnedBy(owner) => OwnedBy(owner)'
    BY <1>1, <1>4 DEF OwnedBy
  <1>8. Past' = Past
    BY <1>0, <1>2, <1>3 DEF Past
  <1>9. Used' \subseteq Used
    BY <1>1, <1>4 DEF Used
  <1>10. Cardinality(Used') <= Cardinality(Past')
    BY <1>8, <1>9, StillFits DEF Files, Past
  <1>11. ASSUME NEW j \in Imports PROVE Mine(j)'
    <2> SUFFICES ASSUME Running(j)', ~imp'[j].shared PROVE Mine(j)'
      BY DEF Mine
    <2>1. Running(j) /\ ~imp[j].shared
      BY <1>4
    <2>2. \A k \in Imports \ {j} : Running(k)' => imp'[k].upload.name # imp'[j].upload.name
      BY <1>4, <2>1 DEF Files, Mine
    <2>3. CASE j = i
      <3>1. temp[imp[i].upload.name] = n /\ inode[n] = <<>>
        BY <1>0, <2>1, <2>3 DEF Files, Mine
      <3>2. inode'[n] = imp[i].upload.lines
        <4>1. imp[i].upload \in Uploads /\ inode[n] \in Seq(LogLine) /\ Placed(inode[n])
          BY <1>0 DEF Request, Types
        <4> QED
          BY <1>6, <3>1, <4>1, Written
      <3> HIDE DEF n, new
      <3> QED
        BY <1>1, <1>3, <2>2, <2>3, <3>1, <3>2 DEF Mine
    <2>4. CASE j # i
      <3>1. imp'[j] = imp[j] /\ imp[j].upload.name # imp[i].upload.name
        BY <1>2, <1>5, <2>1, <2>4 DEF Files, Mine
      <3>2. imp[j].at = "create" \/ (imp[j].node \in Inodes /\ imp[j].node # n)
        <4> SUFFICES ASSUME imp[j].at # "create" PROVE imp[j].node \in Inodes /\ imp[j].node # n
          OBVIOUS
        <4>1. imp[j].node # 0 /\ imp[j].node \in Inodes
          BY <2>1 DEF Record, Running, Types, Request
        <4>2. PICK owner \in [Inodes -> FileNames] : OwnedBy(owner)
          BY DEF Files, Owned
        <4>3. owner[imp[j].node] = imp[j].upload.name /\ owner[n] = imp[i].upload.name
          BY <1>0, <1>5, <2>1, <4>1, <4>2 DEF OwnedBy
        <4> QED
          BY <3>1, <4>1, <4>3
      <3>3. imp[j].at # "create" => inode'[imp[j].node] = inode[imp[j].node]
        BY <1>6, <3>2
      <3> HIDE DEF n, new
      <3> QED
        BY <1>1, <2>1, <2>2, <3>1, <3>3 DEF Mine, Files
    <2> QED
      BY <2>3, <2>4
  <1> QED
    BY <1>7, <1>10, <1>11 DEF Files, Owned

LEMMA Begun ==
    ASSUME Types, NEW i \in Imports, NEW u \in Uploads, Begin(i, u)
    PROVE  /\ imp[i].at = "idle" /\ UNCHANGED <<temp, inode>>
           /\ imp'[i].at = "create" /\ imp'[i].upload = u /\ imp'[i].node = 0
           /\ imp'[i].status = "none"
           /\ ~imp'[i].shared => \A j \in Imports : Running(j) => imp[j].upload.name # u.name
           /\ \A j \in Imports \ {i} :
                 /\ imp'[j].at = imp[j].at /\ imp'[j].upload = imp[j].upload
                 /\ imp'[j].node = imp[j].node /\ imp'[j].pos = imp[j].pos
                 /\ imp'[j].accepted = imp[j].accepted /\ imp'[j].dropped = imp[j].dropped
                 /\ imp'[j].limit = imp[j].limit /\ imp'[j].status = imp[j].status
                 /\ imp'[j].target = imp[j].target
                 /\ ~imp'[j].shared =>
                       /\ ~imp[j].shared
                       /\ Running(j) => imp[j].upload.name # u.name
  <1> DEFINE others == {j \in Imports : Running(j) /\ imp[j].upload.name = u.name}
             any == others # {}
             first == [Idle EXCEPT !.at = "create", !.upload = u, !.shared = any]
  <1>1. /\ imp[i].at = "idle" /\ imp'[i] = first
        /\ \A j \in Imports \ {i} : imp'[j] = [imp[j] EXCEPT !.shared = @ \/ j \in others]
        /\ UNCHANGED <<temp, inode>>
    BY ZenonT(30), Beginning
  <1>2. /\ first.at = "create" /\ first.upload = u /\ first.node = 0 /\ first.shared = any /\ first.status = "none"
    <2> HIDE DEF any
    <2> QED
      BY DEF Idle
  <1>3. ASSUME NEW j \in Imports \ {i}, NEW more \in BOOLEAN, imp'[j] = [imp[j] EXCEPT !.shared = @ \/ more]
        PROVE  /\ imp'[j].at = imp[j].at /\ imp'[j].upload = imp[j].upload
               /\ imp'[j].node = imp[j].node /\ imp'[j].pos = imp[j].pos
               /\ imp'[j].accepted = imp[j].accepted /\ imp'[j].dropped = imp[j].dropped
               /\ imp'[j].limit = imp[j].limit /\ imp'[j].status = imp[j].status
               /\ imp'[j].target = imp[j].target
               /\ ~imp'[j].shared => ~imp[j].shared /\ ~more
    BY <1>3 DEF Types, Request
  <1>4. ASSUME NEW j \in Imports \ {i}
        PROVE  /\ imp'[j].at = imp[j].at /\ imp'[j].upload = imp[j].upload
               /\ imp'[j].node = imp[j].node /\ imp'[j].pos = imp[j].pos
               /\ imp'[j].accepted = imp[j].accepted /\ imp'[j].dropped = imp[j].dropped
               /\ imp'[j].limit = imp[j].limit /\ imp'[j].status = imp[j].status
               /\ imp'[j].target = imp[j].target
               /\ ~imp'[j].shared => ~imp[j].shared /\ j \notin others
    <2> DEFINE more == j \in others
    <2>1. more \in BOOLEAN /\ imp'[j] = [imp[j] EXCEPT !.shared = @ \/ more]
      BY <1>1
    <2> HIDE DEF more
    <2>2. /\ imp'[j].at = imp[j].at /\ imp'[j].upload = imp[j].upload
          /\ imp'[j].node = imp[j].node /\ imp'[j].pos = imp[j].pos
          /\ imp'[j].accepted = imp[j].accepted /\ imp'[j].dropped = imp[j].dropped
          /\ imp'[j].limit = imp[j].limit /\ imp'[j].status = imp[j].status
          /\ imp'[j].target = imp[j].target
          /\ ~imp'[j].shared => ~imp[j].shared /\ ~more
      BY <1>3, <2>1
    <2> QED
      BY <2>2 DEF more
  <1> HIDE DEF first
  <1> QED
    BY <1>1, <1>2, <1>4

LEMMA BeginFiles ==
    ASSUME Types, Files, NEW i \in Imports, NEW u \in Uploads, Begin(i, u)
    PROVE  Files'
  <1>0. /\ imp[i].at = "idle" /\ temp' = temp /\ inode' = inode
        /\ imp'[i].at = "create" /\ imp'[i].upload = u /\ imp'[i].node = 0
        /\ ~imp'[i].shared => \A j \in Imports : Running(j) => imp[j].upload.name # u.name
        /\ \A j \in Imports \ {i} :
              /\ imp'[j].at = imp[j].at /\ imp'[j].upload = imp[j].upload
              /\ imp'[j].node = imp[j].node
              /\ ~imp'[j].shared =>
                    /\ ~imp[j].shared
                    /\ Running(j) => imp[j].upload.name # u.name
    BY Begun
  <1>1. \A j \in Imports \ {i} : Running(j)' <=> Running(j)
    BY <1>0 DEF Running
  <1>2. \A owner : OwnedBy(owner) => OwnedBy(owner)'
    BY <1>0, <1>1 DEF OwnedBy
  <1>3. Past' = Past
    BY <1>0 DEF Past
  <1>4. Used' \subseteq Used
    <2>1. ASSUME NEW n \in Used' PROVE n \in Used
      <3>1. n # 0 /\ ((\E f \in FileNames : n = temp[f]) \/ \E j \in Imports : Running(j)' /\ n = imp'[j].node)
        BY <1>0, <2>1 DEF Used
      <3>2. ASSUME NEW j \in Imports, Running(j)', n = imp'[j].node PROVE n \in Used
        <4>1. j # i
          BY <1>0, <3>1, <3>2
        <4>2. Running(j) /\ n = imp[j].node
          BY <1>0, <1>1, <3>2, <4>1
        <4> QED
          BY <3>1, <4>2 DEF Used
      <3> QED
        BY <3>1, <3>2 DEF Used
    <2> QED
      BY <2>1
  <1>5. Cardinality(Used') <= Cardinality(Past')
    BY <1>3, <1>4, StillFits DEF Files, Past
  <1>6. ASSUME NEW j \in Imports PROVE Mine(j)'
    <2> SUFFICES ASSUME Running(j)', ~imp'[j].shared PROVE Mine(j)'
      BY DEF Mine
    <2>1. CASE j = i
      <3>1. \A k \in Imports \ {i} : Running(k)' => imp'[k].upload.name # u.name
        BY <1>0, <1>1, <2>1
      <3> QED
        BY <1>0, <2>1, <3>1 DEF Mine
    <2>2. CASE j # i
      <3>1. /\ Running(j) /\ ~imp[j].shared /\ imp[j].upload.name # u.name
            /\ imp'[j].at = imp[j].at /\ imp'[j].upload = imp[j].upload /\ imp'[j].node = imp[j].node
        BY <1>0, <1>1, <2>2
      <3>2. \A k \in Imports \ {j} : Running(k)' => imp'[k].upload.name # imp'[j].upload.name
        <4>1. \A k \in Imports \ {j, i} : Running(k)' => imp'[k].upload.name # imp'[j].upload.name
          BY <1>0, <1>1, <3>1 DEF Files, Mine
        <4> QED
          BY <1>0, <3>1, <4>1
      <3> QED
        BY <1>0, <3>1, <3>2 DEF Files, Mine
    <2> QED
      BY <2>1, <2>2
  <1> QED
    BY <1>2, <1>5, <1>6 DEF Files, Owned

LEMMA NextFiles ==
    ASSUME Types, Files, \A i \in Imports : Record(imp[i]), [Next]_vars
    PROVE  Files'
  <1>1. ASSUME UNCHANGED ivars PROVE Files'
    <2>1. temp' = temp /\ inode' = inode /\ imp' = imp
      BY <1>1 DEF ivars
    <2>2. Owned' <=> Owned
      <3>1. \A owner : OwnedBy(owner)' <=> OwnedBy(owner)
        BY <2>1 DEF OwnedBy, Running
      <3>2. Used' = Used /\ Past' = Past
        BY <2>1 DEF Used, Past, Running
      <3> QED
        BY <3>1, <3>2 DEF Owned
    <2>3. \A i \in Imports : Mine(i)' <=> Mine(i)
      BY <2>1 DEF Mine, Running
    <2> QED
      BY <2>2, <2>3 DEF Files
  <1>2. ASSUME NEW i \in Imports, ImportStep(i) PROVE Files'
    <2>1. ASSUME NEW u \in Uploads, Begin(i, u) PROVE Files'
      BY <2>1, BeginFiles
    <2>2. CASE UploadCreates(i)
      BY <2>2, CreateFiles
    <2>3. CASE UploadWrites(i)
      BY <2>3, WriteFiles
    <2>4. CASE \/ Reopen(i) \/ Save(i)
               \/ ReadIgnored(i) \/ ReadDropped(i) \/ ReadAccepted(i) \/ ReadEnds(i)
               \/ imp[i].at = "scan" /\ Goes(i, Scanned(imp[i])) /\ UNCHANGED <<temp, inode>>
      BY <2>4, Quietly, QuietFiles DEF Files
    <2>5. CASE Ends(i) /\ imp[i].at \notin {"idle", "done"}
      BY <2>5, EndFiles DEF Running
    <2> QED
      BY <1>2, <2>1, <2>2, <2>3, <2>4, <2>5, StepKinds
  <1> QED
    BY <1>1, <1>2 DEF Next, StoreLive, vars

LEMMA InitFiles == Init => Files /\ \A i \in Imports : Record(imp[i]) /\ Counted(imp[i])
  <1> SUFFICES ASSUME Init PROVE Files /\ \A i \in Imports : Record(imp[i]) /\ Counted(imp[i])
    OBVIOUS
  <1>1. \A i \in Imports : imp[i] = Idle /\ imp[i].at = "idle"
    BY DEF Init, Idle
  <1>2. \A f \in FileNames : temp[f] = 0
    BY DEF Init
  <1>3. \A i \in Imports : ~Running(i)
    BY <1>1 DEF Running
  <1>4. Used = {} /\ Past = {}
    BY <1>1, <1>2, <1>3 DEF Used, Past
  <1>5. Cardinality({}) = 0 /\ IsFiniteSet({})
    BY FS_EmptySet
  <1>6. Cardinality(Used) <= Cardinality(Past)
    BY <1>4, <1>5
  <1>7. \E owner \in [Inodes -> FileNames] : OwnedBy(owner)
    <2>1. PICK u \in Uploads : u.name \in FileNames
      BY Constants
    <2>2. [n \in Inodes |-> u.name] \in [Inodes -> FileNames]
      BY <2>1
    <2>3. \A owner : OwnedBy(owner)
      BY <1>2, <1>3 DEF OwnedBy
    <2> QED
      BY <2>2, <2>3
  <1>8. Record(Idle)
    BY <1>5, Constants DEF Record, Idle, Early, Steps
  <1>9. Counted(Idle)
    BY DEF Counted, Idle
  <1> QED
    BY <1>1, <1>3, <1>6, <1>7, <1>8, <1>9 DEF Files, Owned, Mine

-------------------------------------------------------------------------------
\* How far a request has read a file of its own

LEMMA OwnFile ==
    ASSUME Types, Files, NEW i \in Imports, Record(imp[i]), imp[i].at \in Busy, ~imp[i].shared
    PROVE  LET lines == imp[i].upload.lines IN
           /\ lines \in Seq(LogLine) /\ Content(imp[i].node) = lines
           /\ Content(temp[imp[i].upload.name]) = lines
           /\ More(i) <=> imp[i].pos < Len(lines)
           /\ Line(i) = lines[imp[i].pos + 1]
  <1>1. imp[i].upload.lines \in Seq(LogLine)
    BY Constants DEF Types, Request
  <1>2. imp[i].node # 0
    BY DEF Record, Busy, Steps
  <1>3. temp[imp[i].upload.name] = imp[i].node /\ inode[imp[i].node] = imp[i].upload.lines
    BY DEF Files, Mine, Running, Busy
  <1> QED
    BY <1>1, <1>2, <1>3 DEF Content, More, Line

\* Reading one line more.
LEMMA OneMoreLine ==
    ASSUME NEW lines \in Seq(LogLine), NEW pos \in Nat, pos < Len(lines)
    PROVE  LET valid == Valid(lines)
               read(p) == Cardinality({n \in valid : n <= p})
           IN  /\ read(pos) \in Nat /\ pos + 1 <= Len(lines) /\ Cardinality(valid) \in Nat
               /\ Ignored(lines[pos + 1]) => read(pos + 1) = read(pos)
               /\ ~Ignored(lines[pos + 1]) => /\ read(pos + 1) = read(pos) + 1
                                              /\ read(pos) < Cardinality(valid)
  <1> DEFINE valid == Valid(lines)
             read(p) == Cardinality({n \in valid : n <= p})
  <1>1. /\ Len(lines) \in Nat /\ DOMAIN lines = 1..Len(lines) /\ IsFiniteSet(valid)
        /\ valid \in SUBSET Nat /\ Cardinality(valid) \in Nat
    BY ValidPlaces
  <1>2. pos + 1 \in valid <=> ~Ignored(lines[pos + 1])
    BY <1>1 DEF Valid
  <1> HIDE DEF valid
  <1>3. read(pos + 1) = read(pos) + (IF pos + 1 \in valid THEN 1 ELSE 0) /\ read(pos) \in Nat
    BY <1>1, ReadFurther
  <1>4. pos + 1 \in Nat /\ {n \in valid : n <= pos + 1} \subseteq valid
    OBVIOUS
  <1>5. read(pos + 1) <= Cardinality(valid)
    BY <1>1, <1>4, FS_Subset
  <1> HIDE DEF read
  <1>6. pos + 1 <= Len(lines)
    BY <1>1
  <1>7. pos + 1 \notin valid => read(pos + 1) = read(pos)
    BY <1>3
  <1>8. pos + 1 \in valid => read(pos + 1) = read(pos) + 1 /\ read(pos) < Cardinality(valid)
    BY <1>1, <1>3, <1>5
  <1> QED
    BY <1>1, <1>2, <1>3, <1>6, <1>7, <1>8 DEF valid, read

\* What the steps of a reading keep, of the record before and after.
Reads(r) == r.at \in {"open", "read", "save", "flush", "report"}
Far(r) ==
    LET valid == Valid(r.upload.lines) IN
    /\ valid # {} /\ r.pos <= Len(r.upload.lines)
    /\ Parsed(r) = Cardinality({n \in valid : n <= r.pos}) /\ Parsed(r) <= MaxImportLines
    /\ r.limit <=> Cardinality(valid) >= MaxImportLines

LEMMA CountedRead ==
    ASSUME NEW r, Reads(r),
           ~r.shared => Far(r),
           ~r.shared /\ r.at \in {"flush", "report"} =>
                Parsed(r) = Least(Cardinality(Valid(r.upload.lines)), MaxImportLines)
    PROVE  Counted(r)
  BY DEF Reads, Far, Counted

LEMMA CountedLines ==
    ASSUME Types, Files, NEW i \in Imports, Record(imp[i]), Counted(imp[i]),
           ReadIgnored(i) \/ ReadDropped(i) \/ ReadAccepted(i)
    PROVE  Counted(imp'[i])
  <1> DEFINE r == imp[i]
             lines == r.upload.lines
             valid == Valid(lines)
             read(p) == Cardinality({n \in valid : n <= p})
  <1>1. /\ r \in Request /\ r.at = "read" /\ More(i)
        /\ r.pos \in Nat /\ r.accepted \in Nat /\ r.dropped \in Nat
    BY RecordFields DEF ReadIgnored, ReadDropped, ReadAccepted
  <1>2. PICK s : /\ imp'[i] = s
                 /\ s.at \in {"read", "save"} /\ s.pos = r.pos + 1 /\ s.upload = r.upload
                 /\ s.shared = r.shared /\ s.limit = r.limit
                 /\ ReadIgnored(i) => s.accepted = r.accepted /\ s.dropped = r.dropped
                 /\ ReadDropped(i) => s.accepted = r.accepted /\ s.dropped = r.dropped + 1
                 /\ ReadAccepted(i) => s.accepted = r.accepted + 1 /\ s.dropped = r.dropped
    <2>1. CASE ReadIgnored(i)
      <3> DEFINE s == [imp[i] EXCEPT !.pos = @ + 1]
      <3>1. Goes(i, s)
        BY <2>1, Reading, Zenon
      <3>2. /\ s.at = r.at /\ s.pos = r.pos + 1 /\ s.upload = r.upload
            /\ s.shared = r.shared /\ s.limit = r.limit
            /\ s.accepted = r.accepted /\ s.dropped = r.dropped
        BY <1>1 DEF Request
      <3>3. ~ReadDropped(i) /\ ~ReadAccepted(i)
        BY <2>1 DEF ReadIgnored, ReadDropped, ReadAccepted
      <3> HIDE DEF s
      <3>4. imp'[i] = s
        BY <3>1, OneRequest
      <3> QED
        BY <1>1, <3>2, <3>3, <3>4
    <2>2. CASE ReadDropped(i)
      <3> DEFINE s == [imp[i] EXCEPT !.pos = @ + 1, !.dropped = @ + 1]
      <3>1. Goes(i, s)
        BY <2>2, Reading, Zenon
      <3>2. /\ s.at = r.at /\ s.pos = r.pos + 1 /\ s.upload = r.upload
            /\ s.shared = r.shared /\ s.limit = r.limit
            /\ s.accepted = r.accepted /\ s.dropped = r.dropped + 1
        BY <1>1 DEF Request
      <3>3. ~ReadIgnored(i) /\ ~ReadAccepted(i)
        BY <2>2 DEF ReadIgnored, ReadDropped, ReadAccepted
      <3> HIDE DEF s
      <3>4. imp'[i] = s
        BY <3>1, OneRequest
      <3> QED
        BY <1>1, <3>2, <3>3, <3>4
    <2>3. CASE ReadAccepted(i)
      <3> DEFINE batch == imp[i].batch \cup {EntryOf(i, imp[i].pos + 1, Line(i))}
                 next == IF Cardinality(batch) >= BatchSize THEN "save" ELSE "read"
                 s == [imp[i] EXCEPT !.pos = @ + 1, !.accepted = @ + 1, !.batch = batch, !.at = next]
      <3>1. Goes(i, s)
        BY <2>3, Reading, Zenon
      <3>a. next \in {"read", "save"}
        OBVIOUS
      <3> HIDE DEF batch, next
      <3>2. /\ s.at = next /\ s.pos = r.pos + 1 /\ s.upload = r.upload
            /\ s.shared = r.shared /\ s.limit = r.limit
            /\ s.accepted = r.accepted + 1 /\ s.dropped = r.dropped
        BY <1>1 DEF Request
      <3>3. ~ReadIgnored(i) /\ ~ReadDropped(i)
        BY <2>3 DEF ReadIgnored, ReadDropped, ReadAccepted
      <3> HIDE DEF s
      <3>4. imp'[i] = s
        BY <3>1, OneRequest
      <3> QED
        BY <1>1, <3>a, <3>2, <3>3, <3>4
    <2> QED
      BY <2>1, <2>2, <2>3
  <1>3. Reads(s) /\ s.at \notin {"flush", "report"}
    BY <1>2 DEF Reads
  <1>4. ASSUME ~s.shared PROVE Far(s)
    <2>1. /\ lines \in Seq(LogLine) /\ r.pos < Len(lines) /\ Line(i) = lines[r.pos + 1]
      BY <1>1, <1>2, <1>4, OwnFile DEF Busy
    <2>2. /\ valid # {} /\ Parsed(r) = read(r.pos) /\ Parsed(r) <= MaxImportLines
          /\ r.limit <=> Cardinality(valid) >= MaxImportLines
      BY <1>1, <1>2, <1>4 DEF Counted
    <2>3. /\ read(r.pos) \in Nat /\ r.pos + 1 <= Len(lines)
          /\ Ignored(lines[r.pos + 1]) => read(r.pos + 1) = read(r.pos)
          /\ ~Ignored(lines[r.pos + 1]) => read(r.pos + 1) = read(r.pos) + 1
      BY <1>1, <2>1, OneMoreLine
    <2>4. CASE ReadIgnored(i)
      <3>1. read(r.pos + 1) = read(r.pos)
        BY <2>1, <2>3, <2>4 DEF ReadIgnored
      <3>2. Parsed(s) = Parsed(r)
        BY <1>2, <2>4 DEF Parsed
      <3> QED
        BY <1>2, <2>2, <2>3, <3>1, <3>2 DEF Far
    <2>5. CASE ReadDropped(i) \/ ReadAccepted(i)
      <3>1. read(r.pos + 1) = read(r.pos) + 1
        <4>1. ~Ignored(Line(i))
          BY <2>5 DEF ReadDropped, ReadAccepted
        <4> QED
          BY <2>1, <2>3, <4>1
      <3>2. Parsed(s) = Parsed(r) + 1
        BY <1>1, <1>2, <2>5 DEF Parsed
      <3>3. Parsed(r) < MaxImportLines /\ Parsed(r) \in Nat
        BY <1>1, <2>5 DEF ReadDropped, ReadAccepted, MayRead, Handled, Parsed
      <3>4. Parsed(s) <= MaxImportLines
        BY <3>2, <3>3, Constants
      <3> HIDE DEF r
      <3> QED
        BY <1>2, <2>2, <2>3, <3>1, <3>2, <3>4 DEF Far
    <2> QED
      BY <2>4, <2>5
  <1> QED
    BY <1>2, <1>3, <1>4, CountedRead

LEMMA CountedScan ==
    ASSUME Types, Files, NEW i \in Imports, Record(imp[i]), imp[i].at = "scan",
           Valid(Content(temp[imp[i].upload.name])) # {}, Goes(i, Scanned(imp[i]))
    PROVE  Counted(imp'[i])
  <1> DEFINE r == imp[i]
             s == Scanned(r)
             lines == r.upload.lines
             valid == Valid(lines)
  <1>1. r \in Request /\ r.at = "scan" /\ r.pos = 0 /\ r.accepted = 0 /\ r.dropped = 0
    BY RecordFields DEF Record, Early
  <1>2. /\ s.at = "open" /\ s.upload = r.upload /\ s.shared = r.shared
        /\ s.limit = LimitMet(Cardinality(Valid(Content(temp[r.upload.name]))))
        /\ s.pos = 0 /\ s.accepted = 0 /\ s.dropped = 0
    BY <1>1, ScannedFields
  <1> HIDE DEF s
  <1>3. ASSUME ~s.shared PROVE Far(s)
    <2>1. lines \in Seq(LogLine) /\ Content(temp[r.upload.name]) = lines
      BY <1>1, <1>2, <1>3, OwnFile DEF Busy
    <2>2. valid # {}
      BY <2>1
    <2>3. Cardinality({n \in valid : n <= 0}) = 0
      BY <2>1, NothingRead
    <2>4. Len(lines) >= 0
      BY <2>1, ValidPlaces
    <2>5. s.limit <=> Cardinality(valid) >= MaxImportLines
      BY <1>2, <2>1 DEF LimitMet
    <2>6. Parsed(s) = 0
      BY <1>2 DEF Parsed
    <2> QED
      BY <1>2, <2>2, <2>3, <2>4, <2>5, <2>6, Constants DEF Far
  <1>4. Counted(s)
    BY <1>2, <1>3, CountedRead DEF Reads
  <1>5. imp'[i] = s
    BY OneRequest DEF s
  <1> QED
    BY <1>4, <1>5

LEMMA CountedMove ==
    ASSUME Types, Files, NEW i \in Imports, Record(imp[i]), Counted(imp[i]), Reopen(i) \/ Save(i)
    PROVE  Counted(imp'[i])
  <1> DEFINE r == imp[i]
  <1>1. PICK s : /\ imp'[i] = s /\ s.pos = r.pos /\ s.upload = r.upload /\ s.shared = r.shared
                 /\ s.limit = r.limit /\ s.accepted = r.accepted /\ s.dropped = r.dropped
                 /\ r.at \in {"open", "save", "flush"}
                 /\ s.at = IF r.at = "flush" THEN "report" ELSE "read"
    <2>1. CASE Reopen(i)
      <3> DEFINE n == temp[imp[i].upload.name]
                 s == [imp[i] EXCEPT !.at = "read", !.node = n]
      <3>1. Goes(i, s)
        BY <2>1, Uploading, Zenon DEF Files
      <3>2. r \in Request /\ r.at = "open"
        BY <2>1, RecordFields DEF Reopen
      <3> HIDE DEF n
      <3>3. /\ s.pos = r.pos /\ s.upload = r.upload /\ s.shared = r.shared
            /\ s.limit = r.limit /\ s.accepted = r.accepted /\ s.dropped = r.dropped
            /\ s.at = "read"
        BY <3>2 DEF Request
      <3> HIDE DEF s
      <3>4. imp'[i] = s
        BY <3>1, OneRequest
      <3> QED
        BY <3>2, <3>3, <3>4
    <2>2. CASE Save(i)
      <3> DEFINE n == imp[i].written + Cardinality(imp[i].batch)
                 next == IF imp[i].at = "save" THEN "read" ELSE "report"
                 s == [imp[i] EXCEPT !.at = next, !.written = n, !.batch = {}]
      <3>1. Goes(i, s)
        BY <2>2, Saving, Zenon
      <3>2. r \in Request /\ r.at \in {"save", "flush"}
        BY <2>2, RecordFields DEF Save
      <3>3. next = IF r.at = "flush" THEN "report" ELSE "read"
        BY <3>2
      <3> HIDE DEF n, next
      <3>4. /\ s.pos = r.pos /\ s.upload = r.upload /\ s.shared = r.shared
            /\ s.limit = r.limit /\ s.accepted = r.accepted /\ s.dropped = r.dropped
            /\ s.at = next
        BY <3>2 DEF Request
      <3> HIDE DEF s
      <3>5. imp'[i] = s
        BY <3>1, OneRequest
      <3> QED
        BY <3>2, <3>3, <3>4, <3>5
    <2> QED
      BY <2>1, <2>2
  <1>2. Parsed(s) = Parsed(r)
    BY <1>1 DEF Parsed
  <1>3. Reads(r) /\ Reads(s)
    BY <1>1 DEF Reads
  <1>4. ~s.shared => Far(s)
    <2>1. ~r.shared => Far(r)
      BY <1>3 DEF Counted, Far, Reads
    <2> HIDE DEF r
    <2> QED
      BY <1>1, <1>2, <2>1 DEF Far
  <1>5. ~s.shared /\ s.at \in {"flush", "report"} =>
            Parsed(s) = Least(Cardinality(Valid(s.upload.lines)), MaxImportLines)
    <2> SUFFICES ASSUME ~s.shared, s.at \in {"flush", "report"}
                 PROVE  Parsed(s) = Least(Cardinality(Valid(s.upload.lines)), MaxImportLines)
      OBVIOUS
    <2>1. r.at = "flush" /\ ~r.shared
      BY <1>1
    <2>2. Parsed(r) = Least(Cardinality(Valid(r.upload.lines)), MaxImportLines)
      BY <2>1 DEF Counted
    <2> QED
      BY <1>1, <1>2, <2>2
  <1> QED
    BY <1>1, <1>3, <1>4, <1>5, CountedRead

\* The end of the file or of the limit: all has been read, or as much as may be.
LEMMA CountedEnd ==
    ASSUME Types, Files, NEW i \in Imports, Record(imp[i]), Counted(imp[i]), ReadEnds(i)
    PROVE  Counted(imp'[i])
  <1> DEFINE r == imp[i]
             lines == r.upload.lines
             valid == Valid(lines)
             more == More(i)
             next == IF imp[i].batch = {} THEN "report" ELSE "flush"
             s == [imp[i] EXCEPT !.at = next, !.limit = @ \/ more]
  <1>1. /\ r \in Request /\ r.at = "read"
        /\ r.pos \in Nat /\ r.accepted \in Nat /\ r.dropped \in Nat
        /\ more => ~Ignored(Line(i)) /\ ~MayRead(i)
    BY RecordFields DEF ReadEnds
  <1>2. Goes(i, s)
    BY Reading, Zenon
  <1>3. next \in {"report", "flush"} /\ more \in BOOLEAN
    BY DEF More
  <1> HIDE DEF next, more
  <1>4. /\ s.at = next /\ s.upload = r.upload /\ s.shared = r.shared /\ s.pos = r.pos
        /\ s.accepted = r.accepted /\ s.dropped = r.dropped
        /\ s.limit <=> r.limit \/ more
    BY <1>1, <1>3 DEF Request
  <1> HIDE DEF s
  <1>5. imp'[i] = s
    BY <1>2, OneRequest
  <1>6. Parsed(s) = Parsed(r) /\ Parsed(r) \in Nat
    BY <1>1, <1>4 DEF Parsed
  <1>7. ASSUME ~s.shared
        PROVE  Far(s) /\ Parsed(s) = Least(Cardinality(valid), MaxImportLines)
    <2>1. /\ lines \in Seq(LogLine)
          /\ more <=> r.pos < Len(lines)
          /\ Line(i) = lines[r.pos + 1]
      BY <1>1, <1>4, <1>7, OwnFile DEF Busy, more
    <2>2. Far(r)
      BY <1>1, <1>4, <1>7 DEF Counted, Far
    <2>3. /\ Cardinality(valid) \in Nat /\ Len(lines) \in Nat
      BY <2>1, ValidPlaces
    <2>4. CASE more
      <3>1. Cardinality({n \in valid : n <= r.pos}) < Cardinality(valid)
        BY <1>1, <2>1, <2>4, OneMoreLine
      <3>2. Parsed(r) >= MaxImportLines /\ Parsed(r) <= MaxImportLines /\ Parsed(r) < Cardinality(valid)
        BY <1>1, <2>2, <2>4, <3>1, Constants DEF Far, MayRead, Handled, Parsed
      <3>3. /\ Parsed(r) = Least(Cardinality(valid), MaxImportLines)
            /\ Cardinality(valid) >= MaxImportLines
        BY <1>6, <2>3, <3>2, Constants DEF Least
      <3> QED
        BY <1>4, <1>6, <2>2, <2>4, <3>3 DEF Far
    <2>5. CASE ~more
      <3>1. {n \in valid : n <= r.pos} = valid
        <4>1. r.pos >= Len(lines)
          BY <1>1, <2>1, <2>3, <2>5
        <4> QED
          BY <1>1, <2>1, <4>1, AllRead
      <3>2. Parsed(r) = Cardinality(valid) /\ Parsed(r) <= MaxImportLines
        BY <2>2, <3>1 DEF Far
      <3>3. Parsed(r) = Least(Cardinality(valid), MaxImportLines)
        BY <3>2 DEF Least
      <3> QED
        BY <1>4, <1>6, <2>2, <2>5, <3>3 DEF Far
    <2> QED
      BY <2>4, <2>5
  <1> QED
    BY <1>3, <1>4, <1>5, <1>7, CountedRead DEF Reads

LEMMA CountedDone ==
    ASSUME Types, Files, NEW i \in Imports, Record(imp[i]), Counted(imp[i]), Ends(i)
    PROVE  Counted(imp'[i])
  <1> DEFINE r == imp[i]
             valid == Valid(r.upload.lines)
  <1>1. PICK status \in {"ok", "partial", "warning", "error"}, imported \in Nat :
               /\ Goes(i, Answered(r, status, imported))
               /\ status \in {"ok", "partial"} =>
                     \/ Report(i) /\ status = Status(i, imported) /\ imported = Imported(i)
                     \/ /\ r.at = "scan" /\ status = "ok"
                        /\ Valid(Content(temp[r.upload.name])) = {}
    BY DEF Ends
  <1> DEFINE s == Answered(r, status, imported)
  <1>2. r \in Request /\ r.accepted \in Nat /\ r.dropped \in Nat
    BY RecordFields
  <1>3. /\ s.at = "done" /\ s.status = status /\ s.upload = r.upload /\ s.limit = r.limit
        /\ s.shared = r.shared /\ s.accepted = r.accepted /\ s.dropped = r.dropped
    BY <1>2, AnsweredFields
  <1>4. imp'[i] = s
    BY <1>1, OneRequest
  <1> HIDE DEF s
  <1>5. Parsed(s) = Parsed(r)
    BY <1>3 DEF Parsed
  <1>6. ASSUME ~r.shared, status \in {"ok", "partial"}
        PROVE  /\ Parsed(r) = Least(Cardinality(valid), MaxImportLines)
               /\ r.limit <=> Cardinality(valid) >= MaxImportLines
               /\ status = "ok" => r.accepted = Cardinality(valid)
    <2>0. Cardinality(valid) \in Nat
      BY <1>2, Constants, ValidPlaces DEF Request
    <2>1. CASE Report(i) /\ status = Status(i, imported) /\ imported = Imported(i)
      <3>1. r.at = "report"
        BY <2>1 DEF Report
      <3>2. /\ Parsed(r) = Least(Cardinality(valid), MaxImportLines)
            /\ r.limit <=> Cardinality(valid) >= MaxImportLines
        BY <1>6, <3>1 DEF Counted
      <3>3. status = "ok" => ~r.limit /\ ~(r.dropped > 0)
        BY <2>1 DEF Status
      <3>4. status = "ok" => r.dropped = 0 /\ ~(Cardinality(valid) >= MaxImportLines)
        BY <1>2, <3>2, <3>3
      <3>5. status = "ok" => r.accepted = Cardinality(valid)
        BY <1>2, <2>0, <3>2, <3>4, Constants DEF Least, Parsed
      <3> QED
        BY <3>2, <3>5
    <2>2. CASE /\ r.at = "scan" /\ status = "ok"
               /\ Valid(Content(temp[r.upload.name])) = {}
      <3>1. valid = {}
        BY <1>6, <2>2, OwnFile DEF Busy
      <3>2. Cardinality(valid) = 0
        BY <3>1, FS_EmptySet
      <3>3. r.accepted = 0 /\ r.dropped = 0 /\ ~r.limit
        BY <2>2 DEF Record, Early
      <3>4. Parsed(r) = 0
        BY <3>3 DEF Parsed
      <3> QED
        BY <3>2, <3>3, <3>4, Constants DEF Least
    <2> QED
      BY <1>1, <1>6, <2>1, <2>2
  <1>7. Counted(s)
    BY <1>3, <1>5, <1>6 DEF Counted
  <1> QED
    BY <1>4, <1>7

LEMMA NextCounted ==
    ASSUME Types, Files, \A i \in Imports : Record(imp[i]) /\ Counted(imp[i]), [Next]_vars
    PROVE  \A i \in Imports : Counted(imp'[i])
  <1>1. ASSUME UNCHANGED ivars PROVE \A i \in Imports : Counted(imp'[i])
    BY <1>1 DEF ivars
  <1>2. ASSUME NEW i \in Imports, ImportStep(i) PROVE \A j \in Imports : Counted(imp'[j])
    <2>0. ASSUME \E r : Goes(i, r), Counted(imp'[i]) PROVE \A j \in Imports : Counted(imp'[j])
      BY <2>0, OneRequest
    <2>1. ASSUME NEW u \in Uploads, Begin(i, u) PROVE \A j \in Imports : Counted(imp'[j])
      <3>1. imp'[i].at = "create"
        BY <2>1, Begun
      <3>2. Counted(imp'[i])
        BY <3>1 DEF Counted
      <3>3. ASSUME NEW j \in Imports \ {i} PROVE Counted(imp'[j])
        <4> DEFINE r == imp[j]
                   s == imp'[j]
        <4>1. /\ s.at = r.at /\ s.upload = r.upload /\ s.pos = r.pos /\ s.accepted = r.accepted
              /\ s.dropped = r.dropped /\ s.limit = r.limit /\ s.status = r.status
              /\ ~s.shared => ~r.shared
          BY <2>1, Begun
        <4>2. Counted(r)
          OBVIOUS
        <4> HIDE DEF r, s
        <4>3. Parsed(s) = Parsed(r)
          BY <4>1 DEF Parsed
        <4>4. Counted(s)
          BY <4>1, <4>2, <4>3 DEF Counted
        <4> QED
          BY <4>4 DEF s
      <3> QED
        BY <3>2, <3>3
    <2>2. CASE UploadCreates(i)
      <3> DEFINE n == Created(imp[i].upload.name)
                 r == [imp[i] EXCEPT !.at = "write", !.node = n]
      <3>1. Goes(i, r)
        BY <2>2, Uploading, Zenon DEF Files
      <3>2. r.at = "write"
        BY DEF Types, Request
      <3> HIDE DEF r
      <3>3. imp'[i].at = "write" /\ \E q : Goes(i, q)
        BY <3>1, <3>2, OneRequest
      <3> QED
        BY <2>0, <3>3 DEF Counted
    <2>3. CASE UploadWrites(i)
      <3> DEFINE r == [imp[i] EXCEPT !.at = "scan"]
      <3>1. Goes(i, r)
        BY <2>3, Uploading, Zenon DEF Files
      <3>2. r.at = "scan"
        BY DEF Types, Request
      <3> HIDE DEF r
      <3>3. imp'[i].at = "scan" /\ \E q : Goes(i, q)
        BY <3>1, <3>2, OneRequest
      <3> QED
        BY <2>0, <3>3 DEF Counted
    <2>4. CASE Reopen(i)
      <3>1. Counted(imp'[i])
        BY <2>4, CountedMove
      <3>2. \E r : Goes(i, r)
        BY <2>4, Uploading, Zenon DEF Files
      <3> QED
        BY <2>0, <3>1, <3>2
    <2>5. CASE Save(i)
      <3>1. Counted(imp'[i])
        BY <2>5, CountedMove
      <3>2. \E r : Goes(i, r)
        BY <2>5, Saving, Zenon
      <3> QED
        BY <2>0, <3>1, <3>2
    <2>6. CASE ReadIgnored(i) \/ ReadDropped(i) \/ ReadAccepted(i)
      <3>1. Counted(imp'[i])
        BY <2>6, CountedLines
      <3>2. \E r : Goes(i, r)
        BY <2>6, Reading, Zenon
      <3> QED
        BY <2>0, <3>1, <3>2
    <2>7. CASE ReadEnds(i)
      <3>1. Counted(imp'[i])
        BY <2>7, CountedEnd
      <3>2. \E r : Goes(i, r)
        BY <2>7, Reading, Zenon
      <3> QED
        BY <2>0, <3>1, <3>2
    <2>8. CASE /\ imp[i].at = "scan" /\ Valid(Content(temp[imp[i].upload.name])) # {}
               /\ Goes(i, Scanned(imp[i]))
      BY <2>0, <2>8, CountedScan
    <2>9. CASE Ends(i)
      <3>1. Counted(imp'[i])
        BY <2>9, CountedDone
      <3>2. \E r : Goes(i, r)
        BY <2>9 DEF Ends
      <3> QED
        BY <2>0, <3>1, <3>2
    <2> QED
      BY <1>2, <2>1, <2>2, <2>3, <2>4, <2>5, <2>6, <2>7, <2>8, <2>9, StepKinds
  <1> QED
    BY <1>1, <1>2 DEF Next, StoreLive, vars, ivars

-------------------------------------------------------------------------------
\* Theorems

LEMMA Inductive ==
    /\ Init => IInv
    /\ IInv /\ [Next]_vars => IInv'
  <1>1. Init => IInv
    BY InitImports, InitFiles DEF IInv, Files
  <1>2. ASSUME IInv, [Next]_vars PROVE IInv'
    <2>1. /\ Types /\ Owned /\ Files
          /\ \A i \in Imports : Record(imp[i]) /\ Counted(imp[i])
      BY <1>2 DEF IInv, Files
    <2>2. Types'
      BY <1>2, <2>1, NextTypes
    <2>3. \A i \in Imports : Record(imp'[i])
      BY <1>2, <2>1, NextRecords
    <2>4. Files'
      BY <1>2, <2>1, NextFiles
    <2>5. \A i \in Imports : Counted(imp'[i])
      BY <1>2, <2>1, NextCounted
    <2> QED
      BY <2>2, <2>3, <2>4, <2>5 DEF IInv, Files
  <1> QED
    BY <1>1, <1>2

\* The inductive invariant of importLogsFast (server.go), for any requests, files,
\* limit and size of a batch: types, batches, inodes, and how far each request is.
THEOREM InvariantHolds == Spec => []IInv
  BY Inductive, PTL DEF Spec

\* No step of an import, of the cleanup or of the live pipeline leaves the types: a
\* batch stays within its size, and what is written and in the batch is what was parsed.
THEOREM TypesHold == Spec => []TypeOK
  <1>1. Init => CleanerInv
    BY DEF Init, TableInit, Waiting, CleanerInv, Cleaner
  <1>2. CleanerInv /\ [Next]_vars => CleanerInv'
    BY CleanerStep
  <1>3. IInv /\ CleanerInv => TypeOK
    <2> SUFFICES ASSUME IInv, CleanerInv PROVE TypeOK
      OBVIOUS
    <2>1. TableTypeOK
      BY DEF IInv, Types, CleanerInv, Cleaner, TableTypeOK
    <2>2. ASSUME NEW i \in Imports
          PROVE  /\ imp[i].at \in {"idle", "create", "write", "scan", "open", "read", "save", "flush",
                                 "report", "done"}
                 /\ imp[i].dropped \in Nat
                 /\ imp[i].written + Cardinality(imp[i].batch) = imp[i].accepted
                 /\ Cardinality(imp[i].batch) <= BatchSize /\ imp[i].batch \subseteq Entries
                 /\ imp[i].status \in {"none"} \cup {"ok", "partial", "warning", "error"}
                 /\ progress[i].phase \in Phases /\ progress[i].percent \in 0..100
      <3>1. imp[i] \in Request /\ progress[i] \in Progress /\ Record(imp[i])
        BY DEF IInv, Types
      <3> QED
        BY <3>1 DEF Record, Request, Progress, Steps
    <2>3. temp \in [FileNames -> {0} \cup Inodes]
      BY DEF IInv, Types
    <2> QED
      BY <2>1, <2>2, <2>3 DEF TypeOK
  <1> QED
    BY <1>1, <1>2, <1>3, InvariantHolds, PTL DEF Spec

\* Of a file nobody else uploads meanwhile, every line that is neither blank nor a
\* comment is parsed or dropped, up to the limit, in whatever batches; the limit is
\* reported when and only when it was met, and "ok" means that all were parsed.
THEOREM EveryLineIsCounted == Spec => []EveryLineCounted
  <1>1. IInv => EveryLineCounted
    <2> SUFFICES ASSUME IInv, NEW i \in Imports, imp[i].at = "done",
                        imp[i].status \in {"ok", "partial"}, ~imp[i].shared
                 PROVE  LET valid == Cardinality(Valid(imp[i].upload.lines)) IN
                        /\ Handled(i) = Min({valid, MaxImportLines})
                        /\ imp[i].limit <=> valid >= MaxImportLines
                        /\ imp[i].status = "ok" => imp[i].accepted = valid
      BY DEF EveryLineCounted
    <2> DEFINE valid == Cardinality(Valid(imp[i].upload.lines))
    <2>1. valid \in Nat
      BY Constants, ValidPlaces DEF IInv, Types, Request
    <2>2. /\ Parsed(imp[i]) = Least(valid, MaxImportLines)
          /\ imp[i].limit <=> valid >= MaxImportLines
          /\ imp[i].status = "ok" => imp[i].accepted = valid
      BY DEF IInv, Counted
    <2>3. Handled(i) = Parsed(imp[i])
      BY DEF Handled, Parsed
    <2> HIDE DEF valid
    <2>4. Min({valid, MaxImportLines}) = Least(valid, MaxImportLines)
      BY <2>1, Constants, LeastOfTwo
    <2> QED
      BY <2>2, <2>3, <2>4 DEF valid
  <1> QED
    BY <1>1, InvariantHolds, PTL

\* What an import that parsed a line reports as imported is what it parsed and wrote,
\* and nothing of the live pipeline's, other imports' or the cleanup's changes to the
\* table.
THEOREM ImportedIsExact == Spec => []ImportedExact
  <1>1. IInv => ImportedExact
    BY DEF IInv, Record, ImportedExact
  <1> QED
    BY <1>1, InvariantHolds, PTL

\* Whatever line an import reads next, when it has the layout inferFieldName is written
\* for, its numbers are named by their places.
THEOREM LayoutIsStandard == Spec => []StandardLayout
  <1>1. IInv => StandardLayout
    <2> SUFFICES ASSUME IInv, NEW i \in Imports, NEW d \in Delimiters, More(i)
                 PROVE  NamedByPlace(Line(i).cells[d])
      BY DEF StandardLayout
    <2>1. Line(i) \in LogLine
      BY NextLine DEF IInv
    <2>2. Line(i).cells[d] \in Seq(Field)
      BY <2>1 DEF LogLine
    <2> QED
      BY <2>2, StandardLayoutNamed
  <1> QED
    BY <1>1, InvariantHolds, PTL

-------------------------------------------------------------------------------
\* The progress a client polls

LEMMA PercentGrows ==
    ASSUME NEW m \in Nat, NEW n \in Nat, NEW t \in Nat
    PROVE  /\ m <= n => Percent(m, t) <= Percent(n, t)
           /\ t > 0 => Percent(t, t) = 100
  <1>1. CASE t = 0
    BY <1>1 DEF Percent
  <1>2. CASE t > 0
    <2> DEFINE d(k) == (100 * k) \div t
    <2>1. d(m) \in Nat /\ d(n) \in Nat /\ (m <= n => d(m) <= d(n)) /\ d(t) = 100
      <3>1. d(m) \in Nat /\ d(n) \in Nat
        BY <1>2
      <3>2. m <= n => d(m) <= d(n)
        BY <1>2
      <3>3. d(t) = 100
        BY <1>2
      <3> QED
        BY <3>1, <3>2, <3>3
    <2>2. \A k \in Nat : Percent(k, t) = Min({100, d(k)})
      BY <1>2 DEF Percent
    <2> HIDE DEF d
    <2>3. /\ Percent(m, t) = Least(100, d(m)) /\ Percent(n, t) = Least(100, d(n))
          /\ Percent(t, t) = Least(100, d(t))
      <3>1. ASSUME NEW k \in Nat, d(k) \in Nat PROVE Percent(k, t) = Least(100, d(k))
        <4>1. Min({100, d(k)}) = Least(100, d(k))
          BY <3>1, LeastOfTwo
        <4> QED
          BY <2>2, <4>1
      <3>2. d(t) \in Nat
        BY <2>1
      <3> QED
        BY <2>1, <3>1, <3>2
    <2>4. ASSUME NEW a \in Nat, NEW b \in Nat, a <= b PROVE Least(100, a) <= Least(100, b)
      BY <2>4 DEF Least
    <2>5. Least(100, 100) = 100
      BY DEF Least
    <2> QED
      BY <2>1, <2>3, <2>4, <2>5
  <1> QED
    BY <1>1, <1>2

\* What the progress of a request is while it has its file to itself.
Shown(i) ==
    /\ imp[i].at \in Early => progress[i].percent = 0
    /\ Reads(imp[i]) /\ ~imp[i].shared =>
          /\ imp[i].target = Least(Cardinality(Valid(imp[i].upload.lines)), MaxImportLines)
          /\ progress[i].percent <= Percent(Parsed(imp[i]), imp[i].target)
    /\ imp[i].at # "done" => imp[i].status = "none"

Rises(i) ==
    (~imp'[i].shared /\ imp'[i].at # "create" /\ progress'[i].phase # "none") =>
        /\ progress'[i].percent >= progress[i].percent
        /\ (imp[i].at = "report" /\ imp'[i].status \in {"ok", "partial"}) => progress'[i].percent = 100

LEMMA ShownTyped ==
    ASSUME Types, NEW i \in Imports
    PROVE  /\ imp[i] \in Request /\ progress[i] \in Progress /\ progress[i].percent \in 0..100
           /\ imp[i].target \in Nat /\ Parsed(imp[i]) \in Nat /\ Handled(i) = Parsed(imp[i])
           /\ \A p : progress' = [progress EXCEPT ![i] = p] =>
                 progress'[i] = p /\ \A j \in Imports \ {i} : progress'[j] = progress[j]
  BY DEF Types, Request, Progress, Parsed, Handled

LEMMA Standing ==
    ASSUME Types, NEW i \in Imports, Shown(i), progress'[i] = progress[i],
           imp'[i].at = imp[i].at, imp'[i].upload = imp[i].upload, imp'[i].target = imp[i].target,
           imp'[i].accepted = imp[i].accepted, imp'[i].dropped = imp[i].dropped,
           imp'[i].status = imp[i].status, ~imp'[i].shared => ~imp[i].shared
    PROVE  Shown(i)' /\ Rises(i)
  <1>1. Parsed(imp'[i]) = Parsed(imp[i])
    BY DEF Parsed
  <1>2. Shown(i)'
    BY <1>1 DEF Shown, Reads
  <1>3. Rises(i)
    BY ShownTyped DEF Rises, Shown
  <1> QED
    BY <1>2, <1>3

\* Another request's step.
LEMMA OthersStand ==
    ASSUME Types, \A j \in Imports : Record(imp[j]), Owned, NEW i \in Imports, ImportStep(i),
           NEW j \in Imports \ {i}, Shown(j)
    PROVE  Shown(j)' /\ Rises(j)
  <1>0. progress \in [Imports -> Progress]
    BY DEF Types
  <1>1. progress'[j] = progress[j]
    <2>1. ASSUME NEW p, progress' = [progress EXCEPT ![i] = p] PROVE progress'[j] = progress[j]
      BY <1>0, <2>1
    <2>2. ASSUME NEW phase, NEW status, NEW uploaded, GiveUp(i, phase, status, uploaded)
          PROVE  progress'[j] = progress[j]
      BY <2>1, <2>2 DEF GiveUp
    <2>3. CASE \E u \in Uploads : Begin(i, u)
      BY <2>1, <2>3 DEF Begin
    <2>4. CASE \/ UploadCreates(i) \/ UploadWrites(i) \/ Reopen(i)
               \/ ReadIgnored(i) \/ ReadAccepted(i) \/ ReadEnds(i)
      BY <2>4 DEF UploadCreates, UploadWrites, Reopen, ReadIgnored, ReadAccepted, ReadEnds
    <2>5. CASE UploadFails(i) \/ OpenFails(i) \/ ReadFails(i) \/ SaveFails(i)
      BY <2>2, <2>5 DEF UploadFails, OpenFails, ReadFails, SaveFails
    <2>6. ASSUME NEW setting \in Settings, Scan(i, setting) PROVE progress'[j] = progress[j]
      <3>1. \/ \E phase, status, uploaded : GiveUp(i, phase, status, uploaded)
            \/ \E p : progress' = [progress EXCEPT ![i] = p]
        BY <2>6, Zenon DEF Scan
      <3> QED
        BY <2>1, <2>2, <3>1
    <2>7. CASE ReadDropped(i) \/ Save(i) \/ Report(i)
      BY <2>1, <2>7 DEF ReadDropped, Save, Report
    <2> QED
      BY <2>3, <2>4, <2>5, <2>6, <2>7 DEF ImportStep
  <1>2. CASE \E r : Goes(i, r)
    <2>1. imp'[j] = imp[j]
      BY <1>2, OneRequest
    <2> QED
      BY <1>1, <2>1, Standing
  <1>3. ASSUME NEW u \in Uploads, Begin(i, u) PROVE Shown(j)' /\ Rises(j)
    BY <1>1, <1>3, Begun, Standing
  <1>4. (\E u \in Uploads : Begin(i, u)) \/ \E r : Goes(i, r)
    <2>1. ASSUME Ends(i) PROVE \E r : Goes(i, r)
      BY <2>1 DEF Ends
    <2>2. ASSUME UploadCreates(i) \/ UploadWrites(i) \/ Reopen(i) PROVE \E r : Goes(i, r)
      BY <2>2, Uploading, Zenon
    <2>3. ASSUME ReadIgnored(i) \/ ReadDropped(i) \/ ReadAccepted(i) \/ ReadEnds(i) PROVE \E r : Goes(i, r)
      BY <2>3, Reading, Zenon
    <2>4. ASSUME Save(i) PROVE \E r : Goes(i, r)
      BY <2>4, Saving, Zenon
    <2> QED
      BY <2>1, <2>2, <2>3, <2>4, StepKinds
  <1> QED
    BY <1>2, <1>3, <1>4

\* A step that moves neither the count of what is parsed nor the percentage.
LEMMA Keeps ==
    ASSUME Types, NEW i \in Imports, Shown(i), progress' = progress, NEW r, imp'[i] = r,
           r.at \notin {"create", "done"}, r.status = imp[i].status, imp[i].at # "done",
           r.at \in Early => imp[i].at \in Early,
           Reads(r) /\ ~r.shared =>
                /\ Reads(imp[i]) /\ ~imp[i].shared /\ r.upload = imp[i].upload
                /\ r.target = imp[i].target /\ Parsed(r) \in Nat /\ Parsed(imp[i]) <= Parsed(r)
    PROVE  Shown(i)' /\ Rises(i)
  <1>0. progress'[i] = progress[i] /\ progress[i].percent \in 0..100
    BY ShownTyped
  <1>1. r.status = "none"
    BY DEF Shown
  <1>2. ASSUME Reads(r), ~r.shared
        PROVE  /\ r.target = Least(Cardinality(Valid(r.upload.lines)), MaxImportLines)
               /\ progress[i].percent <= Percent(Parsed(r), r.target)
    <2>1. /\ imp[i].target = Least(Cardinality(Valid(imp[i].upload.lines)), MaxImportLines)
          /\ progress[i].percent <= Percent(Parsed(imp[i]), imp[i].target)
      BY <1>2 DEF Shown
    <2>2. Parsed(imp[i]) \in Nat /\ imp[i].target \in Nat
      BY ShownTyped
    <2>3. Percent(Parsed(imp[i]), imp[i].target) <= Percent(Parsed(r), imp[i].target)
      BY <1>2, <2>2, PercentGrows
    <2>4. Percent(Parsed(imp[i]), imp[i].target) \in 0..100 /\ Percent(Parsed(r), imp[i].target) \in 0..100
      BY <1>2, <2>2, PercentRange
    <2>5. progress[i].percent <= Percent(Parsed(r), imp[i].target)
      <3> DEFINE a == progress[i].percent
                 b == Percent(Parsed(imp[i]), imp[i].target)
                 c == Percent(Parsed(r), imp[i].target)
      <3>1. a \in 0..100 /\ b \in 0..100 /\ c \in 0..100 /\ a <= b /\ b <= c
        BY <1>0, <2>1, <2>3, <2>4, Zenon
      <3> HIDE DEF a, b, c
      <3>2. a <= c
        BY <3>1
      <3> QED
        BY <3>2 DEF a, c
    <2>6. r.target = imp[i].target /\ r.upload = imp[i].upload
      BY <1>2
    <2> QED
      BY <2>1, <2>5, <2>6, Zenon
  <1>3. Shown(i)'
    BY <1>0, <1>1, <1>2 DEF Shown
  <1>4. Rises(i)
    BY <1>0, <1>1 DEF Rises
  <1> QED
    BY <1>3, <1>4

\* A step that tells how many lines are parsed or dropped by now.
LEMMA Tells ==
    ASSUME Types, NEW i \in Imports, Shown(i), Counted(imp[i]), NEW h \in Nat, NEW phase \in Phases,
           progress' = [progress EXCEPT ![i] = Update(i, h, phase)],
           Parsed(imp[i]) <= h, Reads(imp[i])
    PROVE  /\ progress'[i] = Update(i, h, phase)
           /\ ~imp[i].shared =>
                 /\ imp[i].target > 0
                 /\ progress'[i].percent = Percent(h, imp[i].target)
                 /\ progress'[i].percent >= progress[i].percent
  <1>1. progress'[i] = Update(i, h, phase)
    BY ShownTyped
  <1>2. ASSUME ~imp[i].shared
        PROVE  /\ imp[i].target > 0
               /\ progress'[i].percent = Percent(h, imp[i].target)
               /\ progress'[i].percent >= progress[i].percent
    <2> DEFINE valid == Valid(imp[i].upload.lines)
    <2>1. /\ imp[i].target = Least(Cardinality(valid), MaxImportLines) /\ valid # {}
          /\ progress[i].percent <= Percent(Parsed(imp[i]), imp[i].target)
      <3>1. valid # {}
        BY <1>2, Zenon DEF Counted, Reads
      <3> QED
        BY <1>2, <3>1 DEF Shown
    <2>2. Cardinality(valid) \in Nat /\ Cardinality(valid) # 0
      BY <2>1, Constants, ValidPlaces DEF Types, Request
    <2>3. imp[i].target > 0 /\ imp[i].target \in Nat
      BY <2>1, <2>2, Constants DEF Least
    <2>4. progress'[i].percent = Percent(h, imp[i].target)
      BY <1>1, <2>3 DEF Update
    <2>5. Parsed(imp[i]) \in Nat /\ progress[i].percent \in 0..100
      BY ShownTyped
    <2>6. Percent(Parsed(imp[i]), imp[i].target) <= Percent(h, imp[i].target)
      BY <2>3, <2>5, PercentGrows
    <2>7. Percent(Parsed(imp[i]), imp[i].target) \in 0..100 /\ Percent(h, imp[i].target) \in 0..100
      BY <2>3, <2>5, PercentRange
    <2> QED
      BY SMTT(30), <2>1, <2>3, <2>4, <2>5, <2>6, <2>7
  <1> QED
    BY <1>1, <1>2

\* A request that is given up keeps its percentage or ends at 100.
LEMMA GivenUpShown ==
    ASSUME Types, NEW i \in Imports, Shown(i), imp[i].at # "report",
           NEW phase \in Phases, NEW status \in {"ok", "partial", "warning", "error"},
           NEW uploaded \in BOOLEAN, GiveUp(i, phase, status, uploaded)
    PROVE  Shown(i)' /\ Rises(i)
  <1>1. imp'[i].at = "done"
    <2>1. imp'[i] = Answered(imp[i], status, 0) /\ imp[i] \in Request
      BY GivesUp, OneRequest DEF Types
    <2> QED
      BY <2>1, AnsweredFields
  <1>2. progress' = [progress EXCEPT ![i] = Ended(progress[i], phase)]
    BY ShownTyped DEF GiveUp, Types
  <1>3. progress'[i] = Ended(progress[i], phase)
    BY <1>2, ShownTyped
  <1>4. progress'[i].percent >= progress[i].percent
    <2> DEFINE percent == IF progress[i].target > 0 /\ phase \in {"completed", "partial"}
                          THEN 100 ELSE progress[i].percent
    <2>1. progress[i] \in Progress /\ progress[i].percent \in 0..100
      BY ShownTyped
    <2>2. progress'[i] = [progress[i] EXCEPT !.phase = phase, !.percent = percent]
      BY <1>3 DEF Ended
    <2>3. percent >= progress[i].percent
      BY <2>1
    <2> HIDE DEF percent
    <2>4. progress'[i].percent = percent
      BY <2>1, <2>2 DEF Progress
    <2> QED
      BY <2>3, <2>4
  <1>5. Shown(i)'
    BY <1>1 DEF Shown, Reads, Early
  <1> QED
    BY <1>4, <1>5 DEF Rises

LEMMA UploadShown ==
    ASSUME Types, Owned, NEW i \in Imports, Shown(i), UploadCreates(i) \/ UploadWrites(i) \/ Reopen(i)
    PROVE  Shown(i)' /\ Rises(i)
  <1>0. imp[i] \in Request /\ progress' = progress
    BY ShownTyped DEF UploadCreates, UploadWrites, Reopen
  <1>1. CASE UploadCreates(i)
    <2> DEFINE n == Created(imp[i].upload.name)
               r == [imp[i] EXCEPT !.at = "write", !.node = n]
    <2>1. Goes(i, r) /\ imp[i].at = "create"
      BY <1>1, Uploading, Zenon DEF UploadCreates
    <2>2. r.at = "write" /\ r.status = imp[i].status
      BY <1>0 DEF Request
    <2> HIDE DEF r
    <2>3. imp'[i] = r
      BY <2>1, OneRequest
    <2> QED
      BY <1>0, <2>1, <2>2, <2>3, Keeps DEF Reads, Early
  <1>2. CASE UploadWrites(i)
    <2> DEFINE r == [imp[i] EXCEPT !.at = "scan"]
    <2>1. Goes(i, r) /\ imp[i].at = "write"
      BY <1>2, Uploading, Zenon DEF UploadWrites
    <2>2. r.at = "scan" /\ r.status = imp[i].status
      BY <1>0 DEF Request
    <2> HIDE DEF r
    <2>3. imp'[i] = r
      BY <2>1, OneRequest
    <2> QED
      BY <1>0, <2>1, <2>2, <2>3, Keeps DEF Reads, Early
  <1>3. CASE Reopen(i)
    <2> DEFINE n == temp[imp[i].upload.name]
               r == [imp[i] EXCEPT !.at = "read", !.node = n]
    <2>1. Goes(i, r) /\ imp[i].at = "open"
      BY <1>3, Uploading, Zenon DEF Reopen
    <2>2. /\ r.at = "read" /\ r.status = imp[i].status /\ r.upload = imp[i].upload
          /\ r.target = imp[i].target /\ r.shared = imp[i].shared
          /\ r.accepted = imp[i].accepted /\ r.dropped = imp[i].dropped
      BY <1>0 DEF Request
    <2> HIDE DEF r
    <2>3. Parsed(r) = Parsed(imp[i]) /\ Parsed(r) \in Nat
      BY <2>2, ShownTyped DEF Parsed
    <2>4. imp'[i] = r
      BY <2>1, OneRequest
    <2> QED
      BY <1>0, <2>1, <2>2, <2>3, <2>4, Keeps DEF Reads, Early
  <1> QED
    BY <1>1, <1>2, <1>3

LEMMA ReadShown ==
    ASSUME Types, NEW i \in Imports, Shown(i), ReadIgnored(i) \/ ReadAccepted(i) \/ ReadEnds(i)
    PROVE  Shown(i)' /\ Rises(i)
  <1>0. /\ imp[i] \in Request /\ progress' = progress /\ imp[i].at = "read"
        /\ imp[i].accepted \in Nat /\ imp[i].dropped \in Nat
    BY ShownTyped DEF ReadIgnored, ReadAccepted, ReadEnds, Request
  <1>a. ASSUME NEW r, Goes(i, r), r.at \in {"read", "save", "report", "flush"}, r.status = imp[i].status,
               r.upload = imp[i].upload, r.target = imp[i].target, r.shared = imp[i].shared,
               r.accepted \in Nat, imp[i].accepted <= r.accepted, r.dropped = imp[i].dropped
        PROVE  Shown(i)' /\ Rises(i)
    <2>1. Parsed(imp[i]) <= Parsed(r) /\ Parsed(r) \in Nat
      BY <1>0, <1>a DEF Parsed
    <2>2. imp'[i] = r
      BY <1>a, OneRequest
    <2> QED
      BY <1>0, <1>a, <2>1, <2>2, Keeps DEF Reads, Early
  <1>1. CASE ReadIgnored(i)
    <2> DEFINE r == [imp[i] EXCEPT !.pos = @ + 1]
    <2>1. Goes(i, r)
      BY <1>1, Reading, Zenon
    <2>2. /\ r.at = "read" /\ r.status = imp[i].status /\ r.upload = imp[i].upload
          /\ r.target = imp[i].target /\ r.shared = imp[i].shared
          /\ r.accepted = imp[i].accepted /\ r.dropped = imp[i].dropped
      BY <1>0 DEF Request
    <2> HIDE DEF r
    <2> QED
      BY <1>0, <1>a, <2>1, <2>2
  <1>2. CASE ReadAccepted(i)
    <2> DEFINE batch == imp[i].batch \cup {EntryOf(i, imp[i].pos + 1, Line(i))}
               next == IF Cardinality(batch) >= BatchSize THEN "save" ELSE "read"
               r == [imp[i] EXCEPT !.pos = @ + 1, !.accepted = @ + 1, !.batch = batch, !.at = next]
    <2>1. Goes(i, r)
      BY <1>2, Reading, Zenon
    <2>2. next \in {"read", "save"}
      OBVIOUS
    <2> HIDE DEF batch, next
    <2>3. /\ r.at = next /\ r.status = imp[i].status /\ r.upload = imp[i].upload
          /\ r.target = imp[i].target /\ r.shared = imp[i].shared
          /\ r.accepted = imp[i].accepted + 1 /\ r.dropped = imp[i].dropped
      BY <1>0 DEF Request
    <2> HIDE DEF r
    <2> QED
      BY <1>0, <1>a, <2>1, <2>2, <2>3
  <1>3. CASE ReadEnds(i)
    <2> DEFINE more == More(i)
               next == IF imp[i].batch = {} THEN "report" ELSE "flush"
               r == [imp[i] EXCEPT !.at = next, !.limit = @ \/ more]
    <2>1. Goes(i, r)
      BY <1>3, Reading, Zenon
    <2>2. next \in {"report", "flush"}
      OBVIOUS
    <2> HIDE DEF more, next
    <2>3. /\ r.at = next /\ r.status = imp[i].status /\ r.upload = imp[i].upload
          /\ r.target = imp[i].target /\ r.shared = imp[i].shared
          /\ r.accepted = imp[i].accepted /\ r.dropped = imp[i].dropped
      BY <1>0 DEF Request
    <2> HIDE DEF r
    <2> QED
      BY <1>0, <1>a, <2>1, <2>2, <2>3
  <1> QED
    BY <1>1, <1>2, <1>3

LEMMA ToldShown ==
    ASSUME Types, NEW i \in Imports, Record(imp[i]), Counted(imp[i]), Shown(i), ReadDropped(i) \/ Save(i)
    PROVE  Shown(i)' /\ Rises(i)
  <1>0. /\ imp[i] \in Request /\ imp[i].accepted \in Nat /\ imp[i].dropped \in Nat
        /\ imp[i].at \in {"read", "save", "flush"} /\ Parsed(imp[i]) \in Nat
        /\ Handled(i) = Parsed(imp[i]) /\ imp[i].status = "none"
    BY ShownTyped DEF ReadDropped, Save, Request, Shown
  <1>a. ASSUME NEW r, NEW h \in Nat, Goes(i, r), r.at \in {"read", "report"}, r.status = imp[i].status,
               r.upload = imp[i].upload, r.target = imp[i].target, r.shared = imp[i].shared,
               Parsed(r) = h, Parsed(imp[i]) <= h,
               progress' = [progress EXCEPT ![i] = Update(i, h, "processing")]
        PROVE  Shown(i)' /\ Rises(i)
    <2>1. imp'[i] = r
      BY <1>a, OneRequest
    <2>2. ~imp[i].shared =>
             /\ progress'[i].percent = Percent(h, imp[i].target)
             /\ progress'[i].percent >= progress[i].percent
      BY <1>0, <1>a, Tells DEF Reads, Phases
    <2>3. ASSUME ~r.shared
          PROVE  /\ r.target = Least(Cardinality(Valid(r.upload.lines)), MaxImportLines)
                 /\ progress'[i].percent <= Percent(Parsed(r), r.target)
      <3>1. imp[i].target = Least(Cardinality(Valid(imp[i].upload.lines)), MaxImportLines)
        BY <1>0, <1>a, <2>3 DEF Shown, Reads
      <3>2. Percent(h, imp[i].target) \in 0..100
        BY <1>0, <1>a, PercentRange DEF Request
      <3> QED
        BY <1>a, <2>2, <2>3, <3>1, <3>2
    <2>4. Shown(i)'
      BY <1>0, <1>a, <2>1, <2>3 DEF Shown, Early
    <2>5. Rises(i)
      BY <1>0, <1>a, <2>1, <2>2 DEF Rises
    <2> QED
      BY <2>4, <2>5
  <1>1. CASE ReadDropped(i)
    <2> DEFINE r == [imp[i] EXCEPT !.pos = @ + 1, !.dropped = @ + 1]
               h == Handled(i) + 1
    <2>1. Goes(i, r)
      BY <1>1, Reading, Zenon
    <2>2. /\ r.at = imp[i].at /\ r.status = imp[i].status /\ r.upload = imp[i].upload
          /\ r.target = imp[i].target /\ r.shared = imp[i].shared
          /\ r.accepted = imp[i].accepted /\ r.dropped = imp[i].dropped + 1
      BY <1>0 DEF Request
    <2>3. progress' = [progress EXCEPT ![i] = Update(i, h, "processing")] /\ imp[i].at = "read"
      BY <1>1 DEF ReadDropped
    <2> HIDE DEF r
    <2>4. Parsed(r) = h /\ Parsed(imp[i]) <= h /\ h \in Nat
      BY <1>0, <2>2 DEF Parsed
    <2> HIDE DEF h
    <2> QED
      BY <1>a, <2>1, <2>2, <2>3, <2>4
  <1>2. CASE Save(i)
    <2> DEFINE n == imp[i].written + Cardinality(imp[i].batch)
               next == IF imp[i].at = "save" THEN "read" ELSE "report"
               r == [imp[i] EXCEPT !.at = next, !.written = n, !.batch = {}]
               h == Handled(i)
    <2>1. Goes(i, r)
      BY <1>2, Saving, Zenon
    <2>2. next \in {"read", "report"}
      OBVIOUS
    <2> HIDE DEF n, next
    <2>3. /\ r.at = next /\ r.status = imp[i].status /\ r.upload = imp[i].upload
          /\ r.target = imp[i].target /\ r.shared = imp[i].shared
          /\ r.accepted = imp[i].accepted /\ r.dropped = imp[i].dropped
      BY <1>0 DEF Request
    <2>4. progress' = [progress EXCEPT ![i] = Update(i, h, "processing")]
      BY <1>2 DEF Save
    <2> HIDE DEF r
    <2>5. Parsed(r) = h /\ Parsed(imp[i]) <= h /\ h \in Nat
      BY <1>0, <2>3 DEF Parsed
    <2> HIDE DEF h
    <2> QED
      BY <1>a, <2>1, <2>2, <2>3, <2>4, <2>5
  <1> QED
    BY <1>1, <1>2

LEMMA ScanShown ==
    ASSUME Types, Files, NEW i \in Imports, Record(imp[i]), Shown(i),
           NEW setting \in Settings, Scan(i, setting)
    PROVE  Shown(i)' /\ Rises(i)
  <1> DEFINE content == Content(temp[imp[i].upload.name])
             valid == Valid(content)
             target == Min({Cardinality(valid), MaxImportLines})
             p == [NoProgress EXCEPT !.phase = "processing", !.target = target]
             r == Scanned(imp[i])
  <1>0. imp[i].at = "scan" /\ imp[i] \in Request
    BY ShownTyped DEF Scan
  <1>1. CASE \E phase \in Phases, status \in {"ok", "warning"} : GiveUp(i, phase, status, TRUE)
    BY <1>0, <1>1, GivenUpShown
  <1>2. CASE Goes(i, r) /\ progress' = [progress EXCEPT ![i] = p]
    <2>1. imp'[i] = r /\ progress'[i] = p
      BY <1>2, OneRequest, ShownTyped
    <2>2. /\ r.at = "open" /\ r.shared = imp[i].shared /\ r.upload = imp[i].upload
          /\ r.accepted = imp[i].accepted /\ r.dropped = imp[i].dropped
      BY <1>0, ScannedFields
    <2>3. r.target = target /\ r.status = imp[i].status
      <3> DEFINE before == Cardinality(rows)
                 format == DetectFormat(content[Min(valid)])
                 limit == LimitMet(Cardinality(valid))
      <3>1. r = [imp[i] EXCEPT !.at = "open", !.before = before, !.format = format,
                               !.target = target, !.limit = limit]
        BY DEF Scanned
      <3> HIDE DEF before, format, target, limit, r
      <3> QED
        BY <1>0, <3>1 DEF Request
    <2>4. p.percent = 0
      BY DEF NoProgress
    <2>5. progress[i].percent = 0 /\ imp[i].status = "none"
      BY <1>0 DEF Shown, Early
    <2>6. r.target \in Nat /\ Parsed(r) \in Nat
      BY <1>2, <2>1 DEF Goes, Request, Parsed
    <2>7. Percent(Parsed(r), r.target) \in 0..100
      BY <2>6, PercentRange
    <2>8. ASSUME ~r.shared
          PROVE  r.target = Least(Cardinality(Valid(r.upload.lines)), MaxImportLines)
      <3>1. content = imp[i].upload.lines /\ content \in Seq(LogLine)
        BY <1>0, <2>2, <2>8, OwnFile DEF Busy
      <3>2. Cardinality(valid) \in Nat
        BY <3>1, ValidPlaces
      <3>3. target = Least(Cardinality(valid), MaxImportLines)
        BY <3>2, Constants, LeastOfTwo
      <3> HIDE DEF content, target, r
      <3> QED
        BY <2>2, <2>3, <3>1, <3>3, Zenon
    <2> HIDE DEF p, r
    <2>9. Shown(i)'
      BY <2>1, <2>2, <2>3, <2>4, <2>5, <2>7, <2>8 DEF Shown, Early
    <2>10. Rises(i)
      BY <1>0, <2>1, <2>4, <2>5 DEF Rises
    <2> QED
      BY <2>9, <2>10
  <1>3. \/ \E phase \in Phases, status \in {"ok", "warning"} : GiveUp(i, phase, status, TRUE)
        \/ Goes(i, r) /\ progress' = [progress EXCEPT ![i] = p]
    <2>1. ScanEnds(i)
      BY Scanning
    <2>2. \/ \E phase \in Phases, status \in {"ok", "warning"} : GiveUp(i, phase, status, TRUE)
          \/ progress' = [progress EXCEPT ![i] = p]
      <3>1. "completed" \in Phases /\ "warning" \in Phases
        BY DEF Phases
      <3> HIDE DEF p
      <3>2. \/ GiveUp(i, "completed", "ok", TRUE) \/ GiveUp(i, "warning", "warning", TRUE)
            \/ progress' = [progress EXCEPT ![i] = p]
        BY Zenon DEF Scan, p
      <3> QED
        BY <3>1, <3>2
    <2>3. \/ \E phase \in Phases, status \in {"ok", "warning"} : GiveUp(i, phase, status, TRUE)
          \/ Goes(i, r)
      <3>1. "completed" \in Phases /\ "warning" \in Phases
        BY DEF Phases
      <3> HIDE DEF p, r
      <3>2. \/ GiveUp(i, "completed", "ok", TRUE) \/ GiveUp(i, "warning", "warning", TRUE)
            \/ Goes(i, r)
        BY <2>1, Zenon DEF ScanEnds, r
      <3> QED
        BY <3>1, <3>2
    <2> QED
      BY <2>2, <2>3
  <1> QED
    BY <1>1, <1>2, <1>3

LEMMA ReportShown ==
    ASSUME Types, NEW i \in Imports, Record(imp[i]), Counted(imp[i]), Shown(i), Report(i)
    PROVE  Shown(i)' /\ Rises(i)
  <1> DEFINE imported == Imported(i)
             status == Status(i, imported)
             phase == CASE status = "ok" -> "completed"
                        [] status \in {"partial", "warning"} -> "partial"
                        [] status = "error" -> "error"
             r == Answered(imp[i], status, imported)
             h == Handled(i)
  <1>0. /\ imp[i].at = "report" /\ imp[i] \in Request /\ h = Parsed(imp[i]) /\ h \in Nat
        /\ imp[i].target \in Nat
    BY ShownTyped DEF Report
  <1>1. Goes(i, r) /\ status \in {"ok", "partial", "warning", "error"}
    BY Reporting
  <1>2. imp'[i] = r /\ r.at = "done" /\ r.shared = imp[i].shared
    BY <1>0, <1>1, OneRequest, AnsweredFields
  <1>3. phase \in Phases
    BY <1>1 DEF Phases
  <1>4. progress' = [progress EXCEPT ![i] = Update(i, h, phase)]
    BY DEF Report
  <1> HIDE DEF r, h, phase
  <1>5. ~imp[i].shared =>
           /\ imp[i].target > 0
           /\ progress'[i].percent = Percent(h, imp[i].target)
           /\ progress'[i].percent >= progress[i].percent
    <2>1. Parsed(imp[i]) <= h /\ Reads(imp[i])
      BY <1>0 DEF Reads
    <2> QED
      BY <1>0, <1>3, <1>4, <2>1, Tells, Zenon
  <1>6. ASSUME ~imp[i].shared PROVE progress'[i].percent = 100
    <2>1. /\ h = Least(Cardinality(Valid(imp[i].upload.lines)), MaxImportLines)
      BY <1>0, <1>6 DEF Counted
    <2>2. imp[i].target = Least(Cardinality(Valid(imp[i].upload.lines)), MaxImportLines)
      BY <1>0, <1>6 DEF Shown, Reads
    <2>3. h = imp[i].target
      BY <2>1, <2>2
    <2> QED
      BY <1>0, <1>5, <1>6, <2>3, PercentGrows
  <1>7. Shown(i)'
    BY <1>2 DEF Shown, Reads, Early
  <1> QED
    BY <1>2, <1>5, <1>6, <1>7 DEF Rises

LEMMA NextShown ==
    ASSUME IInv, \A j \in Imports : Shown(j), [Next]_vars, NEW i \in Imports
    PROVE  Shown(i)' /\ Rises(i)
  <1>0. /\ Types /\ Owned /\ Files
        /\ \A j \in Imports : Record(imp[j]) /\ Counted(imp[j]) /\ Shown(j)
    BY DEF IInv, Files
  <1>1. ASSUME UNCHANGED ivars PROVE Shown(i)' /\ Rises(i)
    BY <1>0, <1>1, Standing DEF ivars
  <1>2. ASSUME NEW j \in Imports, ImportStep(j), j # i PROVE Shown(i)' /\ Rises(i)
    BY <1>0, <1>2, OthersStand
  <1>3. CASE ImportStep(i)
    <2>1. ASSUME NEW u \in Uploads, Begin(i, u) PROVE Shown(i)' /\ Rises(i)
      <3>1. imp'[i].at = "create" /\ imp'[i].status = "none"
        BY <1>0, <2>1, Begun
      <3>2. progress'[i].percent = 0
        <4>1. progress'[i] = [NoProgress EXCEPT !.phase = "preparing"]
          BY <1>0, <2>1, ShownTyped DEF Begin
        <4> QED
          BY <4>1 DEF NoProgress
      <3> QED
        BY <3>1, <3>2 DEF Shown, Rises, Reads
    <2>2. ASSUME NEW setting \in Settings, Scan(i, setting) PROVE Shown(i)' /\ Rises(i)
      BY <1>0, <2>2, ScanShown
    <2>3. CASE UploadFails(i) \/ OpenFails(i) \/ ReadFails(i) \/ SaveFails(i)
      <3>1. imp[i].at # "report"
        BY <2>3 DEF UploadFails, OpenFails, ReadFails, SaveFails
      <3>2. GiveUp(i, "error", "error", FALSE) \/ GiveUp(i, "error", "error", TRUE)
        BY <2>3 DEF UploadFails, OpenFails, ReadFails, SaveFails
      <3>3. "error" \in Phases
        BY DEF Phases
      <3> QED
        BY <1>0, <3>1, <3>2, <3>3, GivenUpShown
    <2> QED
      BY <1>0, <1>3, <2>1, <2>2, <2>3, UploadShown, ReadShown, ToldShown, ReportShown DEF ImportStep
  <1> QED
    BY <1>1, <1>2, <1>3 DEF Next, StoreLive, vars, ivars

\* The percentage a client polls (updateImportProgress, finishImportProgress) never falls
\* while a request has its file to itself, through every batch, failure and end of the
\* reading, and a report that is no error and no warning puts it at 100.
THEOREM ProgressIsMonotone == Spec => ProgressMonotone
  <1>1. Init => \A i \in Imports : Shown(i)
    <2> SUFFICES ASSUME Init, NEW i \in Imports PROVE Shown(i)
      OBVIOUS
    <2>1. imp[i].at = "idle" /\ imp[i].status = "none" /\ progress[i].percent = 0
      BY DEF Init, Idle, NoProgress
    <2> QED
      BY <2>1 DEF Shown, Reads
  <1>2. IInv /\ (\A i \in Imports : Shown(i)) /\ [Next]_vars => (\A i \in Imports : Shown(i))'
    BY NextShown
  <1>3. IInv /\ (\A i \in Imports : Shown(i)) /\ [Next]_vars =>
           [\A i \in Imports :
              (~imp'[i].shared /\ imp'[i].at # "create" /\ progress'[i].phase # "none") =>
                  /\ progress'[i].percent >= progress[i].percent
                  /\ (imp[i].at = "report" /\ imp'[i].status \in {"ok", "partial"}) =>
                        progress'[i].percent = 100]_vars
    BY NextShown DEF Rises
  <1> QED
    BY <1>1, <1>2, <1>3, InvariantHolds, PTL DEF Spec, ProgressMonotone

===============================================================================
