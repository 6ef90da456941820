------------------------------ MODULE LineFormat ------------------------------
(***************************************************************************)
(* What a line is taken for and which lines parse (src/internal/parser/).   *)
(*                                                                         *)
(* A line is the record of what the code's regular expressions and string   *)
(* tests find in it:                                                        *)
(*   blank, comment   nothing but space; begins with #                      *)
(*   object           the whole line is a JSON object                       *)
(*   access           "?" reNginxDetect only, "full" reNginxLog too, "" none *)
(*   quoted, endquote has a double quote; ends with one                     *)
(*   syslog           "?" reSyslogDetect only, "full" reSyslog too, "" none  *)
(*   found            the generic patterns and searches find a field        *)
(*   cells            per delimiter, the fields it splits the line into     *)
(* and a field its class, its value and its length when it is a number.     *)
(***************************************************************************)
EXTENDS Integers, Sequences

Delimiters == {"csv", "tsv", "pipe", "semicolon"}
Formats == {"json", "nginx", "apache", "syslog", "plain", "unknown"} \cup Delimiters
Names == {"client_ip", "method", "timestamp", "path", "status_code",
          "response_size", "response_time", "none"}
Field == [class : {"ip", "method", "time", "path", "digits", "text"}, val : Nat, len : Nat]

\* age and fits are Import's: the hours since its time, and whether the table has
\* room for the entry made of it.
LogLine == [blank : BOOLEAN, comment : BOOLEAN, object : BOOLEAN, access : {"", "?", "full"},
            quoted : BOOLEAN, endquote : BOOLEAN, syslog : {"", "?", "full"},
            found : BOOLEAN, cells : [Delimiters -> Seq(Field)], age : Nat, fits : BOOLEAN]

\* DetectFormat's tests, in its order: the first that holds names the format.
\* A comma-separated line has no quotes; three delimiters make four fields.
Tests == <<"json", "nginx", "apache", "csv", "tsv", "syslog", "pipe", "semicolon">>

Looks(line, f) ==
    \/ f = "json" /\ line.object
    \/ f = "nginx" /\ line.access # "" /\ line.endquote
    \/ f = "apache" /\ line.access # ""
    \/ f = "csv" /\ Len(line.cells[f]) >= 4 /\ ~line.quoted
    \/ f \in Delimiters \ {"csv"} /\ Len(line.cells[f]) >= 4
    \/ f = "syslog" /\ line.syslog # ""

DetectFormat(line) ==
    LET seen == {n \in DOMAIN Tests : Looks(line, Tests[n])}
    IN  IF line.blank THEN "unknown"
        ELSE IF seen = {} THEN "plain"
        ELSE Tests[CHOOSE n \in seen : \A k \in seen : n <= k]

\* isFormatCompatible: may a file of that format be imported under that setting?
Compatible(file, setting) ==
    \/ setting \in {"", "auto", "custom"} \/ file = setting
    \/ {file, setting} \subseteq {"nginx", "apache"}

\* inferFieldName for a field that is a number.
IsStatus(f) == f.val \in 100..999 /\ f.len = 3

InferNumber_SizeByPlace(f, index, total) ==
    IF IsStatus(f) THEN "status_code"
    ELSE IF total >= 7 /\ index = 4 THEN "response_size"
    ELSE "response_time"
InferNumber(f, index, total) ==
    IF total >= 7 /\ index = 3 /\ f.val \in 100..599 THEN "status_code"
    ELSE IF total >= 7 /\ index = 4 THEN "response_size"
    ELSE IF total >= 7 /\ index = 5 THEN "response_time"
    ELSE IF IsStatus(f) THEN "status_code"
    ELSE IF index = total - 2 /\ f.val <= 10000 THEN "response_time"
    ELSE IF index # total - 2 /\ f.val < 30000 THEN "response_time"
    ELSE "response_size"

InferFieldName(f, index, total) ==
    CASE f.class = "ip"     -> "client_ip"
      [] f.class = "method" -> "method"
      [] f.class = "time"   -> "timestamp"
      [] f.class = "path"   -> "path"
      [] f.class = "digits" -> InferNumber(f, index, total)
      [] f.class = "text"   -> "none"

\* The names parseAutoDelimited gives to the fields of a line (indexed from zero).
FieldNames(fields) == [n \in DOMAIN fields |-> InferFieldName(fields[n], n - 1, Len(fields))]

\* A line is parsed when it yields a time, an address, a method or a status.
Identifying == {"timestamp", "client_ip", "method", "status_code"}

\* ParseWithFormat returns no error.
Parses(line, format) ==
    CASE format \in {"nginx", "apache"} -> line.access = "full"
      [] format = "json"                -> line.object
      [] format = "syslog"              -> line.syslog = "full"
      [] format \in Delimiters          ->
            \E n \in DOMAIN line.cells[format] :
                FieldNames(line.cells[format])[n] \in Identifying
      [] format \in {"plain", "unknown"} -> line.found

-------------------------------------------------------------------------------
\* The layout inferFieldName is written for:
\* ip,method,path,status_code,response_size,response_time,timestamp.
StandardNames == <<"client_ip", "method", "path", "status_code",
                   "response_size", "response_time", "timestamp">>

Standard(fields) ==
    /\ Len(fields) = 7
    /\ fields[1].class = "ip" /\ fields[2].class = "method"
    /\ fields[3].class = "path" /\ fields[7].class = "time"
    /\ \A n \in 4..6 : fields[n].class = "digits"
    /\ fields[4].val \in 100..599

NamedByPlace(fields) == Standard(fields) => FieldNames(fields) = StandardNames
===============================================================================
