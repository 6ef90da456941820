------------------------------- MODULE MCImport -------------------------------
(* An instance of Import for TLC.                                           *)
EXTENDS Import, TLC

F(c, v, l) == [class |-> c, val |-> v, len |-> l]
NoCells == [d \in Delimiters |-> <<F("text", 0, 0)>>]
Text == [blank |-> FALSE, comment |-> FALSE, object |-> FALSE, access |-> "", quoted |-> FALSE,
         endquote |-> FALSE, syslog |-> "", found |-> FALSE, cells |-> NoCells, age |-> 0, fits |-> TRUE]

Comment == [Text EXCEPT !.comment = TRUE]
Access == [Text EXCEPT !.access = "full", !.quoted = TRUE, !.endquote = TRUE, !.age = 2]
\* What detection takes for an access line and the parser does not.
Ragged == [Access EXCEPT !.access = "?"]
Csv(fields) == [Text EXCEPT !.cells["csv"] = fields]
Header == Csv(<<F("text", 0, 0), F("text", 0, 0), F("text", 0, 0), F("text", 0, 0)>>)
\* Parsed, but too long for a column of the table.
Long == [Access EXCEPT !.fits = FALSE]
\* The layout of seven fields, with a size and a time that look like a status.
Row(size, time) == Csv(<<F("ip", 0, 0), F("method", 0, 0), F("path", 0, 0), F("digits", 404, 3),
                         size, time, F("time", 0, 0)>>)
Alike == Row(F("digits", 200, 3), F("digits", 495, 3))
Unlike == Row(F("digits", 0, 1), F("digits", 40000, 5))

File(name, lines) == [name |-> name, lines |-> lines]
Files == {File("a", <<Comment, Access, Ragged, Long>>),
          File("a", <<Alike, Unlike>>),
          File("b", <<Header, Header>>),
          File("b", <<Access, Access, Access, Access>>)}

Anyone == Permutations(Imports)
Live == {[from |-> "live", line |-> 1, age |-> 1, fits |-> TRUE]}
AllEntries == Live \cup [from : Imports, line : 1..4, age : {0, 2}, fits : BOOLEAN]
===============================================================================
