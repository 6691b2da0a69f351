------------------------------ MODULE JsonlFile ------------------------------
(***************************************************************************)
(* The file behind JsonlAgentRunStore, JsonlApprovalQueue and              *)
(* JsonlActionStore.  append_record opens it for appending and writes the  *)
(* record and then, in a second write, its newline; open reads it back     *)
(* line by line, the last record of a key winning, and fails on the first  *)
(* line that does not parse.  Of the file's text only that matters: the    *)
(* last record of each key, whether the last line still lacks its newline, *)
(* and whether some line holds something else than one record.             *)
(***************************************************************************)

EmptyFile(Keys, absent) ==
  [ last |-> [k \in Keys |-> absent], unterminated |-> FALSE, broken |-> FALSE ]

FileType(Keys, Values) ==
  [ last : [Keys -> Values], unterminated : BOOLEAN, broken : BOOLEAN ]

\* The first write: a record put behind an unterminated one makes a line of
\* two records.
write_record(f, k, v) ==
  [ last |-> [f.last EXCEPT ![k] = v],
    unterminated |-> TRUE,
    broken |-> f.broken \/ f.unterminated ]

\* The second write.
write_newline(f) == [f EXCEPT !.unterminated = FALSE]

\* The first write is cut short.
write_torn(f) == [f EXCEPT !.unterminated = TRUE, !.broken = TRUE]

\* open succeeds.
parses(f) == ~f.broken
=============================================================================
