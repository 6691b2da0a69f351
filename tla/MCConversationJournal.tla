------------------------ MODULE MCConversationJournal ------------------------
(* Instances of ConversationJournal for TLC.                               *)
EXTENDS ConversationJournal

\* Whether a line still fits the active segment depends on the line, and every
\* third one is longer than any segment may be.
MCLineBytes == [e \in Events |-> <<7, 2, 4>>[1 + (e % 3)]]

\* May the calls of this behaviour fail?
VARIABLE faulty

\* Next without the calls that fail.
SmoothNext ==
  \/ \E w \in Writers : BeginAppend(w) \/ WriterStep(w)
  \/ BeginLoad \/ VerifyManifest \/ VerifySegment \/ CheckBytes \/ ReadLines

MCInit == Init /\ faulty \in {Failures, FALSE}

MCNext ==
  /\ UNCHANGED faulty
  /\ \/ faulty /\ Next
     \/ ~faulty /\ SmoothNext

MCSpec == MCInit /\ [][MCNext]_<<vars, faulty>>

\* With one writer and no failure the directory implements the append-only log
\* of the trait: every manifest save adds exactly its own event at the end.
Log == INSTANCE AppendOnlyLog WITH log <- IF faulty THEN <<>> ELSE recorded_events
LogRefined == Log!Spec
=============================================================================
