---------------------------- MODULE AppendOnlyLog ----------------------------
(***************************************************************************)
(* What the ConversationJournal trait promises of one conversation, and    *)
(* what MemoryConversationJournal does under its mutex: a sequence of      *)
(* events that only ever grows, one event at a time, at its end.           *)
(***************************************************************************)
EXTENDS Naturals, Sequences

CONSTANT Events

VARIABLE log

Init == log = <<>>

AppendEvent(e) == log' = Append(log, e)

Next == \E e \in Events : AppendEvent(e)

Spec == Init /\ [][Next]_log
=============================================================================
