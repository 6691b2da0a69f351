------------------------------- MODULE AuditLog -------------------------------
(***************************************************************************)
(* The audit log: a file of hash-chained lines that tasks append to, and   *)
(* the mirror that sends what it recorded to an enterprise sink in         *)
(* batches.  Recording reads the head of the chain and then appends, with  *)
(* no lock around the two; a crash or a write that fails may leave a line  *)
(* without its end, which the next line is written behind.  A call may be  *)
(* dropped at any await, as an action that times out is.  Hashing is       *)
(* injective: a chain hash is the sequence of the events it came from.     *)
(***************************************************************************)
EXTENDS Naturals, Sequences, FiniteSets, SequencesExt

CONSTANTS Writers,    \* tasks that record events
          BatchSize,  \* batch size of the mirror
          MaxEvents,  \* bound: events recorded, and their timestamps
          MaxCrashes  \* bound: crashes

VARIABLES file,     \* lines of the file, in order
          calls,    \* per writer: the record call it is in
          pending,  \* mirror: events not yet in a batch
          sent,     \* batches the enterprise sink accepted, in order
          failures, \* delivery failures: the events of a batch each
          reader,   \* a reader that follows a query page by page
          ghost     \* next: events begun; acked: recorded; dropped: in a batch
                    \* whose call was dropped; crossed: two calls overlapped; crashes

lvars == <<file, calls, pending, sent, failures, reader, ghost>>

Idle == [at |-> "idle", event |-> 0, head |-> <<>>, batch |-> <<>>]
Reader == [at |-> "idle", got |-> <<>>]

Init ==
  /\ file = <<>> /\ pending = <<>> /\ sent = <<>> /\ failures = {}
  /\ calls = [w \in Writers |-> Idle]
  /\ reader = Reader
  /\ ghost = [next |-> 0, acked |-> {}, dropped |-> {}, crossed |-> FALSE, crashes |-> 0]

-----------------------------------------------------------------------------
(* Lines.  A line is an envelope, or garbage: what was cut off, or that and *)
(* the line written behind it.                                             *)
envelope(event, head) ==
  [kind |-> "envelope", event |-> event, previous |-> head, chain |-> Append(head, event), cut |-> FALSE]
garbage(cut) == [kind |-> "garbage", event |-> 0, previous |-> <<>>, chain |-> <<>>, cut |-> cut]

\* AuditIntegrityEnvelope::verify on every line, against the last chain hash.
verified ==
  \A i \in 1..Len(file) :
    /\ file[i].kind = "envelope"
    /\ file[i].previous = IF i = 1 THEN <<>> ELSE file[i - 1].chain

\* previous_chain_hash: of the last line, or none when it is no envelope.
previous_chain_hash == IF file = <<>> THEN <<>> ELSE file[Len(file)].chain

\* JsonlAuditSink::list fails on a line it cannot parse.
readable == \A i \in 1..Len(file) : file[i].kind = "envelope"
listed == [i \in 1..Len(file) |-> file[i].event]

-----------------------------------------------------------------------------
(* Recording.                                                              *)
record(w) ==
  /\ calls[w] = Idle /\ ghost.next < MaxEvents
  /\ calls' = [calls EXCEPT ![w] = [at |-> "append", event |-> ghost.next + 1,
                                    head |-> previous_chain_hash, batch |-> <<>>]]
  /\ ghost' = [ghost EXCEPT !.next = @ + 1,
                            !.crossed = @ \/ \E v \in Writers : calls[v].at = "append"]
  /\ UNCHANGED <<file, pending, sent, failures, reader>>

\* The line is written; behind a line without its end it is garbage with it.
\* A write that was under way when its call was dropped is written too, and
\* nothing is mirrored.
append(w) ==
  /\ calls[w].at = "append"
  /\ file' = IF file # <<>> /\ file[Len(file)].cut
             THEN [file EXCEPT ![Len(file)] = garbage(FALSE)]
             ELSE Append(file, envelope(calls[w].event, calls[w].head))
  /\ \/ calls' = [calls EXCEPT ![w].at = "mirror"]
     \/ calls' = [calls EXCEPT ![w] = Idle]
  /\ UNCHANGED <<pending, sent, failures, reader, ghost>>

\* What a write that does not get through leaves in the file.
cut_short == {file, IF file # <<>> /\ file[Len(file)].cut THEN file ELSE Append(file, garbage(TRUE))}

\* The local record fails, or is dropped before it writes: nothing is mirrored.
fails(w) ==
  /\ calls[w].at = "append"
  /\ file' \in cut_short
  /\ calls' = [calls EXCEPT ![w] = Idle]
  /\ UNCHANGED <<pending, sent, failures, reader, ghost>>

\* EnterpriseMirrorAuditLog::record: the event joins the pending ones under the
\* lock, and a full batch is drained there and sent after it.
mirror(w) ==
  /\ calls[w].at = "mirror"
  /\ LET queue == Append(pending, calls[w].event)
         full == Len(queue) >= BatchSize
     IN /\ pending' = IF full THEN <<>> ELSE queue
        /\ calls' = [calls EXCEPT ![w].at = "sent", ![w].batch = IF full THEN queue ELSE <<>>]
  /\ UNCHANGED <<file, sent, failures, reader, ghost>>

\* send_enterprise_batch: a batch that is not accepted is a delivery failure,
\* which is kept and never sent again; the record has succeeded all the same.
send_enterprise_batch(w) ==
  /\ calls[w].at = "sent"
  /\ LET batch == calls[w].batch
     IN \/ sent' = (IF batch = <<>> THEN sent ELSE Append(sent, batch)) /\ UNCHANGED failures
        \/ batch # <<>> /\ failures' = failures \cup ToSet(batch) /\ UNCHANGED sent
  /\ ghost' = [ghost EXCEPT !.acked = @ \cup {calls[w].event}]
  /\ calls' = [calls EXCEPT ![w] = Idle]
  /\ UNCHANGED <<file, pending, reader>>

\* The call is dropped while it awaits the sink, which may have taken the batch:
\* the batch goes with the call, events of other calls that succeeded included.
send_dropped(w) ==
  LET batch == calls[w].batch IN
  /\ calls[w].at = "sent" /\ batch # <<>>
  /\ sent' \in {sent, Append(sent, batch)}
  /\ ghost' = [ghost EXCEPT !.dropped = @ \cup ToSet(batch)]
  /\ calls' = [calls EXCEPT ![w] = Idle]
  /\ UNCHANGED <<file, pending, failures, reader>>

\* A crash forgets the mirror; a line that was being written may be cut off.
crash ==
  /\ ghost.crashes < MaxCrashes
  /\ \/ UNCHANGED file
     \/ (\E w \in Writers : calls[w].at = "append") /\ file' \in cut_short
  /\ calls' = [w \in Writers |-> Idle]
  /\ pending' = <<>> /\ reader' = Reader
  /\ ghost' = [ghost EXCEPT !.crashes = @ + 1]
  /\ UNCHANGED <<sent, failures>>

-----------------------------------------------------------------------------
(* Reading.  Events are numbered in the order of their timestamps.          *)
\* A set of events in the order of their times: the i-th has i - 1 before it.
by_time(events) ==
  [i \in 1..Cardinality(events) |-> CHOOSE e \in events : Cardinality({f \in events : f <= e}) = i]

\* AuditLogQueryExt::query: the matching events by their time, one page of them;
\* the reader asks again behind what it has for as long as has_more says so.
query(limit) ==
  /\ reader.at = "idle" /\ readable
  /\ LET found == by_time(ToSet(listed))
         offset == Len(reader.got)
         end == IF offset + limit < Len(found) THEN offset + limit ELSE Len(found)
     IN reader' = [got |-> reader.got \o SubSeq(found, offset + 1, end),
                   at |-> IF offset + limit < Len(found) THEN "idle" ELSE "done"]
  /\ UNCHANGED <<file, calls, pending, sent, failures, ghost>>

finish ==
  /\ reader.at = "done"
  /\ reader' = Reader
  /\ UNCHANGED <<file, calls, pending, sent, failures, ghost>>

Next ==
  \/ \E w \in Writers :
       \/ record(w) \/ append(w) \/ fails(w)
       \/ mirror(w) \/ send_enterprise_batch(w) \/ send_dropped(w)
  \/ crash
  \/ \E limit \in 1..2 : query(limit)
  \/ finish

Spec == Init /\ [][Next]_lvars

-----------------------------------------------------------------------------
batched == UNION {ToSet(sent[i]) : i \in 1..Len(sent)}

\* Of the events whose record succeeded the mirror loses, without a crash, those
\* of a batch whose call was dropped while it was sent, and no others: each waits
\* for its batch, is in one the sink accepted or that is on its way, or is in a
\* delivery failure.  As long as no two records overlapped and no line was cut
\* off, verify finds nothing, the recorded events are listed in their order,
\* whatever calls were dropped, and a reader that follows the pages while events
\* are recorded gets each event once: its pages are a prefix of the log.
AuditLogSound ==
  /\ ghost.crashes = 0 => ghost.acked \subseteq ToSet(pending) \cup batched \cup failures \cup ghost.dropped
                            \cup UNION {ToSet(calls[w].batch) : w \in Writers}
  /\ ~ghost.crossed /\ readable =>
       /\ verified
       /\ ghost.acked \subseteq ToSet(listed)
       /\ \A i, j \in 1..Len(listed) : i < j => listed[i] < listed[j]
       /\ IsPrefix(reader.got, listed)
=============================================================================
