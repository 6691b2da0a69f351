------------------------- MODULE ConversationJournal -------------------------
(***************************************************************************)
(* JsonlConversationJournal: one conversation's directory on disk (segment *)
(* files, manifest.json and its temporary file), the append calls that     *)
(* change it step by step and the load calls that read it.  No lock orders *)
(* the calls.  A line is its event and its number of bytes; a checksum is  *)
(* the content it was computed from.                                       *)
(***************************************************************************)
EXTENDS Naturals, Sequences, SequencesExt, FiniteSetsExt

CONSTANTS Writers,          \* concurrent append calls
          MaxEvents,        \* bound: append calls made, each with its own event
          LineBytes,        \* length of each event's line
          MaxSegmentBytes,  \* max_segment_bytes
          Failures,         \* may an append call fail or be dropped half way?
          None,             \* Option::None: no checksum, no manifest
          NotYet,           \* load has not returned
          IntegrityError    \* load returned an error

Events == 1..MaxEvents

ASSUME JournalAssumption ==
  /\ MaxEvents \in Nat /\ MaxSegmentBytes \in Nat \ {0}
  /\ LineBytes \in [Events -> Nat \ {0}]
  /\ Failures \in BOOLEAN

Ok(events) == [events |-> events]

VARIABLES
  files,      \* segment index -> the pieces of lines in that file
  manifest,   \* manifest.json, or None
  tmp,        \* manifest.json.tmp, or None
  wpc, wman, wev,        \* per append call: next step, its manifest, its event
  rpc, rman, result,     \* the load call: next step, its manifest, its outcome
  vman,       \* the manifest verify loaded for itself
  rseg, revs, \* the segment it has come to, the events it has read
  used,       \* history: number of append calls made
  committed,  \* history: events whose manifest reached manifest.json
  acked,      \* history: events whose append returned Ok
  rstart      \* history: acked when the load call began

disk   == <<files, manifest, tmp>>
writer == <<wpc, wman, wev>>
reader == <<rpc, rman, result, vman, rseg, revs, rstart>>
vars == <<files, manifest, tmp, wpc, wman, wev, rpc, rman, result, vman, rseg, revs,
          used, committed, acked, rstart>>

-----------------------------------------------------------------------------
(* Segment files.  A write that is cut short leaves a torn piece.          *)

Piece == [event : Events, whole : BOOLEAN]

torn_bytes == 1

piece_bytes(p) == IF p.whole THEN LineBytes[p.event] ELSE torn_bytes

bytes_of(content) == MapThenSumSet(LAMBDA i : piece_bytes(content[i]), DOMAIN content)

\* A torn piece swallows the line that follows it; either way the file has a
\* line that does not parse.
corrupted(content) == \E i \in DOMAIN content : ~content[i].whole

events_of(content) == [i \in DOMAIN content |-> content[i].event]

-----------------------------------------------------------------------------
(* The manifest.  Segment i + 1 of the sequence has index i; the active    *)
(* segment is the last one.                                                *)

SegmentMetadata_new == [event_count |-> 0, bytes |-> 0, checksum |-> None, previous |-> None]

JournalManifest_new == [total_events |-> 0, segments |-> <<SegmentMetadata_new>>]

active_segment(m) == m.segments[Len(m.segments)]

roll_segment(m) == [m EXCEPT !.segments = Append(@, SegmentMetadata_new)]

load_or_create_manifest == IF manifest = None THEN JournalManifest_new ELSE manifest

\* Faulty variant: an active segment without a line is rolled, too.
manifest_for_rolls_empty(e) ==
  LET m == load_or_create_manifest
  IN IF active_segment(m).bytes + LineBytes[e] > MaxSegmentBytes THEN roll_segment(m) ELSE m

\* The manifest append goes on with: rolled when the line does not fit.
manifest_for(e) ==
  LET m == load_or_create_manifest
      b == active_segment(m).bytes
  IN IF b > 0 /\ b + LineBytes[e] > MaxSegmentBytes THEN roll_segment(m) ELSE m

\* The manifest after the line of e is in its segment, whose content is now c.
manifest_with(m, e, c) ==
  LET n == Len(m.segments)
  IN [ total_events |-> m.total_events + 1,
       segments |-> [m.segments EXCEPT ![n] =
         [ event_count |-> @.event_count + 1,
           bytes       |-> @.bytes + LineBytes[e],
           checksum    |-> c,
           previous    |-> IF n > 1 THEN m.segments[n - 1].checksum ELSE None ]] ]

has_integrity_metadata(m) == \E i \in DOMAIN m.segments : m.segments[i].checksum # None

-----------------------------------------------------------------------------
(* verify and load.                                                        *)

\* verify finds no issue with segment i.  A segment it comes to follows clean
\* ones, so that the checksum it computed last is the manifest's.
segment_clean(m, i) ==
  LET s == m.segments[i]
  IN /\ files[i] # <<>>
     /\ bytes_of(files[i]) = s.bytes
     /\ s.checksum # None => s.checksum = files[i]
     /\ s.previous # None => i > 1 /\ s.previous = m.segments[i - 1].checksum
     /\ ~corrupted(files[i])
     /\ Len(files[i]) = s.event_count

\* The events of clean segments against total_events.
counts_agree(m) ==
  MapThenSumSet(LAMBDA i : m.segments[i].event_count, DOMAIN m.segments) = m.total_events

\* load's own look at the length of segment i; a missing file is skipped.
bytes_match(m, i) == files[i] # <<>> => bytes_of(files[i]) = m.segments[i].bytes

\* Faulty variant: the number of events is not compared.
total_matches_any(m, events) == TRUE

total_matches(m, events) == Len(events) = m.total_events

-----------------------------------------------------------------------------
Init ==
  /\ files = [i \in Events |-> <<>>]
  /\ manifest = None
  /\ tmp = None
  /\ wpc = [w \in Writers |-> "idle"]
  /\ wman = [w \in Writers |-> None]
  /\ wev = [w \in Writers |-> 0]
  /\ rpc = "idle" /\ rman = None /\ result = NotYet
  /\ vman = None /\ rseg = 1 /\ revs = <<>>
  /\ used = 0
  /\ committed = <<>> /\ acked = <<>> /\ rstart = <<>>

\* append is called: the manifest is loaded or created, and rolled if need be.
BeginAppend(w) ==
  /\ wpc[w] = "idle"
  /\ used < MaxEvents
  /\ used' = used + 1
  /\ wev' = [wev EXCEPT ![w] = used + 1]
  /\ wman' = [wman EXCEPT ![w] = manifest_for(used + 1)]
  /\ wpc' = [wpc EXCEPT ![w] = "write"]
  /\ UNCHANGED <<disk, reader, committed, acked>>

\* Faulty variant: the file is opened for writing instead of appending.
WriteLineTruncating(w) ==
  /\ wpc[w] = "write"
  /\ files' = [files EXCEPT ![Len(wman[w].segments)] = <<[event |-> wev[w], whole |-> TRUE]>>]
  /\ wpc' = [wpc EXCEPT ![w] = "read"]
  /\ UNCHANGED <<manifest, tmp, wman, wev, reader, used, committed, acked>>

\* The line is appended to the active segment's file.
WriteLine(w) ==
  /\ wpc[w] = "write"
  /\ files' = [files EXCEPT ![Len(wman[w].segments)] =
                 Append(@, [event |-> wev[w], whole |-> TRUE])]
  /\ wpc' = [wpc EXCEPT ![w] = "read"]
  /\ UNCHANGED <<manifest, tmp, wman, wev, reader, used, committed, acked>>

\* The file is read back for its checksum and the manifest brought up to date.
ReadBack(w) ==
  /\ wpc[w] = "read"
  /\ wman' = [wman EXCEPT ![w] = manifest_with(@, wev[w], files[Len(@.segments)])]
  /\ wpc' = [wpc EXCEPT ![w] = "save"]
  /\ UNCHANGED <<disk, wev, reader, used, committed, acked>>

WriteTmp(w) ==
  /\ wpc[w] = "save"
  /\ tmp' = wman[w]
  /\ wpc' = [wpc EXCEPT ![w] = "rename"]
  /\ UNCHANGED <<files, manifest, wman, wev, reader, used, committed, acked>>

\* The temporary file has one name for all calls: it may hold another call's
\* manifest, or be gone, and then append returns the error.
Rename(w) ==
  /\ wpc[w] = "rename"
  /\ IF tmp # None
       THEN /\ manifest' = tmp
            /\ tmp' = None
            /\ committed' = Append(committed, wev[w])
            /\ wpc' = [wpc EXCEPT ![w] = "return"]
       ELSE /\ wpc' = [wpc EXCEPT ![w] = "idle"]
            /\ UNCHANGED <<manifest, tmp, committed>>
  /\ UNCHANGED <<files, wman, wev, reader, used, acked>>

ReturnOk(w) ==
  /\ wpc[w] = "return"
  /\ acked' = Append(acked, wev[w])
  /\ wpc' = [wpc EXCEPT ![w] = "idle"]
  /\ UNCHANGED <<disk, wman, wev, reader, used, committed>>

\* The call ends early: an I/O error, a dropped future, a crash.  A write in
\* progress may leave part of its line behind.
Fail(w) ==
  /\ Failures
  /\ wpc[w] # "idle"
  /\ wpc' = [wpc EXCEPT ![w] = "idle"]
  /\ \/ UNCHANGED files
     \/ /\ wpc[w] = "write"
        /\ LineBytes[wev[w]] > torn_bytes
        /\ files' = [files EXCEPT ![Len(wman[w].segments)] =
                       Append(@, [event |-> wev[w], whole |-> FALSE])]
  /\ UNCHANGED <<manifest, tmp, wman, wev, reader, used, committed, acked>>

\* load is called and reads the manifest; without one there are no events.
BeginLoad ==
  /\ rpc = "idle"
  /\ rstart' = acked
  /\ rman' = manifest
  /\ IF manifest = None
       THEN result' = Ok(<<>>) /\ UNCHANGED rpc
       ELSE /\ result' = NotYet
            /\ rpc' = IF has_integrity_metadata(manifest) THEN "manifest" ELSE "bytes"
  /\ UNCHANGED <<disk, writer, vman, rseg, revs, used, committed, acked>>

\* The load call ends.
load_returns(res) ==
  result' = res /\ rpc' = "idle" /\ rseg' = 1 /\ revs' = <<>> /\ vman' = None

\* verify loads the manifest again.
VerifyManifest ==
  /\ rpc = "manifest"
  /\ vman' = manifest
  /\ rpc' = "verify"
  /\ UNCHANGED <<disk, writer, rman, result, rseg, revs, rstart, used, committed, acked>>

\* verify reads one segment after the other; any issue fails the load.
VerifySegment ==
  /\ rpc = "verify"
  /\ IF ~segment_clean(vman, rseg) THEN load_returns(IntegrityError)
     ELSE IF rseg < Len(vman.segments)
       THEN rseg' = rseg + 1 /\ UNCHANGED <<rpc, result, vman, revs>>
     ELSE IF ~counts_agree(vman) THEN load_returns(IntegrityError)
     ELSE rpc' = "bytes" /\ rseg' = 1 /\ UNCHANGED <<result, vman, revs>>
  /\ UNCHANGED <<disk, writer, rman, rstart, used, committed, acked>>

\* load goes through the segments of the manifest it loaded first: the length
\* of the file, and then, in a second reading, its lines.
CheckBytes ==
  /\ rpc = "bytes"
  /\ IF bytes_match(rman, rseg)
       THEN rpc' = "lines" /\ UNCHANGED <<result, vman, rseg, revs>>
       ELSE load_returns(IntegrityError)
  /\ UNCHANGED <<disk, writer, rman, rstart, used, committed, acked>>

ReadLines ==
  LET events == revs \o events_of(files[rseg]) IN
  /\ rpc = "lines"
  /\ IF corrupted(files[rseg]) THEN load_returns(IntegrityError)
     ELSE IF rseg < Len(rman.segments)
       THEN /\ revs' = events /\ rseg' = rseg + 1 /\ rpc' = "bytes"
            /\ UNCHANGED <<result, vman>>
     ELSE load_returns(IF total_matches(rman, events) THEN Ok(events) ELSE IntegrityError)
  /\ UNCHANGED <<disk, writer, rman, rstart, used, committed, acked>>

WriterStep(w) ==
  \/ WriteLine(w) \/ ReadBack(w) \/ WriteTmp(w) \/ Rename(w) \/ ReturnOk(w)

Next ==
  \/ \E w \in Writers : BeginAppend(w) \/ WriterStep(w) \/ Fail(w)
  \/ BeginLoad \/ VerifyManifest \/ VerifySegment \/ CheckBytes \/ ReadLines

Spec == Init /\ [][Next]_vars

-----------------------------------------------------------------------------
Content == Seq(Piece)
SegmentMetadata == [ event_count : Nat, bytes : Nat,
                     checksum : Content \cup {None}, previous : Content \cup {None} ]
JournalManifest == [ total_events : Nat, segments : Seq(SegmentMetadata) ]

Types ==
  /\ files \in [Events -> Content]
  /\ manifest \in JournalManifest \cup {None}
  /\ tmp \in JournalManifest \cup {None}
  /\ wpc \in [Writers -> {"idle", "write", "read", "save", "rename", "return"}]
  /\ wman \in [Writers -> JournalManifest \cup {None}]
  /\ wev \in [Writers -> Events \cup {0}]
  /\ rpc \in {"idle", "manifest", "verify", "bytes", "lines"}
  /\ rman \in JournalManifest \cup {None} /\ vman \in JournalManifest \cup {None}
  /\ rseg \in Nat \ {0} /\ revs \in Seq(Events)
  /\ result = NotYet \/ result = IntegrityError \/ result.events \in Seq(Events)
  /\ used \in 0..MaxEvents
  /\ committed \in Seq(Events) /\ acked \in Seq(Events) /\ rstart \in Seq(Events)

\* Whatever the lengths of the lines, those too long for any segment included,
\* and however many calls append at once or fail, a manifest that is saved names
\* no more segments than it counts events: one without an event would have no
\* file, and no load would get past verify again.
TypeOK ==
  /\ Types
  /\ manifest # None => Len(manifest.segments) \in 1..manifest.total_events

is_ok(res) == res # NotYet /\ res # IntegrityError

\* One append at a time: a load that succeeds, even one that races the append
\* or follows calls that failed half way or tore a line, returns every event
\* acknowledged before it began, in append order, and nothing that was not
\* committed: no torn, repeated or abandoned event.
LoadSound ==
  is_ok(result) => /\ ToSet(rstart) \subseteq ToSet(result.events)
                   /\ IsPrefix(result.events, committed)

\* One append at a time: the manifest never runs ahead of the segments.  What
\* it recorded of a segment is still at the start of that segment's file, so
\* what was once committed is never overwritten, whatever fails.
ManifestNeverAhead ==
  manifest # None =>
    \A i \in DOMAIN manifest.segments : IsPrefix(manifest.segments[i].checksum, files[i])

\* The events the manifest vouches for.
recorded_events ==
  IF manifest = None THEN <<>>
  ELSE FlattenSeq([i \in DOMAIN manifest.segments |-> events_of(manifest.segments[i].checksum)])

-----------------------------------------------------------------------------
(* What the repository says and the steps refute.                          *)

\* "Load all events for a given conversation, in append order": a load that
\* succeeds has every event whose append returned Ok before it began.
AckedEventsLoaded ==
  is_ok(result) => ToSet(rstart) \subseteq ToSet(result.events)
=============================================================================
