---------------------- MODULE ConversationJournalProofs ----------------------
(***************************************************************************)
(* Proofs about ConversationJournal.  Its types hold for any number of     *)
(* concurrent append calls.  With one append call at a time, whatever      *)
(* fails, breaks off or is torn, and for every line and segment size:      *)
(* nothing that the manifest vouches for is overwritten, and a load that   *)
(* succeeds, even beside an append, returns exactly the committed events.  *)
(* Where no call fails the directory implements the append-only log.       *)
(***************************************************************************)
EXTENDS MCConversationJournal, SequenceTheorems, WellFoundedInduction, TLAPS

Busy    == {"write", "read"}            \* the line is not in the manifest yet
Closing == {"save", "rename", "return"} \* wman holds the line

-----------------------------------------------------------------------------
(* Sizes.                                                                  *)

\* A manifest with its first segment, at most one segment per event, and not
\* more events than append calls, some of whose events (extra) are still out.
Sized(m, extra, u) ==
  /\ m \in JournalManifest
  /\ Len(m.segments) \in 1..(m.total_events + extra)
  /\ m.total_events + extra <= u

SizeInv ==
  /\ manifest # None => Sized(manifest, 0, used)
  /\ tmp # None => Sized(tmp, 0, used)
  /\ \A w \in Writers :
       /\ wpc[w] # "idle" => wev[w] \in Events
       /\ wpc[w] \in Busy => Sized(wman[w], 1, used)
       /\ wpc[w] \in Closing => Sized(wman[w], 0, used)
  /\ rpc # "idle" => manifest # None /\ Sized(rman, 0, used)
  /\ rpc = "verify" => Sized(vman, 0, used) /\ rseg <= Len(vman.segments)
  /\ rpc \in {"bytes", "lines"} => rseg <= Len(rman.segments)
  /\ rpc \in {"idle", "manifest"} => rseg = 1
  /\ rpc \in {"idle", "manifest", "verify"} => revs = <<>>

-----------------------------------------------------------------------------
(* What a manifest stands for.                                             *)

\* What it has recorded of a segment: nothing of one just made.
recorded(s) == IF s.event_count = 0 THEN <<>> ELSE s.checksum

Extends(c, d) == Len(c) <= Len(d) /\ \A i \in 1..Len(c) : d[i] = c[i]

\* off is where the pieces of each segment begin when they are counted through
\* all segments.  There are at least total_events of them: an abandoned line
\* stays in its file, and no event of the manifest is without one.  Without
\* such lines the pieces are those of the first events of the log.
Layout(m, off, log) ==
  LET n == Len(m.segments) IN
  /\ off \in [1..(n + 1) -> Nat]
  /\ off[1] = 0
  /\ \A i \in 1..n : off[i + 1] = off[i] + Len(recorded(m.segments[i]))
  /\ m.total_events <= off[n + 1]
  /\ off[n + 1] = m.total_events =>
       /\ m.total_events <= Len(log)
       /\ \A i \in 1..n : \A j \in 1..Len(recorded(m.segments[i])) :
            /\ off[i] + j \in 1..m.total_events
            /\ recorded(m.segments[i])[j].event = log[off[i] + j]

\* No abandoned line is among the recorded ones.
Whole(m, off) == off[Len(m.segments) + 1] = m.total_events

\* m stands for the log.
Stands(m, log) ==
  \E off \in [1..(Len(m.segments) + 1) -> Nat] :
    Layout(m, off, log) /\ (Whole(m, off) => m.total_events = Len(log))

\* The files f have what m has recorded of its first segments.
Kept(m, last, f) ==
  \A i \in 1..last :
    /\ m.segments[i].event_count # 0
    /\ m.segments[i].checksum \in Content
    /\ Extends(m.segments[i].checksum, f[i])

\* The manifest of an append call that has its line to write or to record.
Open(w) ==
  LET m == wman[w]
      n == Len(m.segments)
      old == recorded(m.segments[n])
  IN /\ Kept(m, n - 1, files)
     /\ old \in Content
     /\ Extends(old, files[n])
     /\ Stands(m, committed)
     /\ wpc[w] = "read" =>
          /\ Len(old) < Len(files[n])
          /\ files[n][Len(files[n])].event = wev[w]

WriterInv ==
  /\ manifest = None => committed = <<>>
  /\ manifest # None =>
       Kept(manifest, Len(manifest.segments), files) /\ Stands(manifest, committed)
  /\ ToSet(acked) \subseteq ToSet(committed)
  /\ \A w \in Writers :
       /\ wpc[w] \in Busy => Open(w)
       /\ wpc[w] \in {"save", "rename"} =>
            /\ Kept(wman[w], Len(wman[w].segments), files)
            /\ Stands(wman[w], Append(committed, wev[w]))
       /\ wpc[w] = "rename" => tmp = wman[w]
       /\ wpc[w] = "return" => wev[w] \in ToSet(committed)

\* The manifest that load has stands for a beginning of the log, which has
\* all that was acknowledged when it was loaded.
Loaded(off) ==
  /\ Layout(rman, off, committed)
  /\ Whole(rman, off) =>
       ToSet(rstart) \subseteq {committed[i] : i \in 1..rman.total_events}

\* What load has read so far are the pieces it passed and perhaps more; if not
\* more, and no line was abandoned, they are the first events of the log.
Passed(off) ==
  /\ off[rseg] <= Len(revs)
  /\ Whole(rman, off) /\ Len(revs) = off[rseg] =>
       off[rseg] <= Len(committed) /\ \A i \in 1..off[rseg] : revs[i] = committed[i]

ReaderInv ==
  /\ rpc # "idle" =>
       /\ Kept(rman, Len(rman.segments), files)
       /\ \E off \in [1..(Len(rman.segments) + 1) -> Nat] :
            Loaded(off) /\ (rpc \in {"bytes", "lines"} => Passed(off))
  /\ is_ok(result) =>
       /\ ToSet(rstart) \subseteq ToSet(result.events)
       /\ Extends(result.events, committed)

Alone == \A v, w \in Writers : v = w

-----------------------------------------------------------------------------
(* Helpers of the model.                                                   *)

LEMMA ManifestFields ==
  ASSUME NEW m \in JournalManifest
  PROVE  /\ m.total_events \in Nat /\ m.segments \in Seq(SegmentMetadata)
         /\ Len(m.segments) \in Nat
         /\ \A i \in 1..Len(m.segments) :
              /\ m.segments[i] \in SegmentMetadata
              /\ m.segments[i].event_count \in Nat /\ m.segments[i].bytes \in Nat
              /\ m.segments[i].checksum \in Content \cup {None}
<1>1. m.total_events \in Nat /\ m.segments \in Seq(SegmentMetadata)
  BY DEF JournalManifest
<1>2. Len(m.segments) \in Nat /\ \A i \in 1..Len(m.segments) : m.segments[i] \in SegmentMetadata
  BY <1>1
<1>3. \A s \in SegmentMetadata : /\ s.event_count \in Nat /\ s.bytes \in Nat
                                 /\ s.checksum \in Content \cup {None}
  BY DEF SegmentMetadata
<1> QED BY <1>1, <1>2, <1>3

\* A fresh segment is empty.
LEMMA NewSegment ==
  /\ SegmentMetadata_new \in SegmentMetadata
  /\ SegmentMetadata_new.event_count = 0 /\ SegmentMetadata_new.bytes = 0
  /\ JournalManifest_new \in JournalManifest
  /\ JournalManifest_new.total_events = 0
  /\ JournalManifest_new.segments = <<SegmentMetadata_new>>
BY DEF SegmentMetadata_new, SegmentMetadata, JournalManifest_new, JournalManifest

\* append goes on with the manifest it found, or with one more segment.
LEMMA ManifestFor ==
  ASSUME NEW e
  PROVE  \/ manifest = None /\ manifest_for(e) = JournalManifest_new
         \/ manifest # None /\ manifest_for(e) = manifest
         \/ manifest # None /\ manifest_for(e) = roll_segment(manifest)
<1>1. JournalManifest_new.segments[Len(JournalManifest_new.segments)].bytes = 0
  BY NewSegment
<1> QED BY <1>1 DEF manifest_for, load_or_create_manifest, active_segment

LEMMA Rolled ==
  ASSUME NEW m \in JournalManifest
  PROVE  LET r == roll_segment(m)
             n == Len(m.segments)
         IN /\ r \in JournalManifest
            /\ r.total_events = m.total_events
            /\ Len(r.segments) = n + 1
            /\ \A i \in 1..n : r.segments[i] = m.segments[i]
            /\ r.segments[n + 1] = SegmentMetadata_new
<1> DEFINE more == Append(m.segments, SegmentMetadata_new)
<1>1. more \in Seq(SegmentMetadata)
  BY ManifestFields, NewSegment
<1>2. /\ Len(more) = Len(m.segments) + 1
      /\ \A i \in 1..Len(m.segments) : more[i] = m.segments[i]
      /\ more[Len(m.segments) + 1] = SegmentMetadata_new
  BY ManifestFields
<1>3. roll_segment(m) = [m EXCEPT !.segments = more]
  BY DEF roll_segment, JournalManifest
<1> HIDE DEF more
<1>4. /\ roll_segment(m) \in JournalManifest
      /\ roll_segment(m).total_events = m.total_events
      /\ roll_segment(m).segments = more
  BY <1>1, <1>3 DEF JournalManifest
<1> QED BY <1>2, <1>4

\* The manifest once the event is in its last segment.
LEMMA ManifestWith ==
  ASSUME NEW m \in JournalManifest, NEW e \in Events, NEW c \in Content,
         Len(m.segments) # 0
  PROVE  LET r == manifest_with(m, e, c)
             n == Len(m.segments)
         IN /\ r \in JournalManifest
            /\ r.total_events = m.total_events + 1
            /\ Len(r.segments) = n
            /\ \A i \in 1..(n - 1) : r.segments[i] = m.segments[i]
            /\ r.segments[n].event_count = m.segments[n].event_count + 1
            /\ r.segments[n].checksum = c
<1> DEFINE n == Len(m.segments)
           old == m.segments[n]
           new == [ event_count |-> old.event_count + 1,
                    bytes       |-> old.bytes + LineBytes[e],
                    checksum    |-> c,
                    previous    |-> IF n > 1 THEN m.segments[n - 1].checksum ELSE None ]
<1>1. n \in Nat /\ n # 0 /\ old \in SegmentMetadata /\ LineBytes[e] \in Nat
  BY ManifestFields, JournalAssumption
<1>2. n > 1 => m.segments[n - 1].checksum \in Content \cup {None}
  BY <1>1, ManifestFields
<1>3. new \in SegmentMetadata
  BY <1>1, <1>2 DEF SegmentMetadata
<1>4. manifest_with(m, e, c) =
        [total_events |-> m.total_events + 1, segments |-> [m.segments EXCEPT ![n] = new]]
  BY <1>1, ManifestFields DEF manifest_with
<1>5. new.event_count = old.event_count + 1 /\ new.checksum = c
  OBVIOUS
<1> HIDE DEF new
<1>6. /\ [m.segments EXCEPT ![n] = new] \in Seq(SegmentMetadata)
      /\ Len([m.segments EXCEPT ![n] = new]) = n
      /\ [m.segments EXCEPT ![n] = new][n] = new
      /\ \A i \in 1..(n - 1) : [m.segments EXCEPT ![n] = new][i] = m.segments[i]
  BY <1>1, <1>3, ManifestFields
<1> QED BY <1>4, <1>5, <1>6, ManifestFields DEF JournalManifest

\* The pieces of a file are events.
LEMMA EventsOf ==
  ASSUME NEW c \in Content
  PROVE  /\ events_of(c) \in Seq(Events) /\ Len(events_of(c)) = Len(c)
         /\ \A i \in 1..Len(c) : events_of(c)[i] = c[i].event
<1>1. c \in Seq(Piece) /\ \A i \in 1..Len(c) : c[i].event \in Events
  <2>1. c \in Seq(Piece) /\ \A i \in 1..Len(c) : c[i] \in Piece
    BY DEF Content
  <2>2. \A x \in Piece : x.event \in Events
    BY DEF Piece
  <2> QED BY <2>1, <2>2
<1>2. events_of(c) = [i \in 1..Len(c) |-> c[i].event]
  BY <1>1 DEF events_of
<1> QED BY <1>1, <1>2

LEMMA SizedType ==
  ASSUME NEW m, NEW x \in Nat, Sized(m, x, used), used \in 0..MaxEvents
  PROVE  /\ m \in JournalManifest
         /\ Len(m.segments) \in Events /\ m.total_events \in Nat
BY ManifestFields, JournalAssumption DEF Sized, Events

-----------------------------------------------------------------------------
(* Types and sizes, for any number of calls at a time.                     *)

LEMMA InitTypes == Init => Types /\ SizeInv
BY JournalAssumption DEF Init, Types, SizeInv, Events, Content, Busy, Closing

\* The manifest that a call goes on with has room for one more event.
LEMMA BeginSized ==
  ASSUME Types, SizeInv, used < MaxEvents, NEW e \in Events
  PROVE  /\ manifest_for(e) \in JournalManifest
         /\ Len(manifest_for(e).segments) \in 1..(manifest_for(e).total_events + 1)
         /\ manifest_for(e).total_events + 1 <= used + 1
<1>0. used \in Nat /\ used + 1 \in Events
  BY JournalAssumption DEF Types, Events
<1>1. CASE manifest = None /\ manifest_for(e) = JournalManifest_new
  BY <1>0, <1>1, NewSegment
<1>2. CASE manifest # None /\ manifest_for(e) = manifest
  BY <1>0, <1>2, ManifestFields DEF SizeInv, Sized
<1>3. CASE manifest # None /\ manifest_for(e) = roll_segment(manifest)
  <2>1. /\ manifest \in JournalManifest
        /\ Len(manifest.segments) \in 1..manifest.total_events
        /\ manifest.total_events <= used
    BY <1>3, ManifestFields DEF SizeInv, Sized
  <2> QED BY <1>0, <1>3, <2>1, Rolled, ManifestFields
<1> QED BY <1>1, <1>2, <1>3, ManifestFor

LEMMA TypeNext == Types /\ SizeInv /\ [Next]_vars => Types'
<1> SUFFICES ASSUME Types, SizeInv, [Next]_vars PROVE Types'
  OBVIOUS
<1>t. /\ files \in [Events -> Content]
      /\ manifest \in JournalManifest \cup {None}
      /\ tmp \in JournalManifest \cup {None}
      /\ wpc \in [Writers -> {"idle", "write", "read", "save", "rename", "return"}]
      /\ wman \in [Writers -> JournalManifest \cup {None}]
      /\ wev \in [Writers -> Events \cup {0}]
      /\ rpc \in {"idle", "manifest", "verify", "bytes", "lines"}
      /\ rman \in JournalManifest \cup {None} /\ vman \in JournalManifest \cup {None}
      /\ rseg \in Nat \ {0} /\ revs \in Seq(Events)
      /\ result = NotYet \/ result = IntegrityError \/ result.events \in Seq(Events)
      /\ used \in 0..MaxEvents
      /\ committed \in Seq(Events) /\ acked \in Seq(Events) /\ rstart \in Seq(Events)
  BY DEF Types
<1>n. <<>> \in Seq(Events)
  OBVIOUS
<1>e. used < MaxEvents => used + 1 \in Events /\ used + 1 \in 0..MaxEvents
  BY <1>t, JournalAssumption DEF Events
<1>w. \A w \in Writers : wpc[w] # "idle" =>
         wev[w] \in Events /\ wman[w] \in JournalManifest
  BY <1>t DEF SizeInv, Sized, Busy, Closing
<1>1. CASE UNCHANGED vars
  BY <1>1, <1>t DEF Types, vars
<1>2. ASSUME NEW w \in Writers, BeginAppend(w) PROVE Types'
  <2>1. /\ wpc' = [wpc EXCEPT ![w] = "write"] /\ used' = used + 1
        /\ wev' = [wev EXCEPT ![w] = used + 1]
        /\ wman' = [wman EXCEPT ![w] = manifest_for(used + 1)]
        /\ used < MaxEvents
    BY <1>2 DEF BeginAppend
  <2>2. manifest_for(used + 1) \in JournalManifest
    BY <1>e, <2>1, BeginSized
  <2>3. /\ wman' \in [Writers -> JournalManifest \cup {None}]
        /\ wev' \in [Writers -> Events \cup {0}]
        /\ wpc' \in [Writers -> {"idle", "write", "read", "save", "rename", "return"}]
        /\ used' \in 0..MaxEvents
    BY <1>t, <1>e, <2>1, <2>2
  <2> QED BY <1>2, <1>t, <2>3 DEF BeginAppend, Types, disk, reader
<1>3. ASSUME NEW w \in Writers, WriteLine(w) PROVE Types'
  <2> DEFINE n == Len(wman[w].segments)
             piece == [event |-> wev[w], whole |-> TRUE]
  <2>1. piece \in Piece
    BY <1>3, <1>w DEF WriteLine, Piece
  <2>2. files' = [files EXCEPT ![n] = Append(files[n], piece)]
    BY <1>3 DEF WriteLine
  <2>4. n \in Events
    BY <1>3, <1>t, SizedType DEF WriteLine, SizeInv, Busy
  <2> HIDE DEF piece, n
  <2>3. files' \in [Events -> Content]
    BY <1>t, <2>1, <2>2, <2>4 DEF Content
  <2> QED BY <1>3, <1>t, <2>3 DEF WriteLine, Types, reader
<1>4. ASSUME NEW w \in Writers, ReadBack(w) PROVE Types'
  <2>1. /\ wpc[w] = "read"
        /\ wman' = [wman EXCEPT ![w] = manifest_with(wman[w], wev[w], files[Len(wman[w].segments)])]
    BY <1>4 DEF ReadBack
  <2>2. /\ wev[w] \in Events /\ wman[w] \in JournalManifest
        /\ Len(wman[w].segments) \in Events /\ Len(wman[w].segments) # 0
    BY <1>t, <1>w, <2>1, SizedType DEF SizeInv, Busy, Events
  <2>3. manifest_with(wman[w], wev[w], files[Len(wman[w].segments)]) \in JournalManifest
    BY <1>t, <2>2, ManifestWith
  <2>4. wman' \in [Writers -> JournalManifest \cup {None}]
    BY <1>t, <2>1, <2>3
  <2> QED BY <1>4, <1>t, <2>4 DEF ReadBack, Types, disk, reader
<1>5. ASSUME NEW w \in Writers, WriteTmp(w) PROVE Types'
  BY <1>5, <1>t DEF WriteTmp, Types, reader
<1>6. ASSUME NEW w \in Writers, Rename(w) PROVE Types'
  <2>1. wev[w] \in Events
    BY <1>6, <1>w DEF Rename
  <2>3. /\ committed' = committed \/ committed' = Append(committed, wev[w])
        /\ manifest' = manifest \/ manifest' = tmp
        /\ tmp' = tmp \/ tmp' = None
        /\ \E to \in {"idle", "return"} : wpc' = [wpc EXCEPT ![w] = to]
    BY <1>6 DEF Rename
  <2>2. /\ manifest' \in JournalManifest \cup {None} /\ tmp' \in JournalManifest \cup {None}
        /\ wpc' \in [Writers -> {"idle", "write", "read", "save", "rename", "return"}]
        /\ committed' \in Seq(Events)
    <3>1. Append(committed, wev[w]) \in Seq(Events)
      BY <1>t, <2>1
    <3>2. committed' \in Seq(Events)
      BY <1>t, <2>3, <3>1
    <3>3. manifest' \in JournalManifest \cup {None} /\ tmp' \in JournalManifest \cup {None}
      BY <1>t, <2>3
    <3>4. wpc' \in [Writers -> {"idle", "write", "read", "save", "rename", "return"}]
      BY <1>t, <2>3
    <3> QED BY <3>2, <3>3, <3>4
  <2> QED BY <1>6, <1>t, <2>2 DEF Rename, Types, reader
<1>7. ASSUME NEW w \in Writers, ReturnOk(w) PROVE Types'
  <2>1. wev[w] \in Events
    BY <1>7, <1>w DEF ReturnOk
  <2>2. acked' \in Seq(Events)
    BY <1>7, <1>t, <2>1 DEF ReturnOk
  <2> QED BY <1>7, <1>t, <2>2 DEF ReturnOk, Types, disk, reader
<1>8. ASSUME NEW w \in Writers, Fail(w) PROVE Types'
  <2> DEFINE n == Len(wman[w].segments)
             piece == [event |-> wev[w], whole |-> FALSE]
  <2>1. piece \in Piece
    BY <1>8, <1>w DEF Fail, Piece
  <2>2. files' = files \/ files' = [files EXCEPT ![n] = Append(files[n], piece)]
    BY <1>8 DEF Fail
  <2>4. wpc[w] = "write" => n \in Events
    BY <1>t, SizedType DEF SizeInv, Busy
  <2>5. files' = files \/ wpc[w] = "write"
    BY <1>8 DEF Fail
  <2> HIDE DEF piece, n
  <2>6. ASSUME n \in Events PROVE Append(files[n], piece) \in Content
    BY <1>t, <2>1, <2>6 DEF Content
  <2>3. files' \in [Events -> Content]
    BY <1>t, <2>2, <2>4, <2>5, <2>6
  <2> QED BY <1>8, <1>t, <2>3 DEF Fail, Types, reader
<1>9. CASE BeginLoad
  <2>1. rpc' \in {"idle", "manifest", "verify", "bytes", "lines"}
    BY <1>9, <1>t DEF BeginLoad
  <2>3. Ok(<<>>).events \in Seq(Events)
    BY DEF Ok
  <2>2. result' = NotYet \/ result'.events \in Seq(Events)
    BY <1>9, <2>3 DEF BeginLoad
  <2> QED BY <1>9, <1>t, <2>1, <2>2 DEF BeginLoad, Types, disk, writer
<1>10. CASE VerifyManifest
  BY <1>10, <1>t DEF VerifyManifest, Types, disk, writer
<1>11. CASE VerifySegment
  <2>2. /\ rpc' \in {"idle", "bytes"} \/ rpc' = rpc
        /\ vman' = vman \/ vman' = None
        /\ rseg' = 1 \/ rseg' = rseg + 1
        /\ revs' = revs \/ revs' = <<>>
        /\ result' = IntegrityError \/ result' = result
    BY <1>11 DEF VerifySegment, load_returns
  <2>1. /\ rpc' \in {"idle", "manifest", "verify", "bytes", "lines"}
        /\ vman' \in JournalManifest \cup {None}
        /\ rseg' \in Nat \ {0} /\ revs' \in Seq(Events)
        /\ result' = IntegrityError \/ result' = result
    <3>1. revs' \in Seq(Events)
      BY <1>t, <1>n, <2>2
    <3>2. rpc' \in {"idle", "manifest", "verify", "bytes", "lines"}
      BY <1>t, <2>2
    <3>3. vman' \in JournalManifest \cup {None}
      BY <1>t, <2>2
    <3>4. rseg' \in Nat \ {0}
      BY <1>t, <2>2
    <3> QED BY <2>2, <3>1, <3>2, <3>3, <3>4
  <2> QED BY <1>11, <1>t, <2>1 DEF VerifySegment, Types, disk, writer
<1>12. CASE CheckBytes
  <2>2. /\ rpc' \in {"idle", "lines"}
        /\ vman' = vman \/ vman' = None
        /\ rseg' = 1 \/ rseg' = rseg
        /\ revs' = revs \/ revs' = <<>>
        /\ result' = IntegrityError \/ result' = result
    BY <1>12 DEF CheckBytes, load_returns
  <2>1. /\ rpc' \in {"idle", "manifest", "verify", "bytes", "lines"}
        /\ vman' \in JournalManifest \cup {None}
        /\ rseg' \in Nat \ {0} /\ revs' \in Seq(Events)
        /\ result' = IntegrityError \/ result' = result
    <3>1. revs' \in Seq(Events)
      BY <1>t, <1>n, <2>2
    <3>2. rpc' \in {"idle", "manifest", "verify", "bytes", "lines"}
      BY <1>t, <2>2
    <3>3. vman' \in JournalManifest \cup {None}
      BY <1>t, <2>2
    <3>4. rseg' \in Nat \ {0}
      BY <1>t, <2>2
    <3> QED BY <2>2, <3>1, <3>2, <3>3, <3>4
  <2> QED BY <1>12, <1>t, <2>1 DEF CheckBytes, Types, disk, writer
<1>13. CASE ReadLines
  <2> DEFINE events == revs \o events_of(files[rseg])
  <2>6. Len(rman.segments) \in Events /\ rseg <= Len(rman.segments)
    BY <1>13, <1>t, SizedType DEF ReadLines, SizeInv
  <2>1. rseg \in Events
    BY <1>t, <2>6, JournalAssumption DEF Events
  <2>2. events \in Seq(Events)
    BY <1>t, <2>1, EventsOf
  <2> HIDE DEF events
  <2>3. Ok(events).events = events
    BY DEF Ok
  <2>7. /\ rpc' \in {"idle", "bytes"}
        /\ vman' = vman \/ vman' = None
        /\ rseg' = 1 \/ rseg' = rseg + 1
        /\ revs' = events \/ revs' = <<>>
        /\ result' = IntegrityError \/ result' = result \/ result' = Ok(events)
    BY <1>13 DEF ReadLines, load_returns, events
  <2>4. /\ rpc' \in {"idle", "manifest", "verify", "bytes", "lines"}
        /\ vman' \in JournalManifest \cup {None}
        /\ rseg' \in Nat \ {0} /\ revs' \in Seq(Events)
        /\ result' = IntegrityError \/ result' = result \/ result' = Ok(events)
    <3>1. revs' \in Seq(Events)
      BY <1>n, <2>2, <2>7
    <3>2. rpc' \in {"idle", "manifest", "verify", "bytes", "lines"}
      BY <2>7
    <3>3. vman' \in JournalManifest \cup {None}
      BY <1>t, <2>7
    <3>4. rseg' \in Nat \ {0}
      BY <1>t, <2>7
    <3> QED BY <2>7, <3>1, <3>2, <3>3, <3>4
  <2>5. result' = NotYet \/ result' = IntegrityError \/ result'.events \in Seq(Events)
    BY <1>t, <2>2, <2>3, <2>4
  <2> QED BY <1>13, <1>t, <2>4, <2>5 DEF ReadLines, Types, disk, writer
<1> QED BY <1>1, <1>2, <1>3, <1>4, <1>5, <1>6, <1>7, <1>8, <1>9, <1>10, <1>11, <1>12, <1>13
        DEF Next, WriterStep

\* used only grows, so that a size that held still holds.
LEMMA SizedGrows ==
  ASSUME NEW m, NEW x \in Nat, NEW u \in Nat, NEW v \in Nat, Sized(m, x, u), u <= v
  PROVE  Sized(m, x, v)
BY ManifestFields DEF Sized

LEMMA SizeNext == Types /\ SizeInv /\ [Next]_vars => SizeInv'
<1> SUFFICES ASSUME Types, SizeInv, [Next]_vars PROVE SizeInv'
  OBVIOUS
<1>t. /\ wpc \in [Writers -> {"idle", "write", "read", "save", "rename", "return"}]
      /\ wman \in [Writers -> JournalManifest \cup {None}]
      /\ wev \in [Writers -> Events \cup {0}]
      /\ files \in [Events -> Content]
      /\ rseg \in Nat \ {0}
      /\ used \in 0..MaxEvents /\ used \in Nat
  BY JournalAssumption DEF Types
\* A step of one call, and a step of the load.
<1>a. ASSUME NEW w \in Writers, used' = used,
             UNCHANGED <<rpc, rman, vman, rseg, revs>>,
             wev' = wev,
             \/ wpc' = [wpc EXCEPT ![w] = "idle"] /\ wman' = wman
             \/ /\ wpc[w] # "idle"
                /\ \/ wpc' = [wpc EXCEPT ![w] = "read"] /\ Sized(wman'[w], 1, used)
                   \/ \E to \in Closing : wpc' = [wpc EXCEPT ![w] = to] /\ Sized(wman'[w], 0, used)
                /\ \A v \in Writers : v # w => wman'[v] = wman[v],
             manifest' = manifest \/ (manifest' # None /\ Sized(manifest', 0, used)),
             tmp' = None \/ tmp' = tmp \/ Sized(tmp', 0, used)
      PROVE  SizeInv'
  <2>1. /\ manifest' # None => Sized(manifest', 0, used')
        /\ tmp' # None => Sized(tmp', 0, used')
    BY <1>a DEF SizeInv
  <2>2. ASSUME NEW v \in Writers
        PROVE  /\ wpc'[v] # "idle" => wev'[v] \in Events
               /\ wpc'[v] \in Busy => Sized(wman'[v], 1, used')
               /\ wpc'[v] \in Closing => Sized(wman'[v], 0, used')
    BY <1>a, <1>t DEF SizeInv, Busy, Closing
  <2>3. /\ rpc' # "idle" => manifest' # None /\ Sized(rman', 0, used')
        /\ rpc' = "verify" => Sized(vman', 0, used') /\ rseg' <= Len(vman'.segments)
    BY <1>a DEF SizeInv
  <2> QED BY <1>a, <2>1, <2>2, <2>3 DEF SizeInv
<1>b. ASSUME UNCHANGED <<disk, writer, used>>,
             rpc' # "idle" => manifest # None /\ Sized(rman', 0, used),
             rpc' = "verify" => Sized(vman', 0, used) /\ rseg' <= Len(vman'.segments),
             rpc' \in {"bytes", "lines"} => rseg' <= Len(rman'.segments),
             rpc' \in {"idle", "manifest"} => rseg' = 1,
             rpc' \in {"idle", "manifest", "verify"} => revs' = <<>>
      PROVE  SizeInv'
  BY <1>b, <1>t DEF SizeInv, Sized, disk, writer
<1>1. CASE UNCHANGED vars
  BY <1>1 DEF SizeInv, Sized, vars
<1>2. ASSUME NEW w \in Writers, BeginAppend(w) PROVE SizeInv'
  <2>1. /\ used < MaxEvents /\ used' = used + 1
        /\ wev' = [wev EXCEPT ![w] = used + 1]
        /\ wman' = [wman EXCEPT ![w] = manifest_for(used + 1)]
        /\ wpc' = [wpc EXCEPT ![w] = "write"]
        /\ UNCHANGED <<manifest, tmp, rpc, rman, vman, rseg, revs>>
    BY <1>2 DEF BeginAppend, disk, reader
  <2>2. used' \in Nat /\ used <= used' /\ used + 1 \in Events
    BY <1>t, <2>1, JournalAssumption DEF Events
  <2>3. Sized(wman'[w], 1, used')
    BY <1>t, <2>1, <2>2, BeginSized DEF Sized
  <2>4. \A m : \A x \in {0, 1} : Sized(m, x, used) => Sized(m, x, used')
    BY <1>t, <2>2, SizedGrows
  <2>5. /\ manifest' # None => Sized(manifest', 0, used')
        /\ tmp' # None => Sized(tmp', 0, used')
        /\ rpc' # "idle" => manifest' # None /\ Sized(rman', 0, used')
        /\ rpc' = "verify" => Sized(vman', 0, used') /\ rseg' <= Len(vman'.segments)
    BY <2>1, <2>4 DEF SizeInv
  <2>6. ASSUME NEW v \in Writers
        PROVE  /\ wpc'[v] # "idle" => wev'[v] \in Events
               /\ wpc'[v] \in Busy => Sized(wman'[v], 1, used')
               /\ wpc'[v] \in Closing => Sized(wman'[v], 0, used')
    <3>1. CASE v = w
      BY <1>t, <2>1, <2>2, <2>3, <3>1 DEF Closing
    <3>2. CASE v # w
      BY <1>t, <2>1, <2>4, <3>2 DEF SizeInv
    <3> QED BY <3>1, <3>2
  <2> QED BY <2>1, <2>5, <2>6 DEF SizeInv
<1>3. ASSUME NEW w \in Writers, WriteLine(w) PROVE SizeInv'
  BY <1>3, <1>a, <1>t DEF WriteLine, SizeInv, Busy, reader
<1>4. ASSUME NEW w \in Writers, ReadBack(w) PROVE SizeInv'
  <2> DEFINE n == Len(wman[w].segments)
             new == manifest_with(wman[w], wev[w], files[n])
  <2>1. /\ wpc[w] = "read" /\ wpc' = [wpc EXCEPT ![w] = "save"]
        /\ wman' = [wman EXCEPT ![w] = new]
    BY <1>4 DEF ReadBack
  <2>2. /\ Sized(wman[w], 1, used) /\ wev[w] \in Events /\ n \in Events /\ n # 0
        /\ wman[w] \in JournalManifest /\ files[n] \in Content
    BY <1>t, <2>1, SizedType DEF SizeInv, Busy, Events
  <2>3. /\ new \in JournalManifest /\ new.total_events = wman[w].total_events + 1
        /\ Len(new.segments) = n
    BY <2>2, ManifestWith
  <2> HIDE DEF new
  <2>4. Sized(new, 0, used)
    BY <2>2, <2>3, ManifestFields DEF Sized
  <2>5. wman'[w] = new /\ \A v \in Writers : v # w => wman'[v] = wman[v]
    BY <1>t, <2>1
  <2> QED BY <1>4, <1>a, <2>1, <2>4, <2>5 DEF ReadBack, Closing, reader, disk
<1>5. ASSUME NEW w \in Writers, WriteTmp(w) PROVE SizeInv'
  <2>1. Sized(wman[w], 0, used)
    BY <1>5 DEF WriteTmp, SizeInv, Closing
  <2> QED BY <1>5, <1>a, <2>1 DEF WriteTmp, Closing, reader
<1>6. ASSUME NEW w \in Writers, Rename(w) PROVE SizeInv'
  <2>1. Sized(wman[w], 0, used) /\ (tmp # None => Sized(tmp, 0, used))
    BY <1>6 DEF Rename, SizeInv, Closing
  <2> QED BY <1>6, <1>a, <2>1 DEF Rename, Closing, reader
<1>7. ASSUME NEW w \in Writers, ReturnOk(w) PROVE SizeInv'
  BY <1>7, <1>a DEF ReturnOk, reader, disk
<1>8. ASSUME NEW w \in Writers, Fail(w) PROVE SizeInv'
  BY <1>8, <1>a DEF Fail, reader
<1>9. CASE BeginLoad
  <2>1. /\ UNCHANGED <<disk, writer, used>> /\ rpc = "idle" /\ rman' = manifest
        /\ rpc' = "idle" \/ (rpc' \in {"manifest", "bytes"} /\ manifest # None)
        /\ UNCHANGED <<vman, rseg, revs>>
    BY <1>9 DEF BeginLoad
  <2>2. manifest # None => Sized(manifest, 0, used) /\ 1 <= Len(manifest.segments)
    BY ManifestFields DEF SizeInv, Sized
  <2>3. rseg = 1 /\ revs = <<>>
    BY <2>1 DEF SizeInv
  <2> QED BY <1>b, <2>1, <2>2, <2>3
<1>10. CASE VerifyManifest
  <2>1. /\ rpc = "manifest" /\ rpc' = "verify" /\ vman' = manifest
        /\ UNCHANGED <<disk, writer, rman, rseg, revs, used>>
    BY <1>10 DEF VerifyManifest
  <2>2. manifest # None /\ Sized(manifest, 0, used) /\ rseg = 1 /\ revs = <<>> /\ Sized(rman, 0, used)
    BY <2>1 DEF SizeInv
  <2>3. 1 <= Len(manifest.segments)
    BY <2>2, ManifestFields DEF Sized
  <2> QED BY <1>b, <2>1, <2>2, <2>3
<1>11. CASE VerifySegment
  <2>1. /\ rpc = "verify" /\ rman' = rman
        /\ UNCHANGED <<disk, writer, used>>
        /\ \/ rpc' = "idle" /\ rseg' = 1 /\ revs' = <<>>
           \/ /\ rseg < Len(vman.segments) /\ rseg' = rseg + 1
              /\ UNCHANGED <<rpc, vman, revs>>
           \/ rpc' = "bytes" /\ rseg' = 1
    BY <1>11 DEF VerifySegment, load_returns
  <2>2. /\ manifest # None /\ Sized(rman, 0, used) /\ Sized(vman, 0, used) /\ revs = <<>>
        /\ Len(vman.segments) \in Nat /\ 1 <= Len(rman.segments)
    BY <2>1, ManifestFields DEF SizeInv, Sized
  <2> QED BY <1>b, <1>t, <2>1, <2>2
<1>12. CASE CheckBytes
  BY <1>12, <1>b DEF CheckBytes, load_returns, SizeInv
<1>13. CASE ReadLines
  <2>1. /\ rpc = "lines" /\ rman' = rman
        /\ UNCHANGED <<disk, writer, used>>
        /\ \/ rpc' = "idle" /\ rseg' = 1 /\ revs' = <<>>
           \/ /\ rseg < Len(rman.segments) /\ rseg' = rseg + 1 /\ rpc' = "bytes"
    BY <1>13 DEF ReadLines, load_returns
  <2>2. manifest # None /\ Sized(rman, 0, used) /\ Len(rman.segments) \in Nat
    BY <2>1, ManifestFields DEF SizeInv, Sized
  <2> QED BY <1>b, <1>t, <2>1, <2>2
<1> QED BY <1>1, <1>2, <1>3, <1>4, <1>5, <1>6, <1>7, <1>8, <1>9, <1>10, <1>11, <1>12, <1>13
        DEF Next, WriterStep

-----------------------------------------------------------------------------
(* Manifests and the logs they stand for.                                  *)

LEMMA Recorded ==
  ASSUME NEW m \in JournalManifest, NEW k \in Nat, NEW f, Kept(m, k, f), NEW i \in 1..k
  PROVE  recorded(m.segments[i]) = m.segments[i].checksum
BY DEF Kept, recorded

LEMMA NewStands == Stands(JournalManifest_new, <<>>)
<1> DEFINE m == JournalManifest_new
           off == [i \in 1..2 |-> 0]
<1>1. m.total_events = 0 /\ Len(m.segments) = 1 /\ recorded(m.segments[1]) = <<>>
  BY NewSegment DEF recorded
<1>2. off \in [1..2 -> Nat] /\ off[1] = 0 /\ off[2] = 0
  OBVIOUS
<1> HIDE DEF m, off
<1>3. Layout(m, off, <<>>)
  BY <1>1, <1>2 DEF Layout
<1> QED BY <1>1, <1>2, <1>3 DEF Stands, m

\* A new empty segment changes nothing.
LEMMA RolledStands ==
  ASSUME NEW m \in JournalManifest, NEW log \in Seq(Events), Stands(m, log)
  PROVE  Stands(roll_segment(m), log)
<1> DEFINE n == Len(m.segments)
           r == roll_segment(m)
<1>1. PICK off \in [1..(n + 1) -> Nat] :
        Layout(m, off, log) /\ (Whole(m, off) => m.total_events = Len(log))
  BY DEF Stands
<1>2. n \in Nat /\ m.total_events \in Nat
  BY ManifestFields
<1>3. /\ r.total_events = m.total_events /\ Len(r.segments) = n + 1
      /\ \A i \in 1..n : recorded(r.segments[i]) = recorded(m.segments[i])
      /\ recorded(r.segments[n + 1]) = <<>>
  BY Rolled, NewSegment DEF recorded
<1> DEFINE more == [i \in 1..(n + 2) |-> IF i = n + 2 THEN off[n + 1] ELSE off[i]]
<1>4. /\ more \in [1..(n + 2) -> Nat]
      /\ \A i \in 1..(n + 1) : more[i] = off[i]
      /\ more[n + 2] = off[n + 1]
  BY <1>1, <1>2
<1>5. /\ off[1] = 0 /\ m.total_events <= off[n + 1]
      /\ \A i \in 1..n : off[i + 1] = off[i] + Len(recorded(m.segments[i]))
      /\ off[n + 1] = m.total_events =>
           /\ m.total_events <= Len(log)
           /\ m.total_events = Len(log)
           /\ \A i \in 1..n : \A j \in 1..Len(recorded(m.segments[i])) :
                /\ off[i] + j \in 1..m.total_events
                /\ recorded(m.segments[i])[j].event = log[off[i] + j]
  BY <1>1 DEF Layout, Whole
<1> HIDE DEF n, r, more
<1>6. \A i \in 1..(n + 1) : more[i + 1] = more[i] + Len(recorded(r.segments[i]))
  <2>1. ASSUME NEW i \in 1..n PROVE more[i + 1] = more[i] + Len(recorded(r.segments[i]))
    BY <1>2, <1>3, <1>4, <1>5
  <2>2. more[n + 2] = more[n + 1] + Len(recorded(r.segments[n + 1]))
    BY <1>1, <1>2, <1>3, <1>4
  <2> SUFFICES ASSUME NEW i \in 1..(n + 1)
               PROVE  more[i + 1] = more[i] + Len(recorded(r.segments[i]))
    OBVIOUS
  <2>3. CASE i = n + 1
    <3>1. i + 1 = n + 2
      BY <1>2, <2>3
    <3> QED BY <2>2, <2>3, <3>1
  <2>4. CASE i # n + 1
    <3>1. i \in 1..n
      BY <1>2, <2>4
    <3> QED BY <2>1, <3>1
  <2> QED BY <2>3, <2>4
<1>7. more[n + 2] = m.total_events =>
        \A i \in 1..(n + 1) : \A j \in 1..Len(recorded(r.segments[i])) :
          /\ more[i] + j \in 1..m.total_events
          /\ recorded(r.segments[i])[j].event = log[more[i] + j]
  <2> SUFFICES ASSUME more[n + 2] = m.total_events,
                      NEW i \in 1..(n + 1), NEW j \in 1..Len(recorded(r.segments[i]))
               PROVE  /\ more[i] + j \in 1..m.total_events
                      /\ recorded(r.segments[i])[j].event = log[more[i] + j]
    OBVIOUS
  <2>1. i # n + 1
    BY <1>3
  <2>2. i \in 1..n
    BY <1>2, <2>1
  <2>3. i \in 1..(n + 1)
    BY <1>2, <2>2
  <2>4. more[i] = off[i] /\ off[n + 1] = m.total_events
    BY <1>4, <2>3
  <2>5. recorded(r.segments[i]) = recorded(m.segments[i])
    BY <1>3, <2>2
  <2>6. j \in 1..Len(recorded(m.segments[i]))
    BY <2>5
  <2>7. /\ off[i] + j \in 1..m.total_events
        /\ recorded(m.segments[i])[j].event = log[off[i] + j]
    BY <1>5, <2>2, <2>4, <2>6
  <2> QED BY <2>4, <2>5, <2>7
<1>8. Layout(r, more, log) /\ (Whole(r, more) => r.total_events = Len(log))
  BY <1>2, <1>3, <1>4, <1>5, <1>6, <1>7 DEF Layout, Whole
<1>9. more \in [1..(Len(r.segments) + 1) -> Nat]
  BY <1>2, <1>3, <1>4
<1>10. Stands(r, log)
  BY <1>8, <1>9 DEF Stands
<1> QED BY <1>10 DEF r

\* The heart of the argument: recording a file that has grown.  If it grew by
\* more than the event's own line, the counts tell for ever.
LEMMA WithStands ==
  ASSUME NEW m \in JournalManifest, NEW log \in Seq(Events), NEW e \in Events,
         NEW c \in Content, Len(m.segments) # 0, Stands(m, log),
         recorded(m.segments[Len(m.segments)]) \in Content,
         Extends(recorded(m.segments[Len(m.segments)]), c),
         Len(recorded(m.segments[Len(m.segments)])) < Len(c),
         c[Len(c)].event = e
  PROVE  Stands(manifest_with(m, e, c), Append(log, e))
<1> DEFINE n == Len(m.segments)
           r == manifest_with(m, e, c)
           old == recorded(m.segments[n])
           longer == Append(log, e)
<1>1. PICK off \in [1..(n + 1) -> Nat] :
        Layout(m, off, log) /\ (Whole(m, off) => m.total_events = Len(log))
  BY DEF Stands
<1>2. n \in Nat /\ n # 0 /\ m.total_events \in Nat
  BY ManifestFields
<1>3. /\ r.total_events = m.total_events + 1 /\ Len(r.segments) = n
      /\ \A i \in 1..(n - 1) : recorded(r.segments[i]) = recorded(m.segments[i])
      /\ recorded(r.segments[n]) = c
  <2>1. m.segments[n].event_count + 1 # 0
    BY <1>2, ManifestFields
  <2>2. /\ r.total_events = m.total_events + 1 /\ Len(r.segments) = n
        /\ \A i \in 1..(n - 1) : r.segments[i] = m.segments[i]
        /\ r.segments[n].event_count = m.segments[n].event_count + 1 /\ r.segments[n].checksum = c
    BY ManifestWith
  <2> HIDE DEF r
  <2>3. \A i \in 1..(n - 1) : recorded(r.segments[i]) = recorded(m.segments[i])
    BY <2>2
  <2>4. recorded(r.segments[n]) = c
    <3> DEFINE x == r.segments[n]
    <3>1. x.event_count # 0 /\ x.checksum = c
      BY <2>1, <2>2
    <3> HIDE DEF x
    <3>2. recorded(x) = c
      BY <3>1 DEF recorded
    <3> QED BY <3>2 DEF x
  <2> QED BY <2>2, <2>3, <2>4
<1>4. /\ Len(old) \in Nat /\ Len(c) \in Nat /\ Len(old) < Len(c)
      /\ \A j \in 1..Len(old) : c[j] = old[j]
  BY DEF Extends, Content
<1> DEFINE more == [off EXCEPT ![n + 1] = off[n] + Len(c)]
<1>5. /\ more \in [1..(n + 1) -> Nat]
      /\ \A i \in 1..n : more[i] = off[i]
      /\ more[n + 1] = off[n] + Len(c)
      /\ off[n] \in Nat
  BY <1>1, <1>2, <1>4
<1>6. /\ off[1] = 0 /\ m.total_events <= off[n + 1]
      /\ \A i \in 1..n : off[i + 1] = off[i] + Len(recorded(m.segments[i]))
      /\ off[n + 1] = m.total_events =>
           /\ m.total_events = Len(log)
           /\ \A i \in 1..n : \A j \in 1..Len(recorded(m.segments[i])) :
                /\ off[i] + j \in 1..m.total_events
                /\ recorded(m.segments[i])[j].event = log[off[i] + j]
  BY <1>1 DEF Layout, Whole
<1>8. /\ longer \in Seq(Events) /\ Len(longer) = Len(log) + 1 /\ Len(log) \in Nat
      /\ longer[Len(log) + 1] = e
      /\ \A i \in 1..Len(log) : longer[i] = log[i]
  OBVIOUS
<1> HIDE DEF n, r, old, longer, more
<1>7. off[n + 1] = off[n] + Len(old)
  <2>1. n \in 1..n
    BY <1>2
  <2> QED BY <1>6, <2>1 DEF old
<1>9. \A i \in 1..n : more[i + 1] = more[i] + Len(recorded(r.segments[i]))
  <2>1. ASSUME NEW i \in 1..(n - 1) PROVE more[i + 1] = more[i] + Len(recorded(r.segments[i]))
    <3>1. i \in 1..n /\ i + 1 \in 1..n
      BY <1>2
    <3>2. more[i + 1] = off[i + 1] /\ more[i] = off[i]
      BY <1>5, <3>1
    <3>3. recorded(r.segments[i]) = recorded(m.segments[i])
      BY <1>3
    <3> QED BY <1>6, <3>1, <3>2, <3>3
  <2>2. more[n + 1] = more[n] + Len(recorded(r.segments[n]))
    <3>1. n \in 1..n
      BY <1>2
    <3>2. more[n] = off[n]
      BY <1>5, <3>1
    <3> QED BY <1>3, <1>5, <3>2
  <2> QED BY <1>2, <2>1, <2>2
<1>10. r.total_events <= more[n + 1]
  <2>1. r.total_events = m.total_events + 1 /\ m.total_events \in Nat
    BY <1>2, <1>3
  <2>2. m.total_events <= off[n] + Len(old) /\ more[n + 1] = off[n] + Len(c)
    BY <1>5, <1>6, <1>7
  <2>3. Len(old) \in Nat /\ Len(c) \in Nat /\ off[n] \in Nat /\ Len(old) < Len(c)
    BY <1>4, <1>5
  <2> HIDE DEF longer, more
  <2> QED BY <2>1, <2>2, <2>3
<1>11. ASSUME more[n + 1] = r.total_events
       PROVE  /\ r.total_events = Len(longer)
              /\ \A i \in 1..n : \A j \in 1..Len(recorded(r.segments[i])) :
                   /\ more[i] + j \in 1..r.total_events
                   /\ recorded(r.segments[i])[j].event = longer[more[i] + j]
  <2>1. /\ Len(c) = Len(old) + 1 /\ off[n + 1] = m.total_events
        /\ m.total_events = Len(log) /\ r.total_events = Len(log) + 1
    <3>1. off[n] + Len(c) = m.total_events + 1
      BY <1>11, <1>3, <1>5
    <3>2. m.total_events <= off[n] + Len(old)
      BY <1>6, <1>7
    <3>3. Len(c) = Len(old) + 1 /\ off[n + 1] = m.total_events
      <4> DEFINE a == Len(old)
                 b == Len(c)
                 o == off[n]
                 t == m.total_events
      <4>1. a \in Nat /\ b \in Nat /\ o \in Nat /\ t \in Nat /\ a < b
        BY <1>2, <1>4, <1>5
      <4>2. o + b = t + 1 /\ t <= o + a /\ off[n + 1] = o + a
        BY <1>7, <3>1, <3>2
      <4> HIDE DEF a, b, o, t
      <4>3. b = a + 1 /\ o + a = t
        BY <4>1, <4>2
      <4> QED BY <4>2, <4>3 DEF a, b, t
    <3> QED BY <1>3, <1>6, <3>3
  <2>2. ASSUME NEW i \in 1..n, NEW j \in 1..Len(recorded(m.segments[i]))
        PROVE  /\ off[i] + j \in 1..r.total_events
               /\ recorded(m.segments[i])[j].event = longer[off[i] + j]
    <3>1. /\ off[i] + j \in 1..m.total_events
          /\ recorded(m.segments[i])[j].event = log[off[i] + j]
      BY <1>6, <2>1
    <3>2. off[i] + j \in 1..Len(log) /\ off[i] + j \in 1..r.total_events
      BY <1>2, <1>8, <2>1, <3>1
    <3> QED BY <1>8, <3>1, <3>2
  <2>3. ASSUME NEW i \in 1..(n - 1), NEW j \in 1..Len(recorded(r.segments[i]))
        PROVE  /\ more[i] + j \in 1..r.total_events
               /\ recorded(r.segments[i])[j].event = longer[more[i] + j]
    <3>1. i \in 1..n
      BY <1>2
    <3>2. more[i] = off[i] /\ recorded(r.segments[i]) = recorded(m.segments[i])
      BY <1>3, <1>5, <3>1
    <3> QED BY <2>2, <3>1, <3>2
  <2>4. ASSUME NEW j \in 1..Len(c)
        PROVE  /\ more[n] + j \in 1..r.total_events
               /\ c[j].event = longer[more[n] + j]
    <3>1. CASE j \in 1..Len(old)
      <4>1. c[j] = old[j] /\ n \in 1..n /\ more[n] = off[n]
        BY <1>2, <1>4, <1>5, <3>1
      <4>2. off[n] + j \in 1..r.total_events /\ old[j].event = longer[off[n] + j]
        BY <2>2, <3>1, <4>1 DEF old
      <4> QED BY <4>1, <4>2
    <3>2. CASE j = Len(c)
      <4>1. more[n] + j = Len(log) + 1
        BY <1>2, <1>5, <1>7, <2>1, <3>2
      <4> QED BY <1>8, <2>1, <3>2, <4>1
    <3> QED BY <1>4, <2>1, <3>1, <3>2
  <2>5. ASSUME NEW i \in 1..n, NEW j \in 1..Len(recorded(r.segments[i]))
        PROVE  /\ more[i] + j \in 1..r.total_events
               /\ recorded(r.segments[i])[j].event = longer[more[i] + j]
    <3>1. CASE i = n
      BY <1>3, <2>4, <3>1
    <3>2. CASE i # n
      <4>1. i \in 1..(n - 1)
        BY <1>2, <3>2
      <4> QED BY <2>3, <4>1
    <3> QED BY <3>1, <3>2
  <2> QED BY <1>8, <2>1, <2>5
<1>12. Layout(r, more, longer) /\ (Whole(r, more) => r.total_events = Len(longer))
  <2>1. /\ more \in [1..(Len(r.segments) + 1) -> Nat] /\ more[1] = 0
        /\ Len(longer) \in Nat
    <3>1. 1 \in 1..n
      BY <1>2
    <3>2. more[1] = 0
      BY <1>5, <1>6, <3>1
    <3> QED BY <1>3, <1>5, <1>8, <3>2
  <2> QED BY <1>3, <1>9, <1>10, <1>11, <2>1 DEF Layout, Whole
<1>13. more \in [1..(Len(r.segments) + 1) -> Nat]
  BY <1>3, <1>5
<1>14. Stands(r, longer)
  BY <1>12, <1>13 DEF Stands
<1> QED BY <1>14 DEF r, longer

\* What stood for a beginning of the log still does when the log has grown.
LEMMA LayoutGrows ==
  ASSUME NEW m \in JournalManifest, NEW log \in Seq(Events), NEW e \in Events,
         NEW off, Layout(m, off, log)
  PROVE  Layout(m, off, Append(log, e))
<1>1. /\ Len(Append(log, e)) = Len(log) + 1 /\ Len(log) \in Nat
      /\ \A i \in 1..Len(log) : Append(log, e)[i] = log[i]
  OBVIOUS
<1>2. m.total_events \in Nat
  BY ManifestFields
<1> DEFINE longer == Append(log, e)
<1> HIDE DEF longer
<1>3. Len(longer) = Len(log) + 1 /\ \A i \in 1..Len(log) : longer[i] = log[i]
  BY <1>1 DEF longer
<1>4. Layout(m, off, longer)
  <2> SUFFICES ASSUME off[Len(m.segments) + 1] = m.total_events
               PROVE  /\ m.total_events <= Len(longer)
                      /\ \A i \in 1..Len(m.segments) : \A j \in 1..Len(recorded(m.segments[i])) :
                           /\ off[i] + j \in 1..m.total_events
                           /\ recorded(m.segments[i])[j].event = longer[off[i] + j]
    BY DEF Layout
  <2>1. /\ m.total_events <= Len(log)
        /\ \A i \in 1..Len(m.segments) : \A j \in 1..Len(recorded(m.segments[i])) :
             /\ off[i] + j \in 1..m.total_events
             /\ recorded(m.segments[i])[j].event = log[off[i] + j]
    BY DEF Layout
  <2>2. \A k \in 1..m.total_events : longer[k] = log[k]
    BY <1>1, <1>2, <1>3, <2>1
  <2>3. m.total_events <= Len(longer)
    BY <1>1, <1>2, <1>3, <2>1
  <2>4. ASSUME NEW i \in 1..Len(m.segments), NEW j \in 1..Len(recorded(m.segments[i]))
        PROVE  /\ off[i] + j \in 1..m.total_events
               /\ recorded(m.segments[i])[j].event = longer[off[i] + j]
    <3>1. off[i] + j \in 1..m.total_events /\ recorded(m.segments[i])[j].event = log[off[i] + j]
      BY <2>1
    <3>2. longer[off[i] + j] = log[off[i] + j]
      BY <2>2, <3>1
    <3> QED BY <3>1, <3>2
  <2> QED BY <2>3, <2>4
<1> QED BY <1>4 DEF longer

-----------------------------------------------------------------------------
(* One append call at a time.                                              *)

LEMMA ExtendsFacts ==
  /\ \A c \in Content : Extends(c, c)
  /\ \A c \in Content, p \in Piece : Extends(c, Append(c, p))
  /\ \A c, d, e \in Content : Extends(c, d) /\ Extends(d, e) => Extends(c, e)
BY DEF Extends, Content

\* Files only grow.
LEMMA FilesGrow ==
  ASSUME Types, SizeInv, [Next]_vars
  PROVE  \A i \in Events : Extends(files[i], files'[i])
<1>t. /\ files \in [Events -> Content] /\ \A i \in Events : Extends(files[i], files[i])
  BY ExtendsFacts DEF Types
<1>1. ASSUME NEW w \in Writers, wpc[w] = "write", NEW b \in BOOLEAN,
             files' = [files EXCEPT ![Len(wman[w].segments)] =
                         Append(files[Len(wman[w].segments)], [event |-> wev[w], whole |-> b])]
      PROVE  \A i \in Events : Extends(files[i], files'[i])
  <2> DEFINE piece == [event |-> wev[w], whole |-> b]
  <2>1. piece \in Piece
    BY <1>1 DEF SizeInv, Piece
  <2> HIDE DEF piece
  <2>2. \A i \in Events : files'[i] = files[i] \/ files'[i] = Append(files[i], piece)
    BY <1>1, <1>t DEF piece
  <2> QED BY <1>t, <2>1, <2>2, ExtendsFacts
<1>2. \/ files' = files
      \/ \E w \in Writers, b \in BOOLEAN :
           /\ wpc[w] = "write"
           /\ files' = [files EXCEPT ![Len(wman[w].segments)] =
                Append(files[Len(wman[w].segments)], [event |-> wev[w], whole |-> b])]
  <2>1. ASSUME NEW w \in Writers, WriteLine(w) \/ Fail(w)
        PROVE  \/ files' = files
               \/ \E b \in BOOLEAN :
                    /\ wpc[w] = "write"
                    /\ files' = [files EXCEPT ![Len(wman[w].segments)] =
                         Append(files[Len(wman[w].segments)], [event |-> wev[w], whole |-> b])]
    BY <2>1 DEF WriteLine, Fail
  <2>2. ASSUME NEW w \in Writers, BeginAppend(w) \/ ReadBack(w) \/ WriteTmp(w) \/ Rename(w) \/ ReturnOk(w)
        PROVE  files' = files
    BY <2>2 DEF BeginAppend, ReadBack, WriteTmp, Rename, ReturnOk, disk
  <2>3. CASE BeginLoad \/ VerifyManifest \/ VerifySegment \/ CheckBytes \/ ReadLines
    BY <2>3 DEF BeginLoad, VerifyManifest, VerifySegment, CheckBytes, ReadLines, disk
  <2>4. CASE UNCHANGED vars
    BY <2>4 DEF vars
  <2> QED BY <2>1, <2>2, <2>3, <2>4 DEF Next, WriterStep
<1> QED BY <1>t, <1>1, <1>2

\* What a manifest has recorded stays in files that only grow.
LEMMA KeptGrows ==
  ASSUME Types, Types', NEW m \in JournalManifest, NEW k \in 0..MaxEvents,
         Kept(m, k, files), \A i \in Events : Extends(files[i], files'[i])
  PROVE  Kept(m, k, files')
<1> SUFFICES ASSUME NEW i \in 1..k
             PROVE  /\ m.segments[i].event_count # 0
                    /\ m.segments[i].checksum \in Content
                    /\ Extends(m.segments[i].checksum, files'[i])
  BY DEF Kept
<1>1. i \in Events /\ files[i] \in Content /\ files'[i] \in Content
  BY JournalAssumption DEF Types, Events
<1> QED BY <1>1, ExtendsFacts DEF Kept

\* A shorter claim, and a claim about the same segments of another manifest.
LEMMA KeptFewer ==
  ASSUME NEW m, NEW r, NEW f, NEW k \in Nat, NEW l \in 0..k, Kept(m, k, f),
         \A i \in 1..l : r.segments[i] = m.segments[i]
  PROVE  Kept(r, l, f)
BY DEF Kept

\* Where a call begins.
LEMMA BeginOpen ==
  ASSUME Types, SizeInv, WriterInv, used < MaxEvents, NEW e \in Events
  PROVE  LET m == manifest_for(e)
             n == Len(m.segments)
             old == recorded(m.segments[n])
         IN /\ Kept(m, n - 1, files)
            /\ old \in Content
            /\ Extends(old, files[n])
            /\ Stands(m, committed)
<1> DEFINE m == manifest_for(e)
           n == Len(m.segments)
           old == recorded(m.segments[n])
<1>0. /\ m \in JournalManifest /\ n \in Events /\ files[n] \in Content
      /\ committed \in Seq(Events)
  <2>1. m \in JournalManifest /\ n \in 1..(m.total_events + 1) /\ m.total_events + 1 <= used + 1
    BY BeginSized
  <2>2. n \in Events
    BY <2>1, ManifestFields, JournalAssumption DEF Types, Events
  <2> QED BY <2>1, <2>2 DEF Types
<1>e. <<>> \in Content /\ \A c \in Content : Extends(<<>>, c)
  BY DEF Content, Extends
<1>1. CASE manifest = None /\ m = JournalManifest_new
  <2>1. n = 1 /\ old = <<>>
    BY <1>1, NewSegment DEF recorded
  <2>2. Kept(m, n - 1, files)
    BY <2>1 DEF Kept
  <2>3. Stands(m, committed)
    BY <1>1, NewStands DEF WriterInv
  <2> HIDE DEF m, n, old
  <2> QED BY <1>0, <1>e, <2>1, <2>2, <2>3 DEF m, n, old
<1>2. CASE manifest # None /\ m = manifest
  <2>1. Kept(m, n, files) /\ Stands(m, committed)
    BY <1>2 DEF WriterInv
  <2> HIDE DEF m
  <2>2. n \in Nat /\ n \in 1..n /\ n - 1 \in 0..n
    BY <1>0, JournalAssumption DEF Events
  <2>3. Kept(m, n - 1, files)
    <3> HIDE DEF n, old
    <3> QED BY <2>1, <2>2, KeptFewer
  <2>4. old = m.segments[n].checksum
    BY <1>0, <2>1, <2>2, Recorded
  <2>5. old \in Content /\ Extends(old, files[n])
    BY <2>1, <2>2, <2>4 DEF Kept
  <2> QED BY <2>1, <2>3, <2>5 DEF m
<1>3. CASE manifest # None /\ m = roll_segment(manifest)
  <2> DEFINE k == Len(manifest.segments)
  <2>1. /\ Kept(manifest, k, files) /\ Stands(manifest, committed)
        /\ manifest \in JournalManifest
    BY <1>3 DEF WriterInv, SizeInv, Sized
  <2>2. /\ n = k + 1 /\ k \in Nat
        /\ \A i \in 1..k : m.segments[i] = manifest.segments[i]
        /\ m.segments[n] = SegmentMetadata_new
    BY <1>3, <2>1, Rolled, ManifestFields
  <2>3. old = <<>>
    BY <2>2, NewSegment DEF recorded
  <2>4. Stands(m, committed)
    BY <1>0, <1>3, <2>1, RolledStands
  <2> HIDE DEF m, n, old, k
  <2>5. n - 1 = k
    BY <2>2
  <2>6. Kept(m, n - 1, files)
    BY <2>1, <2>2, <2>5, KeptFewer
  <2> QED BY <1>0, <1>e, <2>3, <2>4, <2>6 DEF m, n, old
<1> HIDE DEF m
<1> QED BY <1>1, <1>2, <1>3, ManifestFor DEF m

LEMMA InitAlone == Init => WriterInv /\ ReaderInv
BY DEF Init, WriterInv, ReaderInv, Busy, ToSet, is_ok

LEMMA WriterNext ==
  ASSUME Alone
  PROVE  Types /\ Types' /\ SizeInv /\ WriterInv /\ [Next]_vars => WriterInv'
<1> SUFFICES ASSUME Types, Types', SizeInv, WriterInv, [Next]_vars PROVE WriterInv'
  OBVIOUS
<1>t. /\ files \in [Events -> Content] /\ files' \in [Events -> Content]
      /\ wpc \in [Writers -> {"idle", "write", "read", "save", "rename", "return"}]
      /\ wman \in [Writers -> JournalManifest \cup {None}]
      /\ wev \in [Writers -> Events \cup {0}]
      /\ committed \in Seq(Events) /\ acked \in Seq(Events)
  BY DEF Types
<1>s. ASSUME NEW m, NEW x \in {0, 1}, Sized(m, x, used)
      PROVE  /\ m \in JournalManifest /\ Len(m.segments) \in Events
             /\ Len(m.segments) \in 0..MaxEvents /\ Len(m.segments) - 1 \in 0..MaxEvents
             /\ Len(m.segments) \in 1..Len(m.segments)
  <2>1. m \in JournalManifest /\ Len(m.segments) \in Events
    BY <1>s, SizedType DEF Types
  <2> QED BY <2>1, JournalAssumption DEF Events
<1>k. ASSUME NEW m \in JournalManifest, NEW k \in 0..MaxEvents, Kept(m, k, files)
      PROVE  Kept(m, k, files')
  BY <1>k, KeptGrows, FilesGrow
<1>m. manifest # None => Kept(manifest, Len(manifest.segments), files')
  BY <1>s, <1>k DEF WriterInv, SizeInv
\* What is left to show of a step of the only call.
<1>q. ASSUME NEW w \in Writers,
             UNCHANGED <<manifest, committed>>,
             ToSet(acked') \subseteq ToSet(committed),
             wpc'[w] \in Busy => Open(w)',
             wpc'[w] \in {"save", "rename"} =>
               /\ Kept(wman'[w], Len(wman'[w].segments), files')
               /\ Stands(wman'[w], Append(committed, wev'[w])),
             wpc'[w] = "rename" => tmp' = wman'[w],
             wpc'[w] = "return" => wev'[w] \in ToSet(committed)
      PROVE  WriterInv'
  <2>1. \A v \in Writers : v = w
    BY DEF Alone
  <2>2. \A v \in Writers :
       /\ wpc'[v] \in Busy => Open(v)'
       /\ wpc'[v] \in {"save", "rename"} =>
            /\ Kept(wman'[v], Len(wman'[v].segments), files')
            /\ Stands(wman'[v], Append(committed', wev'[v]))
       /\ wpc'[v] = "rename" => tmp' = wman'[v]
       /\ wpc'[v] = "return" => wev'[v] \in ToSet(committed')
    BY <1>q, <2>1
  <2>3. /\ manifest' = None => committed' = <<>>
        /\ manifest' # None =>
             Kept(manifest', Len(manifest'.segments), files') /\ Stands(manifest', committed')
    BY <1>q, <1>m DEF WriterInv
  <2> QED BY <1>q, <2>2, <2>3 DEF WriterInv
<1>1. CASE UNCHANGED vars
  BY <1>1 DEF WriterInv, Open, vars
<1>2. ASSUME NEW w \in Writers, BeginAppend(w) PROVE WriterInv'
  <2>1. /\ used < MaxEvents /\ wman'[w] = manifest_for(used + 1)
        /\ wpc'[w] = "write"
        /\ UNCHANGED <<files, manifest, committed, acked>>
    BY <1>2, <1>t DEF BeginAppend, disk
  <2>2. used + 1 \in Events
    BY <2>1, JournalAssumption DEF Types, Events
  <2> DEFINE M == manifest_for(used + 1)
  <2>3. LET n == Len(M.segments)
            old == recorded(M.segments[n])
        IN /\ Kept(M, n - 1, files) /\ old \in Content /\ Extends(old, files[n])
           /\ Stands(M, committed)
    BY <2>1, <2>2, BeginOpen
  <2> HIDE DEF M
  <2>4. wman'[w] = M
    BY <2>1 DEF M
  <2>5. Open(w)'
    BY <2>1, <2>3, <2>4 DEF Open
  <2> QED BY <1>q, <2>1, <2>5 DEF WriterInv, Busy
<1>3. ASSUME NEW w \in Writers, WriteLine(w) PROVE WriterInv'
  <2> DEFINE m == wman[w]
             n == Len(m.segments)
             old == recorded(m.segments[n])
             piece == [event |-> wev[w], whole |-> TRUE]
  <2>1. /\ wpc[w] = "write" /\ wpc'[w] = "read"
        /\ files' = [files EXCEPT ![n] = Append(files[n], piece)]
        /\ UNCHANGED <<manifest, wman, wev, committed, acked>>
    BY <1>3, <1>t DEF WriteLine
  <2>2. Open(w) /\ Sized(m, 1, used) /\ wev[w] \in Events
    BY <2>1 DEF WriterInv, SizeInv, Busy
  <2>3. m \in JournalManifest /\ n \in Events /\ n - 1 \in 0..MaxEvents
    BY <1>s, <2>2
  <2>4. piece \in Piece /\ piece.event = wev[w]
    BY <2>2 DEF Piece
  <2>5. /\ Kept(m, n - 1, files) /\ old \in Content /\ Extends(old, files[n])
        /\ Stands(m, committed)
    BY <2>2 DEF Open
  <2> HIDE DEF m, n, old, piece
  <2>6. files[n] \in Content /\ files'[n] = Append(files[n], piece)
    BY <1>t, <2>1, <2>3
  <2>7. /\ Len(files'[n]) = Len(files[n]) + 1 /\ Len(files[n]) \in Nat /\ Len(old) \in Nat
        /\ files'[n][Len(files'[n])] = piece
    BY <2>4, <2>5, <2>6 DEF Content
  <2>8. /\ Extends(old, files'[n]) /\ Len(old) < Len(files'[n])
        /\ files'[n][Len(files'[n])].event = wev[w]
    <3>1. Extends(files[n], files'[n]) /\ files'[n] \in Content
      <4>1. files'[n] \in Content
        BY <1>t, <2>3
      <4>2. Extends(files[n], Append(files[n], piece))
        BY <2>4, <2>6, ExtendsFacts
      <4> QED BY <2>6, <4>1, <4>2
    <3>2. Len(old) <= Len(files[n])
      BY <2>5 DEF Extends
    <3> QED BY <2>4, <2>5, <2>6, <2>7, <3>1, <3>2, ExtendsFacts
  <2>9. Kept(m, n - 1, files')
    BY <1>k, <2>3, <2>5
  <2>10. Open(w)'
    BY <2>1, <2>5, <2>8, <2>9 DEF Open, m, n, old
  <2> QED BY <1>q, <2>1, <2>10 DEF WriterInv
<1>4. ASSUME NEW w \in Writers, ReadBack(w) PROVE WriterInv'
  <2> DEFINE m == wman[w]
             n == Len(m.segments)
             old == recorded(m.segments[n])
             new == manifest_with(m, wev[w], files[n])
  <2>1. /\ wpc[w] = "read" /\ wpc'[w] = "save" /\ wman'[w] = new
        /\ UNCHANGED <<files, manifest, wev, committed, acked>>
    BY <1>4, <1>t DEF ReadBack, disk
  <2>2. Open(w) /\ Sized(m, 1, used) /\ wev[w] \in Events
    BY <2>1 DEF WriterInv, SizeInv, Busy
  <2>3. /\ m \in JournalManifest /\ n \in Events /\ n \in 1..n /\ n - 1 \in 0..MaxEvents
        /\ files[n] \in Content
    BY <1>s, <1>t, <2>2
  <2>4. /\ Kept(m, n - 1, files) /\ old \in Content /\ Extends(old, files[n])
        /\ Stands(m, committed)
        /\ Len(old) < Len(files[n]) /\ files[n][Len(files[n])].event = wev[w]
    BY <2>1, <2>2 DEF Open
  <2>5. n # 0
    BY <2>3
  <2>6. Stands(new, Append(committed, wev[w]))
    <3> HIDE DEF m
    <3> QED BY <1>t, <2>2, <2>3, <2>4, <2>5, WithStands
  <2>7. /\ Len(new.segments) = n
        /\ \A i \in 1..(n - 1) : new.segments[i] = m.segments[i]
        /\ new.segments[n].event_count = m.segments[n].event_count + 1
        /\ new.segments[n].checksum = files[n]
    <3>1. wev[w] \in Events /\ m \in JournalManifest /\ files[n] \in Content /\ n # 0
      BY <2>2, <2>3, <2>5
    <3> HIDE DEF m
    <3> QED BY <3>1, ManifestWith
  <2>8. m.segments[n].event_count + 1 # 0
    BY <2>3, ManifestFields
  <2>9. Extends(files[n], files[n])
    BY <2>3, ExtendsFacts
  <2> HIDE DEF m, n, old, new
  <2>10. Kept(new, n, files)
    <3> SUFFICES ASSUME NEW i \in 1..n
                 PROVE  /\ new.segments[i].event_count # 0
                        /\ new.segments[i].checksum \in Content
                        /\ Extends(new.segments[i].checksum, files[i])
      BY DEF Kept
    <3>1. CASE i = n
      BY <2>3, <2>7, <2>8, <2>9, <3>1
    <3>2. CASE i # n
      <4>1. i \in 1..(n - 1)
        BY <2>3, <3>2 DEF Events
      <4> QED BY <2>4, <2>7, <4>1 DEF Kept
    <3> QED BY <3>1, <3>2
  <2> QED BY <1>q, <2>1, <2>6, <2>7, <2>10 DEF WriterInv, Busy
<1>5. ASSUME NEW w \in Writers, WriteTmp(w) PROVE WriterInv'
  <2>1. /\ wpc[w] = "save" /\ wpc'[w] = "rename" /\ tmp' = wman[w]
        /\ UNCHANGED <<files, manifest, wman, wev, committed, acked>>
    BY <1>5, <1>t DEF WriteTmp
  <2> QED BY <1>q, <2>1 DEF WriterInv, Busy
<1>6. ASSUME NEW w \in Writers, Rename(w) PROVE WriterInv'
  <2>1. CASE tmp # None
    <3>1. /\ wpc[w] = "rename" /\ wpc'[w] = "return" /\ manifest' = tmp
          /\ committed' = Append(committed, wev[w])
          /\ UNCHANGED <<files, wman, wev, acked>>
      BY <1>6, <1>t, <2>1 DEF Rename
    <3>2. /\ tmp = wman[w] /\ Kept(wman[w], Len(wman[w].segments), files)
          /\ Stands(wman[w], Append(committed, wev[w]))
          /\ ToSet(acked) \subseteq ToSet(committed)
      BY <3>1 DEF WriterInv
    <3>3. wev[w] \in Events
      BY <3>1 DEF SizeInv
    <3>4. /\ ToSet(committed) \subseteq ToSet(Append(committed, wev[w]))
          /\ wev[w] \in ToSet(Append(committed, wev[w]))
      <4> DEFINE longer == Append(committed, wev[w])
      <4>1. /\ DOMAIN committed \subseteq DOMAIN longer
            /\ \A i \in DOMAIN committed : longer[i] = committed[i]
            /\ Len(committed) + 1 \in DOMAIN longer /\ longer[Len(committed) + 1] = wev[w]
        BY <1>t, <3>3
      <4> HIDE DEF longer
      <4>2. ToSet(committed) \subseteq ToSet(longer) /\ wev[w] \in ToSet(longer)
        BY <4>1 DEF ToSet
      <4> QED BY <4>2 DEF longer
    <3>5. \A v \in Writers : v = w
      BY DEF Alone
    <3>6. ToSet(acked') \subseteq ToSet(committed')
      BY <3>1, <3>2, <3>4
    <3>7. \A v \in Writers : wpc'[v] = "return" /\ wev'[v] \in ToSet(committed')
      BY <3>1, <3>4, <3>5
    <3>8. manifest' # None /\ Kept(manifest', Len(manifest'.segments), files')
          /\ Stands(manifest', committed')
      BY <2>1, <3>1, <3>2
    <3> QED BY <3>6, <3>7, <3>8 DEF WriterInv, Busy
  <2>2. CASE tmp = None
    <3>1. /\ wpc'[w] = "idle" /\ UNCHANGED <<manifest, committed, acked>>
      BY <1>6, <1>t, <2>2 DEF Rename
    <3> QED BY <1>q, <3>1 DEF WriterInv, Busy
  <2> QED BY <2>1, <2>2
<1>7. ASSUME NEW w \in Writers, ReturnOk(w) PROVE WriterInv'
  <2>1. /\ wpc[w] = "return" /\ wpc'[w] = "idle" /\ UNCHANGED <<manifest, committed>>
        /\ acked' = Append(acked, wev[w])
    BY <1>7, <1>t DEF ReturnOk, disk
  <2>2. wev[w] \in Events /\ wev[w] \in ToSet(committed) /\ ToSet(acked) \subseteq ToSet(committed)
    BY <2>1 DEF WriterInv, SizeInv
  <2>3. ToSet(Append(acked, wev[w])) \subseteq ToSet(acked) \cup {wev[w]}
    BY <1>t, <2>2 DEF ToSet
  <2> QED BY <1>q, <2>1, <2>2, <2>3 DEF Busy
<1>8. ASSUME NEW w \in Writers, Fail(w) PROVE WriterInv'
  <2>1. wpc'[w] = "idle" /\ UNCHANGED <<manifest, committed, acked>>
    BY <1>8, <1>t DEF Fail
  <2> QED BY <1>q, <2>1 DEF WriterInv, Busy
<1>9. CASE BeginLoad \/ VerifyManifest \/ VerifySegment \/ CheckBytes \/ ReadLines
  <2>1. UNCHANGED <<disk, writer, committed, acked>>
    BY <1>9 DEF BeginLoad, VerifyManifest, VerifySegment, CheckBytes, ReadLines
  <2> QED BY <2>1 DEF WriterInv, Open, disk, writer
<1> QED BY <1>1, <1>2, <1>3, <1>4, <1>5, <1>6, <1>7, <1>8, <1>9 DEF Next, WriterStep

-----------------------------------------------------------------------------
(* The load.                                                               *)

\* A step beside the load: its manifest stands for as much of a longer log,
\* and what it has read is still read.
LEMMA BesideLoad ==
  ASSUME Types, Types', SizeInv, ReaderInv, [Next]_vars,
         UNCHANGED <<rpc, rman, result, rseg, revs, rstart>>,
         committed' = committed \/ \E e \in Events : committed' = Append(committed, e)
  PROVE  ReaderInv'
<1>t. committed \in Seq(Events) /\ Len(committed) \in Nat
  BY DEF Types
<1>1. /\ Len(committed) <= Len(committed')
      /\ \A i \in 1..Len(committed) : committed'[i] = committed[i]
  BY <1>t
<1>2. is_ok(result') => /\ ToSet(rstart') \subseteq ToSet(result'.events)
                        /\ Extends(result'.events, committed')
  <2> SUFFICES ASSUME is_ok(result) PROVE Extends(result.events, committed')
    BY DEF ReaderInv
  <2>1. Extends(result.events, committed) /\ Len(result.events) \in Nat
    BY DEF ReaderInv, is_ok, Types
  <2>2. Len(committed') \in Nat
    BY DEF Types
  <2> QED BY <1>t, <1>1, <2>1, <2>2 DEF Extends
<1>3. ASSUME rpc # "idle"
      PROVE  /\ Kept(rman, Len(rman.segments), files')
             /\ \E off \in [1..(Len(rman.segments) + 1) -> Nat] :
                  Loaded(off)' /\ (rpc \in {"bytes", "lines"} => Passed(off)')
  <2>1. /\ Sized(rman, 0, used) /\ Kept(rman, Len(rman.segments), files)
    BY <1>3 DEF SizeInv, ReaderInv
  <2>2. rman \in JournalManifest /\ Len(rman.segments) \in 0..MaxEvents
        /\ rman.total_events \in Nat
    BY <2>1, SizedType, JournalAssumption DEF Types, Events
  <2>3. PICK off \in [1..(Len(rman.segments) + 1) -> Nat] :
          Loaded(off) /\ (rpc \in {"bytes", "lines"} => Passed(off))
    BY <1>3 DEF ReaderInv
  <2>4. Layout(rman, off, committed) /\ Layout(rman, off, committed')
    BY <1>t, <2>2, <2>3, LayoutGrows DEF Loaded
  <2>5. Whole(rman, off) => \A i \in 1..rman.total_events : committed'[i] = committed[i]
    BY <1>t, <1>1, <2>2, <2>4 DEF Layout, Whole
  <2>6. Loaded(off)'
    <3>1. Whole(rman, off) =>
            {committed'[i] : i \in 1..rman.total_events} = {committed[i] : i \in 1..rman.total_events}
      BY <2>5
    <3>2. Whole(rman, off)' <=> Whole(rman, off)
      BY DEF Whole
    <3> QED BY <2>3, <2>4, <3>1, <3>2 DEF Loaded
  <2>7. ASSUME rpc \in {"bytes", "lines"} PROVE Passed(off)'
    <3>1. Passed(off) /\ off[rseg] \in Nat
      <4>1. rseg \in 1..(Len(rman.segments) + 1)
        BY <2>2, <2>7 DEF SizeInv, Types
      <4> QED BY <2>3, <2>7, <4>1
    <3>2. Len(committed') \in Nat
      BY DEF Types
    <3> QED BY <1>t, <1>1, <3>1, <3>2 DEF Passed, Whole
  <2>8. Kept(rman, Len(rman.segments), files')
    BY <2>1, <2>2, KeptGrows, FilesGrow
  <2> QED BY <2>6, <2>7, <2>8
<1>4. rpc' # "idle" =>
        /\ Kept(rman', Len(rman'.segments), files')
        /\ \E off \in [1..(Len(rman'.segments) + 1) -> Nat] :
             Loaded(off)' /\ (rpc' \in {"bytes", "lines"} => Passed(off)')
  BY <1>3
<1> QED BY <1>2, <1>4 DEF ReaderInv

\* The step that ends a load, or goes on to the next segment: the lines of the
\* file are at least those the manifest has recorded, so that the total agrees
\* only if they are exactly those.
LEMMA LinesRead ==
  ASSUME Types, SizeInv, ReaderInv, ReadLines,
         NEW off \in [1..(Len(rman.segments) + 1) -> Nat], Loaded(off), Passed(off)
  PROVE  LET events == revs \o events_of(files[rseg])
         IN /\ events \in Seq(Events)
            /\ off[rseg + 1] <= Len(events)
            /\ Whole(rman, off) /\ Len(events) = off[rseg + 1] =>
                 /\ off[rseg + 1] <= Len(committed)
                 /\ \A i \in 1..off[rseg + 1] : events[i] = committed[i]
<1> DEFINE c == files[rseg]
           chk == rman.segments[rseg].checksum
           read == events_of(c)
           events == revs \o read
           n == Len(rman.segments)
<1>1. /\ Sized(rman, 0, used) /\ rseg <= n /\ Kept(rman, n, files)
  BY DEF ReadLines, SizeInv, ReaderInv
<1>2. rman \in JournalManifest /\ n \in Events /\ rman.total_events \in Nat
  BY <1>1, SizedType DEF Types
<1>3. rseg \in 1..n /\ rseg \in Events /\ c \in Content
  BY <1>1, <1>2, JournalAssumption DEF Types, Events
<1>4. chk \in Content /\ Extends(chk, c) /\ recorded(rman.segments[rseg]) = chk
  <2>1. /\ rman.segments[rseg].event_count # 0
        /\ chk \in Content /\ Extends(chk, c)
    BY <1>1, <1>3 DEF Kept
  <2> QED BY <2>1 DEF recorded
<1>5. /\ Len(chk) \in Nat /\ Len(c) \in Nat /\ Len(chk) <= Len(c)
      /\ \A j \in 1..Len(chk) : c[j] = chk[j]
  BY <1>3, <1>4 DEF Extends, Content
<1>6. /\ read \in Seq(Events) /\ Len(read) = Len(c)
      /\ \A j \in 1..Len(c) : read[j] = c[j].event
  BY <1>3, EventsOf
<1>7. revs \in Seq(Events) /\ Len(revs) \in Nat /\ committed \in Seq(Events) /\ Len(committed) \in Nat
  BY DEF Types
<1> HIDE DEF c, chk, read, n
<1>8. /\ events \in Seq(Events) /\ Len(events) = Len(revs) + Len(c)
      /\ \A i \in 1..Len(revs) : events[i] = revs[i]
      /\ \A j \in 1..Len(c) : events[Len(revs) + j] = read[j]
  <2>1. events \in Seq(Events) /\ Len(events) = Len(revs) + Len(read)
    BY <1>6, <1>7, ConcatProperties
  <2>2. ASSUME NEW i \in 1..Len(revs) PROVE events[i] = revs[i]
    BY <1>6, <1>7
  <2>3. ASSUME NEW j \in 1..Len(read) PROVE events[Len(revs) + j] = read[j]
    BY <1>6, <1>7
  <2> HIDE DEF events
  <2> QED BY <1>6, <2>1, <2>2, <2>3
<1>9. /\ off[rseg + 1] = off[rseg] + Len(chk)
      /\ off[rseg] \in Nat /\ off[rseg + 1] \in Nat
      /\ Whole(rman, off) =>
           /\ rman.total_events <= Len(committed)
           /\ \A j \in 1..Len(chk) : /\ off[rseg] + j \in 1..rman.total_events
                                     /\ chk[j].event = committed[off[rseg] + j]
  <2>1. rseg \in 1..(n + 1) /\ rseg + 1 \in 1..(n + 1)
    BY <1>2, <1>3 DEF Events
  <2>2. off[rseg] \in Nat /\ off[rseg + 1] \in Nat
    BY <2>1 DEF n
  <2> QED BY <1>3, <1>4, <2>2 DEF Loaded, Layout, Whole, n
<1>10. /\ off[rseg] <= Len(revs)
       /\ Whole(rman, off) /\ Len(revs) = off[rseg] =>
            off[rseg] <= Len(committed) /\ \A i \in 1..off[rseg] : revs[i] = committed[i]
  BY DEF Passed
<1> HIDE DEF events
<1>11. off[rseg + 1] <= Len(events)
  BY <1>5, <1>7, <1>8, <1>9, <1>10
<1>12. ASSUME Whole(rman, off), Len(events) = off[rseg + 1]
       PROVE  /\ off[rseg + 1] <= Len(committed)
              /\ \A i \in 1..off[rseg + 1] : events[i] = committed[i]
  <2>1. Len(revs) = off[rseg] /\ Len(c) = Len(chk)
    BY <1>5, <1>7, <1>8, <1>9, <1>10, <1>12
  <2>2. ASSUME NEW j \in 1..Len(chk)
        PROVE  /\ off[rseg] + j <= Len(committed)
               /\ events[off[rseg] + j] = committed[off[rseg] + j]
    <3>1. /\ off[rseg] + j \in 1..rman.total_events /\ rman.total_events <= Len(committed)
          /\ chk[j].event = committed[off[rseg] + j]
      BY <1>9, <1>12
    <3>2. c[j] = chk[j] /\ j \in 1..Len(c)
      BY <1>5, <2>1
    <3>3. read[j] = c[j].event /\ events[off[rseg] + j] = read[j]
      BY <1>6, <1>8, <2>1, <3>2
    <3>4. off[rseg] + j <= Len(committed)
      BY <1>2, <1>5, <1>7, <1>9, <3>1
    <3> QED BY <3>1, <3>2, <3>3, <3>4
  <2>3. off[rseg + 1] <= Len(committed)
    <3>1. CASE Len(chk) = 0
      BY <1>9, <1>10, <1>12, <2>1, <3>1
    <3>2. CASE Len(chk) # 0
      <4>1. Len(chk) \in 1..Len(chk)
        BY <1>5, <3>2
      <4> QED BY <1>9, <2>2, <4>1
    <3> QED BY <3>1, <3>2
  <2>4. ASSUME NEW i \in 1..off[rseg + 1] PROVE events[i] = committed[i]
    <3>1. CASE i <= off[rseg]
      BY <1>8, <1>9, <1>10, <1>12, <2>1, <3>1
    <3>2. CASE ~(i <= off[rseg])
      <4>1. i - off[rseg] \in 1..Len(chk) /\ off[rseg] + (i - off[rseg]) = i
        BY <1>5, <1>9, <3>2
      <4> QED BY <2>2, <4>1
    <3> QED BY <3>1, <3>2
  <2> QED BY <2>3, <2>4
<1> QED BY <1>8, <1>11, <1>12 DEF events, read, c

LEMMA ReaderNext ==
  Types /\ Types' /\ SizeInv /\ SizeInv' /\ WriterInv /\ ReaderInv /\ [Next]_vars => ReaderInv'
<1> SUFFICES ASSUME Types, Types', SizeInv, SizeInv', WriterInv, ReaderInv, [Next]_vars
             PROVE  ReaderInv'
  OBVIOUS
\* A step of the load that is not its end, and one that ends it with an error.
<1>b. ASSUME UNCHANGED <<disk, committed, rman, rstart>>, rpc # "idle", rpc' # "idle",
             result' = result,
             \A off \in [1..(Len(rman.segments) + 1) -> Nat] :
               Loaded(off) /\ (rpc \in {"bytes", "lines"} => Passed(off)) /\ rpc' \in {"bytes", "lines"}
                 => Passed(off)'
      PROVE  ReaderInv'
  <2>1. PICK off \in [1..(Len(rman.segments) + 1) -> Nat] :
          Loaded(off) /\ (rpc \in {"bytes", "lines"} => Passed(off))
    BY <1>b DEF ReaderInv
  <2>2. Loaded(off)' /\ (rpc' \in {"bytes", "lines"} => Passed(off)')
    BY <1>b, <2>1 DEF Loaded, Whole
  <2>3. Kept(rman', Len(rman'.segments), files')
    BY <1>b DEF ReaderInv, disk
  <2>4. \E o \in [1..(Len(rman'.segments) + 1) -> Nat] :
          Loaded(o)' /\ (rpc' \in {"bytes", "lines"} => Passed(o)')
    BY <1>b, <2>2
  <2>5. is_ok(result') => /\ ToSet(rstart') \subseteq ToSet(result'.events)
                          /\ Extends(result'.events, committed')
    BY <1>b DEF ReaderInv
  <2> QED BY <2>3, <2>4, <2>5 DEF ReaderInv
<1>c. ASSUME rpc' = "idle", result' = IntegrityError PROVE ReaderInv'
  BY <1>c DEF ReaderInv, is_ok
<1>1. CASE UNCHANGED vars
  BY <1>1, BesideLoad DEF vars
<1>2. ASSUME NEW w \in Writers, BeginAppend(w) \/ WriterStep(w) \/ Fail(w) PROVE ReaderInv'
  <2>1. UNCHANGED <<rpc, rman, result, rseg, revs, rstart>>
    BY <1>2 DEF BeginAppend, WriterStep, WriteLine, ReadBack, WriteTmp, Rename, ReturnOk, Fail, reader
  <2>2. committed' = committed \/ (committed' = Append(committed, wev[w]) /\ wpc[w] # "idle")
    BY <1>2 DEF BeginAppend, WriterStep, WriteLine, ReadBack, WriteTmp, Rename, ReturnOk, Fail
  <2>3. committed' = committed \/ \E e \in Events : committed' = Append(committed, e)
    BY <2>2 DEF SizeInv
  <2> QED BY <2>1, <2>3, BesideLoad
<1>3. CASE BeginLoad
  <2>1. /\ rstart' = acked /\ rman' = manifest /\ rpc = "idle"
        /\ UNCHANGED <<files, manifest, committed, rseg, revs>>
        /\ \/ manifest = None /\ result' = Ok(<<>>) /\ rpc' = "idle"
           \/ manifest # None /\ result' = NotYet
    BY <1>3 DEF BeginLoad, disk
  <2>2. CASE manifest = None
    <3>1. committed = <<>> /\ ToSet(acked) \subseteq ToSet(committed)
      BY <2>2 DEF WriterInv
    <3>2. ToSet(rstart') = {} /\ Extends(<<>>, committed)
      BY <2>1, <3>1 DEF ToSet, Extends
    <3>3. result'.events = <<>> /\ rpc' = "idle"
      BY <2>1, <2>2 DEF Ok
    <3> QED BY <2>1, <3>2, <3>3 DEF ReaderInv
  <2>3. CASE manifest # None
    <3>1. /\ Kept(manifest, Len(manifest.segments), files) /\ Stands(manifest, committed)
          /\ ToSet(acked) \subseteq ToSet(committed)
      BY <2>3 DEF WriterInv
    <3>2. PICK off \in [1..(Len(manifest.segments) + 1) -> Nat] :
            /\ Layout(manifest, off, committed)
            /\ Whole(manifest, off) => manifest.total_events = Len(committed)
      BY <3>1 DEF Stands
    <3>3. ToSet(committed) = {committed[i] : i \in 1..Len(committed)}
      BY DEF Types, ToSet
    <3>4. Loaded(off)'
      BY <2>1, <3>1, <3>2, <3>3 DEF Loaded, Whole
    <3>5. Passed(off)'
      <4>1. rseg' = 1 /\ revs' = <<>> /\ off[1] = 0
        BY <2>1, <3>2 DEF SizeInv, Layout
      <4>2. Len(committed') \in Nat
        BY DEF Types
      <4> QED BY <4>1, <4>2 DEF Passed
    <3>6. \E o \in [1..(Len(rman'.segments) + 1) -> Nat] : Loaded(o)' /\ Passed(o)'
      BY <2>1, <3>4, <3>5
    <3>7. ~is_ok(result')
      BY <2>1, <2>3 DEF is_ok
    <3> QED BY <2>1, <3>1, <3>6, <3>7 DEF ReaderInv
  <2> QED BY <2>2, <2>3
<1>4. CASE VerifyManifest
  BY <1>4, <1>b DEF VerifyManifest
\* From here on load has a segment to read: the first one, with nothing read.
<1>f. ASSUME NEW off, Loaded(off), rseg' = 1, revs' = <<>> PROVE Passed(off)'
  <2>1. off[1] = 0 /\ Len(committed') \in Nat
    BY <1>f DEF Loaded, Layout, Types
  <2> QED BY <1>f, <2>1 DEF Passed
<1>5. CASE VerifySegment
  <2>1. /\ rpc = "verify" /\ UNCHANGED <<disk, committed, rman, rstart>>
        /\ \/ rpc' = "idle" /\ result' = IntegrityError
           \/ rpc' = "verify" /\ result' = result
           \/ rpc' = "bytes" /\ result' = result /\ rseg' = 1 /\ revs' = revs
    BY <1>5 DEF VerifySegment, load_returns
  <2>2. revs = <<>>
    BY <2>1 DEF SizeInv
  <2> QED BY <1>b, <1>c, <1>f, <2>1, <2>2
<1>6. CASE CheckBytes
  <2>1. /\ rpc = "bytes" /\ UNCHANGED <<disk, committed, rman, rstart>>
        /\ \/ rpc' = "idle" /\ result' = IntegrityError
           \/ rpc' = "lines" /\ UNCHANGED <<result, rseg, revs>>
    BY <1>6 DEF CheckBytes, load_returns
  <2>2. ASSUME NEW off, Passed(off), UNCHANGED <<rseg, revs>> PROVE Passed(off)'
    BY <2>1, <2>2 DEF Passed, Whole
  <2> QED BY <1>b, <1>c, <2>1, <2>2
<1>7. CASE ReadLines
  <2> DEFINE events == revs \o events_of(files[rseg])
  <2>1. /\ rpc = "lines" /\ UNCHANGED <<disk, committed, rman, rstart>>
        /\ \/ rpc' = "idle" /\ result' = IntegrityError
           \/ rpc' = "bytes" /\ result' = result /\ rseg' = rseg + 1 /\ revs' = events
           \/ /\ ~(rseg < Len(rman.segments)) /\ rpc' = "idle"
              /\ total_matches(rman, events) /\ result' = Ok(events)
    BY <1>7 DEF ReadLines, load_returns
  <2>2. ASSUME NEW off \in [1..(Len(rman.segments) + 1) -> Nat], Loaded(off), Passed(off)
        PROVE  /\ events \in Seq(Events)
               /\ off[rseg + 1] <= Len(events)
               /\ Whole(rman, off) /\ Len(events) = off[rseg + 1] =>
                    /\ off[rseg + 1] <= Len(committed)
                    /\ \A i \in 1..off[rseg + 1] : events[i] = committed[i]
    BY <1>7, <2>2, LinesRead
  <2> HIDE DEF events
  <2>3. CASE rpc' = "bytes" /\ result' = result /\ rseg' = rseg + 1 /\ revs' = events
    <3>1. ASSUME NEW off \in [1..(Len(rman.segments) + 1) -> Nat], Loaded(off), Passed(off)
          PROVE  Passed(off)'
      BY <2>1, <2>2, <2>3, <3>1 DEF Passed, Whole
    <3> QED BY <1>b, <2>1, <2>3, <3>1
  <2>4. CASE /\ ~(rseg < Len(rman.segments)) /\ rpc' = "idle"
             /\ total_matches(rman, events) /\ result' = Ok(events)
    <3>1. PICK off \in [1..(Len(rman.segments) + 1) -> Nat] : Loaded(off) /\ Passed(off)
      BY <2>1 DEF ReaderInv
    <3>2. rseg = Len(rman.segments) /\ rman \in JournalManifest
      <4>1. Sized(rman, 0, used) /\ rseg <= Len(rman.segments)
        BY <2>1 DEF SizeInv
      <4>2. rman \in JournalManifest /\ Len(rman.segments) \in Nat
        BY <4>1, ManifestFields DEF Sized
      <4> QED BY <2>4, <4>1, <4>2 DEF Types
    <3>3. /\ events \in Seq(Events) /\ off[rseg + 1] <= Len(events)
          /\ rman.total_events <= off[rseg + 1] /\ Len(events) = rman.total_events
      BY <2>2, <2>4, <3>1, <3>2 DEF Loaded, Layout, total_matches
    <3>4. off[rseg + 1] \in Nat /\ Len(events) \in Nat
      <4>1. rseg + 1 \in 1..(Len(rman.segments) + 1)
        BY <3>2, ManifestFields DEF Types
      <4> QED BY <3>3, <4>1
    <3>5. off[rseg + 1] = rman.total_events /\ Whole(rman, off)
      BY <3>2, <3>3, <3>4, ManifestFields DEF Whole
    <3>6. /\ Len(events) <= Len(committed)
          /\ \A i \in 1..Len(events) : events[i] = committed[i]
      BY <2>2, <3>1, <3>3, <3>5
    <3>7. ToSet(rstart) \subseteq {committed[i] : i \in 1..Len(events)}
      BY <3>1, <3>3, <3>5 DEF Loaded
    <3>8. ToSet(events) = {events[i] : i \in 1..Len(events)}
      BY <3>3 DEF ToSet
    <3>9. result'.events = events
      BY <2>4 DEF Ok
    <3>10. ToSet(rstart') \subseteq ToSet(result'.events) /\ Extends(result'.events, committed')
      <4>1. Extends(events, committed)
        BY <3>3, <3>6 DEF Extends
      <4>2. ToSet(rstart) \subseteq ToSet(events)
        BY <3>6, <3>7, <3>8
      <4> QED BY <2>1, <3>9, <4>1, <4>2
    <3> QED BY <2>4, <3>10 DEF ReaderInv
  <2> QED BY <1>c, <2>1, <2>3, <2>4
<1> QED BY <1>1, <1>2, <1>3, <1>4, <1>5, <1>6, <1>7 DEF Next

-----------------------------------------------------------------------------
(* Theorems.                                                               *)

\* The directory, the calls and what load returns keep their types, and every
\* manifest its sizes, with any number of append calls at a time.
THEOREM TypesAndSizes == Spec => [](Types /\ SizeInv)
<1>1. Init => Types /\ SizeInv
  BY InitTypes
<1>2. (Types /\ SizeInv) /\ [Next]_vars => (Types /\ SizeInv)'
  BY TypeNext, SizeNext
<1> QED BY <1>1, <1>2, PTL DEF Spec

\* No manifest that is saved names a segment without an event, either.
THEOREM TypeCorrect == Spec => []TypeOK
<1>1. Types /\ SizeInv => TypeOK
  <2> SUFFICES ASSUME Types, SizeInv, manifest # None
               PROVE  Len(manifest.segments) \in 1..manifest.total_events
    BY DEF TypeOK
  <2>1. manifest \in JournalManifest /\ Len(manifest.segments) \in 1..(manifest.total_events + 0)
    BY DEF SizeInv, Sized
  <2> QED BY <2>1, ManifestFields
<1> QED BY <1>1, TypesAndSizes, PTL

\* The inductive invariant with one append call at a time.
THEOREM AloneInvariant ==
  ASSUME Alone
  PROVE  Spec => [](Types /\ SizeInv /\ WriterInv /\ ReaderInv)
<1> DEFINE IInv == Types /\ SizeInv /\ WriterInv /\ ReaderInv
<1>1. Init => IInv
  BY InitTypes, InitAlone
<1>2. IInv /\ [Next]_vars => IInv'
  <2> SUFFICES ASSUME IInv, [Next]_vars PROVE IInv'
    OBVIOUS
  <2>1. Types' /\ SizeInv'
    BY TypeNext, SizeNext
  <2>2. WriterInv'
    BY <2>1, WriterNext
  <2>3. ReaderInv'
    BY <2>1, ReaderNext
  <2> QED BY <2>1, <2>2, <2>3
<1> HIDE DEF IInv
<1>3. Spec => []IInv
  BY <1>1, <1>2, PTL DEF Spec
<1> QED BY <1>3 DEF IInv

\* Content that extends another has it as a prefix.
LEMMA ExtendsPrefix ==
  ASSUME NEW S, NEW c \in Seq(S), NEW d \in Seq(S), Extends(c, d)
  PROVE  IsPrefix(c, d)
<1>1. SubSeq(c, 1, Len(c)) = c
  OBVIOUS
<1>2. SubSeq(d, 1, Len(c)) = c
  BY DEF Extends
<1> QED BY <1>1, <1>2 DEF Extends, IsPrefix

\* append never overwrites what the manifest vouches for, whatever failed or
\* was torn before.
THEOREM NothingOverwritten ==
  ASSUME Alone
  PROVE  Spec => []ManifestNeverAhead
<1>1. Types /\ SizeInv /\ WriterInv => ManifestNeverAhead
  <2> SUFFICES ASSUME Types, SizeInv, WriterInv, manifest # None, NEW i \in DOMAIN manifest.segments
               PROVE  IsPrefix(manifest.segments[i].checksum, files[i])
    BY DEF ManifestNeverAhead
  <2>1. Kept(manifest, Len(manifest.segments), files) /\ Sized(manifest, 0, used)
    BY DEF WriterInv, SizeInv
  <2>2. i \in 1..Len(manifest.segments) /\ Len(manifest.segments) \in Events
    <3>1. manifest \in JournalManifest /\ Len(manifest.segments) \in Events
      BY <2>1, SizedType DEF Types
    <3>2. manifest.segments \in Seq(SegmentMetadata)
      BY <3>1, ManifestFields
    <3> QED BY <3>1, <3>2
  <2>3. i \in Events
    BY <2>2, JournalAssumption DEF Events
  <2>4. /\ manifest.segments[i].checksum \in Content /\ files[i] \in Content
        /\ Extends(manifest.segments[i].checksum, files[i])
    BY <2>1, <2>2, <2>3 DEF Kept, Types
  <2> QED BY <2>4, ExtendsPrefix DEF Content
<1> QED BY <1>1, AloneInvariant, PTL

\* A load that succeeds returns every event acknowledged before it, in append
\* order, and only committed ones, whatever failed before and beside it.
THEOREM LoadsAreSound ==
  ASSUME Alone
  PROVE  Spec => []LoadSound
<1>1. Types /\ ReaderInv => LoadSound
  <2> SUFFICES ASSUME Types, ReaderInv, is_ok(result)
               PROVE  /\ ToSet(rstart) \subseteq ToSet(result.events)
                      /\ IsPrefix(result.events, committed)
    BY DEF LoadSound
  <2>1. /\ ToSet(rstart) \subseteq ToSet(result.events) /\ Extends(result.events, committed)
        /\ result.events \in Seq(Events) /\ committed \in Seq(Events)
    BY DEF ReaderInv, Types, is_ok
  <2> QED BY <2>1, ExtendsPrefix
<1> QED BY <1>1, AloneInvariant, PTL

-----------------------------------------------------------------------------
(* Sequences flattened.  What the recursion behind FlattenSeq returns is   *)
(* proved by the least number at which it would go wrong.                  *)

\* Every set of naturals that has an element has a least one.
LEMMA LeastNatural ==
  ASSUME NEW T \in SUBSET Nat, T # {}
  PROVE  \E x \in T : \A y \in T : ~(y < x)
<1> DEFINE R == OpToRel(<, Nat)
<1>1. IsWellFoundedOn(R, Nat)
  BY NatLessThanWellFounded
<1>2. \A y, x \in Nat : y < x => <<y, x>> \in R
  BY DEF OpToRel
<1> HIDE DEF R
<1>3. \E x \in T : \A y \in T : ~(<<y, x>> \in R)
  BY <1>1, WFMin
<1> QED BY <1>2, <1>3

\* f joins the first i sequences of s at each i.
Joins(f, s) == f = [i \in 1..Len(s) |-> IF i = 1 THEN s[i] ELSE f[i - 1] \o s[i]]

\* Such a function exists: if not, there is a least length without one.
LEMMA JoinsExist ==
  ASSUME NEW T, NEW s \in Seq(Seq(T))
  PROVE  \E f \in [1..Len(s) -> Seq(T)] : Joins(f, s)
<1> DEFINE upto(n, f) == \A i \in 1..n : f[i] = IF i = 1 THEN s[i] ELSE f[i - 1] \o s[i]
           Bad == {n \in 1..Len(s) : ~\E f \in [1..n -> Seq(T)] : upto(n, f)}
<1>1. Len(s) \in Nat /\ \A i \in 1..Len(s) : s[i] \in Seq(T)
  OBVIOUS
<1>2. ASSUME NEW n \in 1..Len(s), \A m \in Bad : ~(m < n) PROVE n \notin Bad
  <2>1. CASE n = 1
    <3> DEFINE f == [i \in 1..n |-> s[i]]
    <3>1. f \in [1..n -> Seq(T)] /\ upto(n, f)
      BY <1>1, <2>1
    <3> QED BY <3>1
  <2>2. CASE n # 1
    <3>0. n - 1 \in 1..Len(s) /\ n - 1 < n
      BY <1>1, <2>2
    <3>1. n - 1 \in 1..Len(s) /\ ~(n - 1 \in Bad)
      <4> HIDE DEF Bad
      <4> QED BY <1>2, <3>0
    <3>2. PICK f \in [1..(n - 1) -> Seq(T)] : upto(n - 1, f)
      BY <3>1
    <3> DEFINE g == [i \in 1..n |-> IF i = n THEN f[n - 1] \o s[n] ELSE f[i]]
    <3>3. f[n - 1] \in Seq(T) /\ s[n] \in Seq(T)
      BY <1>1, <3>1, <3>2
    <3>4. f[n - 1] \o s[n] \in Seq(T)
      BY <3>3
    <3>5. /\ g \in [1..n -> Seq(T)]
          /\ g[n] = f[n - 1] \o s[n]
          /\ \A i \in 1..n : i # n => g[i] = f[i]
      <4>1. \A i \in 1..n : i # n => i \in 1..(n - 1)
        OBVIOUS
      <4>2. \A i \in 1..n : i # n => f[i] \in Seq(T)
        BY <4>1, <3>2
      <4>3. g \in [1..n -> Seq(T)]
        BY <3>4, <4>2
      <4>4. n \in 1..n
        BY <1>1
      <4> QED BY <4>3, <4>4
    <3>6. ASSUME NEW i \in 1..n PROVE g[i] = IF i = 1 THEN s[i] ELSE g[i - 1] \o s[i]
      <4> HIDE DEF g
      <4>1. CASE i = n
        <5>1. n - 1 \in 1..n /\ n - 1 # n
          BY <3>0
        <5> QED BY <2>2, <3>5, <4>1, <5>1
      <4>2. CASE i # n
        <5>1. i \in 1..(n - 1) /\ (i # 1 => i - 1 \in 1..(n - 1) /\ i - 1 # n)
          BY <1>1, <4>2
        <5>2. f[i] = IF i = 1 THEN s[i] ELSE f[i - 1] \o s[i]
          BY <3>2, <5>1
        <5>3. g[i] = f[i] /\ (i # 1 => g[i - 1] = f[i - 1])
          BY <1>1, <3>5, <4>2, <5>1
        <5> QED BY <5>2, <5>3
      <4> QED BY <4>1, <4>2
    <3> QED BY <3>5, <3>6
  <2> QED BY <2>1, <2>2
<1>3. Bad = {}
  <2> SUFFICES ASSUME Bad # {} PROVE FALSE
    OBVIOUS
  <2>1. Bad \in SUBSET Nat /\ Bad \subseteq 1..Len(s)
    OBVIOUS
  <2> HIDE DEF Bad
  <2> QED BY <1>2, <2>1, LeastNatural
<1>4. CASE Len(s) = 0
  <2> DEFINE f == [i \in 1..Len(s) |-> s[i]]
  <2>1. f \in [1..Len(s) -> Seq(T)]
    BY <1>1
  <2>2. f = [i \in 1..Len(s) |-> IF i = 1 THEN s[i] ELSE f[i - 1] \o s[i]]
    BY <1>4
  <2> QED BY <2>1, <2>2 DEF Joins
<1>5. CASE Len(s) # 0
  <2>1. Len(s) \in 1..Len(s)
    BY <1>1, <1>5
  <2>2. PICK f \in [1..Len(s) -> Seq(T)] : upto(Len(s), f)
    BY <1>3, <2>1
  <2> QED BY <2>2 DEF Joins
<1> QED BY <1>4, <1>5

\* Two of them agree: if not, there is a least place where they differ.
LEMMA JoinsUnique ==
  ASSUME NEW s, NEW n \in Nat, n = Len(s), NEW f, Joins(f, s), NEW g, Joins(g, s)
  PROVE  \A i \in 1..n : f[i] = g[i]
<1> DEFINE Bad == {i \in 1..n : f[i] # g[i]}
<1>1. \A i \in 1..n : /\ f[i] = IF i = 1 THEN s[i] ELSE f[i - 1] \o s[i]
                      /\ g[i] = IF i = 1 THEN s[i] ELSE g[i - 1] \o s[i]
  BY DEF Joins
<1>2. ASSUME NEW i \in Bad, \A j \in Bad : ~(j < i) PROVE FALSE
  <2>1. i # 1 /\ i - 1 \in 1..n
    BY <1>1
  <2>2. f[i - 1] = g[i - 1]
    BY <1>2, <2>1
  <2> QED BY <1>1, <2>1, <2>2
<1>3. Bad \in SUBSET Nat
  OBVIOUS
<1> HIDE DEF Bad
<1>4. Bad = {}
  BY <1>2, <1>3, LeastNatural
<1> QED BY <1>4 DEF Bad

\* FlattenSeq is what any such function has at the last sequence.
LEMMA FlattenJoins ==
  ASSUME NEW T, NEW s \in Seq(Seq(T)), Len(s) # 0, NEW f, Joins(f, s)
  PROVE  FlattenSeq(s) = f[Len(s)]
<1> DEFINE h == CHOOSE x : x = [i \in 1..Len(s) |-> IF i = 1 THEN s[i] ELSE x[i - 1] \o s[i]]
<1>1. FlattenSeq(s) = h[Len(s)]
  BY DEF FlattenSeq
<1>2. Joins(h, s)
  BY DEF Joins
<1>3. Len(s) \in Nat /\ Len(s) \in 1..Len(s)
  OBVIOUS
<1> HIDE DEF h
<1> QED BY <1>1, <1>2, <1>3, JoinsUnique

\* One sequence is what it flattens to.
LEMMA FlattenOne ==
  ASSUME NEW x
  PROVE  FlattenSeq(<<x>>) = x
<1> DEFINE s == <<x>>
           h == CHOOSE f : f = [i \in 1..Len(s) |-> IF i = 1 THEN s[i] ELSE f[i - 1] \o s[i]]
           g == [i \in 1..Len(s) |-> x]
<1>1. Len(s) = 1 /\ s[1] = x
  OBVIOUS
<1>2. FlattenSeq(s) = h[1]
  BY <1>1 DEF FlattenSeq
<1>3. g = [i \in 1..Len(s) |-> IF i = 1 THEN s[i] ELSE g[i - 1] \o s[i]]
  BY <1>1
<1>4. h = [i \in 1..Len(s) |-> IF i = 1 THEN s[i] ELSE h[i - 1] \o s[i]]
  BY <1>3
<1> HIDE DEF s, h, g
<1>5. h[1] = x
  BY <1>1, <1>4
<1> QED BY <1>2, <1>5 DEF s

\* What flattening returns is a sequence of the elements.
LEMMA FlattenTyped ==
  ASSUME NEW T, NEW s \in Seq(Seq(T)), Len(s) # 0
  PROVE  FlattenSeq(s) \in Seq(T)
<1>1. PICK f \in [1..Len(s) -> Seq(T)] : Joins(f, s)
  BY JoinsExist
<1>2. f[Len(s)] \in Seq(T)
  <2>1. Len(s) \in 1..Len(s)
    OBVIOUS
  <2> QED BY <2>1
<1>3. FlattenSeq(s) = f[Len(s)]
  BY <1>1, FlattenJoins
<1> QED BY <1>2, <1>3

\* A further sequence comes after all others.
LEMMA FlattenAppend ==
  ASSUME NEW T, NEW s \in Seq(Seq(T)), Len(s) # 0, NEW x \in Seq(T)
  PROVE  FlattenSeq(Append(s, x)) = FlattenSeq(s) \o x
<1> DEFINE t == Append(s, x)
           n == Len(s)
<1>1. PICK f \in [1..n -> Seq(T)] : Joins(f, s)
  BY JoinsExist
<1>4. t \in Seq(Seq(T))
  OBVIOUS
<1>2. PICK g \in [1..Len(t) -> Seq(T)] : Joins(g, t)
  <2> HIDE DEF t
  <2> QED BY <1>4, JoinsExist
<1>3. /\ n \in Nat /\ n # 0 /\ Len(t) = n + 1 /\ t[n + 1] = x
      /\ \A i \in 1..n : t[i] = s[i]
  OBVIOUS
<1> HIDE DEF t, n
<1> DEFINE h == [i \in 1..n |-> g[i]]
<1>5. Joins(h, s)
  <2>1. \A i \in 1..n : g[i] = IF i = 1 THEN s[i] ELSE g[i - 1] \o s[i]
    <3>1. \A i \in 1..Len(t) : g[i] = IF i = 1 THEN t[i] ELSE g[i - 1] \o t[i]
      BY <1>2 DEF Joins
    <3>2. \A i \in 1..n : i \in 1..Len(t) /\ t[i] = s[i]
      BY <1>3
    <3> QED BY <3>1, <3>2
  <2>2. \A i \in 1..n : h[i] = g[i] /\ (i # 1 => h[i - 1] = g[i - 1])
    BY <1>3
  <2>3. h = [i \in 1..n |-> IF i = 1 THEN s[i] ELSE h[i - 1] \o s[i]]
    BY <2>1, <2>2
  <2> QED BY <2>3 DEF Joins, n
<1>6. h[n] = FlattenSeq(s) /\ g[n + 1] = FlattenSeq(t)
  <2> HIDE DEF h
  <2>1. Len(s) # 0 /\ Len(t) # 0
    BY <1>3
  <2>2. FlattenSeq(s) = h[Len(s)]
    BY <1>5, <2>1, FlattenJoins
  <2>3. FlattenSeq(t) = g[Len(t)]
    BY <1>2, <1>4, <2>1, FlattenJoins
  <2> QED BY <1>3, <2>2, <2>3 DEF n
<1>7. g[n + 1] = g[n] \o t[n + 1] /\ h[n] = g[n]
  <2>1. n + 1 \in 1..Len(t) /\ n + 1 # 1 /\ (n + 1) - 1 = n /\ n \in 1..n
    BY <1>3
  <2> QED BY <1>2, <2>1 DEF Joins
<1> QED BY <1>3, <1>6, <1>7 DEF t

\* Of n sequences the last one has a further element.
Grows(s, t, n, e) ==
  /\ s \in Seq(Seq(Events)) /\ t \in Seq(Seq(Events)) /\ e \in Events
  /\ n \in Nat /\ n # 0 /\ Len(s) = n /\ Len(t) = n
  /\ \A i \in 1..(n - 1) : t[i] = s[i]
  /\ t[n] = Append(s[n], e)

\* A further element of the last sequence comes after all others.
LEMMA FlattenGrow ==
  ASSUME NEW s, NEW t, NEW n, NEW e, Grows(s, t, n, e)
  PROVE  FlattenSeq(t) = Append(FlattenSeq(s), e)
<1> SUFFICES ASSUME s \in Seq(Seq(Events)), t \in Seq(Seq(Events)), n \in Nat, n # 0, Len(s) = n, Len(t) = n, e \in Events,
                    \A i \in 1..(n - 1) : t[i] = s[i],
                    t[n] = Append(s[n], e)
             PROVE  FlattenSeq(t) = Append(FlattenSeq(s), e)
  BY DEF Grows
<1>1. PICK f \in [1..n -> Seq(Events)] : Joins(f, s)
  BY JoinsExist
<1>2. n \in 1..n /\ f[n] \in Seq(Events) /\ s[n] \in Seq(Events)
  BY <1>1
<1> DEFINE g == [f EXCEPT ![n] = Append(f[n], e)]
<1>3. /\ g[n] = Append(f[n], e)
      /\ \A i \in 1..n : i # n => g[i] = f[i]
      /\ g = [i \in 1..n |-> g[i]]
  BY <1>2
<1>4. \A i \in 1..n : f[i] = IF i = 1 THEN s[i] ELSE f[i - 1] \o s[i]
  BY <1>1 DEF Joins
<1> HIDE DEF g
<1>5. ASSUME NEW i \in 1..n PROVE g[i] = IF i = 1 THEN t[i] ELSE g[i - 1] \o t[i]
  <2>1. CASE i # n
    <3>1. i \in 1..(n - 1) /\ (i # 1 => i - 1 \in 1..n /\ i - 1 # n)
      BY <2>1
    <3> QED BY <1>3, <1>4, <2>1, <3>1
  <2>2. CASE i = n /\ i = 1
    BY <1>3, <1>4, <2>2
  <2>3. CASE i = n /\ i # 1
    <3>1. n - 1 \in 1..n /\ n - 1 # n
      BY <2>3
    <3>2. f[n - 1] \in Seq(Events) /\ f[n] = f[n - 1] \o s[n] /\ g[n - 1] = f[n - 1]
      BY <1>1, <1>3, <1>4, <2>3, <3>1
    <3>3. Append(f[n - 1] \o s[n], e) = f[n - 1] \o Append(s[n], e)
      <4> DEFINE a == f[n - 1]
                 b == s[n]
                 l == Append(a \o b, e)
                 r == a \o Append(b, e)
      <4>1. a \in Seq(Events) /\ b \in Seq(Events)
        BY <1>2, <3>2
      <4> HIDE DEF a, b
      <4>2. l \in Seq(Events) /\ r \in Seq(Events) /\ Len(l) = Len(r)
        BY <4>1
      <4>3. \A j \in 1..Len(l) : l[j] = r[j]
        <5>1. /\ Len(a) \in Nat /\ Len(b) \in Nat /\ Len(a \o b) = Len(a) + Len(b)
              /\ a \o b \in Seq(Events)
          BY <4>1
        <5>2. \A j \in 1..(Len(a) + Len(b)) : l[j] = (a \o b)[j]
          BY <5>1
        <5>3. l[Len(a) + Len(b) + 1] = e /\ Len(l) = Len(a) + Len(b) + 1
          BY <5>1
        <5>4. \A j \in 1..(Len(a) + Len(b)) : r[j] = (a \o b)[j]
          BY <4>1, <5>1
        <5>5. r[Len(a) + Len(b) + 1] = e
          BY <4>1, <5>1
        <5> DEFINE k == Len(a) + Len(b)
        <5>6. k \in Nat /\ Len(l) = k + 1
          BY <5>1, <5>3
        <5> HIDE DEF l, r, k
        <5>7. \A j \in 1..Len(l) : j \in 1..k \/ j = k + 1
          BY <5>6
        <5> QED BY <5>2, <5>3, <5>4, <5>5, <5>7 DEF k
      <4> HIDE DEF l, r
      <4>4. l = r
        BY <4>2, <4>3, SeqEqual
      <4> QED BY <4>4 DEF a, b, l, r
    <3> QED BY <1>3, <2>3, <3>2, <3>3
  <2> QED BY <2>1, <2>2, <2>3
<1>6. Joins(g, t)
  <2>1. g = [i \in 1..n |-> IF i = 1 THEN t[i] ELSE g[i - 1] \o t[i]]
    BY <1>3, <1>5
  <2> QED BY <2>1 DEF Joins
<1>7. FlattenSeq(s) = f[n] /\ FlattenSeq(t) = g[n]
  BY <1>1, <1>6, FlattenJoins
<1> QED BY <1>3, <1>7

-----------------------------------------------------------------------------
(* Without failures the directory is an append-only log.                   *)

\* The events that a manifest has recorded, segment after segment.
Parts(m) == [i \in 1..Len(m.segments) |-> events_of(recorded(m.segments[i]))]

\* The log that m vouches for.
Vouched(m) == FlattenSeq(Parts(m))

\* The files f hold what m has recorded and nothing else.
Mirrors(m, f) ==
  /\ \A i \in 1..Len(m.segments) : f[i] = recorded(m.segments[i])
  /\ \A i \in Events : i > Len(m.segments) => f[i] = <<>>

Line(w) == [event |-> wev[w], whole |-> TRUE]

\* Where no append call fails.
SmoothInv ==
  /\ manifest # None => Vouched(manifest) = committed
  /\ (\A w \in Writers : wpc[w] \in {"idle", "return"}) =>
       IF manifest = None THEN \A i \in Events : files[i] = <<>> ELSE Mirrors(manifest, files)
  /\ \A w \in Writers :
       /\ wpc[w] = "write" => Mirrors(wman[w], files)
       /\ wpc[w] = "read" =>
            \E before \in [Events -> Content] :
              /\ Mirrors(wman[w], before)
              /\ files = [before EXCEPT ![Len(wman[w].segments)] = Append(@, Line(w))]
       /\ wpc[w] \in Busy => Vouched(wman[w]) = committed
       /\ wpc[w] \in {"save", "rename"} =>
            /\ Mirrors(wman[w], files)
            /\ Vouched(wman[w]) = Append(committed, wev[w])

\* What is recorded of a segment that is the content of a file.
LEMMA PartsTyped ==
  ASSUME NEW m \in JournalManifest, NEW f \in [Events -> Content],
         Len(m.segments) \in Events, Mirrors(m, f)
  PROVE  /\ Parts(m) \in Seq(Seq(Events)) /\ Len(Parts(m)) = Len(m.segments)
         /\ \A i \in 1..Len(m.segments) :
              Parts(m)[i] = events_of(f[i]) /\ Parts(m)[i] \in Seq(Events)
<1> DEFINE n == Len(m.segments)
<1>1. n \in Nat /\ 1..n \subseteq Events
  BY JournalAssumption DEF Events
<1>2. \A i \in 1..n : f[i] \in Content /\ f[i] = recorded(m.segments[i])
  BY <1>1 DEF Mirrors
<1> HIDE DEF n
<1>3. \A i \in 1..n : events_of(f[i]) \in Seq(Events)
  BY <1>2, EventsOf
<1>4. Parts(m) = [i \in 1..n |-> events_of(f[i])]
  BY <1>2 DEF Parts, n
<1>5. Parts(m) \in [1..n -> Seq(Events)]
  BY <1>3, <1>4
<1> QED BY <1>1, <1>3, <1>4, <1>5 DEF n

\* A new journal has recorded nothing.
LEMMA RecordedNew ==
  /\ Vouched(JournalManifest_new) = <<>>
  /\ Len(JournalManifest_new.segments) = 1
  /\ recorded(JournalManifest_new.segments[1]) = <<>>
<1>1. /\ Len(JournalManifest_new.segments) = 1
      /\ recorded(JournalManifest_new.segments[1]) = <<>>
  BY NewSegment DEF recorded
<1>2. <<>> \in Content /\ Len(<<>>) = 0
  BY DEF Content
<1>3. events_of(<<>>) = <<>>
  BY DEF events_of
<1>4. Parts(JournalManifest_new) = <<(<<>>)>>
  <2>1. Parts(JournalManifest_new) = [i \in 1..1 |-> events_of(recorded(JournalManifest_new.segments[i]))]
    BY <1>1 DEF Parts
  <2>2. Parts(JournalManifest_new) = [i \in 1..1 |-> <<>>]
    BY <1>1, <1>3, <2>1
  <2> QED BY <2>2
<1> QED BY <1>1, <1>4, FlattenOne DEF Vouched

\* Rolling the segment records nothing.
LEMMA RecordedRolled ==
  ASSUME NEW m \in JournalManifest, NEW f \in [Events -> Content],
         Len(m.segments) \in Events, Len(m.segments) + 1 \in Events, Mirrors(m, f)
  PROVE  /\ Vouched(roll_segment(m)) = Vouched(m)
         /\ Mirrors(roll_segment(m), f)
<1> DEFINE n == Len(m.segments)
           r == roll_segment(m)
<1>1. /\ r \in JournalManifest /\ Len(r.segments) = n + 1
      /\ \A i \in 1..n : r.segments[i] = m.segments[i]
      /\ r.segments[n + 1] = SegmentMetadata_new
  BY Rolled
<1>2. n \in Nat /\ n \in Events /\ n + 1 \in Events /\ n # 0
  BY JournalAssumption DEF Events
<1>3. recorded(r.segments[n + 1]) = <<>>
  BY <1>1, NewSegment DEF recorded
<1>4. \A i \in Events : i > n => f[i] = <<>>
  BY DEF Mirrors
<1>5. \A i \in 1..n : f[i] = recorded(m.segments[i])
  BY DEF Mirrors
<1>6. f[n + 1] = <<>>
  BY <1>2, <1>4
<1> HIDE DEF n, r
<1>7. Mirrors(r, f)
  <2>1. ASSUME NEW i \in 1..(n + 1) PROVE f[i] = recorded(r.segments[i])
    <3>1. CASE i \in 1..n
      BY <1>1, <1>5, <3>1
    <3>2. CASE i = n + 1
      BY <1>3, <1>6, <3>2
    <3> QED BY <1>2, <3>1, <3>2
  <2>2. \A i \in Events : i > n + 1 => i > n
    BY <1>2 DEF Events
  <2> QED BY <1>1, <1>4, <2>1, <2>2 DEF Mirrors
<1>8. /\ Parts(m) \in Seq(Seq(Events)) /\ Len(Parts(m)) = n
      /\ \A i \in 1..n : Parts(m)[i] = events_of(f[i])
  BY PartsTyped DEF n
<1>9. /\ Parts(r) \in Seq(Seq(Events)) /\ Len(Parts(r)) = n + 1
      /\ \A i \in 1..(n + 1) : Parts(r)[i] = events_of(f[i])
  BY <1>1, <1>2, <1>7, PartsTyped
<1>10. <<>> \in Seq(Events) /\ events_of(<<>>) = <<>>
  BY DEF events_of
<1> DEFINE more == Append(Parts(m), <<>>)
<1>11. /\ more \in Seq(Seq(Events)) /\ Len(more) = n + 1
       /\ \A i \in 1..n : more[i] = Parts(m)[i]
       /\ more[n + 1] = <<>>
  BY <1>8, <1>10
<1> HIDE DEF more
<1>12. \A i \in 1..(n + 1) : Parts(r)[i] = more[i]
  <2> SUFFICES ASSUME NEW i \in 1..(n + 1) PROVE Parts(r)[i] = more[i]
    OBVIOUS
  <2>1. CASE i \in 1..n
    BY <1>2, <1>8, <1>9, <1>11, <2>1
  <2>2. CASE i = n + 1
    BY <1>6, <1>9, <1>10, <1>11, <2>2
  <2> QED BY <1>2, <2>1, <2>2
<1>13. Parts(r) = more
  BY <1>9, <1>11, <1>12, SeqEqual
<1>14. FlattenSeq(more) = FlattenSeq(Parts(m)) \o <<>>
  BY <1>2, <1>8, <1>10, FlattenAppend DEF more
<1>15. FlattenSeq(Parts(m)) \in Seq(Events)
  BY <1>2, <1>8, FlattenTyped
<1>16. FlattenSeq(Parts(m)) \o <<>> = FlattenSeq(Parts(m))
  BY <1>15
<1> QED BY <1>7, <1>13, <1>14, <1>16 DEF Vouched, r

\* Recording the line that was just written appends its event.
LEMMA RecordedMore ==
  ASSUME NEW m \in JournalManifest, NEW f \in [Events -> Content], NEW g \in [Events -> Content],
         NEW e \in Events, Len(m.segments) \in Events, Mirrors(m, f),
         g = [f EXCEPT ![Len(m.segments)] = Append(@, [event |-> e, whole |-> TRUE])]
  PROVE  LET r == manifest_with(m, e, g[Len(m.segments)])
         IN Vouched(r) = Append(Vouched(m), e) /\ Mirrors(r, g)
<1> DEFINE n == Len(m.segments)
           r == manifest_with(m, e, g[n])
<1>2. n \in Nat /\ n \in Events /\ n # 0 /\ 1..n \subseteq Events
  BY JournalAssumption DEF Events
<1>1. /\ r \in JournalManifest /\ Len(r.segments) = n
      /\ \A i \in 1..(n - 1) : r.segments[i] = m.segments[i]
      /\ r.segments[n].event_count = m.segments[n].event_count + 1
      /\ r.segments[n].checksum = g[n]
  <2>1. g[n] \in Content
    BY <1>2
  <2> DEFINE c == g[n]
  <2> HIDE DEF c
  <2>2. c \in Content
    BY <2>1 DEF c
  <2>3. LET x == manifest_with(m, e, c)
        IN /\ x \in JournalManifest /\ Len(x.segments) = n
           /\ \A i \in 1..(n - 1) : x.segments[i] = m.segments[i]
           /\ x.segments[n].event_count = m.segments[n].event_count + 1
           /\ x.segments[n].checksum = c
    BY <1>2, <2>2, ManifestWith
  <2> QED BY <2>3 DEF c
<1>3. recorded(r.segments[n]) = g[n]
  <2>1. m.segments[n].event_count \in Nat
    BY <1>2, ManifestFields
  <2> QED BY <1>1, <2>1 DEF recorded
<1>4. \A i \in Events : i > n => f[i] = <<>>
  BY DEF Mirrors
<1>5. \A i \in 1..n : f[i] = recorded(m.segments[i])
  BY DEF Mirrors
<1>6. /\ \A i \in Events : i # n => g[i] = f[i]
      /\ g[n] = Append(f[n], [event |-> e, whole |-> TRUE])
  BY <1>2
<1> HIDE DEF n, r
<1>7. Mirrors(r, g)
  <2>1. ASSUME NEW i \in 1..n PROVE g[i] = recorded(r.segments[i])
    <3>1. CASE i # n
      <4>1. i \in 1..(n - 1) /\ i \in Events
        BY <1>2, <3>1
      <4> QED BY <1>1, <1>5, <1>6, <3>1, <4>1
    <3>2. CASE i = n
      BY <1>3, <3>2
    <3> QED BY <3>1, <3>2
  <2>2. \A i \in Events : i > n => i # n
    BY <1>2 DEF Events
  <2> QED BY <1>1, <1>4, <1>6, <2>1, <2>2 DEF Mirrors
<1>8. /\ Parts(m) \in Seq(Seq(Events)) /\ Len(Parts(m)) = n
      /\ \A i \in 1..n : Parts(m)[i] = events_of(f[i])
  BY PartsTyped DEF n
<1>9. /\ Parts(r) \in Seq(Seq(Events)) /\ Len(Parts(r)) = n
      /\ \A i \in 1..n : Parts(r)[i] = events_of(g[i])
  BY <1>1, <1>2, <1>7, PartsTyped
<1>10. \A i \in 1..(n - 1) : Parts(r)[i] = Parts(m)[i]
  <2>1. \A i \in 1..(n - 1) : i \in 1..n /\ i \in Events /\ i # n
    BY <1>2
  <2> QED BY <1>6, <1>8, <1>9, <2>1
<1>11. events_of(g[n]) = Append(events_of(f[n]), e)
  <2> DEFINE c == f[n]
             d == g[n]
  <2>1. c \in Seq(Piece) /\ d = Append(c, [event |-> e, whole |-> TRUE]) /\ d \in Content
    BY <1>2, <1>6 DEF Content
  <2> HIDE DEF c, d
  <2>2. /\ Len(d) = Len(c) + 1 /\ Len(c) \in Nat
        /\ \A i \in 1..Len(c) : d[i] = c[i]
        /\ d[Len(c) + 1] = [event |-> e, whole |-> TRUE]
    BY <2>1
  <2>3. /\ events_of(c) \in Seq(Events) /\ Len(events_of(c)) = Len(c)
        /\ \A i \in 1..Len(c) : events_of(c)[i] = c[i].event
    BY <2>1, EventsOf DEF Content
  <2>4. /\ events_of(d) \in Seq(Events) /\ Len(events_of(d)) = Len(d)
        /\ \A i \in 1..Len(d) : events_of(d)[i] = d[i].event
    BY <2>1, EventsOf
  <2> DEFINE x == Append(events_of(c), e)
  <2>5. /\ x \in Seq(Events) /\ Len(x) = Len(c) + 1 /\ x[Len(c) + 1] = e
        /\ \A i \in 1..Len(c) : x[i] = events_of(c)[i]
    BY <2>2, <2>3
  <2> HIDE DEF x
  <2>6. \A i \in 1..Len(d) : i \in 1..Len(c) \/ i = Len(c) + 1
    BY <2>2
  <2>7. \A i \in 1..Len(d) : events_of(d)[i] = x[i]
    <3> SUFFICES ASSUME NEW i \in 1..Len(d) PROVE events_of(d)[i] = x[i]
      OBVIOUS
    <3>1. events_of(d)[i] = d[i].event
      BY <2>4
    <3>2. CASE i \in 1..Len(c)
      <4>1. d[i] = c[i] /\ events_of(c)[i] = c[i].event /\ x[i] = events_of(c)[i]
        BY <2>2, <2>3, <2>5, <3>2
      <4> QED BY <3>1, <4>1
    <3>3. CASE i = Len(c) + 1
      <4>1. d[i].event = e /\ x[i] = e
        BY <2>2, <2>5, <3>3
      <4> QED BY <3>1, <4>1
    <3> QED BY <2>6, <3>2, <3>3
  <2>8. events_of(d) = x
    BY <2>2, <2>4, <2>5, <2>7, SeqEqual
  <2> QED BY <2>8 DEF c, d, x
<1>12. n \in 1..n
  BY <1>2
<1>13. Parts(r)[n] = Append(Parts(m)[n], e)
  BY <1>8, <1>9, <1>11, <1>12
<1>14. FlattenSeq(Parts(r)) = Append(FlattenSeq(Parts(m)), e)
  <2> DEFINE a == Parts(m)
             b == Parts(r)
  <2>1. /\ a \in Seq(Seq(Events)) /\ Len(a) = n /\ b \in Seq(Seq(Events)) /\ Len(b) = n
        /\ \A i \in 1..(n - 1) : b[i] = a[i]
        /\ b[n] = Append(a[n], e)
    BY <1>8, <1>9, <1>10, <1>13
  <2> HIDE DEF a, b
  <2>2. n \in Nat /\ n # 0
    BY <1>2
  <2>3. FlattenSeq(b) = Append(FlattenSeq(a), e)
    <3>1. Grows(a, b, n, e)
      BY <2>1, <2>2 DEF Grows
    <3> QED BY <3>1, FlattenGrow
  <2> QED BY <2>3 DEF a, b
<1> QED BY <1>7, <1>14 DEF Vouched, r, n

\* A journal without a manifest has neither files nor calls.
LEMMA SmoothInit == Init => SmoothInv
BY DEF Init, SmoothInv, Busy

\* With no failure the manifest has recorded exactly the committed events.
LEMMA RecordedCommitted ==
  Types /\ SizeInv /\ WriterInv /\ SmoothInv => recorded_events = committed
<1> SUFFICES ASSUME Types, SizeInv, WriterInv, SmoothInv PROVE recorded_events = committed
  OBVIOUS
<1>1. CASE manifest = None
  BY <1>1 DEF recorded_events, WriterInv
<1>2. CASE manifest # None
  <2> DEFINE n == Len(manifest.segments)
  <2>1. manifest \in JournalManifest
    BY <1>2 DEF Types
  <2>2. n \in Nat /\ DOMAIN manifest.segments = 1..n
    BY <2>1, ManifestFields
  <2>3. \A i \in 1..n : manifest.segments[i].event_count # 0
    BY <1>2 DEF WriterInv, Kept
  <2> HIDE DEF n
  <2>4. \A i \in 1..n : recorded(manifest.segments[i]) = manifest.segments[i].checksum
    BY <2>3 DEF recorded
  <2>5. Parts(manifest) = [i \in 1..n |-> events_of(manifest.segments[i].checksum)]
    BY <2>4 DEF Parts, n
  <2>6. recorded_events = Vouched(manifest)
    BY <1>2, <2>2, <2>5 DEF recorded_events, Vouched
  <2> QED BY <1>2, <2>6 DEF SmoothInv
<1> QED BY <1>1, <1>2

\* No step but a call that fails disturbs it, and only the rename of the
\* temporary file commits an event.
LEMMA SmoothStep ==
  ASSUME Alone, None \notin JournalManifest, Types, Types', SizeInv, SizeInv', WriterInv,
         SmoothInv, SmoothNext
  PROVE  SmoothInv' /\ (committed' = committed \/ \E e \in Events : committed' = Append(committed, e))
<1>t. /\ files \in [Events -> Content] /\ manifest \in JournalManifest \cup {None}
      /\ wpc \in [Writers -> {"idle", "write", "read", "save", "rename", "return"}]
      /\ wman \in [Writers -> JournalManifest \cup {None}]
      /\ wev \in [Writers -> Events \cup {0}]
  BY DEF Types
<1>1. ASSUME NEW w \in Writers, BeginAppend(w)
      PROVE  SmoothInv' /\ committed' = committed
  <2> DEFINE r == manifest_for(used + 1)
  <2>1. /\ wpc[w] = "idle" /\ used < MaxEvents
        /\ wpc' = [wpc EXCEPT ![w] = "write"] /\ wman' = [wman EXCEPT ![w] = r]
        /\ UNCHANGED <<files, manifest, committed>>
    BY <1>1 DEF BeginAppend, disk
  <2>2. IF manifest = None THEN \A i \in Events : files[i] = <<>> ELSE Mirrors(manifest, files)
    <3>1. \A v \in Writers : wpc[v] \in {"idle", "return"}
      BY <2>1 DEF Alone
    <3> QED BY <3>1 DEF SmoothInv
  <2>3. used + 1 \in Events
    BY <2>1, JournalAssumption DEF Types, Events
  <2>4. Len(r.segments) \in Events
    <3>1. wpc'[w] = "write" /\ wman'[w] = r
      BY <1>t, <2>1
    <3>2. Sized(r, 1, used')
      BY <3>1 DEF SizeInv, Busy
    <3>3. used' \in 0..MaxEvents
      BY DEF Types
    <3>4. r \in JournalManifest /\ Len(r.segments) \in Nat /\ r.total_events \in Nat
      BY <3>2, ManifestFields DEF Sized
    <3> QED BY <3>2, <3>3, <3>4, JournalAssumption DEF Sized, Events
  <2>5. Vouched(r) = committed /\ Mirrors(r, files)
    <3>1. CASE manifest = None /\ r = JournalManifest_new
      <4>1. committed = <<>> /\ \A i \in Events : files[i] = <<>>
        BY <2>2, <3>1 DEF WriterInv
      <4>2. 1 \in Events
        BY <2>3, JournalAssumption DEF Events
      <4>3. Mirrors(r, files)
        BY <3>1, <4>1, <4>2, RecordedNew DEF Mirrors
      <4> QED BY <3>1, <4>1, <4>3, RecordedNew
    <3>2. CASE manifest # None /\ r = manifest
      BY <2>2, <3>2 DEF SmoothInv
    <3>3. CASE manifest # None /\ r = roll_segment(manifest)
      <4>1. Mirrors(manifest, files) /\ Vouched(manifest) = committed
        BY <2>2, <3>3 DEF SmoothInv
      <4>2. manifest \in JournalManifest
        BY <3>3, <1>t
      <4>3. Len(r.segments) = Len(manifest.segments) + 1 /\ Len(manifest.segments) \in Nat
        BY <3>3, <4>2, Rolled, ManifestFields
      <4>4. Len(manifest.segments) # 0
        BY <3>3, <4>2, ManifestFields DEF SizeInv, Sized
      <4>5. Len(manifest.segments) \in Events /\ Len(manifest.segments) + 1 \in Events
        BY <2>4, <4>3, <4>4, JournalAssumption DEF Events
      <4> HIDE DEF r
      <4> QED BY <1>t, <3>3, <4>1, <4>2, <4>5, RecordedRolled
    <3> QED BY <3>1, <3>2, <3>3, ManifestFor
  <2> HIDE DEF r
  <2>6. \A v \in Writers : v = w /\ wpc'[v] = "write" /\ wman'[v] = r
    BY <1>t, <2>1 DEF Alone
  <2>7. manifest' # None => Vouched(manifest)' = committed'
    BY <2>1 DEF SmoothInv, Vouched, Parts
  <2>8. Mirrors(r, files') /\ Vouched(r) = committed'
    BY <2>1, <2>5
  <2> QED BY <2>1, <2>6, <2>7, <2>8 DEF SmoothInv
<1>2. ASSUME NEW w \in Writers, WriteLine(w)
      PROVE  SmoothInv' /\ committed' = committed
  <2>1. /\ wpc[w] = "write" /\ wpc' = [wpc EXCEPT ![w] = "read"]
        /\ files' = [files EXCEPT ![Len(wman[w].segments)] = Append(@, Line(w))]
        /\ UNCHANGED <<manifest, wman, wev, committed>>
    BY <1>2 DEF WriteLine, Line
  <2>2. Mirrors(wman[w], files) /\ Vouched(wman[w]) = committed
    BY <2>1 DEF SmoothInv, Busy
  <2>3. \A v \in Writers : v = w /\ wpc'[v] = "read"
    BY <1>t, <2>1 DEF Alone
  <2>4. \E before \in [Events -> Content] :
          /\ Mirrors(wman[w], before)
          /\ files' = [before EXCEPT ![Len(wman[w].segments)] = Append(@, Line(w))]
    BY <1>t, <2>1, <2>2
  <2>5. manifest' # None => Vouched(manifest)' = committed'
    BY <2>1 DEF SmoothInv, Vouched, Parts
  <2>6. Line(w)' = Line(w)
    BY <2>1 DEF Line
  <2> QED BY <2>1, <2>2, <2>3, <2>4, <2>5, <2>6 DEF SmoothInv
<1>3. ASSUME NEW w \in Writers, ReadBack(w)
      PROVE  SmoothInv' /\ committed' = committed
  <2> DEFINE m == wman[w]
             n == Len(m.segments)
             r == manifest_with(m, wev[w], files[n])
  <2>1. /\ wpc[w] = "read" /\ wpc' = [wpc EXCEPT ![w] = "save"] /\ wman' = [wman EXCEPT ![w] = r]
        /\ UNCHANGED <<files, manifest, wev, committed>>
    BY <1>3 DEF ReadBack, disk
  <2>2. PICK before \in [Events -> Content] :
          Mirrors(m, before) /\ files = [before EXCEPT ![n] = Append(@, Line(w))]
    BY <2>1 DEF SmoothInv
  <2>3. Vouched(m) = committed /\ wev[w] \in Events /\ Sized(m, 1, used)
    BY <2>1 DEF SmoothInv, SizeInv, Busy
  <2>4. m \in JournalManifest /\ n \in Events
    BY <2>3, SizedType DEF Types
  <2>5. LET x == manifest_with(m, wev[w], files[n])
        IN Vouched(x) = Append(Vouched(m), wev[w]) /\ Mirrors(x, files)
    <3> DEFINE e == wev[w]
    <3> HIDE DEF m, n, e
    <3>1. files = [before EXCEPT ![n] = Append(@, [event |-> e, whole |-> TRUE])]
      BY <2>2 DEF Line, e
    <3>2. e \in Events
      BY <2>3 DEF e
    <3>3. LET x == manifest_with(m, e, files[n])
          IN Vouched(x) = Append(Vouched(m), e) /\ Mirrors(x, files)
      BY <1>t, <2>2, <2>4, <3>1, <3>2, RecordedMore DEF n
    <3> QED BY <3>3 DEF e
  <2>6. Vouched(r) = Append(committed, wev[w]) /\ Mirrors(r, files)
    BY <2>3, <2>5
  <2> HIDE DEF r
  <2>7. \A v \in Writers : v = w /\ wpc'[v] = "save" /\ wman'[v] = r
    BY <1>t, <2>1 DEF Alone
  <2>8. manifest' # None => Vouched(manifest)' = committed'
    BY <2>1 DEF SmoothInv, Vouched, Parts
  <2>9. Mirrors(r, files') /\ Vouched(r) = Append(committed', wev'[w])
    BY <2>1, <2>6
  <2> QED BY <2>1, <2>7, <2>8, <2>9 DEF SmoothInv, Busy
<1>4. ASSUME NEW w \in Writers, WriteTmp(w)
      PROVE  SmoothInv' /\ committed' = committed
  <2>1. /\ wpc[w] = "save" /\ wpc' = [wpc EXCEPT ![w] = "rename"]
        /\ UNCHANGED <<files, manifest, wman, wev, committed>>
    BY <1>4 DEF WriteTmp
  <2>2. Mirrors(wman[w], files) /\ Vouched(wman[w]) = Append(committed, wev[w])
    BY <2>1 DEF SmoothInv
  <2>3. \A v \in Writers : v = w /\ wpc'[v] = "rename"
    BY <1>t, <2>1 DEF Alone
  <2>4. manifest' # None => Vouched(manifest)' = committed'
    BY <2>1 DEF SmoothInv, Vouched, Parts
  <2>5. Mirrors(wman'[w], files') /\ Vouched(wman'[w]) = Append(committed', wev'[w])
    BY <2>1, <2>2
  <2>6. \A v \in Writers :
          Mirrors(wman'[v], files') /\ Vouched(wman'[v]) = Append(committed', wev'[v])
    BY <2>3, <2>5
  <2>7. wpc'[w] = "rename"
    BY <2>3
  <2>8. \A v \in Writers : wpc'[v] = "rename"
    BY <2>3
  <2> QED BY <2>1, <2>4, <2>6, <2>7, <2>8 DEF SmoothInv, Busy
<1>5. ASSUME NEW w \in Writers, Rename(w)
      PROVE  SmoothInv' /\ committed' = Append(committed, wev[w]) /\ wev[w] \in Events
  <2>1. wpc[w] = "rename" /\ tmp = wman[w] /\ Sized(wman[w], 0, used) /\ wev[w] \in Events
    BY <1>5 DEF Rename, WriterInv, SizeInv, Closing
  <2>2. tmp # None
    BY <2>1 DEF Sized
  <2>3. /\ manifest' = wman[w] /\ committed' = Append(committed, wev[w])
        /\ wpc' = [wpc EXCEPT ![w] = "return"] /\ UNCHANGED <<files, wman, wev>>
    BY <1>5, <2>1, <2>2 DEF Rename
  <2>4. Mirrors(wman[w], files) /\ Vouched(wman[w]) = Append(committed, wev[w])
    BY <2>1 DEF SmoothInv
  <2>5. \A v \in Writers : v = w /\ wpc'[v] = "return"
    BY <1>t, <2>3 DEF Alone
  <2>6. Vouched(manifest') = committed' /\ Mirrors(manifest', files') /\ manifest' # None
    BY <2>1, <2>2, <2>3, <2>4
  <2> QED BY <2>1, <2>3, <2>5, <2>6 DEF SmoothInv, Busy
<1>6. ASSUME NEW w \in Writers, ReturnOk(w)
      PROVE  SmoothInv' /\ committed' = committed
  <2>1. /\ wpc[w] = "return" /\ wpc' = [wpc EXCEPT ![w] = "idle"]
        /\ UNCHANGED <<files, manifest, wman, wev, committed>>
    BY <1>6 DEF ReturnOk, disk
  <2>2. \A v \in Writers : v = w /\ wpc'[v] = "idle" /\ wpc[v] = "return"
    BY <1>t, <2>1 DEF Alone
  <2>3. IF manifest = None THEN \A i \in Events : files[i] = <<>> ELSE Mirrors(manifest, files)
    BY <2>2 DEF SmoothInv
  <2>4. manifest' # None => Vouched(manifest)' = committed'
    BY <2>1 DEF SmoothInv, Vouched, Parts
  <2> QED BY <2>1, <2>2, <2>3, <2>4 DEF SmoothInv, Busy
<1>7. ASSUME BeginLoad \/ VerifyManifest \/ VerifySegment \/ CheckBytes \/ ReadLines
      PROVE  SmoothInv' /\ committed' = committed
  <2>1. UNCHANGED <<files, manifest, wpc, wman, wev, committed>>
    BY <1>7 DEF BeginLoad, VerifyManifest, VerifySegment, CheckBytes, ReadLines, disk, writer
  <2>2. \A w \in Writers : Line(w)' = Line(w)
    BY <2>1 DEF Line
  <2>3. manifest' # None => Vouched(manifest)' = committed'
    BY <2>1 DEF SmoothInv, Vouched, Parts
  <2> QED BY <2>1, <2>2, <2>3 DEF SmoothInv
<1> QED BY <1>1, <1>2, <1>3, <1>4, <1>5, <1>6, <1>7 DEF SmoothNext, WriterStep

\* The step as the append-only log sees it.
LEMMA RecordedStep ==
  ASSUME Alone, None \notin JournalManifest, Types, Types', SizeInv, SizeInv', WriterInv, WriterInv',
         SmoothInv, SmoothNext
  PROVE  /\ SmoothInv'
         /\ \/ recorded_events' = recorded_events
            \/ \E e \in Events : recorded_events' = Append(recorded_events, e)
<1>1. SmoothInv' /\ (committed' = committed \/ \E e \in Events : committed' = Append(committed, e))
  BY SmoothStep
<1>2. recorded_events = committed
  BY RecordedCommitted
<1>3. recorded_events' = committed'
  <2>1. (Types /\ SizeInv /\ WriterInv /\ SmoothInv)' => (recorded_events = committed)'
    BY RecordedCommitted, PTL
  <2> QED BY <1>1, <2>1
<1> QED BY <1>1, <1>2, <1>3

\* Steps that change nothing.
LEMMA SmoothUnchanged ==
  ASSUME SmoothInv, UNCHANGED vars
  PROVE  SmoothInv' /\ recorded_events' = recorded_events
<1>1. \A w \in Writers : Line(w)' = Line(w)
  BY DEF vars, Line
<1> QED BY <1>1 DEF vars, SmoothInv, recorded_events, Vouched, Parts

\* With one append call at a time and none that fails, the directory implements
\* the append-only log of the ConversationJournal trait, for every line and
\* segment size: the rename of the temporary file appends exactly its call's
\* event to what the manifest vouches for, and no other step, a new segment
\* included, changes that.
THEOREM LogImplemented ==
  ASSUME Alone, None \notin JournalManifest
  PROVE  MCSpec => LogRefined
<1> DEFINE IInv == Types /\ SizeInv /\ WriterInv
           Inv == ~faulty => SmoothInv
<1>1. MCInit => Init
  BY DEF MCInit
<1>2. [MCNext]_<<vars, faulty>> => [Next]_vars
  BY DEF MCNext, SmoothNext, Next
<1>3. MCSpec => Spec
  BY <1>1, <1>2, PTL DEF MCSpec, Spec
<1>4. Spec => []IInv
  <2>1. Types /\ SizeInv /\ WriterInv /\ ReaderInv => IInv
    OBVIOUS
  <2> HIDE DEF IInv
  <2> QED BY <2>1, AloneInvariant, PTL
<1>5. MCInit => Inv
  BY SmoothInit DEF MCInit
<1>6. IInv /\ IInv' /\ Inv /\ [MCNext]_<<vars, faulty>> => Inv' /\ [Log!Next]_(IF faulty THEN <<>> ELSE recorded_events)
  <2> SUFFICES ASSUME IInv, IInv', Inv, [MCNext]_<<vars, faulty>>
               PROVE  Inv' /\ [Log!Next]_(IF faulty THEN <<>> ELSE recorded_events)
    OBVIOUS
  <2>1. CASE UNCHANGED <<vars, faulty>>
    <3>1. UNCHANGED vars /\ faulty' = faulty
      BY <2>1
    <3>2. CASE faulty
      BY <3>1, <3>2
    <3>3. CASE ~faulty
      BY <3>1, <3>3, SmoothUnchanged
    <3> QED BY <3>2, <3>3
  <2>2. CASE MCNext /\ faulty
    BY <2>2 DEF MCNext
  <2>3. CASE MCNext /\ ~faulty
    <3>1. SmoothNext /\ faulty' = faulty
      BY <2>3 DEF MCNext
    <3>2. /\ SmoothInv'
          /\ \/ recorded_events' = recorded_events
             \/ \E e \in Events : recorded_events' = Append(recorded_events, e)
      BY <2>3, <3>1, RecordedStep
    <3> QED BY <2>3, <3>1, <3>2 DEF Log!Next, Log!AppendEvent
  <2> QED BY <2>1, <2>2, <2>3
<1>7. MCInit => Log!Init
  BY DEF MCInit, Init, Log!Init, recorded_events
<1> HIDE DEF IInv, Inv
<1> QED BY <1>3, <1>4, <1>5, <1>6, <1>7, PTL DEF MCSpec, LogRefined, Log!Spec
=============================================================================
