--------------------------------- MODULE Assets ---------------------------------
(***************************************************************************)
(* asset-core's FsAssetStore: a JSONL file of asset metadata behind an     *)
(* index in memory.  An upsert writes the line, then its newline, then     *)
(* inserts into the index, each in a step of its own and under no lock     *)
(* that spans them; opening the file replays it, the last line of an asset *)
(* winning, and fails at the first line that does not parse.               *)
(***************************************************************************)
EXTENDS Naturals, FiniteSets, JsonlFile

CONSTANTS Callers, Assets,
          MaxUpserts, MaxCrashes  \* bounds of the versions written and of the crashes

VARIABLES index,    \* asset -> the version in memory, 0 when there is none
          file,     \* the JSONL file
          upserts,  \* of every caller: where its upsert is
          opened,   \* "open", "down", or "refused" when the file did not parse
          count, crashes,
          disturbed \* whether upserts overlapped, or one was cut off or failed, since the file was created

qvars == <<index, file, upserts, opened, count, crashes, disturbed>>

Idle == [at |-> "idle", asset |-> "none", version |-> 0]
idle(p) == upserts[p] = Idle

upsert(p) ==
    /\ opened = "open" /\ idle(p) /\ count < MaxUpserts
    /\ \E a \in Assets : upserts' = [upserts EXCEPT ![p] = [at |-> "line", asset |-> a, version |-> count + 1]]
    /\ count' = count + 1
    /\ disturbed' = (disturbed \/ \E q \in Callers \ {p} : ~idle(q))
    /\ UNCHANGED <<index, file, opened, crashes>>

\* append_metadata: the line, then its newline.
append_line(p) ==
    /\ upserts[p].at = "line"
    /\ file' = write_record(file, upserts[p].asset, upserts[p].version)
    /\ upserts' = [upserts EXCEPT ![p].at = "newline"]
    /\ UNCHANGED <<index, opened, count, crashes, disturbed>>

\* Faulty variant: the line is not ended.
append_newline_never(p) ==
    /\ upserts[p].at = "newline"
    /\ upserts' = [upserts EXCEPT ![p].at = "insert"]
    /\ UNCHANGED <<index, file, opened, count, crashes, disturbed>>

append_newline(p) ==
    /\ upserts[p].at = "newline"
    /\ file' = write_newline(file)
    /\ upserts' = [upserts EXCEPT ![p].at = "insert"]
    /\ UNCHANGED <<index, opened, count, crashes, disturbed>>

\* Only then does the index hold the asset.
insert(p) ==
    /\ upserts[p].at = "insert"
    /\ index' = [index EXCEPT ![upserts[p].asset] = upserts[p].version]
    /\ upserts' = [upserts EXCEPT ![p] = Idle]
    /\ UNCHANGED <<file, opened, count, crashes, disturbed>>

\* What a write that does not finish leaves of the line.
cut(p) == IF upserts[p].at = "line" THEN {file, write_torn(file)} ELSE {file}

append_fails(p) ==
    /\ upserts[p].at \in {"line", "newline"}
    /\ file' \in cut(p)
    /\ upserts' = [upserts EXCEPT ![p] = Idle]
    /\ disturbed' = TRUE
    /\ UNCHANGED <<index, opened, count, crashes>>

crash ==
    /\ opened = "open" /\ crashes < MaxCrashes
    /\ file' \in UNION {cut(p) : p \in Callers}
    /\ disturbed' = (disturbed \/ \E p \in Callers : ~idle(p))
    /\ upserts' = [p \in Callers |-> Idle]
    /\ opened' = "down" /\ crashes' = crashes + 1
    /\ UNCHANGED <<index, count>>

open ==
    /\ opened = "down"
    /\ index' = IF parses(file) THEN file.last ELSE [a \in Assets |-> 0]
    /\ opened' = IF parses(file) THEN "open" ELSE "refused"
    /\ UNCHANGED <<file, upserts, count, crashes, disturbed>>

Init ==
    /\ index = [a \in Assets |-> 0] /\ file = EmptyFile(Assets, 0)
    /\ upserts = [p \in Callers |-> Idle]
    /\ opened = "open" /\ count = 0 /\ crashes = 0 /\ disturbed = FALSE

Next == \/ \E p \in Callers : upsert(p) \/ append_line(p) \/ append_newline(p) \/ insert(p) \/ append_fails(p)
        \/ crash \/ open

Spec == Init /\ [][Next]_qvars

(* ---- properties ---- *)

\* Memory is never ahead of the file: what the index holds was written before, whatever overlaps or fails.
NeverAhead == opened = "open" => \A a \in Assets : index[a] > 0 => file.last[a] > 0

\* Upserts that follow one another, with the host ended between two of them, leave a file that opens and holds
\* what the index held; nothing in the index is missing from the file.
\* (asset-core FsAssetStore::upsert, append_metadata, open)
AssetsSound ==
    /\ NeverAhead
    /\ ~disturbed => /\ opened # "refused" /\ parses(file)
                     /\ \A a \in Assets : index[a] = file.last[a] \/ \E p \in Callers : upserts[p].asset = a
================================================================================
