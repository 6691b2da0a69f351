----------------------------- MODULE HostStorage -----------------------------
(***************************************************************************)
(* agentos-storage: the storage root on disk.  Its lock file, its          *)
(* migrations, its backup and restore, its artifact directories, the       *)
(* content-addressed blobs and chained logs of the knowledge engine, and   *)
(* the repair inspection.                                                  *)
(*                                                                         *)
(* Every operation is a sequence of file-system calls of a process that    *)
(* may stop between two of them (crash) or inside a write, which leaves a  *)
(* torn file.  A file's content is "none", "torn", or a value.             *)
(* The four parts share no state and have a next-state relation each.      *)
(***************************************************************************)
EXTENDS Naturals, Sequences, FiniteSets

CONSTANTS Callers,      \* processes that use the root
          Files,        \* files of the root that a backup copies
          Artifacts,    \* artifact ids
          Supported,    \* STORAGE_LAYOUT_VERSION of the newest build
          Registered,   \* from-versions of the registered migrations
          Ttl,          \* life of a lock
          MaxTime, MaxWrites, MaxLog   \* bounds: clock, writes to a file, lines of a chained log

VARIABLES lock,       \* the lock file: content and, of every caller, where it is
          root,       \* manifest version, layout the steps have made, backup manifests
          backup,     \* the live files, the exported copy, its manifest, the restored root
          objects,    \* artifact directories, the journals' links to them, an inspection
          engine      \* a blob, a projection and a chained log of the knowledge engine

ovars == <<lock, root, backup, objects, engine>>

(* ---- the lock file (lock.rs) ---- *)

NoLock == [owner |-> "none", at |-> 0, until |-> 0]
Unwritten == [NoLock EXCEPT !.owner = "unwritten"]

expired(info) == info.until <= lock.clock

Idle == [pc |-> "idle", info |-> NoLock]

at_pc(p, pc) == lock.of[p].pc = pc
goes(p, pc, info) == [lock EXCEPT !.of[p] = [pc |-> pc, info |-> info]]

\* acquire's first half: an unexpired or unreadable file refuses, an expired one is removed next.
acquire(p) ==
    /\ at_pc(p, "idle")
    /\ lock' = CASE lock.file = NoLock -> goes(p, "create", [owner |-> p, at |-> lock.clock, until |-> lock.clock + Ttl])
                 [] lock.file = Unwritten -> lock
                 [] OTHER -> IF expired(lock.file) THEN goes(p, "remove", lock.file) ELSE lock

\* remove_lock_file removes whatever file has the name now; `swept` remembers that it was another one.
remove_lock_file(p) ==
    /\ at_pc(p, "remove")
    /\ lock' = [goes(p, "create", [owner |-> p, at |-> lock.clock, until |-> lock.clock + Ttl]) EXCEPT
                  !.file = NoLock,
                  !.swept = @ \/ lock.file \notin {NoLock, lock.of[p].info}]

\* Faulty variant: the file is opened without create_new.
create_truncating(p) ==
    /\ at_pc(p, "create")
    /\ lock' = [goes(p, "write", lock.of[p].info) EXCEPT !.file = Unwritten]

create_new(p) ==
    /\ at_pc(p, "create")
    /\ lock' = IF lock.file = NoLock THEN [goes(p, "write", lock.of[p].info) EXCEPT !.file = Unwritten]
               ELSE goes(p, "idle", NoLock)

write_lock(p) ==
    /\ at_pc(p, "write")
    /\ lock' = [goes(p, "held", lock.of[p].info) EXCEPT !.file = lock.of[p].info]

\* release_inner, from release or drop: the file is read, then removed if it was the caller's own.
release(p) ==
    /\ at_pc(p, "held")
    /\ lock' = IF lock.file = lock.of[p].info THEN goes(p, "unlink", lock.of[p].info) ELSE goes(p, "idle", NoLock)

unlink(p) ==
    /\ at_pc(p, "unlink")
    /\ lock' = [goes(p, "idle", NoLock) EXCEPT
                  !.file = NoLock, !.swept = @ \/ lock.file \notin {NoLock, lock.of[p].info}]

die(p) == ~ at_pc(p, "idle") /\ lock' = goes(p, "idle", NoLock)

tick == lock.clock < MaxTime /\ lock' = [lock EXCEPT !.clock = @ + 1]

LockNext ==
    /\ \/ tick
       \/ \E p \in Callers : \/ acquire(p) \/ remove_lock_file(p) \/ create_new(p) \/ write_lock(p)
                             \/ release(p) \/ unlink(p) \/ die(p)
    /\ UNCHANGED <<root, backup, objects, engine>>

(* ---- opening the root and migrating it (lib.rs, migration.rs) ---- *)

Target == 0 .. Supported

\* AgentOsStorage::init by a build of version v, in another process: another version is refused, then
\* the manifest is rewritten as it was read.  Nothing keeps a migration from running in between.
init_root(v) ==
    /\ root.opening = Supported + 1 /\ root.version = v
    /\ root' = [root EXCEPT !.opening = v]

init_rewrites_manifest ==
    /\ root.opening <= Supported
    /\ root' = [root EXCEPT !.version = root.opening, !.opening = Supported + 1]

plan(from, to) == IF to >= from /\ (from .. to - 1) \subseteq Registered THEN "planned" ELSE "MigrationPathNotFound"

\* migrate in Apply mode up to backup_manifest; a dry run and an empty plan change nothing.
begin_migration(to) ==
    /\ root.pc = "idle" /\ plan(root.version, to) = "planned" /\ to > root.version
    /\ root' = [root EXCEPT !.pc = "steps", !.next = root.version, !.to = to,
                            !.saved = @ \cup {[name |-> root.version, holds |-> root.version]}]

\* One step rewrites files under the root.  It may fail, after having changed some of them.
run_step(ok) ==
    /\ root.pc = "steps" /\ root.next < root.to
    /\ root' = [root EXCEPT !.layout = @ \cup {root.next + 1},
                            !.ahead = @ \/ root.next \notin root.layout,
                            !.next = IF ok THEN @ + 1 ELSE @,
                            !.pc = IF ok THEN @ ELSE "idle"]

\* Faulty variant: the manifest is written before the steps are all run.
write_manifest_early ==
    /\ root.pc = "steps"
    /\ root' = [root EXCEPT !.version = root.to, !.pc = "idle"]

write_manifest ==
    /\ root.pc = "steps" /\ root.next = root.to
    /\ root' = [root EXCEPT !.version = root.to, !.pc = "idle"]

stop_migration == root.pc = "steps" /\ root' = [root EXCEPT !.pc = "idle"]

MigrationNext ==
    /\ \/ \E v \in Target : init_root(v) \/ begin_migration(v)
       \/ \E ok \in BOOLEAN : run_step(ok)
       \/ init_rewrites_manifest \/ write_manifest \/ stop_migration
    /\ UNCHANGED <<lock, backup, objects, engine>>

(* ---- backup.rs: export, verify_backup, restore ---- *)

\* A file's content: none, the number of the write that made it, or torn.
None == 0
Torn == MaxWrites + 1
Empty == [f \in Files |-> None]

write_live(f) ==
    /\ \E v \in 1 .. MaxWrites : (\A u \in 1 .. v - 1 : u \in backup.ever[f]) /\ v \notin backup.ever[f]
            /\ backup' = [backup EXCEPT !.live[f] = v, !.ever[f] = @ \cup {v}]

\* export refuses a directory that is not empty, then copies file after file, in the order read_dir gives.
begin_export ==
    /\ backup.pc = "idle" /\ ~ backup.begun
    /\ backup' = [backup EXCEPT !.pc = "exporting", !.todo = Files, !.begun = TRUE]

\* A file is copied as it is, or torn when a writer is in the middle of it.
copy_file(f, torn) ==
    /\ backup.pc = "exporting" /\ f \in backup.todo
    /\ backup' = [backup EXCEPT !.todo = @ \ {f}, !.copy[f] = IF torn /\ backup.live[f] # None THEN Torn ELSE backup.live[f]]

\* collect_file_entries hashes the copies; the manifest is written last.
write_backup_manifest ==
    /\ backup.pc = "exporting" /\ backup.todo = {}
    /\ backup' = [backup EXCEPT !.pc = "idle", !.listed = backup.copy, !.complete = TRUE]

damage(f) ==
    /\ backup.copy[f] # None
    /\ backup' = [backup EXCEPT !.copy[f] = Torn, !.late = @ \/ backup.pc = "restoring"]

verified == backup.complete /\ \A f \in Files : backup.copy[f] = backup.listed[f]

\* Faulty variant: restore trusts the backup's manifest without verify_backup.
begin_restore_unverified ==
    /\ backup.pc = "idle" /\ backup.target = Empty /\ backup.complete
    /\ backup' = [backup EXCEPT !.pc = "restoring", !.todo = Files]

begin_restore ==
    /\ backup.pc = "idle" /\ backup.target = Empty /\ verified
    /\ backup' = [backup EXCEPT !.pc = "restoring", !.todo = Files]

restore_file(f) ==
    /\ backup.pc = "restoring" /\ f \in backup.todo
    /\ backup' = [backup EXCEPT !.todo = @ \ {f}, !.target[f] = backup.copy[f]]

\* verify_restored_layout, then every artifact is verified; a failure leaves the target as it is.
end_restore(ok) ==
    /\ backup.pc = "restoring" /\ backup.todo = {}
    /\ backup' = [backup EXCEPT !.pc = "idle", !.restored = ok]

stop_backup == backup.pc # "idle" /\ backup' = [backup EXCEPT !.pc = "idle"]

BackupNext ==
    /\ \/ begin_export \/ write_backup_manifest \/ begin_restore \/ stop_backup
       \/ \E f \in Files : \/ write_live(f) \/ damage(f) \/ restore_file(f)
                           \/ \E torn \in BOOLEAN : copy_file(f, torn)
       \/ \E ok \in BOOLEAN : end_restore(ok)
    /\ UNCHANGED <<lock, root, objects, engine>>

(* ---- artifact directories and the repair inspection (artifact_store.rs, repair.rs) ---- *)

\* Files of an artifact directory in the order put_with_content writes them; `made` of them are begun.
Stages == <<"directory", "descriptor.json", "content.bin", "record.json">>

NoDir == [made |-> 0, torn |-> FALSE]
whole(a) == objects.dirs[a] = [made |-> Len(Stages), torn |-> FALSE]
unreadable(a) == objects.dirs[a] = [made |-> Len(Stages), torn |-> TRUE]
listed == {a \in Artifacts : objects.dirs[a] # NoDir}

\* fs::create_dir refuses an id whose directory exists, be it a finished artifact or the rest of a crash.
put_with_content(a) ==
    /\ a \notin objects.writing /\ objects.dirs[a] = NoDir
    /\ objects' = [objects EXCEPT !.dirs[a].made = 1, !.writing = @ \cup {a}]

\* The next file is created; its content is on disk when it is no longer torn.
write_stage(a) ==
    /\ a \in objects.writing
    /\ \/ objects.dirs[a].torn /\ objects' = [objects EXCEPT !.dirs[a].torn = FALSE]
       \/ /\ ~ objects.dirs[a].torn /\ objects.dirs[a].made < Len(Stages)
          /\ objects' = [objects EXCEPT !.dirs[a] = [made |-> @.made + 1, torn |-> TRUE]]

put_returns(a) ==
    /\ a \in objects.writing /\ whole(a)
    /\ objects' = [objects EXCEPT !.writing = @ \ {a}, !.acked = @ \cup {a}]

cut_put(a) == a \in objects.writing /\ objects' = [objects EXCEPT !.writing = @ \ {a}]

link(a) == a \notin objects.links /\ objects' = [objects EXCEPT !.links = @ \cup {a}]

\* A conversation's journal that no longer loads.
lose_journal == objects.loadable /\ objects' = [objects EXCEPT !.loadable = FALSE]

\* inspect: verify_all fails as a whole when one record cannot be read.
begin_inspection ==
    /\ objects.pc = "idle"
    /\ IF \E a \in listed : unreadable(a) THEN objects' = [objects EXCEPT !.report = "error"]
       ELSE objects' = [objects EXCEPT !.pc = "listing", !.report = "none", !.damaged = {a \in listed : ~ whole(a)},
                                       !.before = [links |-> objects.links, acked |-> objects.acked]]

list_artifact_ids ==
    /\ objects.pc = "listing"
    /\ objects' = [objects EXCEPT !.pc = "journals", !.stored = listed]

\* detect_artifact_references skips the journals that do not load.
detect_artifact_references ==
    /\ objects.pc = "journals"
    /\ LET referenced == IF objects.loadable THEN objects.links ELSE {} IN
       objects' = [objects EXCEPT !.pc = "idle", !.report = "done", !.orphans = objects.stored \ referenced,
                                  !.broken = referenced \ objects.stored, !.skipped = ~ objects.loadable]

ObjectNext ==
    /\ \/ \E a \in Artifacts : put_with_content(a) \/ write_stage(a) \/ put_returns(a) \/ cut_put(a) \/ link(a)
       \/ lose_journal \/ begin_inspection \/ list_artifact_ids \/ detect_artifact_references
    /\ UNCHANGED <<lock, root, backup, engine>>

(* ---- the knowledge engine's files (knowledge_engine_store.rs) ---- *)

engine_at(p, pc) == engine.pc[p] = pc
moves(p, pc) == [engine EXCEPT !.pc[p] = pc]

\* put_blob: the content's path exists => deduplicated; otherwise the bytes are written to it in place.
put_blob(p) ==
    /\ engine_at(p, "idle")
    /\ engine' = IF engine.blob = "none" THEN [moves(p, "blob") EXCEPT !.blob = "torn"] ELSE moves(p, "metadata")

write_blob(p) == engine_at(p, "blob") /\ engine' = [moves(p, "metadata") EXCEPT !.blob = "whole"]

put_blob_returns(p) ==
    engine_at(p, "metadata") /\ engine' = [moves(p, "idle") EXCEPT !.metadata = TRUE, !.put = TRUE]

\* replace_projection_records: a shared .tmp file, renamed over the projection.
write_tmp(p) == engine_at(p, "idle") /\ engine' = [moves(p, "tmp") EXCEPT !.tmp = "torn", !.shared = @ \/ engine.tmp # "none"]
finish_tmp(p) == engine_at(p, "tmp") /\ engine' = [moves(p, "rename") EXCEPT !.tmp = "whole"]

\* rename fails when another writer has renamed the file away.
rename(p) ==
    /\ engine_at(p, "rename")
    /\ engine' = IF engine.tmp = "none" THEN moves(p, "idle")
                 ELSE [moves(p, "idle") EXCEPT !.projection = engine.tmp, !.tmp = "none"]

\* append_jsonl_chained: the last line's hash is read, then the line appended.  A line is the hash it follows.
latest_jsonl_hash(p) ==
    /\ engine_at(p, "idle") /\ Len(engine.log) < MaxLog
    /\ engine.log # <<>> => ~ engine.log[Len(engine.log)].torn
    /\ engine' = [moves(p, "append") EXCEPT !.prev[p] = Len(engine.log),
                                            !.overlapped = @ \/ \E q \in Callers : engine_at(q, "append")]

append_jsonl(p, torn) ==
    /\ engine_at(p, "append")
    /\ engine' = [moves(p, "idle") EXCEPT !.prev[p] = 0, !.log = Append(@, [torn |-> torn, after |-> engine.prev[p]])]

cut(p) == ~ engine_at(p, "idle") /\ engine' = [moves(p, "idle") EXCEPT !.prev[p] = 0, !.cut = @ \/ engine_at(p, "blob")]

EngineNext ==
    /\ \E p \in Callers : \/ put_blob(p) \/ write_blob(p) \/ put_blob_returns(p)
                          \/ write_tmp(p) \/ finish_tmp(p) \/ rename(p)
                          \/ latest_jsonl_hash(p) \/ (\E torn \in BOOLEAN : append_jsonl(p, torn)) \/ cut(p)
    /\ UNCHANGED <<lock, root, backup, objects>>

Init ==
    /\ lock = [file |-> NoLock, clock |-> 0, swept |-> FALSE, of |-> [p \in Callers |-> Idle]]
    /\ \E v \in Target : root = [version |-> v, layout |-> 0 .. v, pc |-> "idle", next |-> v, to |-> v, opening |-> Supported + 1,
                                 saved |-> {}, ahead |-> FALSE]
    /\ backup = [pc |-> "idle", begun |-> FALSE, todo |-> {}, live |-> Empty, ever |-> [f \in Files |-> {}], copy |-> Empty,
                 listed |-> Empty, target |-> Empty, complete |-> FALSE, late |-> FALSE, restored |-> FALSE]
    /\ objects = [dirs |-> [a \in Artifacts |-> NoDir], writing |-> {}, acked |-> {}, links |-> {}, loadable |-> TRUE,
                  pc |-> "idle", damaged |-> {}, stored |-> {}, orphans |-> {}, broken |-> {}, skipped |-> FALSE,
                  report |-> "none", before |-> [links |-> {}, acked |-> {}]]
    /\ engine = [pc |-> [p \in Callers |-> "idle"], prev |-> [p \in Callers |-> 0], blob |-> "none", metadata |-> FALSE,
                 put |-> FALSE, tmp |-> "none", projection |-> "none", shared |-> FALSE, log |-> <<>>,
                 overlapped |-> FALSE, cut |-> FALSE]

Next == LockNext \/ MigrationNext \/ BackupNext \/ ObjectNext \/ EngineNext
Spec == Init /\ [][Next]_ovars

(* ---- what holds ---- *)

\* Unless a remove hit a lock file other than the one that was read, an unexpired lock has one holder.
OneHolder ==
    ~ lock.swept => \A p, q \in Callers :
        at_pc(p, "held") /\ at_pc(q, "held") /\ ~ expired(lock.of[p].info) /\ ~ expired(lock.of[q].info) => p = q

\* The manifest never names a version whose steps are not all on disk, no step runs on a disk the step
\* before has not reached, and every manifest backup holds the version in its name.
MigrationSound ==
    /\ 0 .. root.version \subseteq root.layout
    /\ ~ root.ahead
    /\ \A b \in root.saved : b.name = b.holds

\* What a restore that reported success holds is what export copied, unless the backup was damaged
\* meanwhile, and every copied file is one the root once held or a torn copy of it.
BackupSound ==
    /\ backup.restored /\ ~ backup.late => \A f \in Files : backup.target[f] = backup.listed[f]
    /\ \A f \in Files : backup.listed[f] \in backup.ever[f] \cup {None, Torn}

\* An acknowledged artifact stays whole, and an inspection calls no artifact lost that was there when it
\* began, nor an orphan that was linked then unless a journal could not be loaded.
ArtifactsSound ==
    /\ \A a \in objects.acked : whole(a)
    /\ objects.report = "done" =>
         /\ (objects.broken \cup objects.damaged) \cap objects.before.acked = {}
         /\ ~ objects.skipped => objects.orphans \cap objects.before.links = {}

\* Unless a write was cut or two processes wrote at once, an acknowledged blob and a projection are whole
\* and the log is one chain.
EngineSound ==
    /\ engine.put /\ ~ engine.cut /\ (\A p \in Callers : ~ engine_at(p, "blob")) =>
         engine.blob = "whole" /\ engine.metadata
    /\ ~ engine.shared => engine.projection # "torn"
    /\ ~ engine.overlapped => \A i \in DOMAIN engine.log : engine.log[i].after = i - 1

\* What the files of the storage root promise: locking, migration, backup, artifacts and the knowledge
\* engine's files, each under its own exclusion (lock.rs, migration.rs, backup.rs, artifact_store.rs).
StorageSound == OneHolder /\ MigrationSound /\ BackupSound /\ ArtifactsSound /\ EngineSound
=============================================================================
