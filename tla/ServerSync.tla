------------------------------ MODULE ServerSync ------------------------------
(***************************************************************************)
(* A client's projection of the backend's event stream.  The backend       *)
(* numbers the events of a user and sends pages of them; the reducer is a  *)
(* pure function from a stored projection and a page to a new projection,  *)
(* or to an error that leaves the stored one as it was.  The backend and   *)
(* the host that pulls, persists and acknowledges are outside the          *)
(* repository and follow its contract: persist before acknowledging.       *)
(***************************************************************************)
EXTENDS Naturals, Sequences, FiniteSets

CONSTANTS Objects,       \* ids, numbers in the order of their names
          Permissions,   \* permission keys of plugins
          Named,         \* the <<installation, permission>> pairs whose grants carry a grant_id
          Publications,  \* the <<object type, operation>> pairs the backend publishes
          MaxSequence,   \* bound: events of the stream
          MaxPages       \* bound: answers in flight

VARIABLES stream,  \* the backend's events, in sequence
          kept,    \* the backend keeps the events after this one
          pages,   \* answers on their way
          held,    \* the projection the reducer returned last
          saved    \* the projection the host persisted

yvars == <<stream, kept, pages, held, saved>>

-----------------------------------------------------------------------------
(* KnowledgeSyncProjection.  A reducer's step yields [ok, p].              *)
Empty == [o \in {} |-> 0]
upsert_snapshot(map, key, payload) == [k \in DOMAIN map \cup {key} |-> IF k = key THEN payload ELSE map[k]]
removed(map, keys) == [k \in DOMAIN map \ keys |-> map[k]]

Refused(p) == [ok |-> FALSE, p |-> p]
Accepted(p) == [ok |-> TRUE, p |-> p]

should_apply(cursor, e) == e.sequence > cursor
ensure_supported(e) == e.schema_version = 1

\* Whether the payload takes the place of the local entry, agrees with it or is
\* older, or cannot be reconciled with it.
supersedes(local, payload) == payload.version > local.version
contradicts(local, payload) ==
  /\ payload.version = local.version
  /\ <<payload.status, payload.content_hash>> # <<local.status, local.content_hash>>

apply_knowledge_event(k, e) ==
  LET known == e.object_id \in DOMAIN k.entries
      entries == IF known /\ ~supersedes(k.entries[e.object_id], e.payload)
                 THEN k.entries
                 ELSE upsert_snapshot(k.entries, e.object_id, e.payload)
  IN IF ~should_apply(k.cursor, e) THEN Accepted(k)
     ELSE IF \/ ~ensure_supported(e) \/ e.object_type # "knowledge"
             \/ e.operation \notin {"created", "updated", "deleted"}
             \/ e.payload.entry_id # e.object_id
             \/ e.operation = "deleted" /\ e.payload.status # "deleted"
             \/ known /\ contradicts(k.entries[e.object_id], e.payload)
          THEN Refused(k)
          ELSE Accepted([cursor |-> e.sequence, entries |-> entries])

\* A page is applied event by event up to the first that is refused.
then_apply_knowledge(acc, e) == IF acc.ok THEN apply_knowledge_event(acc.p, e) ELSE acc

apply_knowledge_sync_events(k, events) ==
  LET after[n \in 0..Len(events)] == IF n = 0 THEN Accepted(k) ELSE then_apply_knowledge(after[n - 1], events[n])
  IN after[Len(events)]

-----------------------------------------------------------------------------
(* ClientReadySyncProjection.                                              *)
ServerSyncObjectType ==
  {"profile", "conversation", "participant", "message", "skill", "agent", "server", "knowledge",
   "contact", "plugin"}

\* require_operation, for each type that is not knowledge.
allowed(type) ==
  CASE type \in {"profile", "agent"} -> {"updated"}
    [] type = "contact" -> {"created", "updated", "deleted"}
    [] type = "conversation" -> {"created", "updated", "read"}
    [] type \in {"participant", "server"} -> {"added", "updated", "removed"}
    [] type = "message" -> {"created", "updated", "deleted", "reaction_added", "reaction_removed"}
    [] type = "skill" -> {"updated", "enabled", "disabled", "installed", "uninstalled"}
    [] type = "plugin" -> {"added", "updated", "removed", "installed", "uninstalled", "enabled",
                           "disabled", "permission_granted", "permission_revoked"}

Grants == {"permission_granted", "permission_revoked"}
Removals == {"deleted", "removed", "uninstalled", "reaction_removed", "permission_revoked"}

\* The map of the projection that an event concerns.
family(e) ==
  CASE e.operation = "read" -> "conversation_reads"
    [] e.operation \in {"reaction_added", "reaction_removed"} -> "message_reactions"
    [] e.operation \in Grants -> "plugin_permissions"
    [] OTHER -> e.object_type

Families == (ServerSyncObjectType \ {"knowledge"})
            \cup {"conversation_reads", "message_reactions", "plugin_permissions"}

EmptyProjection ==
  [cursor |-> 0, knowledge |-> [cursor |-> 0, entries |-> Empty], maps |-> [f \in Families |-> Empty]]

\* The key of a grant: its grant_id, or "installation:permission".
permission_key(e) ==
  IF e.payload.grant_id # <<>> THEN <<0, e.payload.grant_id>>
  ELSE <<e.object_id, e.payload.permission_key>>

key_in_map(e) == IF e.operation \in Grants THEN permission_key(e) ELSE e.object_id

\* apply_snapshot_operation, apply_reaction_operation and upsert_snapshot.
apply_snapshot_operation(maps, e) ==
  [maps EXCEPT ![family(e)] =
     IF e.operation \in Removals THEN removed(@, {key_in_map(e)})
     ELSE upsert_snapshot(@, key_in_map(e), e.payload)]

\* The grants that go with an installation: by the key's prefix or by the payload.
granted_to(permissions, o) ==
  {k \in DOMAIN permissions : k[1] = o \/ permissions[k].installation_id = o}

\* Faulty variant: the grants of an installation stay when it goes.
apply_plugin_event_grants_stay(maps, e) == apply_snapshot_operation(maps, e)

apply_plugin_event(maps, e) ==
  LET applied == apply_snapshot_operation(maps, e)
  IN IF e.operation \in {"uninstalled", "removed"}
     THEN [applied EXCEPT !["plugin_permissions"] = removed(@, granted_to(@, e.object_id))]
     ELSE applied

apply_event(p, e) ==
  LET known == apply_knowledge_event(p.knowledge, e)
  IN IF ~should_apply(p.cursor, e) THEN Accepted(p)
     ELSE IF ~ensure_supported(e) THEN Refused(p)
     ELSE IF e.object_type = "knowledge"
          THEN IF known.ok THEN Accepted([p EXCEPT !.cursor = e.sequence, !.knowledge = known.p]) ELSE Refused(p)
     ELSE IF e.operation \notin allowed(e.object_type) THEN Refused(p)
     ELSE Accepted([p EXCEPT !.cursor = e.sequence,
                      !.maps = IF e.object_type = "plugin" THEN apply_plugin_event(@, e)
                               ELSE apply_snapshot_operation(@, e)])

then_apply(acc, e) == IF acc.ok THEN apply_event(acc.p, e) ELSE acc

apply_events(p, events) ==
  LET after[n \in 0..Len(events)] == IF n = 0 THEN Accepted(p) ELSE then_apply(after[n - 1], events[n])
  IN after[Len(events)]

-----------------------------------------------------------------------------
(* What the agent runtime asks the projection.  A map is walked in no      *)
(* particular order, so that a question may have several answers.          *)
is_active_payload(payload) ==
  payload.status \notin {"disabled", "deleted", "removed", "uninstalled", "inactive"}

active(map) == {k \in DOMAIN map : is_active_payload(map[k])}

\* Whether there is a text: the list, if the payload has one, and otherwise a single one.
extract_instruction_texts(payload) ==
  IF payload.runtime_instructions # "absent" THEN payload.runtime_instructions = "some"
  ELSE payload.runtime_instruction

\* Active installations with at least one instruction.
skill_runtime_bundles(p) ==
  LET skills == p.maps["skill"] IN {o \in active(skills) : extract_instruction_texts(skills[o])}

\* All plugins here have one plugin_key.
evaluate_sage_invocation(p, permission, high_risk, user_confirmed) ==
  LET permissions == p.maps["plugin_permissions"]
      grants(o) == {k \in active(permissions) : /\ permissions[k].installation_id = o
                                                /\ permissions[k].permission_key = permission}
      decision(k) == IF (high_risk \/ permissions[k].requires_confirmation) /\ ~user_confirmed
                     THEN "RequiresConfirmation" ELSE "Allow"
      installed == active(p.maps["plugin"])
  IN IF installed = {} THEN {"plugin_not_installed"}
     ELSE UNION {IF grants(o) = {} THEN {"permission_not_granted"} ELSE {decision(k) : k \in grants(o)} :
                 o \in installed}

\* The place of an object in the order of ids.
place(found, o) == Cardinality({x \in found : x <= o})

\* The entries whose content, known by its hash, matches the query, by id, at most limit of them.
retrieve_knowledge_context(p, matches, limit) ==
  LET entries == p.knowledge.entries
      found == {o \in DOMAIN entries : entries[o].status = "active" /\ entries[o].content_hash \in matches}
      count == Cardinality(found)
  IN [k \in 1..(IF limit < count THEN limit ELSE count) |->
        CHOOSE o \in found : place(found, o) = k]

-----------------------------------------------------------------------------
(* The backend and the host, outside the repository.                       *)
Init ==
  /\ stream = <<>>
  /\ kept = 0
  /\ pages = {}
  /\ held = EmptyProjection
  /\ saved = EmptyProjection

Status(operation) ==
  CASE operation \in {"deleted", "uninstalled", "removed", "disabled"} -> {operation}
    [] operation \in {"updated", "permission_granted"} -> {"active", "inactive"}
    [] OTHER -> {"active"}

\* Payloads as the backend's envelopes carry them, with a tombstone that is not
\* one and an entry of another id among the knowledge ones.
EntryPayloads(o, operation) ==
  [entry_id : {o}, status : IF operation = "deleted" THEN {"deleted"} ELSE {"active"},
   version : 1..2, content_hash : 1..2]
  \cup {[entry_id |-> 0, status |-> "deleted", version |-> 1, content_hash |-> 1],
        [entry_id |-> o, status |-> "active", version |-> 1, content_hash |-> 1]}
SkillPayloads(operation) ==
  [status : Status(operation), runtime_instruction : {TRUE}, runtime_instructions : {"absent", "empty", "some"}]
Grant(o, m, s) ==
  [status |-> s, installation_id |-> o, permission_key |-> m,
   grant_id |-> IF <<o, m>> \in Named THEN <<o, m>> ELSE <<>>,
   requires_confirmation |-> <<o, m>> \in Named]
GrantPayloads(o, operation) == {Grant(o, m, s) : s \in Status(operation), m \in Permissions}

Payloads(type, o, operation) ==
  IF type = "knowledge" THEN EntryPayloads(o, operation)
  ELSE IF type = "skill" THEN SkillPayloads(operation)
  ELSE IF type = "plugin" /\ operation \in Grants THEN GrantPayloads(o, operation)
  ELSE [status : Status(operation)]

\* An event, of the reducer's schema or a newer one.
publish(type, operation, o, payload, schema) ==
  /\ Len(stream) < MaxSequence
  /\ stream' = Append(stream, [sequence |-> Len(stream) + 1, schema_version |-> schema, object_type |-> type,
                               object_id |-> o, operation |-> operation, payload |-> payload])
  /\ UNCHANGED <<kept, pages, held, saved>>

\* GET /api/v1/sync/events after the persisted cursor: a page, or an error code.
pull ==
  /\ Cardinality(pages) < MaxPages
  /\ \/ \E upto \in (saved.cursor + 1)..Len(stream) :
          pages' = pages \cup {[code |-> 0, events |-> SubSeq(stream, saved.cursor + 1, upto)]}
     \/ pages' = pages \cup {[code |-> 401, events |-> <<>>]}
  /\ UNCHANGED <<stream, kept, held, saved>>

\* apply_sync_pull_response_json on the stored projection.  The answer may be
\* applied once more later.
apply_sync_pull_response(page, again) ==
  LET r == apply_events(saved, page.events)
  IN /\ held' = IF page.code = 0 /\ r.ok THEN r.p ELSE held
     /\ pages' = IF again THEN pages ELSE pages \ {page}
     /\ UNCHANGED <<stream, kept, saved>>

persist ==
  /\ held # saved
  /\ saved' = held
  /\ UNCHANGED <<stream, kept, pages, held>>

\* The backend drops what the acknowledged cursor covers.
ack ==
  /\ saved.cursor > kept
  /\ kept' = saved.cursor
  /\ UNCHANGED <<stream, pages, held, saved>>

restart ==
  /\ held # saved \/ pages # {}
  /\ held' = saved
  /\ pages' = {}
  /\ UNCHANGED <<stream, kept, saved>>

Next ==
  \/ \E pub \in Publications, o \in Objects :
       \E payload \in Payloads(pub[1], o, pub[2]) : publish(pub[1], pub[2], o, payload, 1)
  \/ \E o \in Objects : publish("message", "created", o, [status |-> "active"], 2)
  \/ pull \/ persist \/ ack \/ restart
  \/ \E page \in pages, again \in BOOLEAN : apply_sync_pull_response(page, again)

Spec == Init /\ [][Next]_yvars

-----------------------------------------------------------------------------
TypeOK ==
  /\ kept \in 0..Len(stream) /\ saved.cursor \in 0..Len(stream)
  /\ Cardinality(pages) <= MaxPages
  /\ DOMAIN saved.knowledge.entries \subseteq Objects /\ DOMAIN saved.maps = Families

\* The last of the first n events that satisfies a test, 0 if there is none.
LastOf(n, Test(_)) ==
  LET s == {i \in 1..n : Test(stream[i])} IN IF s = {} THEN 0 ELSE CHOOSE i \in s : \A j \in s : j <= i

\* What the stream says of an object of a family: its last payload, if the last
\* event left one.
Stands(n, f, o) ==
  LET last == LastOf(n, LAMBDA e : e.object_type # "knowledge" /\ family(e) = f /\ e.object_id = o)
  IN IF last = 0 THEN {} ELSE IF stream[last].operation \in Removals THEN {} ELSE {stream[last].payload}

\* What it says of a grant: an installation that goes takes its grants along.
Granted(n, k, o) ==
  LET last == LastOf(n, LAMBDA e : /\ e.object_type = "plugin"
                                   /\ \/ e.operation \in Grants /\ permission_key(e) = k
                                      \/ e.operation \in {"uninstalled", "removed"} /\ e.object_id = o)
  IN IF last = 0 THEN {} ELSE IF stream[last].operation = "permission_granted" THEN {stream[last].payload} ELSE {}

\* An entry is the payload of the newest version up to n; nothing contradicts it.
Newest(n, o, payload) ==
  LET about == {i \in 1..n : stream[i].object_type = "knowledge" /\ stream[i].object_id = o}
  IN /\ \E i \in about : stream[i].payload = payload
     /\ \A i \in about : /\ stream[i].payload.version <= payload.version
                         /\ ~contradicts(payload, stream[i].payload)

\* A projection is what the stream says up to its cursor: no event was skipped and
\* none that the reducer cannot accept was passed; a knowledge entry is the newest
\* version, however the versions are ordered; any other map has the last snapshot;
\* a permission stands exactly if its last grant was neither revoked nor uninstalled
\* since.
AsStreamSays(p) ==
  /\ \A i \in 1..p.cursor :
       /\ stream[i].schema_version = 1
       /\ IF stream[i].object_type # "knowledge" THEN stream[i].operation \in allowed(stream[i].object_type)
          ELSE stream[i].operation = "deleted" => stream[i].payload.status = "deleted"
  /\ \A o \in DOMAIN p.knowledge.entries : Newest(p.cursor, o, p.knowledge.entries[o])
  /\ \A i \in 1..p.cursor : stream[i].object_type = "knowledge" => stream[i].object_id \in DOMAIN p.knowledge.entries
  /\ \A f \in Families \ {"plugin_permissions"}, o \in Objects :
       {p.maps[f][x] : x \in DOMAIN p.maps[f] \cap {o}} = Stands(p.cursor, f, o)
  /\ \A o \in Objects, m \in Permissions :
       LET k == IF <<o, m>> \in Named THEN <<0, <<o, m>>>> ELSE <<o, m>>
           permissions == p.maps["plugin_permissions"]
       IN {permissions[x] : x \in DOMAIN permissions \cap {k}} = Granted(p.cursor, k, o)

\* A plugin is allowed to act only by a grant that stands, confirmed where the grant
\* or the request is of high risk.
AllowsByGrant(p) ==
  \A m \in Permissions, high_risk \in BOOLEAN, confirmed \in BOOLEAN :
    "Allow" \in evaluate_sage_invocation(p, m, high_risk, confirmed) =>
      \E o \in Objects :
        /\ \E installed \in Stands(p.cursor, "plugin", o) : installed.status = "active"
        /\ \E k \in {<<0, <<o, m>>>>, <<o, m>>} : \E grant \in Granted(p.cursor, k, o) :
             grant.status = "active" /\ (high_risk \/ grant.requires_confirmation => confirmed)

\* A task is given only skills and citations that stand, and every one of the latter.
GivesWhatStands(p) ==
  /\ \A o \in skill_runtime_bundles(p) : \E s \in Stands(p.cursor, "skill", o) : s.status = "active"
  /\ LET cited == retrieve_knowledge_context(p, 1..2, Cardinality(Objects))
     IN \A o \in Objects :
          (\E i \in DOMAIN cited : cited[i] = o) <=>
            \E i \in 1..p.cursor : /\ stream[i].object_type = "knowledge" /\ stream[i].object_id = o
                                   /\ stream[i].payload.status = "active" /\ Newest(p.cursor, o, stream[i].payload)

\* The knowledge projection alone would come to the same entries.
AloneAlike(page) ==
  LET whole == apply_events(saved, page.events)
      alone == apply_knowledge_sync_events(saved.knowledge, page.events)
  IN (\A i \in DOMAIN page.events : page.events[i].object_type = "knowledge") =>
       alone.ok = whole.ok /\ (whole.ok => alone.p = whole.p.knowledge)

\* Whatever pages were lost, repeated, answered late or cut by a restart, the
\* projections follow the stream, and the backend drops nothing that the host has
\* not persisted.
FollowsStream ==
  /\ kept <= saved.cursor
  /\ \A p \in {held, saved} : AsStreamSays(p) /\ AllowsByGrant(p) /\ GivesWhatStands(p)
  /\ \A page \in pages : AloneAlike(page)
=============================================================================
