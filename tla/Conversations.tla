----------------------------- MODULE Conversations -----------------------------
(***************************************************************************)
(* conversation-kernel: the commands on messages, suggestions, linked      *)
(* entities and artifacts, surfaces and assets, the projection of the      *)
(* journal they append to, projection snapshots, and the slices of a       *)
(* conversation built for an agent.  (Agent runs are in AgentRuns, actions *)
(* in ActionRuntime.)                                                      *)
(*                                                                         *)
(* A command loads and projects the journal, validates itself against that *)
(* state and appends its events one by one; nothing is locked in between.  *)
(* One conversation: it is known to callers once its creation has          *)
(* returned, so creation is one step.                                      *)
(***************************************************************************)
EXTENDS Naturals, Sequences, FiniteSets, SequencesExt, TLC

CONSTANTS Callers,
          Humans, Agents, Others,  \* participant ids by ParticipantKind; Others are System or Integration
          Threads, Entities, Artifacts, Surfaces, Assets,
          MaxEvents,               \* bound of the journal
          MaxRecent                \* max_recent_messages of a slice

VARIABLES journal,  \* the events appended to the conversation
          calls     \* of every caller: where its command is and the events it has still to append

jvars == <<journal, calls>>

Participants == Humans \cup Agents \cup Others
is_foreground(u) == u \in Humans \cup Agents

Visibilities ==
    [kind : {"Conversation", "AgentOnly"}, users : {{}}]
        \cup [kind : {"PrivateToUser"}, users : {{u} : u \in Participants}]
        \cup [kind : {"Participants"}, users : SUBSET Participants]

(* ---- projection ---- *)

Empty == [session |-> FALSE, participants |-> {}, messages |-> <<>>, by_id |-> <<>>, threads |-> <<>>,
          entities |-> {}, artifacts |-> {}, surfaces |-> <<>>, assets |-> <<>>]

with(f, key, value) == (key :> value) @@ f

push_message(state, message) ==
    [state EXCEPT
        !.threads = IF message.thread = {} THEN @
                    ELSE LET t == CHOOSE t \in message.thread : TRUE IN
                         with(@, t, Append(IF t \in DOMAIN @ THEN @[t] ELSE <<>>, message.id)),
        !.by_id = with(@, message.id, message),
        !.messages = Append(@, message)]

\* Faulty variant: the edit reaches the index and not the ordered list.
edit_indexed(state, id) ==
    IF id \in DOMAIN state.by_id THEN [state EXCEPT !.by_id[id].text = "edited"] ELSE state

edit(state, id) ==
    IF id \notin DOMAIN state.by_id THEN state
    ELSE [state EXCEPT !.by_id[id].text = "edited",
                       !.messages = [i \in DOMAIN @ |-> IF @[i].id = id THEN [@[i] EXCEPT !.text = "edited"] ELSE @[i]]]

apply_event(state, event) ==
    LET of == event.of IN
    CASE event.type = "ConversationCreated" -> [state EXCEPT !.session = TRUE]
      [] event.type = "ParticipantAdded" -> [state EXCEPT !.participants = @ \cup {of}]
      [] event.type = "ParticipantRemoved" -> [state EXCEPT !.participants = @ \ {of}]
      [] event.type \in {"MessageAppended", "AssistantSuggestionCreated"} -> push_message(state, of)
      [] event.type = "MessageEdited" -> edit(state, of)
      [] event.type = "MessageTombstoned" -> [state EXCEPT !.messages = SelectSeq(@, LAMBDA m : m.id # of)]
      [] event.type = "ThreadStarted" ->
            [state EXCEPT !.threads = with(@, of[1], Append(IF of[1] \in DOMAIN @ THEN @[of[1]] ELSE <<>>, of[2]))]
      [] event.type = "EntityLinkedToConversation" -> [state EXCEPT !.entities = @ \cup {of}]
      [] event.type = "EntityUnlinkedFromConversation" -> [state EXCEPT !.entities = @ \ {of}]
      [] event.type = "ArtifactLinkedToConversation" -> [state EXCEPT !.artifacts = @ \cup {of}]
      [] event.type = "ArtifactUnlinkedFromConversation" -> [state EXCEPT !.artifacts = @ \ {of}]
      [] event.type = "SurfaceAttachedToConversation" -> [state EXCEPT !.surfaces = with(@, of, "Attached")]
      [] event.type = "SurfaceUpdatedInConversation" -> [state EXCEPT !.surfaces = with(@, of, "Updated")]
      [] event.type = "SurfaceClosedInConversation" ->
            [state EXCEPT !.surfaces = IF of \in DOMAIN @ THEN with(@, of, "Closed") ELSE @]
      [] event.type = "AssetObservedInConversation" -> [state EXCEPT !.assets = with(@, of, "Observed")]
      [] event.type = "AssetCapturedInConversation" -> [state EXCEPT !.assets = with(@, of, "Captured")]
      [] event.type = "AssetProcessedInConversation" ->
            [state EXCEPT !.assets = IF of \in DOMAIN @ THEN with(@, of, "Processed") ELSE @]
      [] OTHER -> state  \* EntityStateObserved, EntityQueried and the events of the other modules

project(events) == FoldLeft(apply_event, Empty, events)

\* A snapshot of the first n events, and the tail replayed over it.
snapshot(n) == project(SubSeq(journal, 1, n))
project_from_snapshot(n, tail) == FoldLeft(apply_event, snapshot(n), tail)

Event(type, of) == <<[type |-> type, of |-> of]>>

(* ---- slices ---- *)

last_of(messages) == SubSeq(messages, IF Len(messages) > MaxRecent THEN Len(messages) - MaxRecent + 1 ELSE 1, Len(messages))

build_recent_window(state) ==
    last_of(SelectSeq(state.messages, LAMBDA m : m.sees.kind \in {"Conversation", "AgentOnly"}))

build_for_user(state, user) ==
    last_of(SelectSeq(state.messages, LAMBDA m : m.sees.kind \in {"Conversation", "AgentOnly"} \/ user \in m.sees.users))

\* Tombstoned messages are still in the index, and visibility is not asked.
build_current_thread(state, thread) ==
    LET known == SelectSeq(state.threads[thread], LAMBDA id : id \in DOMAIN state.by_id)
    IN  [i \in DOMAIN known |-> state.by_id[known[i]]]

build_around_trigger(state, i, before, after) ==
    SubSeq(state.messages, IF i > before THEN i - before ELSE 1, IF i + after < Len(state.messages) THEN i + after ELSE Len(state.messages))

(* ---- commands: the sets of events a command appends, by the state it has loaded ---- *)

validate_visibility(state, sees) ==
    IF sees.kind = "AgentOnly" THEN state.participants \cap Agents # {} ELSE sees.users \subseteq state.participants

Message(id, sender, reply, thread, sees) ==
    [id |-> id, sender |-> sender, text |-> "written", reply |-> reply, thread |-> thread, sees |-> sees]

append_message(state, id) ==
    {Event("MessageAppended", Message(id, sender, reply, thread, sees)) :
        sender \in {u \in state.participants : is_foreground(u)},
        reply \in {{}} \cup {{m} : m \in DOMAIN state.by_id},
        thread \in {{}} \cup {{t} : t \in DOMAIN state.threads},
        sees \in {v \in Visibilities : validate_visibility(state, v)}}

\* Any participant may edit any message, a tombstoned one too.
edit_message(state) == IF state.participants = {} THEN {} ELSE {Event("MessageEdited", m) : m \in DOMAIN state.by_id}

create_assistant_suggestion(state, id) ==
    {Event("AssistantSuggestionCreated",
           Message(id, sender, {}, {}, [kind |-> "PrivateToUser", users |-> {user}])) :
        sender \in state.participants \cap Agents, user \in state.participants}

entity_commands(state) ==
    {Event("EntityLinkedToConversation", x) : x \in Entities}
        \cup {Event(type, x) : x \in state.entities,
                               type \in {"EntityUnlinkedFromConversation", "EntityStateObserved", "EntityQueried"}}

artifact_commands(state) ==
    {Event("ArtifactLinkedToConversation", x) : x \in Artifacts}
        \cup {Event("ArtifactUnlinkedFromConversation", x) : x \in state.artifacts}

surface_commands(state) ==
    {Event("SurfaceAttachedToConversation", x) : x \in Surfaces}
        \cup {Event(type, x) : x \in DOMAIN state.surfaces,
                               type \in {"SurfaceUpdatedInConversation", "SurfaceClosedInConversation"}}

asset_commands(state) ==
    {Event("AssetObservedInConversation", x) : x \in Assets}
        \cup {Event(type, x) : x \in DOMAIN state.assets,
                               type \in {"AssetCapturedInConversation", "AssetProcessedInConversation"}}

(* ---- steps ---- *)

Idle == <<>>

Init ==
    /\ journal = <<>>
    /\ calls = [p \in Callers |-> Idle]

create_conversation ==
    /\ journal = <<>>
    /\ \E members \in (SUBSET Participants) \ {{}} :
         journal' = Event("ConversationCreated", members)
                        \o [i \in 1 .. Cardinality(members) |-> Event("ParticipantAdded", SetToSeq(members)[i])[1]]
    /\ UNCHANGED calls

\* load_state and the command's validation.
loaded == project(journal)

validates(p, commands) ==
    /\ calls[p] = Idle
    /\ Len(journal) < MaxEvents /\ loaded.session
    /\ \E events \in commands : calls' = [calls EXCEPT ![p] = events]
    /\ UNCHANGED journal

\* An append that fails ends the command.
append_envelope(p) ==
    /\ calls[p] # Idle
    /\ \/ journal' = Append(journal, Head(calls[p])) /\ calls' = [calls EXCEPT ![p] = Tail(@)]
       \/ calls' = [calls EXCEPT ![p] = Idle] /\ UNCHANGED journal

\* No command of the kernel appends these; its projection takes them from another writer of the journal.
append_elsewhere ==
    LET state == project(journal) IN
    /\ state.session /\ Len(journal) < MaxEvents
    /\ \/ \E u \in state.participants : journal' = journal \o Event("ParticipantRemoved", u)
       \/ \E m \in DOMAIN state.by_id :
            \/ journal' = journal \o Event("MessageTombstoned", m)
            \/ \E t \in Threads : journal' = journal \o Event("ThreadStarted", <<t, m>>)
    /\ UNCHANGED calls

MessageNext ==
    \/ create_conversation
    \/ append_elsewhere
    \/ \E p \in Callers :
         \/ validates(p, append_message(loaded, <<p, Len(journal)>>))
         \/ validates(p, edit_message(loaded))
         \/ validates(p, create_assistant_suggestion(loaded, <<p, Len(journal)>>))
         \/ append_envelope(p)

LinkNext ==
    \/ create_conversation
    \/ \E p \in Callers :
         \/ validates(p, entity_commands(loaded))
         \/ validates(p, artifact_commands(loaded))
         \/ validates(p, surface_commands(loaded))
         \/ validates(p, asset_commands(loaded))
         \/ append_envelope(p)

Next == MessageNext \/ LinkNext

Spec == Init /\ [][Next]_jvars

(* ---- properties ---- *)

was(n) == snapshot(n - 1)
pushes(type) == type \in {"MessageAppended", "AssistantSuggestionCreated", "ThreadStarted"}

\* The journal holds together although every command validates a state that may be old when its events are
\* appended: what an event refers to was in the journal before it, a message's sender and audience had been
\* participants; the ordered timeline, the index and the threads show the same messages; a snapshot and its
\* tail give the full projection, and a tail that starts one event early does too unless it pushes a message
\* again; no slice for a user holds what only others may see, and no window holds what is private.
ConversationSound ==
    /\ \A n \in DOMAIN journal :
         LET of == journal[n].of  type == journal[n].type IN
         /\ type \in {"MessageAppended", "AssistantSuggestionCreated"} =>
              /\ of.reply \subseteq DOMAIN was(n).by_id /\ of.id \notin DOMAIN was(n).by_id
              /\ of.thread \subseteq DOMAIN was(n).threads
              /\ \A u \in {of.sender} \cup of.sees.users : \E k \in 1 .. n : u \in was(k).participants
         /\ type \in {"MessageEdited", "MessageTombstoned"} => of \in DOMAIN was(n).by_id
         /\ type \in {"SurfaceUpdatedInConversation", "SurfaceClosedInConversation"} => of \in DOMAIN was(n).surfaces
         /\ type \in {"AssetCapturedInConversation", "AssetProcessedInConversation"} => of \in DOMAIN was(n).assets
         /\ type \in {"EntityUnlinkedFromConversation", "EntityQueried", "EntityStateObserved"} =>
              \E k \in 1 .. n : of \in was(k).entities
         /\ project_from_snapshot(n, SubSeq(journal, n + 1, Len(journal))) = project(journal)
         /\ pushes(type) \/ project_from_snapshot(n, SubSeq(journal, n, Len(journal))) = project(journal)
    /\ LET state == project(journal) IN
       /\ \A i \in DOMAIN state.messages : state.messages[i] = state.by_id[state.messages[i].id]
       /\ \A t \in DOMAIN state.threads : ToSet(build_current_thread(state, t)) \subseteq Range(state.by_id)
       /\ \A i, k \in DOMAIN state.messages :
            /\ state.messages[i].id = state.messages[k].id => i = k
            /\ state.messages[i] \in ToSet(build_around_trigger(state, i, 1, 0))
       /\ \A m \in ToSet(build_recent_window(state)) : m.sees.kind \notin {"PrivateToUser", "Participants"}
       /\ \A u \in Participants : \A m \in ToSet(build_for_user(state, u)) :
            m.sees.kind \in {"PrivateToUser", "Participants"} => u \in m.sees.users

================================================================================
