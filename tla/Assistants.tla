------------------------------- MODULE Assistants -------------------------------
(***************************************************************************)
(* assistant-core: the conversations an assistant opens for its owner or   *)
(* for a group, each a series of appends to the conversation journal; and  *)
(* skill-core: the registry that validates a skill's manifest against the  *)
(* host's environment before it takes it.                                  *)
(***************************************************************************)
EXTENDS Naturals, Sequences, FiniteSets, SequencesExt

CONSTANTS Callers, Humans, Owner, Assistant, Foreground,  \* Foreground: participants that are not human
          Entities, MaxConversations,
          Actions, Needs,  \* Needs: permission scopes and context providers
          MaxBindings

VARIABLES conversations,  \* what the journal holds of each, in the order of their creation
          calls,          \* of every caller: the creation it runs and what is left to append
          environment, skill, report

avars == <<conversations, calls, environment, skill, report>>
conversationVars == <<conversations, calls>>
skillVars == <<environment, skill, report>>

(* ---- conversations ---- *)

Participants == Humans \cup {Assistant} \cup Foreground
Nobody == "nobody"
Idle == [at |-> "idle", id |-> 0, adding |-> <<>>, linking |-> <<>>, actor |-> Nobody, linked_by |-> Nobody,
         wanted |-> [members |-> {}, linked |-> {}]]

begin(p, members, entities, actor) ==
    calls' = [calls EXCEPT ![p] =
        [at |-> "create", id |-> 0, adding |-> SetToSeq(members), linking |-> SetToSeq(entities), actor |-> actor,
         linked_by |-> IF actor = Nobody THEN Owner ELSE actor,
         wanted |-> [members |-> members, linked |-> entities]]]

idle(p) == calls[p].at \in {"idle", "done", "failed"}

\* main_conversation_spec: the participant given as the owner is the profile's owner, and human.
create_main_conversation(p) ==
    /\ idle(p) /\ Len(conversations) < MaxConversations
    /\ \E owner \in Humans \cup Foreground, entities \in SUBSET Entities :
         /\ owner = Owner /\ owner \in Humans
         /\ begin(p, {owner, Assistant}, entities, Owner)
    /\ UNCHANGED conversations

\* group_conversation_spec: at least one participant, every one of them human; the actor is whoever the caller
\* names, and the assistant's owner need not be in the group.
create_group_conversation(p) ==
    /\ idle(p) /\ Len(conversations) < MaxConversations
    /\ \E group \in (SUBSET (Humans \cup Foreground)) \ {{}}, entities \in SUBSET Entities, actor \in Humans \cup {Nobody} :
         /\ group \subseteq Humans
         /\ begin(p, group \cup {Assistant}, entities, actor)
    /\ UNCHANGED conversations

\* Kernel create_conversation: the session lists every participant, and each is then added by an event of its own.
append_created(p) ==
    /\ calls[p].at = "create"
    /\ conversations' = Append(conversations, [by |-> p, members |-> calls[p].wanted.members, added |-> {}, linked |-> {}])
    /\ calls' = [calls EXCEPT ![p].at = "append", ![p].id = Len(conversations) + 1]

append_participant(p) ==
    /\ calls[p].at = "append" /\ calls[p].adding # <<>>
    /\ conversations' = [conversations EXCEPT ![calls[p].id].added = @ \cup {Head(calls[p].adding)}]
    /\ calls' = [calls EXCEPT ![p].adding = Tail(@)]

\* Kernel link_entity: who links must be a participant; the first refusal ends the call.
link_entity(p) ==
    /\ calls[p].at = "append" /\ calls[p].adding = <<>> /\ calls[p].linking # <<>>
    /\ IF calls[p].linked_by \in conversations[calls[p].id].members
       THEN /\ conversations' = [conversations EXCEPT ![calls[p].id].linked = @ \cup {Head(calls[p].linking)}]
            /\ calls' = [calls EXCEPT ![p].linking = Tail(@)]
       ELSE calls' = [calls EXCEPT ![p].at = "failed"] /\ UNCHANGED conversations

returns(p) ==
    /\ calls[p].at = "append" /\ calls[p].adding = <<>> /\ calls[p].linking = <<>>
    /\ calls' = [calls EXCEPT ![p].at = "done"]
    /\ UNCHANGED conversations

\* An append to the journal fails: what was appended before stays.
append_fails(p) ==
    /\ ~idle(p)
    /\ calls' = [calls EXCEPT ![p].at = "failed"]
    /\ UNCHANGED conversations

AssistantNext ==
    /\ \E p \in Callers : \/ create_main_conversation(p) \/ create_group_conversation(p)
                          \/ append_created(p) \/ append_participant(p) \/ link_entity(p)
                          \/ returns(p) \/ append_fails(p)
    /\ UNCHANGED skillVars

(* ---- skills ---- *)

Modes == {"Allow", "RequireApproval", "Deny"}

\* A manifest is what the validation looks at: its texts are complete or not, and it is meant for production, or
\* for development or tests only.
Manifests ==
    [complete : BOOLEAN, bindings : UNION {[1 .. n -> [action : Actions, mode : Modes]] : n \in 0 .. MaxBindings},
     needs : [Needs -> {"unnamed", "optional", "required"}],
     requires_network : BOOLEAN, supports_local_only : BOOLEAN, production : BOOLEAN]
Unregistered == [registered |-> FALSE]

\* Faulty variant: each binding is compared with the one next to it only.
binding_conflicts_adjacent(bindings) ==
    {i \in DOMAIN bindings : i > 1 /\ bindings[i - 1].action = bindings[i].action /\ bindings[i - 1].mode # bindings[i].mode}

\* Each binding is compared with the one of the same action before it.
binding_conflicts(bindings) ==
    {i \in DOMAIN bindings :
        LET before == {j \in 1 .. (i - 1) : bindings[j].action = bindings[i].action} IN
        before # {} /\ bindings[CHOOSE j \in before : \A k \in before : k <= j].mode # bindings[i].mode}

when(condition, code) == IF condition THEN {code} ELSE {}
errors(m, env) == UNION {
    when(~m.complete, "InstructionMissing"),
    when(\E i \in DOMAIN m.bindings : m.bindings[i].action \notin env.actions, "ActionUnavailable"),
    when(binding_conflicts(m.bindings) # {}, "ActionBindingConflict"),
    when(\E n \in Needs \ env.granted : m.needs[n] = "required", "RequiredMissing"),
    when(m.requires_network /\ ~env.network_available, "NetworkRequiredButUnavailable"),
    when(env.local_only /\ ~m.supports_local_only, "LocalOnlyUnsupported"),
    when(env.production_mode /\ ~m.production, "NotForProduction")}

warnings(m, env) == {n \in Needs \ env.granted : m.needs[n] = "optional"}

\* The id is looked up before the manifest is validated; a manifest with warnings only is taken.
register ==
    /\ \/ /\ skill.registered
          /\ report' = "DuplicateSkill" /\ UNCHANGED skill
       \/ /\ ~skill.registered
          /\ \E m \in Manifests :
               LET found == errors(m, environment) IN
               /\ skill' = IF found # {} THEN skill ELSE [registered |-> TRUE, manifest |-> m]
               /\ report' = IF found # {} THEN "InvalidManifest"
                            ELSE IF warnings(m, environment) # {} THEN "ValidWithWarnings" ELSE "Valid"
    /\ UNCHANGED environment

SkillNext == register /\ UNCHANGED conversationVars

Init ==
    /\ conversations = <<>> /\ calls = [p \in Callers |-> Idle]
    /\ environment \in [actions : SUBSET Actions, granted : SUBSET Needs, network_available : BOOLEAN,
                        local_only : BOOLEAN, production_mode : BOOLEAN]
    /\ skill = Unregistered /\ report = "none"

Next == AssistantNext \/ SkillNext
Spec == Init /\ [][Next]_avars

(* ---- properties ---- *)

whole(c) == c.added = c.members

ConversationsSound ==
    /\ \A i \in DOMAIN conversations :
          LET c == conversations[i] IN
          /\ Assistant \in c.members /\ c.members \cap Humans # {} /\ c.members \cap Foreground = {}
          /\ c.linked # {} => whole(c)
    /\ \A p \in Callers :
          /\ calls[p].at = "done" =>
                /\ whole(conversations[calls[p].id])
                /\ conversations[calls[p].id].linked = calls[p].wanted.linked

SkillsSound ==
    skill.registered =>
        LET m == skill.manifest IN
        /\ \A i, j \in DOMAIN m.bindings : m.bindings[i].action = m.bindings[j].action => m.bindings[i].mode = m.bindings[j].mode
        /\ {n \in Needs : m.needs[n] = "required"} \subseteq environment.granted
        /\ environment.local_only => m.supports_local_only

\* A creation that returns leaves a conversation with every participant and link that was asked for; whatever
\* fails, no conversation mixes participants that are no humans with the assistant's, and links follow the last
\* participant.  A registered skill never gives one action two modes, however its bindings are ordered, and needs
\* nothing the host withholds.
\* (assistant-core create_conversation_from_spec, skill-core SkillManifest::validate)
AssistantsSound == ConversationsSound /\ SkillsSound
================================================================================
