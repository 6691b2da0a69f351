--------------------------- MODULE KnowledgeStores ---------------------------
(***************************************************************************)
(* The in-memory stores of the knowledge entity: the repository behind the *)
(* knowledge actions, the governance records, the question ledger, the     *)
(* answer cache and the citation evidence.  Nothing is ever deleted and an *)
(* id is the store's size plus one, so a store is a sequence and an id its *)
(* index.  Each operation locks one store once, except cite_answer,        *)
(* trace_answer and the query of the work object coordinator, which read   *)
(* one store, release it and go on with another.  An operation that        *)
(* returns an error changes nothing and is not written down.               *)
(***************************************************************************)
EXTENDS Naturals, Sequences, FiniteSets, FiniteSetsExt

CONSTANTS Entries,      \* knowledge entry ids that questions and answers name
          WorkObjects,  \* work objects
          Answers,      \* answer ids
          MaxSize,      \* bound: records in a store
          MaxTime       \* bound: time stamps that callers pass

VARIABLES entries,     \* MemoryKnowledgeRepository.entries
          governance,  \* MemoryKnowledgeGovernanceStore.records, absent or a record
          questions,   \* MemoryQuestionLedger.entries
          packages,    \* MemoryAnswerCacheStore.packages
          evidence,    \* MemoryCitationEvidenceStore.evidence
          citations,   \* MemoryCitationEvidenceStore.citations, per answer id
          reader       \* the operation between its two locks

svars == <<entries, governance, questions, packages, evidence, citations, reader>>

None == "none"
Idle == [op |-> "idle"]

KnowledgeGovernanceStatus == {"Draft", "Active", "Deprecated", "Archived"}

NoRecord == [status |-> "Absent", valid |-> FALSE]

\* Whether title and content are not blank; changed is ghost: an update came in.
StoredKnowledgeEntry == [title : BOOLEAN, content : BOOLEAN, changed : BOOLEAN]
\* valid: validation_errors of the metadata is empty.
KnowledgeGovernanceRecord == [status : KnowledgeGovernanceStatus, valid : BOOLEAN]
QuestionLedgerEntry == [work_object : WorkObjects \cup {None}, related : SUBSET Entries,
                        answered : BOOLEAN]
AnswerCachePackage == [question : Nat, work_object : WorkObjects \cup {None}, answer : Answers,
                       version : Nat, related : SUBSET Entries, at : 1..MaxTime]
\* Evidence names an artifact or something that is not permission controlled.
CitationEvidenceRecord == {"Artifact", "Open"}

Init ==
  /\ entries = <<>> /\ questions = <<>> /\ packages = <<>> /\ evidence = <<>>
  /\ governance = [e \in Entries |-> NoRecord]
  /\ citations = [a \in Answers |-> {}]
  /\ reader = Idle

has_room(store) == Len(store) < MaxSize

-----------------------------------------------------------------------------
(* The repository and the knowledge actions.  knowledge.search, get_entry  *)
(* and create_draft leave the repository as it is.                         *)

validate_draft_fields(title, content) == title /\ content

\* knowledge.save_entry: validate_for_write, then save_draft.
save_entry(title, content) ==
  /\ has_room(entries)
  /\ validate_draft_fields(title, content)
  /\ entries' = Append(entries, [title |-> title, content |-> content, changed |-> FALSE])
  /\ UNCHANGED <<governance, questions, packages, evidence, citations, reader>>

\* knowledge.update_entry: only the fields given, and nothing is validated.
update_entry(i, title, content) ==
  /\ i \in 1..Len(entries)
  /\ entries' = [entries EXCEPT ![i].title = title, ![i].content = content, ![i].changed = TRUE]
  /\ UNCHANGED <<governance, questions, packages, evidence, citations, reader>>

RepositoryNext ==
  \/ \E t, c \in BOOLEAN : save_entry(t, c)
  \/ \E i \in 1..MaxSize, t, c \in BOOLEAN : update_entry(i, t, c)

-----------------------------------------------------------------------------
(* Governance.  A record is inserted as it comes, whatever its status.     *)
upsert_record(e, r) ==
  /\ governance' = [governance EXCEPT ![e] = r]
  /\ UNCHANGED <<entries, questions, packages, evidence, citations, reader>>

\* Only activation looks at the metadata.
activate(r) == r.valid

transition_status(e, status) ==
  /\ governance[e] # NoRecord
  /\ status = "Active" => activate(governance[e])
  /\ governance' = [governance EXCEPT ![e].status = status]
  /\ UNCHANGED <<entries, questions, packages, evidence, citations, reader>>

known == {e \in Entries : governance[e] # NoRecord}
review_queue == {e \in known : governance[e].status # "Active" /\ ~governance[e].valid}
active_index_entry_ids == {e \in known : governance[e].status = "Active" /\ governance[e].valid}

GovernanceNext ==
  \E e \in Entries :
    \/ \E r \in KnowledgeGovernanceRecord : upsert_record(e, r)
    \/ \E s \in KnowledgeGovernanceStatus : transition_status(e, s)

-----------------------------------------------------------------------------
(* Questions, cached answers and the query over both by work object.       *)
create_question(w, related) ==
  /\ has_room(questions)
  /\ questions' = Append(questions, [work_object |-> w, related |-> related, answered |-> FALSE])
  /\ UNCHANGED <<entries, governance, packages, evidence, citations, reader>>

\* Faulty variant: the related entries become those of the answer.
link_answer_only(q, related) ==
  /\ q \in 1..Len(questions)
  /\ questions' = [questions EXCEPT ![q].related = related, ![q].answered = TRUE]
  /\ UNCHANGED <<entries, governance, packages, evidence, citations, reader>>

\* The entry the answer names, if any, joins the related ones.
link_answer(q, named) ==
  /\ q \in 1..Len(questions)
  /\ questions' = [questions EXCEPT ![q].related = @ \cup named, ![q].answered = TRUE]
  /\ UNCHANGED <<entries, governance, packages, evidence, citations, reader>>

next_version_for_answer(a) ==
  1 + Max({0} \cup {packages[p].version : p \in {r \in 1..Len(packages) : packages[r].answer = a}})

\* related: the knowledge entries among the evidence, each once.
create_package(q, w, a, related, at) ==
  /\ has_room(packages)
  /\ packages' = Append(packages, [question |-> q, work_object |-> w, answer |-> a,
                                   version |-> next_version_for_answer(a), related |-> related, at |-> at])
  /\ UNCHANGED <<entries, governance, questions, evidence, citations, reader>>

\* The highest version, then the newest stamp, then the smallest id; 0: None.
latest_for_question(q) ==
  LET mine == {p \in 1..Len(packages) : packages[p].question = q}
      before(p, r) ==
        \/ packages[p].version > packages[r].version
        \/ packages[p].version = packages[r].version /\ packages[p].at > packages[r].at
        \/ packages[p].version = packages[r].version /\ packages[p].at = packages[r].at /\ p < r
  IN IF mine = {} THEN 0 ELSE CHOOSE p \in mine : \A r \in mine \ {p} : before(p, r)

questions_by_work_object(w) == {q \in 1..Len(questions) : questions[q].work_object = w}
packages_by_work_object(w) == {p \in 1..Len(packages) : packages[p].work_object = w}
entries_of(w) ==
  (UNION {questions[q].related : q \in questions_by_work_object(w)})
    \cup (UNION {packages[p].related : p \in packages_by_work_object(w)})

\* The coordinator reads the ledger, then the cache; start is ghost: what was
\* linked to the work object when the query began.
query_questions(w) ==
  /\ reader = Idle
  /\ reader' = [op |-> "query", work_object |-> w, start |-> entries_of(w),
                found |-> UNION {questions[q].related : q \in questions_by_work_object(w)}]
  /\ UNCHANGED <<entries, governance, questions, packages, evidence, citations>>

query_answers ==
  /\ reader.op = "query"
  /\ LET w == reader.work_object
     IN reader' = [reader EXCEPT
          !.op = "queried",
          !.found = @ \cup UNION {packages[p].related : p \in packages_by_work_object(w)}]
  /\ UNCHANGED <<entries, governance, questions, packages, evidence, citations>>

LedgerNext ==
  \/ \E w \in WorkObjects \cup {None}, r \in SUBSET Entries : create_question(w, r)
  \/ \E q \in 1..MaxSize, r \in {{}} \cup {{e} : e \in Entries} : link_answer(q, r)
  \/ \E q \in 0..MaxSize, w \in WorkObjects \cup {None}, a \in Answers, r \in SUBSET Entries,
        t \in 1..MaxTime : create_package(q, w, a, r, t)
  \/ \E w \in WorkObjects : query_questions(w)
  \/ query_answers

-----------------------------------------------------------------------------
(* Citation evidence.                                                      *)
register_evidence(kind) ==
  /\ has_room(evidence)
  /\ evidence' = Append(evidence, kind)
  /\ UNCHANGED <<entries, governance, questions, packages, citations, reader>>

cite_answer_check(a, i) ==
  /\ reader = Idle
  /\ i \in 1..Len(evidence)
  /\ reader' = [op |-> "cite", answer |-> a, id |-> i]
  /\ UNCHANGED <<entries, governance, questions, packages, evidence, citations>>

cite_answer ==
  /\ reader.op = "cite"
  /\ citations' = [citations EXCEPT ![reader.answer] = @ \cup {reader.id}]
  /\ reader' = Idle
  /\ UNCHANGED <<entries, governance, questions, packages, evidence>>

trace_answer_ids(a) ==
  /\ reader = Idle
  /\ reader' = [op |-> "trace", answer |-> a, ids |-> citations[a]]
  /\ UNCHANGED <<entries, governance, questions, packages, evidence, citations>>

\* Ids without evidence are passed over; trace_answer_with_permissions then
\* drops the artifacts the user may not read.
trace_answer(denied) ==
  /\ reader.op = "trace"
  /\ LET found == {i \in reader.ids : i \in 1..Len(evidence)}
         kept == {i \in found : evidence[i] = "Artifact" => i \notin denied}
     IN reader' = [op |-> "traced", answer |-> reader.answer, ids |-> reader.ids,
                   denied |-> denied, kept |-> kept]
  /\ UNCHANGED <<entries, governance, questions, packages, evidence, citations>>

EvidenceNext ==
  \/ \E k \in CitationEvidenceRecord : register_evidence(k)
  \/ \E a \in Answers, i \in 1..MaxSize : cite_answer_check(a, i)
  \/ cite_answer
  \/ \E a \in Answers : trace_answer_ids(a)
  \/ \E denied \in SUBSET (1..MaxSize) : trace_answer(denied)

\* The caller has its result.
returned ==
  /\ reader.op \in {"queried", "traced"}
  /\ reader' = Idle
  /\ UNCHANGED <<entries, governance, questions, packages, evidence, citations>>

Next == RepositoryNext \/ GovernanceNext \/ LedgerNext \/ EvidenceNext \/ returned

Spec == Init /\ [][Next]_svars

-----------------------------------------------------------------------------
TypeOK ==
  /\ entries \in Seq(StoredKnowledgeEntry) /\ questions \in Seq(QuestionLedgerEntry)
  /\ packages \in Seq(AnswerCachePackage) /\ evidence \in Seq(CitationEvidenceRecord)
  /\ governance \in [Entries -> KnowledgeGovernanceRecord \cup {NoRecord}]
  /\ citations \in [Answers -> SUBSET (1..MaxSize)]

\* A cross-entity query that reads the ledger and the cache at two moments
\* returns no knowledge entry that is not linked to the work object, and
\* misses none that was linked when it began, whatever is asked, answered and
\* cached in between.  A trace returns every piece of evidence cited before it
\* began, open evidence whatever the permissions.  Versions of an answer count
\* its packages, and a question with one answer has its last package as the
\* latest.  A blank entry has been updated.
StoresSound ==
  /\ reader.op = "queried" =>
       /\ reader.found \subseteq entries_of(reader.work_object)
       /\ reader.start \subseteq reader.found
  /\ reader.op = "traced" =>
       \A i \in reader.ids :
         /\ i \in 1..Len(evidence)
         /\ i \notin reader.kept => evidence[i] = "Artifact" /\ i \in reader.denied
  /\ \A p \in 1..Len(packages) :
       packages[p].version = Cardinality({r \in 1..p : packages[r].answer = packages[p].answer})
  /\ \A q \in 1..MaxSize :
       LET mine == {p \in 1..Len(packages) : packages[p].question = q}
       IN Cardinality({packages[p].answer : p \in mine}) = 1 =>
            latest_for_question(q) = Max(mine)
  /\ \A i \in 1..Len(entries) : entries[i].changed \/ (entries[i].title /\ entries[i].content)
=============================================================================
