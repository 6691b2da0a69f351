--------------------------- MODULE KnowledgeSearch ---------------------------
(***************************************************************************)
(* The knowledge indexes: the full-text backend, the embedding backend and *)
(* the hybrid search that fuses them, with the filter that applies         *)
(* enterprise permissions to what an index found.  An entry is a number in *)
(* the order of its id.  A query has one term or none; a document is known *)
(* by the fields that contain the term, by whether it passes the query's   *)
(* tag and metadata filters, and by its similarity to the query's vector.  *)
(* Scores keep the code's weights; similarities are in the same unit.      *)
(***************************************************************************)
EXTENDS Integers, Sequences, FiniteSets, SequencesExt

CONSTANTS Entries,       \* entry ids, numbers in the order of the ids
          Bodies,        \* the field sets documents are drawn from
          Dimensions,    \* vector lengths
          Spread,        \* cosine similarities run from -Spread to Spread
          Limit          \* the largest limit of a query

VARIABLES fulltext,  \* DeterministicFullTextKnowledgeBackend.documents
          embedded   \* DeterministicEmbeddingKnowledgeBackend.documents

kvars == <<fulltext, embedded>>

KnowledgeIndexDocument == [fields : Bodies, passes : BOOLEAN]
KnowledgeEmbeddingDocument == [dimensions : Dimensions, similarity : (-Spread)..Spread, passes : BOOLEAN]

\* A HashMap from the entries of an index to their documents.
Index(D) == UNION {[S -> D] : S \in SUBSET Entries}

insert(index, id, doc) == [i \in DOMAIN index \cup {id} |-> IF i = id THEN doc ELSE index[i]]
remove(index, id) == [i \in DOMAIN index \ {id} |-> index[i]]

Init == fulltext = <<>> /\ embedded = <<>>

-----------------------------------------------------------------------------
upsert(id, doc) == fulltext' = insert(fulltext, id, doc) /\ UNCHANGED embedded
delete(id) == fulltext' = remove(fulltext, id) /\ UNCHANGED embedded

\* A rebuild replaces everything; the reports it returns are left out.
rebuild(index) == fulltext' = index /\ UNCHANGED embedded

same_dimensions(docs) == \A d, e \in docs : d.dimensions = e.dimensions

\* Faulty variant: the dimensions are compared with the replaced document only.
upsert_checks_own(id, doc) ==
  /\ id \in DOMAIN embedded => embedded[id].dimensions = doc.dimensions
  /\ embedded' = insert(embedded, id, doc)
  /\ UNCHANGED fulltext

\* The first document met decides which dimensions are right.
upsert_embedding(id, doc) ==
  /\ \/ DOMAIN embedded = {}
     \/ \E first \in DOMAIN embedded : embedded[first].dimensions = doc.dimensions
  /\ embedded' = insert(embedded, id, doc)
  /\ UNCHANGED fulltext

delete_embedding(id) == embedded' = remove(embedded, id) /\ UNCHANGED fulltext

rebuild_embeddings(index) ==
  /\ same_dimensions({index[i] : i \in DOMAIN index})
  /\ embedded' = index
  /\ UNCHANGED fulltext

Next ==
  \/ \E id \in Entries, d \in KnowledgeIndexDocument : upsert(id, d)
  \/ \E id \in Entries : delete(id)
  \/ \E index \in Index(KnowledgeIndexDocument) : rebuild(index)
  \/ \E id \in Entries, d \in KnowledgeEmbeddingDocument : upsert_embedding(id, d)
  \/ \E id \in Entries : delete_embedding(id)
  \/ \E index \in Index(KnowledgeEmbeddingDocument) : rebuild_embeddings(index)

Spec == Init /\ [][Next]_kvars

-----------------------------------------------------------------------------
Field == {"title", "body", "tags", "metadata"}
FullTextTermWeights == [title |-> 4, body |-> 2, tags |-> 3, metadata |-> 1]

\* A query without terms matches everything and scores nothing.
matches(doc, term) == doc.passes /\ (term => doc.fields # {})

score(doc, term) ==
  LET w(f) == IF term /\ f \in doc.fields THEN FullTextTermWeights[f] ELSE 0
  IN w("title") + w("body") + w("tags") + w("metadata")

\* By descending score, then by ascending id.
precedes(scores, a, b) == scores[a] > scores[b] \/ (scores[a] = scores[b] /\ a < b)
place(scores, i) == 1 + Cardinality({j \in DOMAIN scores : precedes(scores, j, i)})

\* The results in that order, cut to the limit.
ranked(scores, limit) ==
  LET all == Cardinality(DOMAIN scores)
  IN [k \in 1..(IF limit < all THEN limit ELSE all) |-> CHOOSE i \in DOMAIN scores : place(scores, i) = k]

fulltext_hits(term) ==
  [i \in {i \in DOMAIN fulltext : matches(fulltext[i], term)} |-> score(fulltext[i], term)]
query(term, limit) == ranked(fulltext_hits(term), limit)

\* Vectors of other dimensions than the query's make the whole query fail.
mismatched(dims) == \E i \in DOMAIN embedded : embedded[i].passes /\ embedded[i].dimensions # dims
semantic_hits == [i \in {i \in DOMAIN embedded : embedded[i].passes} |-> embedded[i].similarity]
semantic_query(limit) == ranked(semantic_hits, limit)

\* The scores the two searches add up to, over the entries either returned.
fused(term, limit) ==
  LET ft == ToSet(query(term, limit))
      sem == ToSet(semantic_query(limit))
  IN [i \in ft \cup sem |-> (IF i \in ft THEN fulltext_hits(term)[i] ELSE 0)
                            + (IF i \in sem THEN semantic_hits[i] ELSE 0)]

\* The reranker only permutes the results that are left.
hybrid_query(term, limit) == ranked(fused(term, limit), limit)

\* query_with_permissions: an inactive user gets nothing; what the index
\* returned is filtered after it was cut to the limit (its order is that of query).
query_with_permissions(term, limit, active, readable) ==
  IF active THEN ToSet(query(term, limit)) \cap readable ELSE {}

-----------------------------------------------------------------------------
TypeOK ==
  /\ fulltext \in Index(KnowledgeIndexDocument)
  /\ embedded \in Index(KnowledgeEmbeddingDocument)

\* a is found by every search that finds b, with a higher score.
dominates(a, b, term) ==
  LET ft == fulltext_hits(term)
  IN /\ b \in DOMAIN ft => a \in DOMAIN ft /\ ft[a] > ft[b]
     /\ b \in DOMAIN semantic_hits => a \in DOMAIN semantic_hits /\ semantic_hits[a] > semantic_hits[b]

\* An entry that both searches rank above another is never cut away by the
\* hybrid search in favour of that other one, unless its own similarity is
\* negative: the searches are cut to the limit before their scores are added,
\* and a negative score is missing from the entries that were cut.  An index
\* whose vectors were accepted one by one, replaced or rebuilt holds vectors
\* of one length only, so that a query of that length cannot fail.  A user
\* misses an entry they may read only behind enough others ranked as high.
SearchSound ==
  /\ \A term \in BOOLEAN, limit \in 1..Limit :
       LET found == hybrid_query(term, limit)
       IN \A b \in ToSet(found), a \in Entries :
            /\ dominates(a, b, term)
            /\ a \in DOMAIN semantic_hits => semantic_hits[a] >= 0
            => a \in ToSet(found)
  /\ DOMAIN embedded # {} => \E dims \in Dimensions : ~mismatched(dims)
  /\ \A term \in BOOLEAN, limit \in 1..Limit, readable \in SUBSET Entries :
       LET seen == query_with_permissions(term, limit, TRUE, readable)
           hits == fulltext_hits(term)
       IN \A i \in readable \cap DOMAIN hits :
            i \notin seen => Cardinality({j \in DOMAIN hits : hits[j] >= hits[i] /\ j # i}) >= limit
=============================================================================
