--------------------------- MODULE ToolLoopProofs ---------------------------
(***************************************************************************)
(* The tool loop's safety properties hold for any number of attempts, at   *)
(* the same time or one after the other, any tools and any limits.  So do  *)
(* those of the knowledge that tools read and write, for any entries, work *)
(* objects and bounds: KnowledgeStores, and KnowledgeSearch for finitely   *)
(* many entries.                                                           *)
(***************************************************************************)
EXTENDS ToolLoop, Integers, FiniteSetTheorems, WellFoundedInduction, TLAPS

CONSTANTS Entries, WorkObjects, AnswerIds, MaxSize, MaxStamp            \* of KnowledgeStores
CONSTANTS Bodies, Dimensions, Spread, Limit                             \* of KnowledgeSearch, with Entries

VARIABLES entries, governance, questions, packages, evidence,
          citations, reader                                             \* of KnowledgeStores
VARIABLES fulltext, embedded                                            \* of KnowledgeSearch

\* The stores and the indexes, each with variables of its own.
Stores == INSTANCE KnowledgeStores WITH Answers <- AnswerIds, MaxTime <- MaxStamp
Search == INSTANCE KnowledgeSearch

Busy == {"tools", "act", "record"}

\* How many answers and turns of results there are at each step.
CountInv(x) ==
  /\ x.step = "head" => Len(x.asked) = x.turn /\ Len(x.messages) = Len(x.asked)
  /\ x.step \in {"before", "model", "text"} =>
       Len(x.asked) + 1 = x.turn /\ Len(x.messages) = Len(x.asked)
  /\ x.step \in Busy \cup {"after"} =>
       Len(x.asked) = x.turn /\ Len(x.messages) + 1 = Len(x.asked)
  /\ x.step = "idle" => x = Idle

\* Within an answer, results belong to its first calls; at an action there is a
\* call left, and a result to be recorded is there.
CallInv(x) ==
  /\ x.step \notin Busy => x.results = <<>>
  /\ x.step \in Busy => Len(x.results) <= Len(Last(x.asked))
  /\ x.step \in {"act", "record"} => Len(x.results) < Len(Last(x.asked))
  /\ x.step = "record" => x.pending \in Results

\* Results stand where their calls stand.
MatchInv(x) ==
  /\ \A k \in 1..Len(x.messages) :
       /\ Len(x.messages[k]) = Len(x.asked[k])
       /\ \A i \in 1..Len(x.messages[k]) : x.messages[k][i][1] = x.asked[k][i]
  /\ x.step \in Busy => \A i \in 1..Len(x.results) : x.results[i][1] = Last(x.asked)[i]

LocalInv(x) == x \in LoopState /\ CountInv(x) /\ CallInv(x) /\ MatchInv(x)

\* A result that is not an error has its checkpoint in c.
Shown(c, e) == e[2].kind # "error" => tool_result(e[1], e[2]) \in Range(c)

RecordInv(c, x) ==
  /\ \A k \in 1..Len(x.messages) : \A i \in 1..Len(x.messages[k]) : Shown(c, x.messages[k][i])
  /\ \A i \in 1..Len(x.results) : Shown(c, x.results[i])

\* The i-th checkpoint of c is the first of call t.
IsFirst(c, i, t) ==
  /\ i \in 1..Len(c) /\ c[i].tool_call_id = t
  /\ \A j \in 1..(i - 1) : c[j].tool_call_id # t

\* A call is skipped with its first result in c.
PlanInv(c, x) ==
  \A t \in ToolCalls : x.plan[t] # None =>
    /\ t \in ReadOnly
    /\ \E i \in 1..Len(c) : IsFirst(c, i, t) /\ x.plan[t] = c[i].result

\* Whether a checkpoint is read-only depends on its call alone, and every call
\* in c has a first checkpoint there.
StoreInv(c) ==
  \A i \in 1..Len(c) :
    /\ c[i].read_only <=> c[i].tool_call_id \in ReadOnly
    /\ \E j \in 1..Len(c) : IsFirst(c, j, c[i].tool_call_id)

OutcomeInv ==
  \A l \in Loops : outcome[l].kind = "MaxTurnsReached" => outcome[l].answers = MaxTurns

IInv ==
  /\ TypeOK /\ StoreInv(checkpoints) /\ OutcomeInv
  /\ \A l \in Loops : /\ LocalInv(loop[l])
                      /\ RecordInv(checkpoints, loop[l])
                      /\ PlanInv(checkpoints, loop[l])

-----------------------------------------------------------------------------
(* What an update of the locals keeps.                                     *)

\* The locals before the first turn.
LEMMA IdleLocal == LocalInv(Idle)
<1>1. Idle \in LoopState
  BY ToolLoopAssumption DEF Idle, LoopState, Step, None, Results
<1> QED
  BY <1>1 DEF LocalInv, CountInv, CallInv, MatchInv, Idle, Busy

\* The answer that is gone through is a sequence of calls, and the current one
\* is a call.
LEMMA AnswerType ==
  ASSUME NEW x, LocalInv(x), x.step \in Busy
  PROVE  /\ x.asked # <<>> /\ Len(x.asked) \in Nat \ {0}
         /\ Last(x.asked) = x.asked[Len(x.asked)]
         /\ Last(x.asked) \in Seq(ToolCalls)
         /\ x.step \in {"act", "record"} => Last(x.asked)[Len(x.results) + 1] \in ToolCalls
<1>1. x.asked \in Seq(Seq(ToolCalls)) /\ x.results \in Seq(ToolCalls \X Results)
      /\ x.messages \in Seq(Seq(ToolCalls \X Results))
  BY DEF LocalInv, LoopState
<1>2. Len(x.messages) \in Nat /\ Len(x.messages) + 1 = Len(x.asked)
  BY <1>1 DEF LocalInv, CountInv, Busy
<1>3. Last(x.asked) = x.asked[Len(x.asked)]
  BY DEF Last
<1>4. Last(x.asked) \in Seq(ToolCalls)
  BY <1>1, <1>2, <1>3
<1> QED
  BY <1>1, <1>2, <1>3, <1>4 DEF LocalInv, CallInv

\* A step that only moves on.
LEMMA GotoLocal ==
  ASSUME NEW x, LocalInv(x), NEW s \in Step,
         \/ x.step = "before" /\ s = "model"
         \/ x.step = "model" /\ s = "text"
         \/ x.step = "after" /\ s = "tools"
         \/ x.step = "tools" /\ s = "act" /\ Len(x.results) < Len(Last(x.asked))
  PROVE  LocalInv([x EXCEPT !.step = s])
<1> DEFINE y == [x EXCEPT !.step = s]
<1>1. x \in LoopState /\ y \in LoopState
  BY DEF LocalInv, LoopState
<1>2. y.step = s /\ y.asked = x.asked /\ y.messages = x.messages /\ y.results = x.results
      /\ y.turn = x.turn /\ y.pending = x.pending
  BY <1>1 DEF LoopState
<1>3. CountInv(y)
  BY <1>2 DEF LocalInv, CountInv, Busy
<1>4. x.step = "after" => Last(x.asked) \in Seq(ToolCalls) /\ x.results = <<>>
  <2> SUFFICES ASSUME x.step = "after" PROVE Last(x.asked) \in Seq(ToolCalls) /\ x.results = <<>>
    OBVIOUS
  <2>1. x.asked \in Seq(Seq(ToolCalls)) /\ Len(x.messages) \in Nat /\ Len(x.messages) + 1 = Len(x.asked)
    BY <1>1 DEF LocalInv, CountInv, LoopState
  <2> QED
    BY <2>1 DEF LocalInv, CallInv, Busy, Last
<1>5. CallInv(y)
  BY <1>2, <1>4 DEF LocalInv, CallInv, Busy
<1>6. MatchInv(y)
  BY <1>2, <1>4 DEF LocalInv, MatchInv, Busy
<1> QED
  BY <1>1, <1>3, <1>5, <1>6 DEF LocalInv

\* Cancelling touches nothing else.
LEMMA CancelLocal ==
  ASSUME NEW x, LocalInv(x), x.step # "idle"
  PROVE  LocalInv([x EXCEPT !.cancelled = TRUE])
<1> DEFINE y == [x EXCEPT !.cancelled = TRUE]
<1>1. x \in LoopState /\ y \in LoopState
  BY DEF LocalInv, LoopState
<1>2. y.step = x.step /\ y.asked = x.asked /\ y.messages = x.messages /\ y.results = x.results
      /\ y.turn = x.turn /\ y.pending = x.pending
  BY <1>1 DEF LoopState
<1>3. CountInv(y)
  BY <1>2 DEF LocalInv, CountInv, Busy
<1>4. CallInv(y)
  BY <1>2 DEF LocalInv, CallInv, Busy
<1>5. MatchInv(y)
  BY <1>2 DEF LocalInv, MatchInv, Busy
<1> QED
  BY <1>1, <1>3, <1>4, <1>5 DEF LocalInv

\* The attempt begins with the resume plan.
LEMMA BeginLocal ==
  ASSUME NEW x, LocalInv(x), x.step = "idle", NEW p \in [ToolCalls -> Results \cup {None}]
  PROVE  LocalInv([x EXCEPT !.step = "head", !.plan = p])
<1> DEFINE y == [x EXCEPT !.step = "head", !.plan = p]
<1>1. x \in LoopState /\ y \in LoopState
  BY DEF LocalInv, LoopState, Step
<1>2. y.step = "head" /\ y.asked = <<>> /\ y.messages = <<>> /\ y.results = <<>> /\ y.turn = 0
  BY <1>1 DEF LocalInv, CountInv, Idle, LoopState
<1>3. CountInv(y)
  BY <1>2 DEF LocalInv, CountInv, Busy
<1>4. CallInv(y)
  BY <1>2 DEF LocalInv, CallInv, Busy
<1>5. MatchInv(y)
  BY <1>2 DEF LocalInv, MatchInv, Busy
<1> QED
  BY <1>1, <1>3, <1>4, <1>5 DEF LocalInv

\* A new turn.
LEMMA TurnLocal ==
  ASSUME NEW x, LocalInv(x), x.step = "head", x.turn + 1 <= MaxTurns
  PROVE  LocalInv([x EXCEPT !.step = "before", !.turn = @ + 1])
<1> DEFINE y == [x EXCEPT !.step = "before", !.turn = @ + 1]
<1>0. x \in LoopState /\ x.turn \in Nat
  BY ToolLoopAssumption DEF LocalInv, LoopState
<1>a. x.turn + 1 \in 0..MaxTurns
  BY <1>0, ToolLoopAssumption
<1>1. y \in LoopState
  BY <1>0, <1>a DEF LoopState, Step
<1>2. y.step = "before" /\ y.asked = x.asked /\ y.messages = x.messages /\ y.results = x.results
      /\ y.turn = x.turn + 1
  BY <1>0 DEF LoopState
<1>3. CountInv(y)
  BY <1>2 DEF LocalInv, CountInv, Busy
<1>4. CallInv(y)
  BY <1>2 DEF LocalInv, CallInv, Busy
<1>5. MatchInv(y)
  BY <1>2 DEF LocalInv, MatchInv, Busy
<1> QED
  BY <1>1, <1>3, <1>4, <1>5 DEF LocalInv

\* The model asks for tool calls.
LEMMA AskLocal ==
  ASSUME NEW x, LocalInv(x), x.step = "model", NEW b \in Seq(ToolCalls)
  PROVE  LocalInv([x EXCEPT !.step = "after", !.asked = Append(@, b)])
<1> DEFINE y == [x EXCEPT !.step = "after", !.asked = Append(@, b)]
<1>0. x \in LoopState /\ x.asked \in Seq(Seq(ToolCalls)) /\ x.messages \in Seq(Seq(ToolCalls \X Results))
  BY DEF LocalInv, LoopState
<1>a. Append(x.asked, b) \in Seq(Seq(ToolCalls))
  BY <1>0
<1>1. y \in LoopState
  BY <1>0, <1>a DEF LoopState, Step
<1>2. y.step = "after" /\ y.asked = Append(x.asked, b) /\ y.messages = x.messages
      /\ y.results = x.results /\ y.turn = x.turn
  BY <1>0 DEF LoopState
<1>3. CountInv(y)
  BY <1>0, <1>2 DEF LocalInv, CountInv, Busy
<1>4. CallInv(y)
  BY <1>2 DEF LocalInv, CallInv, Busy
<1>5. Len(x.messages) = Len(x.asked)
  BY DEF LocalInv, CountInv
<1>6. ASSUME NEW k \in 1..Len(y.messages) PROVE y.asked[k] = x.asked[k]
  BY <1>0, <1>2, <1>5
<1>7. ASSUME NEW k \in 1..Len(y.messages)
      PROVE  /\ Len(y.messages[k]) = Len(y.asked[k])
             /\ \A i \in 1..Len(y.messages[k]) : y.messages[k][i][1] = y.asked[k][i]
  <2>1. k \in 1..Len(x.messages) /\ y.messages[k] = x.messages[k] /\ y.asked[k] = x.asked[k]
    BY <1>2, <1>6
  <2>2. /\ Len(x.messages[k]) = Len(x.asked[k])
        /\ \A i \in 1..Len(x.messages[k]) : x.messages[k][i][1] = x.asked[k][i]
    BY <2>1 DEF LocalInv, MatchInv
  <2> HIDE DEF y
  <2> QED
    BY <2>1, <2>2
<1>8. MatchInv(y)
  BY <1>2, <1>7 DEF MatchInv, Busy
<1> QED
  BY <1>1, <1>3, <1>4, <1>8 DEF LocalInv

\* The current call is answered.
LEMMA PushLocal ==
  ASSUME NEW x, LocalInv(x), x.step \in Busy, Len(x.results) < Len(Last(x.asked)),
         NEW r \in Results
  PROVE  LocalInv([x EXCEPT !.results = Append(@, <<Last(x.asked)[Len(x.results) + 1], r>>),
                            !.step = "tools", !.pending = None])
<1> DEFINE t == Last(x.asked)[Len(x.results) + 1]
           y == [x EXCEPT !.results = Append(@, <<t, r>>), !.step = "tools", !.pending = None]
<1>0. x \in LoopState /\ x.results \in Seq(ToolCalls \X Results) /\ x.messages \in Seq(Seq(ToolCalls \X Results))
  BY DEF LocalInv, LoopState
<1>a. Last(x.asked) \in Seq(ToolCalls)
  BY AnswerType
<1>b. t \in ToolCalls /\ <<t, r>> \in ToolCalls \X Results
  BY <1>0, <1>a
<1>c. Append(x.results, <<t, r>>) \in Seq(ToolCalls \X Results)
  BY <1>0, <1>b
<1>1. y \in LoopState
  BY <1>0, <1>c DEF LoopState, Step
<1>2. y.step = "tools" /\ y.asked = x.asked /\ y.messages = x.messages
      /\ y.results = Append(x.results, <<t, r>>) /\ y.turn = x.turn
  BY <1>0 DEF LoopState
<1>3. CountInv(y)
  BY <1>2 DEF LocalInv, CountInv, Busy
<1>4. CallInv(y)
  BY <1>0, <1>2, <1>a DEF CallInv, Busy
<1>5. ASSUME NEW i \in 1..Len(y.results) PROVE y.results[i][1] = Last(x.asked)[i]
  <2>1. CASE i = Len(x.results) + 1
    BY <2>1, <1>0, <1>2
  <2>2. CASE i \in 1..Len(x.results)
    BY <2>2, <1>0, <1>2 DEF LocalInv, MatchInv
  <2> QED
    BY <2>1, <2>2, <1>0, <1>2
<1>6. MatchInv(y)
  BY <1>2, <1>5 DEF LocalInv, MatchInv, Busy
<1> QED
  BY <1>1, <1>3, <1>4, <1>6 DEF LocalInv

\* The action returned something to record.
LEMMA ReturnLocal ==
  ASSUME NEW x, LocalInv(x), x.step = "act", NEW r \in Results
  PROVE  LocalInv([x EXCEPT !.step = "record", !.pending = r])
<1> DEFINE y == [x EXCEPT !.step = "record", !.pending = r]
<1>1. x \in LoopState /\ y \in LoopState
  BY DEF LocalInv, LoopState, Step
<1>2. y.step = "record" /\ y.asked = x.asked /\ y.messages = x.messages /\ y.results = x.results
      /\ y.turn = x.turn /\ y.pending = r
  BY <1>1 DEF LoopState
<1>3. CountInv(y)
  BY <1>2 DEF LocalInv, CountInv, Busy
<1>4. CallInv(y)
  BY <1>2 DEF LocalInv, CallInv, Busy
<1>5. MatchInv(y)
  BY <1>2 DEF LocalInv, MatchInv, Busy
<1> QED
  BY <1>1, <1>3, <1>4, <1>5 DEF LocalInv

\* The turn's results become messages.
LEMMA EndLocal ==
  ASSUME NEW x, LocalInv(x), x.step = "tools", Len(x.results) = Len(Last(x.asked))
  PROVE  LocalInv([x EXCEPT !.step = "head", !.results = <<>>, !.messages = Append(@, x.results)])
<1> DEFINE y == [x EXCEPT !.step = "head", !.results = <<>>, !.messages = Append(@, x.results)]
<1>0. x \in LoopState /\ x.results \in Seq(ToolCalls \X Results) /\ x.messages \in Seq(Seq(ToolCalls \X Results))
  BY DEF LocalInv, LoopState
<1>a. /\ Append(x.messages, x.results) \in Seq(Seq(ToolCalls \X Results))
      /\ <<>> \in Seq(ToolCalls \X Results)
  BY <1>0
<1>1. y \in LoopState
  BY <1>0, <1>a DEF LoopState, Step
<1>2. y.step = "head" /\ y.asked = x.asked /\ y.messages = Append(x.messages, x.results)
      /\ y.results = <<>> /\ y.turn = x.turn
  BY <1>0 DEF LoopState
<1>3. CountInv(y)
  BY <1>0, <1>2 DEF LocalInv, CountInv, Busy
<1>4. CallInv(y)
  BY <1>2 DEF CallInv, Busy
<1>5. Last(x.asked) = x.asked[Len(x.asked)] /\ Len(x.messages) + 1 = Len(x.asked)
  BY AnswerType DEF LocalInv, CountInv, Busy
<1>6. ASSUME NEW k \in 1..Len(y.messages)
      PROVE  /\ Len(y.messages[k]) = Len(y.asked[k])
             /\ \A i \in 1..Len(y.messages[k]) : y.messages[k][i][1] = y.asked[k][i]
  <2>1. CASE k = Len(x.messages) + 1
    BY <2>1, <1>0, <1>2, <1>5 DEF LocalInv, MatchInv, Busy
  <2>2. CASE k \in 1..Len(x.messages)
    BY <2>2, <1>0, <1>2 DEF LocalInv, MatchInv
  <2> QED
    BY <2>1, <2>2, <1>0, <1>2
<1>7. MatchInv(y)
  BY <1>2, <1>6 DEF MatchInv, Busy
<1> QED
  BY <1>1, <1>3, <1>4, <1>7 DEF LocalInv

-----------------------------------------------------------------------------
(* What a new checkpoint keeps.                                            *)

\* The first checkpoint of a call is the one that the plan picks.
LEMMA FirstUnique ==
  ASSUME NEW c \in Seq(ToolResultCheckpoint), NEW t, NEW i, IsFirst(c, i, t)
  PROVE  i = CHOOSE k \in DOMAIN c :
               c[k].tool_call_id = t /\ \A j \in 1..(k - 1) : ~(c[j].tool_call_id = t)
<1> DEFINE P(k) == c[k].tool_call_id = t /\ \A j \in 1..(k - 1) : ~(c[j].tool_call_id = t)
<1>1. DOMAIN c = 1..Len(c) /\ Len(c) \in Nat
  OBVIOUS
<1>2. i \in DOMAIN c /\ P(i)
  BY <1>1 DEF IsFirst
<1>3. ASSUME NEW k \in DOMAIN c, P(k) PROVE k = i
  <2>1. k \in 1..Len(c) /\ i \in 1..Len(c)
    BY <1>1, <1>2
  <2>2. ~(k < i) /\ ~(i < k)
    BY <1>2, <1>3, <2>1
  <2> QED
    BY <2>1, <2>2
<1> HIDE DEF P
<1>4. i = CHOOSE k \in DOMAIN c : P(k)
  BY <1>2, <1>3
<1> QED
  BY <1>4 DEF P

\* A checkpoint is appended: what was shown stays recorded, plans stay right.
LEMMA Growth ==
  ASSUME NEW c \in Seq(ToolResultCheckpoint), StoreInv(c),
         NEW t \in ToolCalls, NEW r \in Results,
         NEW d, d = Append(c, tool_result(t, r))
  PROVE  /\ d \in Seq(ToolResultCheckpoint)
         /\ StoreInv(d)
         /\ tool_result(t, r) \in Range(d)
         /\ \A x : RecordInv(c, x) => RecordInv(d, x)
         /\ \A x : PlanInv(c, x) => PlanInv(d, x)
<1> DEFINE z == tool_result(t, r)
<1>0. z \in ToolResultCheckpoint /\ z.tool_call_id = t /\ (z.read_only <=> t \in ReadOnly)
  <2>1. CASE t \in ReadOnly
    <3>1. z = [tool_call_id |-> t, result |-> r, read_only |-> TRUE]
      BY <2>1 DEF tool_result
    <3> HIDE DEF z
    <3> QED
      BY <2>1, <3>1 DEF ToolResultCheckpoint
  <2>2. CASE t \notin ReadOnly
    <3>0. (t \in ReadOnly) = FALSE
      BY <2>2
    <3>1. z = [tool_call_id |-> t, result |-> r, read_only |-> FALSE]
      BY <3>0, Zenon DEF tool_result
    <3> HIDE DEF z
    <3> QED
      BY <2>2, <3>1 DEF ToolResultCheckpoint
  <2> QED
    BY <2>1, <2>2
<1> HIDE DEF z
<1>1. d \in Seq(ToolResultCheckpoint) /\ Len(c) \in Nat /\ Len(d) = Len(c) + 1
  BY <1>0 DEF z
<1>2. d[Len(c) + 1] = z /\ \A i \in 1..Len(c) : d[i] = c[i]
  BY <1>0 DEF z
<1>3. ASSUME NEW i, NEW u, IsFirst(c, i, u) PROVE IsFirst(d, i, u) /\ i \in 1..Len(c)
  BY <1>1, <1>2, <1>3 DEF IsFirst
<1>4. StoreInv(d)
  <2> SUFFICES ASSUME NEW i \in 1..Len(d)
               PROVE  /\ d[i].read_only <=> d[i].tool_call_id \in ReadOnly
                      /\ \E j \in 1..Len(d) : IsFirst(d, j, d[i].tool_call_id)
    BY DEF StoreInv
  <2>1. CASE i \in 1..Len(c)
    BY <2>1, <1>1, <1>2, <1>3 DEF StoreInv
  <2>2. CASE i = Len(c) + 1 /\ \E k \in 1..Len(c) : c[k].tool_call_id = t
    <3>1. PICK k \in 1..Len(c) : c[k].tool_call_id = t
      BY <2>2
    <3>2. PICK j \in 1..Len(c) : IsFirst(c, j, t)
      BY <3>1 DEF StoreInv
    <3> QED
      BY <2>2, <3>2, <1>0, <1>1, <1>2, <1>3
  <2>3. CASE i = Len(c) + 1 /\ ~\E k \in 1..Len(c) : c[k].tool_call_id = t
    <3>1. IsFirst(d, i, t)
      BY <2>3, <1>0, <1>1, <1>2 DEF IsFirst
    <3> QED
      BY <2>3, <3>1, <1>0, <1>2
  <2> QED
    BY <2>1, <2>2, <2>3, <1>1
<1>5. DOMAIN c = 1..Len(c) /\ DOMAIN d = 1..Len(d)
  BY <1>1
<1>6. z \in Range(d) /\ Range(c) \subseteq Range(d)
  BY <1>1, <1>2, <1>5 DEF Range
<1>7. ASSUME NEW x, RecordInv(c, x) PROVE RecordInv(d, x)
  BY <1>6, <1>7 DEF RecordInv, Shown
<1>8. ASSUME NEW x, PlanInv(c, x) PROVE PlanInv(d, x)
  <2> SUFFICES ASSUME NEW u \in ToolCalls, x.plan[u] # None
               PROVE  u \in ReadOnly /\ \E i \in 1..Len(d) : IsFirst(d, i, u) /\ x.plan[u] = d[i].result
    BY DEF PlanInv
  <2>1. u \in ReadOnly
    BY <1>8 DEF PlanInv
  <2>2. PICK i \in 1..Len(c) : IsFirst(c, i, u) /\ x.plan[u] = c[i].result
    BY <1>8 DEF PlanInv
  <2>3. IsFirst(d, i, u) /\ i \in 1..Len(d) /\ d[i] = c[i]
    BY <1>1, <1>2, <1>3, <2>2
  <2> QED
    BY <2>1, <2>2, <2>3
<1> QED
  BY <1>1, <1>4, <1>6, <1>7, <1>8 DEF z

\* A step updates one loop, perhaps after it appended a checkpoint.
LEMMA Update ==
  ASSUME IInv, NEW l \in Loops, NEW y, loop' = [loop EXCEPT ![l] = y],
         LocalInv(y), RecordInv(checkpoints', y), PlanInv(checkpoints', y),
         \/ checkpoints' = checkpoints
         \/ \E t \in ToolCalls, r \in Results : checkpoints' = Append(checkpoints, tool_result(t, r)),
         \/ outcome' = outcome
         \/ \E o \in ToolLoopOutcome, n \in Nat :
              /\ outcome' = [outcome EXCEPT ![l] = [kind |-> o, answers |-> n]]
              /\ o = "MaxTurnsReached" => n = MaxTurns,
         execs' \in [ToolCalls -> Nat], attempts' \in 0..MaxAttempts
  PROVE  IInv'
<1>1. /\ checkpoints' \in Seq(ToolResultCheckpoint)
      /\ StoreInv(checkpoints')
      /\ \A x : RecordInv(checkpoints, x) => RecordInv(checkpoints', x)
      /\ \A x : PlanInv(checkpoints, x) => PlanInv(checkpoints', x)
  <2>1. checkpoints \in Seq(ToolResultCheckpoint) /\ StoreInv(checkpoints)
    BY DEF IInv, TypeOK
  <2>2. CASE checkpoints' = checkpoints
    BY <2>1, <2>2
  <2>3. CASE \E t \in ToolCalls, r \in Results : checkpoints' = Append(checkpoints, tool_result(t, r))
    <3>1. PICK t \in ToolCalls, r \in Results : checkpoints' = Append(checkpoints, tool_result(t, r))
      BY <2>3
    <3> QED
      BY <2>1, <3>1, Growth
  <2> QED
    BY <2>2, <2>3
<1>2. loop \in [Loops -> LoopState] /\ y \in LoopState
  BY DEF IInv, TypeOK, LocalInv
<1>3. loop' \in [Loops -> LoopState] /\ loop'[l] = y /\ \A m \in Loops \ {l} : loop'[m] = loop[m]
  BY <1>2
<1>4. /\ outcome' \in [Loops -> [kind : ToolLoopOutcome \cup {"none"}, answers : Nat]]
      /\ OutcomeInv'
  <2>1. /\ outcome \in [Loops -> [kind : ToolLoopOutcome \cup {"none"}, answers : Nat]]
        /\ OutcomeInv
    BY DEF IInv, TypeOK
  <2>2. CASE outcome' = outcome
    BY <2>1, <2>2 DEF OutcomeInv
  <2>3. CASE \E o \in ToolLoopOutcome, n \in Nat :
               /\ outcome' = [outcome EXCEPT ![l] = [kind |-> o, answers |-> n]]
               /\ o = "MaxTurnsReached" => n = MaxTurns
    <3>1. PICK o \in ToolLoopOutcome, n \in Nat :
            /\ outcome' = [outcome EXCEPT ![l] = [kind |-> o, answers |-> n]]
            /\ o = "MaxTurnsReached" => n = MaxTurns
      BY <2>3
    <3>2. [kind |-> o, answers |-> n] \in [kind : ToolLoopOutcome \cup {"none"}, answers : Nat]
      OBVIOUS
    <3>3. outcome' \in [Loops -> [kind : ToolLoopOutcome \cup {"none"}, answers : Nat]]
      BY <2>1, <3>1, <3>2
    <3>4. ASSUME NEW m \in Loops, outcome'[m].kind = "MaxTurnsReached"
          PROVE  outcome'[m].answers = MaxTurns
      <4>1. CASE m = l
        <5>1. outcome'[m] = [kind |-> o, answers |-> n]
          BY <2>1, <3>1, <4>1
        <5> QED
          BY <3>1, <3>4, <5>1
      <4>2. CASE m # l
        <5>1. outcome'[m] = outcome[m]
          BY <2>1, <3>1, <4>2
        <5> QED
          BY <2>1, <3>4, <5>1 DEF OutcomeInv
      <4> QED
        BY <4>1, <4>2
    <3> QED
      BY <3>3, <3>4 DEF OutcomeInv
  <2> QED
    BY <2>2, <2>3
<1>5. OutcomeInv'
  BY <1>4
<1>6. TypeOK'
  BY <1>1, <1>3, <1>4 DEF TypeOK
<1>7. ASSUME NEW m \in Loops
      PROVE  LocalInv(loop'[m]) /\ RecordInv(checkpoints', loop'[m]) /\ PlanInv(checkpoints', loop'[m])
  <2>1. CASE m = l
    BY <2>1, <1>3
  <2>2. CASE m # l
    BY <2>2, <1>1, <1>3 DEF IInv
  <2> QED
    BY <2>1, <2>2
<1> QED
  BY <1>1, <1>5, <1>6, <1>7 DEF IInv

-----------------------------------------------------------------------------
(* The ways a step updates its loop.                                       *)

\* run_inner returns.
LEMMA ReturnInv ==
  ASSUME IInv, NEW l \in Loops, NEW o \in ToolLoopOutcome, return(l, o),
         o = "MaxTurnsReached" => Len(loop[l].asked) = MaxTurns,
         checkpoints' = checkpoints, execs' \in [ToolCalls -> Nat], attempts' \in 0..MaxAttempts
  PROVE  IInv'
<1>1. LocalInv(Idle)
  BY IdleLocal
<1>2. RecordInv(checkpoints', Idle) /\ PlanInv(checkpoints', Idle)
  BY DEF RecordInv, PlanInv, Idle
<1>3. Len(loop[l].asked) \in Nat
  BY DEF IInv, TypeOK, LoopState
<1>4. loop' = [loop EXCEPT ![l] = Idle]
      /\ outcome' = [outcome EXCEPT ![l] = [kind |-> o, answers |-> Len(loop[l].asked)]]
  BY DEF return
<1>5. \E q \in ToolLoopOutcome, n \in Nat :
        /\ outcome' = [outcome EXCEPT ![l] = [kind |-> q, answers |-> n]]
        /\ q = "MaxTurnsReached" => n = MaxTurns
  BY <1>3, <1>4
<1> QED
  BY <1>1, <1>2, <1>4, <1>5, Update

\* Locals that a plan or results do not depend on change.
LEMMA MoveInv ==
  ASSUME IInv, NEW l \in Loops, NEW y, loop' = [loop EXCEPT ![l] = y], LocalInv(y),
         y.messages = loop[l].messages, y.results = loop[l].results, y.plan = loop[l].plan,
         checkpoints' = checkpoints, outcome' = outcome,
         execs' \in [ToolCalls -> Nat], attempts' \in 0..MaxAttempts
  PROVE  IInv'
<1>1. RecordInv(checkpoints', y) /\ PlanInv(checkpoints', y)
  BY DEF IInv, RecordInv, PlanInv
<1> QED
  BY <1>1, Update

\* run_inner moves on.
LEMMA GotoInv ==
  ASSUME IInv, NEW l \in Loops, NEW s \in Step, goto(l, s),
         \/ loop[l].step = "before" /\ s = "model"
         \/ loop[l].step = "model" /\ s = "text"
         \/ loop[l].step = "after" /\ s = "tools"
         \/ loop[l].step = "tools" /\ s = "act" /\ Len(loop[l].results) < Len(Last(loop[l].asked)),
         UNCHANGED <<checkpoints, execs, attempts>>
  PROVE  IInv'
<1>1. LocalInv(loop[l]) /\ loop[l] \in LoopState
  BY DEF IInv, LocalInv
<1>2. LocalInv([loop[l] EXCEPT !.step = s])
  BY <1>1, GotoLocal
<1>3. loop' = [loop EXCEPT ![l] = [loop[l] EXCEPT !.step = s]] /\ outcome' = outcome
  BY DEF goto
<1>4. execs' \in [ToolCalls -> Nat] /\ attempts' \in 0..MaxAttempts
  BY DEF IInv, TypeOK
<1>5. /\ [loop[l] EXCEPT !.step = s].messages = loop[l].messages
      /\ [loop[l] EXCEPT !.step = s].results = loop[l].results
      /\ [loop[l] EXCEPT !.step = s].plan = loop[l].plan
  BY <1>1 DEF LoopState
<1> QED
  BY <1>2, <1>3, <1>4, <1>5, MoveInv

\* The current call is answered with r, which is recorded or needs no record.
LEMMA PushInv ==
  ASSUME IInv, NEW l \in Loops, NEW r \in Results,
         loop[l].step \in Busy, Len(loop[l].results) < Len(answer(l)),
         push_result(l, current(l), r),
         \/ checkpoints' = checkpoints /\ Shown(checkpoints, <<current(l), r>>)
         \/ checkpoints' = Append(checkpoints, tool_result(current(l), r)),
         execs' \in [ToolCalls -> Nat], attempts' \in 0..MaxAttempts
  PROVE  IInv'
<1> DEFINE x == loop[l]
           t == Last(x.asked)[Len(x.results) + 1]
           y == [x EXCEPT !.results = Append(@, <<t, r>>), !.step = "tools", !.pending = None]
<1>0. LocalInv(x) /\ x \in LoopState /\ t = current(l)
  BY DEF IInv, LocalInv, current, answer
<1>1. LocalInv(y)
  BY <1>0, PushLocal DEF answer
<1>2. Last(x.asked) \in Seq(ToolCalls) /\ x.results \in Seq(ToolCalls \X Results)
  BY <1>0, AnswerType DEF LoopState
<1>3. t \in ToolCalls /\ <<t, r>> \in ToolCalls \X Results
  BY <1>2 DEF answer
<1>4. loop' = [loop EXCEPT ![l] = y] /\ outcome' = outcome
  BY <1>0 DEF push_result
<1>5. /\ y.messages = x.messages /\ y.plan = x.plan
      /\ y.results = Append(x.results, <<t, r>>)
  BY <1>0 DEF LoopState
<1>6. /\ RecordInv(checkpoints', x) /\ PlanInv(checkpoints', x)
      /\ Shown(checkpoints', <<t, r>>)
  <2>1. checkpoints \in Seq(ToolResultCheckpoint) /\ StoreInv(checkpoints)
        /\ RecordInv(checkpoints, x) /\ PlanInv(checkpoints, x)
    BY DEF IInv, TypeOK
  <2>2. CASE checkpoints' = checkpoints /\ Shown(checkpoints, <<current(l), r>>)
    BY <2>1, <2>2, <1>0
  <2>3. CASE checkpoints' = Append(checkpoints, tool_result(current(l), r))
    <3>1. checkpoints' = Append(checkpoints, tool_result(t, r))
      BY <2>3, <1>0
    <3> HIDE DEF x, t
    <3>2. /\ RecordInv(checkpoints', x) /\ PlanInv(checkpoints', x)
          /\ tool_result(t, r) \in Range(checkpoints')
      BY <3>1, <2>1, <1>3, Growth
    <3> QED
      BY <3>2 DEF Shown
  <2> QED
    BY <2>2, <2>3
<1>7. PlanInv(checkpoints', y)
  BY <1>5, <1>6 DEF PlanInv
<1>8. RecordInv(checkpoints', y)
  <2>1. ASSUME NEW i \in 1..Len(y.results) PROVE Shown(checkpoints', y.results[i])
    <3>1. CASE i = Len(x.results) + 1
      <4>1. y.results[i] = <<t, r>>
        BY <3>1, <1>2, <1>3, <1>5
      <4> QED
        BY <4>1, <1>6
    <3>2. CASE i \in 1..Len(x.results)
      <4>1. y.results[i] = x.results[i]
        BY <3>2, <1>2, <1>3, <1>5
      <4> QED
        BY <4>1, <3>2, <1>6 DEF RecordInv
    <3>3. Len(x.results) \in Nat /\ Len(y.results) = Len(x.results) + 1
      BY <1>2, <1>3, <1>5
    <3> HIDE DEF x, y
    <3> QED
      BY <3>1, <3>2, <3>3
  <2> QED
    BY <2>1, <1>5, <1>6 DEF RecordInv
<1>9. \/ checkpoints' = checkpoints
      \/ \E u \in ToolCalls, q \in Results : checkpoints' = Append(checkpoints, tool_result(u, q))
  BY <1>0, <1>3
<1> HIDE DEF y
<1> QED
  BY <1>1, <1>4, <1>7, <1>8, <1>9, Update

-----------------------------------------------------------------------------
(* The actions.                                                            *)

\* Histories and bounds that a step leaves alone keep their types.
LEMMA SameHistory ==
  ASSUME IInv, UNCHANGED <<execs, attempts>>
  PROVE  execs' \in [ToolCalls -> Nat] /\ attempts' \in 0..MaxAttempts
BY DEF IInv, TypeOK

\* An attempt begins.
LEMMA BeginInv ==
  ASSUME IInv, NEW l \in Loops, Begin(l)
  PROVE  IInv'
<1> DEFINE x == loop[l]
           p == [t \in ToolCalls |-> from_checkpoints(t)]
           y == [x EXCEPT !.step = "head", !.plan = p]
<1>0. LocalInv(x) /\ x \in LoopState /\ checkpoints \in Seq(ToolResultCheckpoint)
  BY DEF IInv, TypeOK, LocalInv
<1>1. execs' \in [ToolCalls -> Nat] /\ attempts' \in 0..MaxAttempts /\ checkpoints' = checkpoints
  BY ToolLoopAssumption DEF IInv, TypeOK, Begin
<1>2. CASE return(l, "Failed")
  BY <1>1, <1>2, ReturnInv DEF ToolLoopOutcome
<1>3. CASE /\ loop' = [loop EXCEPT ![l].step = "head", ![l].plan = p]
           /\ outcome' = outcome
  <2>1. DOMAIN checkpoints = 1..Len(checkpoints) /\ StoreInv(checkpoints)
    BY <1>0 DEF IInv
  <2>2. ASSUME NEW t \in ToolCalls, skippable(t)
        PROVE  /\ t \in ReadOnly
               /\ first(t) \in 1..Len(checkpoints) /\ IsFirst(checkpoints, first(t), t)
    <3>1. PICK i \in 1..Len(checkpoints) :
            checkpoints[i].tool_call_id = t /\ checkpoints[i].read_only
      BY <2>1, <2>2 DEF skippable, recorded
    <3>2. t \in ReadOnly
      BY <2>1, <3>1 DEF StoreInv
    <3>3. PICK j \in 1..Len(checkpoints) : IsFirst(checkpoints, j, t)
      BY <2>1, <3>1 DEF StoreInv
    <3>4. j = first(t)
      BY <1>0, <3>3, FirstUnique DEF first, recorded
    <3> QED
      BY <3>2, <3>3, <3>4
  <2>3. ASSUME NEW t \in ToolCalls PROVE p[t] \in Results \cup {None}
    <3>1. CASE skippable(t)
      <4>1. checkpoints[first(t)] \in ToolResultCheckpoint
        BY <3>1, <1>0, <2>2
      <4>2. checkpoints[first(t)].result \in Results
        BY <4>1 DEF ToolResultCheckpoint
      <4> QED
        BY <3>1, <4>2 DEF from_checkpoints
    <3>2. CASE ~skippable(t)
      BY <3>2 DEF from_checkpoints
    <3> QED
      BY <3>1, <3>2
  <2>4. p \in [ToolCalls -> Results \cup {None}]
    BY <2>3
  <2>5. x.step = "idle"
    BY DEF Begin
  <2>6. LocalInv(y)
    <3> HIDE DEF p
    <3> QED
      BY <1>0, <2>4, <2>5, BeginLocal
  <2>7. y.plan = p /\ y.messages = x.messages /\ y.results = x.results
    BY <1>0 DEF LoopState
  <2>8. RecordInv(checkpoints', y)
    BY <1>1, <2>7 DEF IInv, RecordInv
  <2>9. PlanInv(checkpoints', y)
    <3> SUFFICES ASSUME NEW t \in ToolCalls, p[t] # None
                 PROVE  /\ t \in ReadOnly
                        /\ \E i \in 1..Len(checkpoints) :
                             IsFirst(checkpoints, i, t) /\ p[t] = checkpoints[i].result
      BY <1>1, <2>7 DEF PlanInv
    <3>1. skippable(t) /\ p[t] = checkpoints[first(t)].result
      BY DEF from_checkpoints
    <3> QED
      BY <2>2, <3>1
  <2>10. loop' = [loop EXCEPT ![l] = y]
    BY <1>3
  <2> HIDE DEF y
  <2> QED
    BY <1>1, <1>3, <2>6, <2>8, <2>9, <2>10, Update
<1> QED
  BY <1>2, <1>3 DEF Begin

\* The host cancels.
LEMMA CancelInv ==
  ASSUME IInv, NEW l \in Loops, Cancel(l)
  PROVE  IInv'
<1> DEFINE x == loop[l]
           y == [x EXCEPT !.cancelled = TRUE]
<1>0. LocalInv(x) /\ x \in LoopState
  BY DEF IInv, LocalInv
<1>1. LocalInv(y)
  BY <1>0, CancelLocal DEF Cancel
<1>2. y.messages = x.messages /\ y.results = x.results /\ y.plan = x.plan
  BY <1>0 DEF LoopState
<1>3. loop' = [loop EXCEPT ![l] = y] /\ checkpoints' = checkpoints /\ outcome' = outcome
  BY DEF Cancel
<1>4. execs' \in [ToolCalls -> Nat] /\ attempts' \in 0..MaxAttempts
  BY SameHistory DEF Cancel
<1> HIDE DEF y
<1> QED
  BY <1>1, <1>2, <1>3, <1>4, MoveInv

\* A turn begins, or the loop ends at its head.
LEMMA TurnHeadInv ==
  ASSUME IInv, NEW l \in Loops, TurnHead(l)
  PROVE  IInv'
<1> DEFINE x == loop[l]
           y == [x EXCEPT !.step = "before", !.turn = @ + 1]
<1>0. LocalInv(x) /\ x \in LoopState /\ x.step = "head"
  BY DEF IInv, LocalInv, TurnHead
<1>1. execs' \in [ToolCalls -> Nat] /\ attempts' \in 0..MaxAttempts /\ checkpoints' = checkpoints
  BY SameHistory DEF TurnHead
<1>2. CASE return(l, "Cancelled")
  BY <1>1, <1>2, ReturnInv DEF ToolLoopOutcome
<1>3. CASE x.turn + 1 > MaxTurns /\ return(l, "MaxTurnsReached")
  <2>1. x.turn \in 0..MaxTurns /\ Len(x.asked) = x.turn
    BY <1>0 DEF LocalInv, CountInv, LoopState
  <2>2. Len(x.asked) = MaxTurns
    BY <2>1, <1>3, ToolLoopAssumption
  <2> QED
    BY <1>1, <1>3, <2>2, ReturnInv DEF ToolLoopOutcome
<1>4. CASE /\ x.turn + 1 <= MaxTurns
           /\ loop' = [loop EXCEPT ![l].step = "before", ![l].turn = @ + 1]
           /\ outcome' = outcome
  <2>1. LocalInv(y)
    BY <1>0, <1>4, TurnLocal
  <2>2. y.messages = x.messages /\ y.results = x.results /\ y.plan = x.plan
    BY <1>0 DEF LoopState
  <2>3. loop' = [loop EXCEPT ![l] = y]
    BY <1>4
  <2> HIDE DEF y
  <2> QED
    BY <1>1, <1>4, <2>1, <2>2, <2>3, MoveInv
<1> QED
  BY <1>2, <1>3, <1>4 DEF TurnHead

\* Around the model call.
LEMMA ModelInv ==
  ASSUME IInv, NEW l \in Loops,
         \/ BeforeModelCall(l) \/ ModelSpeaks(l) \/ ModelTimesOut(l) \/ AfterModelCall(l)
  PROVE  IInv'
<1>1. UNCHANGED <<checkpoints, execs, attempts>>
  BY DEF BeforeModelCall, ModelSpeaks, ModelTimesOut, AfterModelCall
<1>2. execs' \in [ToolCalls -> Nat] /\ attempts' \in 0..MaxAttempts
  BY <1>1, SameHistory
<1>3. CASE \E o \in {"Failed", "TimedOut", "Completed"} : return(l, o)
  BY <1>1, <1>2, <1>3, ReturnInv DEF ToolLoopOutcome
<1>4. CASE \/ loop[l].step = "before" /\ goto(l, "model")
           \/ loop[l].step = "model" /\ goto(l, "text")
           \/ loop[l].step = "after" /\ goto(l, "tools")
  BY <1>1, <1>4, GotoInv DEF Step
<1> QED
  BY <1>3, <1>4 DEF BeforeModelCall, ModelSpeaks, ModelTimesOut, AfterModelCall

\* The model asks for tool calls.
LEMMA ModelAsksInv ==
  ASSUME IInv, NEW l \in Loops, NEW b \in Answers, ModelAsks(l, b)
  PROVE  IInv'
<1> DEFINE x == loop[l]
           y == [x EXCEPT !.step = "after", !.asked = Append(@, b)]
<1>0. LocalInv(x) /\ x \in LoopState /\ x.step = "model" /\ b \in Seq(ToolCalls)
  BY ToolLoopAssumption DEF IInv, LocalInv, ModelAsks
<1>1. LocalInv(y)
  BY <1>0, AskLocal
<1>2. y.messages = x.messages /\ y.results = x.results /\ y.plan = x.plan
  BY <1>0 DEF LoopState
<1>3. loop' = [loop EXCEPT ![l] = y] /\ checkpoints' = checkpoints /\ outcome' = outcome
  BY DEF ModelAsks
<1>4. execs' \in [ToolCalls -> Nat] /\ attempts' \in 0..MaxAttempts
  BY SameHistory DEF ModelAsks
<1> HIDE DEF y
<1> QED
  BY <1>1, <1>2, <1>3, <1>4, MoveInv

\* A skipped call is shown what its checkpoint holds.
LEMMA SkipShown ==
  ASSUME IInv, NEW l \in Loops, NEW t \in ToolCalls, loop[l].plan[t] # None
  PROVE  /\ loop[l].plan[t] \in Results
         /\ Shown(checkpoints, <<t, loop[l].plan[t]>>)
<1>1. checkpoints \in Seq(ToolResultCheckpoint) /\ StoreInv(checkpoints) /\ t \in ReadOnly
  BY DEF IInv, TypeOK, PlanInv
<1>2. PICK i \in 1..Len(checkpoints) :
        IsFirst(checkpoints, i, t) /\ loop[l].plan[t] = checkpoints[i].result
  BY DEF IInv, PlanInv
<1> DEFINE z == checkpoints[i]
<1>3. z \in ToolResultCheckpoint /\ z.tool_call_id = t /\ z.result = loop[l].plan[t] /\ z.read_only
  BY <1>1, <1>2 DEF StoreInv, IsFirst
<1>4. z \in Range(checkpoints)
  BY <1>1, <1>2 DEF Range
<1> HIDE DEF z
<1>5. z = [tool_call_id |-> t, result |-> loop[l].plan[t], read_only |-> TRUE]
      /\ z.result \in Results
  BY <1>3 DEF ToolResultCheckpoint
<1>6. tool_result(t, loop[l].plan[t]) = z
  BY <1>1, <1>5 DEF tool_result
<1> QED
  BY <1>3, <1>4, <1>5, <1>6 DEF Shown

\* The next tool call.
LEMMA NextToolInv ==
  ASSUME IInv, NEW l \in Loops, NextTool(l)
  PROVE  IInv'
<1>1. /\ loop[l].step = "tools" /\ Len(loop[l].results) < Len(answer(l))
      /\ UNCHANGED <<checkpoints, execs, attempts>>
  BY DEF NextTool, more_tools
<1>2. execs' \in [ToolCalls -> Nat] /\ attempts' \in 0..MaxAttempts
  BY <1>1, SameHistory
<1>3. current(l) \in ToolCalls
  <2>1. LocalInv(loop[l]) /\ loop[l].results \in Seq(ToolCalls \X Results)
    BY DEF IInv, LocalInv, LoopState
  <2>2. answer(l) \in Seq(ToolCalls)
    BY <1>1, <2>1, AnswerType DEF answer, Busy
  <2> QED
    BY <1>1, <2>1, <2>2 DEF current
<1>4. CASE return(l, "Cancelled")
  BY <1>1, <1>2, <1>4, ReturnInv DEF ToolLoopOutcome
<1>5. CASE loop[l].plan[current(l)] # None /\ push_result(l, current(l), loop[l].plan[current(l)])
  <2>1. /\ loop[l].plan[current(l)] \in Results
        /\ Shown(checkpoints, <<current(l), loop[l].plan[current(l)]>>)
    BY <1>3, <1>5, SkipShown
  <2> QED
    BY <1>1, <1>2, <1>5, <2>1, PushInv DEF Busy
<1>6. CASE push_result(l, current(l), Error)
  <2>1. Error \in Results /\ Shown(checkpoints, <<current(l), Error>>)
    BY DEF Error, Results, Shown
  <2> QED
    BY <1>1, <1>2, <1>6, <2>1, PushInv DEF Busy
<1>7. CASE goto(l, "act")
  BY <1>1, <1>7, GotoInv DEF Step, answer
<1> QED
  BY <1>4, <1>5, <1>6, <1>7 DEF NextTool

\* What the current call is at an action, and what an execution counts.
LEMMA ActCall ==
  ASSUME IInv, NEW l \in Loops, loop[l].step \in {"act", "record"}
  PROVE  /\ LocalInv(loop[l]) /\ loop[l].step \in Busy
         /\ Len(loop[l].results) < Len(answer(l)) /\ current(l) \in ToolCalls
         /\ [execs EXCEPT ![current(l)] = @ + 1] \in [ToolCalls -> Nat]
<1>1. LocalInv(loop[l]) /\ execs \in [ToolCalls -> Nat]
  BY DEF IInv, TypeOK
<1>2. loop[l].step \in Busy
  BY DEF Busy
<1>3. Len(loop[l].results) < Len(answer(l))
  BY <1>1 DEF LocalInv, CallInv, answer
<1>4. current(l) \in ToolCalls
  BY <1>1, <1>2, AnswerType DEF current, answer
<1> QED
  BY <1>1, <1>2, <1>3, <1>4

\* The action returns, fails or is dropped.
LEMMA ActionInv ==
  ASSUME IInv, NEW l \in Loops, ActionReturns(l) \/ ActionErrs(l) \/ ActionTimesOut(l)
  PROVE  IInv'
<1> DEFINE x == loop[l]
<1>0. x.step = "act" /\ checkpoints' = checkpoints /\ attempts' = attempts
  BY DEF ActionReturns, ActionErrs, ActionTimesOut
<1>1. /\ LocalInv(x) /\ x \in LoopState /\ x.step \in Busy
      /\ Len(x.results) < Len(answer(l)) /\ current(l) \in ToolCalls
      /\ [execs EXCEPT ![current(l)] = @ + 1] \in [ToolCalls -> Nat]
      /\ execs \in [ToolCalls -> Nat]
  BY <1>0, ActCall DEF LocalInv, IInv, TypeOK
<1>2. execs' \in [ToolCalls -> Nat] /\ attempts' \in 0..MaxAttempts
  BY <1>0, <1>1 DEF ActionReturns, ActionErrs, ActionTimesOut, broken_off, IInv, TypeOK
<1>3. CASE ActionReturns(l)
  <2>1. PICK r \in Results : /\ loop' = [loop EXCEPT ![l].step = "record", ![l].pending = r]
                             /\ outcome' = outcome
    <3>1. [kind |-> "ran", n |-> execs'[current(l)]] \in Results /\ Refused \in Results
      BY <1>1, <1>2 DEF Results, Refused
    <3> QED
      BY <1>3, <3>1 DEF ActionReturns
  <2> DEFINE y == [x EXCEPT !.step = "record", !.pending = r]
  <2>2. LocalInv(y)
    BY <1>0, <1>1, ReturnLocal
  <2>3. y.messages = x.messages /\ y.results = x.results /\ y.plan = x.plan
    BY <1>1 DEF LoopState
  <2>4. loop' = [loop EXCEPT ![l] = y]
    BY <2>1
  <2> HIDE DEF y
  <2> QED
    BY <1>0, <1>2, <2>1, <2>2, <2>3, <2>4, MoveInv
<1>4. CASE ActionErrs(l)
  <2>1. Error \in Results /\ Shown(checkpoints, <<current(l), Error>>)
    BY DEF Error, Results, Shown
  <2>2. push_result(l, current(l), Error)
    BY <1>4 DEF ActionErrs
  <2> QED
    BY <1>0, <1>1, <1>2, <2>1, <2>2, PushInv
<1>5. CASE ActionTimesOut(l)
  <2>1. return(l, "TimedOut")
    BY <1>5 DEF ActionTimesOut
  <2> QED
    BY <1>0, <1>2, <2>1, ReturnInv DEF ToolLoopOutcome
<1> QED
  BY <1>3, <1>4, <1>5

\* The result is checkpointed and then told.
LEMMA RecordResultInv ==
  ASSUME IInv, NEW l \in Loops, RecordResult(l)
  PROVE  IInv'
<1>0. loop[l].step = "record" /\ UNCHANGED <<execs, attempts>>
  BY DEF RecordResult
<1>1. execs' \in [ToolCalls -> Nat] /\ attempts' \in 0..MaxAttempts
  BY <1>0, SameHistory
<1>2. /\ LocalInv(loop[l]) /\ loop[l].step \in Busy
      /\ Len(loop[l].results) < Len(answer(l)) /\ current(l) \in ToolCalls
  BY <1>0, ActCall
<1>3. loop[l].pending \in Results
  BY <1>0, <1>2 DEF LocalInv, CallInv
<1>4. CASE return(l, "Failed") /\ checkpoints' = checkpoints
  BY <1>1, <1>4, ReturnInv DEF ToolLoopOutcome
<1>5. CASE /\ checkpoints' = Append(checkpoints, tool_result(current(l), loop[l].pending))
           /\ push_result(l, current(l), loop[l].pending)
  BY <1>1, <1>2, <1>3, <1>5, PushInv
<1> QED
  BY <1>4, <1>5 DEF RecordResult

\* The turn ends.
LEMMA EndTurnInv ==
  ASSUME IInv, NEW l \in Loops, EndTurn(l)
  PROVE  IInv'
<1> DEFINE x == loop[l]
           y == [x EXCEPT !.step = "head", !.results = <<>>, !.messages = Append(@, x.results)]
<1>0. /\ LocalInv(x) /\ x \in LoopState /\ x.step = "tools"
      /\ Len(x.results) = Len(Last(x.asked)) /\ checkpoints' = checkpoints
  BY DEF IInv, LocalInv, EndTurn, answer
<1>1. execs' \in [ToolCalls -> Nat] /\ attempts' \in 0..MaxAttempts
  BY SameHistory DEF EndTurn
<1>2. CASE last_turn(l) /\ return(l, "MaxTurnsReached")
  <2>1. x.turn \in 0..MaxTurns /\ Len(x.asked) = x.turn
    BY <1>0 DEF LocalInv, CountInv, LoopState, Busy
  <2>2. Len(x.asked) = MaxTurns
    BY <2>1, <1>2, ToolLoopAssumption DEF last_turn
  <2> QED
    BY <1>0, <1>1, <1>2, <2>2, ReturnInv DEF ToolLoopOutcome
<1>3. CASE /\ loop' = [loop EXCEPT ![l].step = "head", ![l].results = <<>>,
                                   ![l].messages = Append(@, loop[l].results)]
           /\ outcome' = outcome
  <2>1. LocalInv(y)
    BY <1>0, EndLocal
  <2>2. /\ y.messages = Append(x.messages, x.results) /\ y.results = <<>> /\ y.plan = x.plan
        /\ x.messages \in Seq(Seq(ToolCalls \X Results)) /\ x.results \in Seq(ToolCalls \X Results)
    BY <1>0 DEF LoopState
  <2>3. loop' = [loop EXCEPT ![l] = y]
    BY <1>3
  <2>4. RecordInv(checkpoints, x) /\ PlanInv(checkpoints, x)
    BY DEF IInv
  <2> HIDE DEF x, y
  <2>5. PlanInv(checkpoints', y)
    BY <1>0, <2>2, <2>4 DEF PlanInv
  <2>6. ASSUME NEW k \in 1..Len(y.messages), NEW i \in 1..Len(y.messages[k])
        PROVE  Shown(checkpoints, y.messages[k][i])
    <3>0. Len(x.messages) \in Nat /\ Len(y.messages) = Len(x.messages) + 1
      BY <2>2
    <3>1. CASE k = Len(x.messages) + 1
      <4>1. y.messages[k] = x.results
        BY <2>2, <3>1
      <4> QED
        BY <2>4, <4>1 DEF RecordInv
    <3>2. CASE k \in 1..Len(x.messages)
      <4>1. y.messages[k] = x.messages[k]
        BY <2>2, <3>2
      <4> QED
        BY <2>4, <3>2, <4>1 DEF RecordInv
    <3> QED
      BY <3>0, <3>1, <3>2
  <2>7. RecordInv(checkpoints', y)
    BY <1>0, <2>2, <2>6 DEF RecordInv
  <2>8. loop' = [loop EXCEPT ![l] = y] /\ checkpoints' = checkpoints /\ outcome' = outcome
    BY <1>0, <1>3, <2>3
  <2> QED
    BY <1>1, <2>1, <2>5, <2>7, <2>8, Update
<1> QED
  BY <1>2, <1>3 DEF EndTurn

-----------------------------------------------------------------------------
(* The theorems.                                                           *)

\* The inductive invariant.
THEOREM Invariant == Spec => []IInv
<1>1. Init => IInv
  <2> SUFFICES ASSUME Init PROVE IInv
    OBVIOUS
  <2>1. LocalInv(Idle) /\ Idle \in LoopState
    BY IdleLocal DEF LocalInv
  <2>2. checkpoints = <<>> /\ \A l \in Loops : loop[l] = Idle
    BY DEF Init
  <2>3. TypeOK
    BY <2>1, ToolLoopAssumption DEF Init, TypeOK
  <2>4. StoreInv(checkpoints) /\ OutcomeInv
    BY DEF Init, StoreInv, OutcomeInv
  <2>5. RecordInv(checkpoints, Idle) /\ PlanInv(checkpoints, Idle)
    BY DEF RecordInv, PlanInv, Idle
  <2> QED
    BY <2>1, <2>2, <2>3, <2>4, <2>5 DEF IInv
<1>2. IInv /\ [Next]_vars => IInv'
  <2> SUFFICES ASSUME IInv, [Next]_vars PROVE IInv'
    OBVIOUS
  <2>1. CASE UNCHANGED vars
    BY <2>1 DEF vars, IInv, TypeOK, OutcomeInv
  <2>2. CASE Next
    <3>1. PICK l \in Loops :
            \/ Begin(l) \/ Cancel(l) \/ LoopStep(l)
            \/ \E batch \in Answers : ModelAsks(l, batch)
            \/ ModelSpeaks(l) \/ ActionReturns(l) \/ ActionErrs(l)
      BY <2>2 DEF Next
    <3>2. CASE Begin(l)
      BY <3>2, BeginInv
    <3>3. CASE Cancel(l)
      BY <3>3, CancelInv
    <3>4. CASE LoopStep(l)
      BY <3>4, TurnHeadInv, ModelInv, NextToolInv, RecordResultInv, EndTurnInv, ActionInv DEF LoopStep
    <3>5. CASE \E batch \in Answers : ModelAsks(l, batch)
      BY <3>5, ModelAsksInv
    <3>6. CASE ModelSpeaks(l) \/ ActionReturns(l) \/ ActionErrs(l)
      BY <3>6, ModelInv, ActionInv
    <3> QED
      BY <3>1, <3>2, <3>3, <3>4, <3>5, <3>6
  <2> QED
    BY <2>1, <2>2
<1> QED
  BY <1>1, <1>2, PTL DEF Spec

\* Every variable keeps its type.
THEOREM TypeCorrect == Spec => []TypeOK
<1>1. IInv => TypeOK
  BY DEF IInv
<1> QED
  BY <1>1, Invariant, PTL

\* However many attempts run and however they interleave, the model is given one
\* result per tool call it asked for, in the order of the calls, before run_inner
\* calls it again.
THEOREM CallsAnswered == Spec => []EveryCallAnswered
<1>1. IInv => EveryCallAnswered
  <2> SUFFICES ASSUME IInv, NEW l \in Loops, loop[l].step = "model"
               PROVE  LET m == loop[l].messages
                          a == loop[l].asked
                      IN  /\ Len(m) = Len(a)
                          /\ \A k \in DOMAIN a : [i \in DOMAIN m[k] |-> m[k][i][1]] = a[k]
    BY DEF EveryCallAnswered
  <2> DEFINE m == loop[l].messages
             a == loop[l].asked
  <2>1. /\ a \in Seq(Seq(ToolCalls)) /\ m \in Seq(Seq(ToolCalls \X Results)) /\ Len(m) = Len(a)
        /\ \A k \in 1..Len(m) : /\ Len(m[k]) = Len(a[k])
                                /\ \A i \in 1..Len(m[k]) : m[k][i][1] = a[k][i]
    BY DEF IInv, LocalInv, CountInv, MatchInv, LoopState
  <2> HIDE DEF m, a
  <2>2. ASSUME NEW k \in DOMAIN a PROVE [i \in DOMAIN m[k] |-> m[k][i][1]] = a[k]
    <3>1. k \in 1..Len(m) /\ a[k] \in Seq(ToolCalls) /\ m[k] \in Seq(ToolCalls \X Results)
      BY <2>1
    <3>2. DOMAIN m[k] = 1..Len(m[k]) /\ DOMAIN a[k] = 1..Len(a[k]) /\ Len(m[k]) = Len(a[k])
      BY <2>1, <3>1
    <3>3. a[k] = [i \in 1..Len(a[k]) |-> a[k][i]]
      BY <3>1
    <3> QED
      BY <2>1, <3>1, <3>2, <3>3
  <2> QED
    BY <2>1, <2>2 DEF m, a
<1> QED
  BY <1>1, Invariant, PTL

\* No attempt tells the model an outcome that a later attempt could not find in
\* the checkpoint store: run_inner writes the checkpoint first.
THEOREM ResultsRecorded == Spec => []RecordedBeforeShown
<1>1. IInv => RecordedBeforeShown
  <2> SUFFICES ASSUME IInv, NEW l \in Loops, NEW k \in DOMAIN loop[l].messages,
                      NEW e \in Range(loop[l].messages[k]), e[2].kind # "error"
               PROVE  tool_result(e[1], e[2]) \in Range(checkpoints)
    BY DEF RecordedBeforeShown
  <2>1. loop[l].messages \in Seq(Seq(ToolCalls \X Results))
    BY DEF IInv, LocalInv, LoopState
  <2>2. k \in 1..Len(loop[l].messages) /\ loop[l].messages[k] \in Seq(ToolCalls \X Results)
    BY <2>1
  <2>3. PICK i \in 1..Len(loop[l].messages[k]) : e = loop[l].messages[k][i]
    BY <2>2 DEF Range
  <2>4. Shown(checkpoints, loop[l].messages[k][i])
    BY <2>2, <2>3 DEF IInv, RecordInv
  <2> QED
    BY <2>3, <2>4 DEF Shown
<1> QED
  BY <1>1, Invariant, PTL

\* ToolLoopResumePlan::from_checkpoints gives every attempt one and the same
\* answer for a skipped call, although attempts that overlap record several.
THEOREM SkipsConsistent == Spec => []SkipsAgree
<1>1. IInv => SkipsAgree
  <2> SUFFICES ASSUME IInv, NEW l \in Loops, NEW t \in ToolCalls, loop[l].plan[t] # None
               PROVE  t \in ReadOnly /\ skippable(t) /\ loop[l].plan[t] = checkpoints[first(t)].result
    BY DEF SkipsAgree
  <2>1. checkpoints \in Seq(ToolResultCheckpoint) /\ StoreInv(checkpoints)
        /\ PlanInv(checkpoints, loop[l])
    BY DEF IInv, TypeOK
  <2>2. t \in ReadOnly
    BY <2>1 DEF PlanInv
  <2>3. PICK i \in 1..Len(checkpoints) :
          IsFirst(checkpoints, i, t) /\ loop[l].plan[t] = checkpoints[i].result
    BY <2>1 DEF PlanInv
  <2>4. i = first(t)
    BY <2>1, <2>3, FirstUnique DEF first, recorded
  <2>5. checkpoints[i].tool_call_id = t /\ checkpoints[i].read_only
    BY <2>1, <2>2, <2>3 DEF IsFirst, StoreInv
  <2>6. skippable(t)
    BY <2>1, <2>3, <2>5 DEF skippable, recorded
  <2> QED
    BY <2>2, <2>3, <2>4, <2>6
<1> QED
  BY <1>1, Invariant, PTL

\* run_inner makes at most max_turns model calls and reports MaxTurnsReached
\* after exactly that many answers.
THEOREM TurnLimit == Spec => []TurnsUsed
<1>1. IInv => TurnsUsed
  <2> SUFFICES ASSUME IInv, NEW l \in Loops
               PROVE  /\ Len(loop[l].asked) <= MaxTurns
                      /\ outcome[l].kind = "MaxTurnsReached" => outcome[l].answers = MaxTurns
    BY DEF TurnsUsed
  <2>1. LocalInv(loop[l]) /\ loop[l] \in LoopState
    BY DEF IInv, LocalInv
  <2>2. loop[l].turn \in 0..MaxTurns /\ Len(loop[l].asked) \in Nat /\ loop[l].step \in Step
    BY <2>1 DEF LoopState
  <2>3. Len(loop[l].asked) <= loop[l].turn
    BY <2>1, <2>2, ToolLoopAssumption DEF LocalInv, CountInv, Step, Busy, Idle
  <2> QED
    BY <2>2, <2>3, ToolLoopAssumption DEF IInv, OutcomeInv
<1> QED
  BY <1>1, Invariant, PTL

\* A cancelled attempt begins no action: only NextTool begins one, and it looks
\* at the token first.
THEOREM CancelStops == Spec => NoActionAfterCancel
<1>1. ASSUME IInv, [Next]_vars, NEW l \in Loops, loop[l].cancelled, loop[l].step # "act"
      PROVE  loop'[l].step # "act"
  <2>1. CASE UNCHANGED vars
    BY <2>1, <1>1 DEF vars
  <2>2. CASE Next
    <3>1. PICK m \in Loops :
            \/ Begin(m) \/ Cancel(m) \/ LoopStep(m)
            \/ \E batch \in Answers : ModelAsks(m, batch)
            \/ ModelSpeaks(m) \/ ActionReturns(m) \/ ActionErrs(m)
      BY <2>2 DEF Next
    <3>2. loop \in [Loops -> LoopState]
      BY <1>1 DEF IInv, TypeOK
    <3>3. CASE m # l
      <4>1. loop'[l] = loop[l]
        BY <3>1, <3>2, <3>3 DEF Begin, Cancel, LoopStep, TurnHead, BeforeModelCall, AfterModelCall,
           NextTool, RecordResult, EndTurn, ModelTimesOut, ActionTimesOut, ModelAsks, ModelSpeaks,
           ActionReturns, ActionErrs, goto, return, push_result
      <4> QED
        BY <1>1, <4>1
    <3>4. CASE m = l
      <4>1. ASSUME NEW s, goto(l, s) PROVE loop'[l].step = s
        BY <3>2, <4>1 DEF goto, LoopState
      <4>2. ASSUME NEW o, return(l, o) PROVE loop'[l].step = "idle"
        BY <3>2, <4>2 DEF return, Idle
      <4>3. ASSUME NEW t, NEW r, push_result(l, t, r) PROVE loop'[l].step = "tools"
        BY <3>2, <4>3 DEF push_result, LoopState
      <4>4. CASE Begin(l)
        BY <3>2, <4>2, <4>4 DEF Begin, LoopState
      <4>5. CASE Cancel(l)
        BY <1>1, <4>5 DEF Cancel
      <4>6. CASE TurnHead(l)
        BY <3>2, <4>2, <4>6 DEF TurnHead, LoopState
      <4>7. CASE \/ BeforeModelCall(l) \/ ModelSpeaks(l) \/ ModelTimesOut(l) \/ AfterModelCall(l)
        BY <4>1, <4>2, <4>7 DEF BeforeModelCall, ModelSpeaks, ModelTimesOut, AfterModelCall
      <4>8. CASE \E batch \in Answers : ModelAsks(l, batch)
        BY <3>2, <4>8 DEF ModelAsks, LoopState
      <4>9. CASE NextTool(l)
        BY <1>1, <4>2, <4>9 DEF NextTool
      <4>10. CASE RecordResult(l)
        BY <4>2, <4>3, <4>10 DEF RecordResult
      <4>11. CASE EndTurn(l)
        BY <3>2, <4>2, <4>11 DEF EndTurn, LoopState
      <4>12. CASE ActionReturns(l) \/ ActionErrs(l) \/ ActionTimesOut(l)
        BY <1>1, <4>12 DEF ActionReturns, ActionErrs, ActionTimesOut
      <4> QED
        BY <3>1, <3>4, <4>4, <4>5, <4>6, <4>7, <4>8, <4>9, <4>10, <4>11, <4>12 DEF LoopStep
    <3> QED
      BY <3>3, <3>4
  <2> QED
    BY <1>1, <2>1, <2>2
<1>2. IInv /\ [Next]_vars =>
        \A l \in Loops : loop[l].cancelled /\ loop[l].step # "act" => loop'[l].step # "act"
  BY <1>1
<1> QED
  BY <1>2, Invariant, PTL DEF Spec, NoActionAfterCancel

-----------------------------------------------------------------------------
(* KnowledgeStores.                                                        *)

\* A set of numbers that is not empty has a least one.
LEMMA LeastNatural ==
  ASSUME NEW T \in SUBSET Nat, T # {}
  PROVE  \E x \in T : \A y \in T : ~(y < x)
<1> DEFINE R == OpToRel(<, Nat)
<1>1. IsWellFoundedOn(R, Nat)
  BY NatLessThanWellFounded
<1>2. \A y, x \in Nat : y < x => <<y, x>> \in R
  BY DEF OpToRel
<1> HIDE DEF R
<1>3. \E x \in T : \A y \in T : ~(<<y, x>> \in R)
  BY <1>1, WFMin
<1> QED BY <1>2, <1>3

\* The modules count the elements of a set alike.
LEMMA SameCount == \A S : Stores!Cardinality(S) = Cardinality(S)
BY DEF Cardinality, Stores!Cardinality

\* The greatest of a set of numbers.
LEMMA MaxIs ==
  ASSUME NEW T \in SUBSET Nat, NEW x \in T, \A y \in T : y <= x
  PROVE  Stores!Max(T) = x
<1>1. Stores!Max(T) \in T /\ \A y \in T : Stores!Max(T) >= y
  BY DEF Stores!Max
<1>2. x \in Nat /\ Stores!Max(T) \in Nat
  BY <1>1
<1> HIDE DEF Stores!Max
<1>3. x <= Stores!Max(T) /\ Stores!Max(T) <= x
  BY <1>1, <1>2
<1> QED BY <1>2, <1>3

\* A set of positions that is not empty has a last one.
LEMMA LastPosition ==
  ASSUME NEW n \in Nat, NEW T \in SUBSET (1 .. n), T # {}
  PROVE  \E x \in T : \A y \in T : y <= x
<1> DEFINE gaps == {n - i : i \in T}
<1>0. \A i \in T : n - i \in Nat
  OBVIOUS
<1>1. gaps \in SUBSET Nat /\ gaps # {}
  BY <1>0
<1>2. PICK g \in gaps : \A y \in gaps : ~(y < g)
  BY <1>1, LeastNatural
<1>3. PICK x \in T : g = n - x
  BY <1>2
<1>4. \A y \in T : y <= x
  <2> TAKE y \in T
  <2>1. ~(n - y < n - x)
    BY <1>2, <1>3
  <2>2. x \in 1 .. n /\ y \in 1 .. n
    OBVIOUS
  <2> QED BY <2>1, <2>2
<1> QED BY <1>4

\* What the ledger and the cache link to a work object.
Asked(ledger, w) == UNION {ledger[q].related : q \in {q \in 1 .. Len(ledger) : ledger[q].work_object = w}}
Cached(cache, w) == UNION {cache[p].related : p \in {p \in 1 .. Len(cache) : cache[p].work_object = w}}

\* The model's names for them.
LEMMA LinksOf ==
  ASSUME NEW w
  PROVE  /\ Asked(questions, w) = UNION {questions[q].related : q \in Stores!questions_by_work_object(w)}
         /\ Cached(packages, w) = UNION {packages[p].related : p \in Stores!packages_by_work_object(w)}
BY Zenon DEF Asked, Cached, Stores!questions_by_work_object, Stores!packages_by_work_object

\* The packages of an answer among the first so many of a cache.
Earlier(s, k, a) == {r \in 1 .. k : s[r].answer = a}

\* The repository: an entry that was not updated is not blank.
EntriesInv ==
  /\ entries \in Seq(Stores!StoredKnowledgeEntry)
  /\ \A i \in 1 .. Len(entries) : entries[i].changed \/ (entries[i].title /\ entries[i].content)

\* The governance records.
RecordsInv == governance \in [Entries -> Stores!KnowledgeGovernanceRecord \cup {Stores!NoRecord}]

\* The versions of an answer count its packages.
PackagesInv ==
  /\ packages \in Seq(Stores!AnswerCachePackage)
  /\ \A p \in 1 .. Len(packages) : packages[p].version = Cardinality(Earlier(packages, p, packages[p].answer))

\* What is cited was registered.
EvidenceInv ==
  /\ evidence \in Seq(Stores!CitationEvidenceRecord) /\ Len(evidence) <= MaxSize
  /\ citations \in [AnswerIds -> SUBSET (1 .. Len(evidence))]

\* What an operation has read at its first lock still stands at its second.
ReaderInv ==
  /\ reader.op \in {"query", "queried"} =>
       reader \in [op : {"query", "queried"}, work_object : WorkObjects, start : SUBSET Entries, found : SUBSET Entries]
  /\ reader.op = "query" => /\ reader.found \subseteq Asked(questions, reader.work_object)
                            /\ reader.start \subseteq reader.found \cup Cached(packages, reader.work_object)
  /\ reader.op = "queried" => /\ reader.found \subseteq Asked(questions, reader.work_object) \cup Cached(packages, reader.work_object)
                              /\ reader.start \subseteq reader.found
  /\ reader.op = "cite" => reader.id \in 1 .. Len(evidence)
  /\ reader.op = "trace" => reader.ids \subseteq 1 .. Len(evidence)
  /\ reader.op = "traced" =>
       \A i \in reader.ids :
         i \in 1 .. Len(evidence) /\ (i \notin reader.kept => evidence[i] = "Artifact" /\ i \in reader.denied)

\* The invariant of the stores.
StoresInv ==
  EntriesInv /\ RecordsInv /\ questions \in Seq(Stores!QuestionLedgerEntry) /\ PackagesInv /\ EvidenceInv /\ ReaderInv

\* Every store is empty at first.
LEMMA StoresStart == ASSUME MaxSize \in Nat PROVE Stores!Init => StoresInv
<1> SUFFICES ASSUME Stores!Init PROVE StoresInv
  OBVIOUS
<1>1. entries = <<>> /\ questions = <<>> /\ packages = <<>> /\ evidence = <<>> /\ reader.op = "idle"
  BY DEF Stores!Init, Stores!Idle
<1>2. governance = [e \in Entries |-> Stores!NoRecord] /\ citations = [a \in AnswerIds |-> {}]
  BY DEF Stores!Init
<1>3. EntriesInv
  BY <1>1 DEF EntriesInv
<1>4. RecordsInv
  BY <1>2 DEF RecordsInv
<1>5. PackagesInv
  BY <1>1 DEF PackagesInv
<1>6. EvidenceInv
  BY <1>1, <1>2 DEF EvidenceInv
<1>7. ReaderInv
  BY <1>1 DEF ReaderInv
<1> QED BY <1>1, <1>3, <1>4, <1>5, <1>6, <1>7 DEF StoresInv

\* An entry is saved when it is not blank, and an update is noted.
LEMMA RepositoryStep == ASSUME EntriesInv, Stores!RepositoryNext PROVE EntriesInv'
<1>1. ASSUME NEW t \in BOOLEAN, NEW c \in BOOLEAN, Stores!save_entry(t, c) PROVE EntriesInv'
  <2> DEFINE new == [title |-> t, content |-> c, changed |-> FALSE]
  <2>1. entries' = Append(entries, new) /\ t /\ c /\ entries \in Seq(Stores!StoredKnowledgeEntry)
    BY <1>1 DEF Stores!save_entry, Stores!validate_draft_fields, EntriesInv
  <2>2. new \in Stores!StoredKnowledgeEntry /\ new.title /\ new.content
    BY <2>1 DEF Stores!StoredKnowledgeEntry
  <2> HIDE DEF new
  <2>3. /\ entries' \in Seq(Stores!StoredKnowledgeEntry) /\ Len(entries') = Len(entries) + 1
        /\ \A i \in 1 .. Len(entries) : entries'[i] = entries[i]
        /\ entries'[Len(entries) + 1] = new
    BY <2>1, <2>2
  <2>4. \A i \in 1 .. (Len(entries) + 1) : i \in 1 .. Len(entries) \/ i = Len(entries) + 1
    BY <2>1
  <2> QED BY <2>2, <2>3, <2>4 DEF EntriesInv
<1>2. ASSUME NEW i \in 1 .. MaxSize, NEW t \in BOOLEAN, NEW c \in BOOLEAN, Stores!update_entry(i, t, c)
      PROVE  EntriesInv'
  <2> DEFINE n1 == [entries[i] EXCEPT !.title = t]
             n2 == [n1 EXCEPT !.content = c]
             new == [n2 EXCEPT !.changed = TRUE]
  <2>1. i \in 1 .. Len(entries) /\ entries \in Seq(Stores!StoredKnowledgeEntry) /\ entries[i] \in Stores!StoredKnowledgeEntry
    BY <1>2 DEF Stores!update_entry, EntriesInv
  <2>2. entries' = [entries EXCEPT ![i] = new]
    BY <1>2, <2>1 DEF Stores!update_entry
  <2>3. n1 \in Stores!StoredKnowledgeEntry
    BY <2>1 DEF Stores!StoredKnowledgeEntry
  <2> HIDE DEF n1
  <2>4. n2 \in Stores!StoredKnowledgeEntry
    BY <2>3 DEF Stores!StoredKnowledgeEntry
  <2> HIDE DEF n2
  <2>5. new \in Stores!StoredKnowledgeEntry /\ new.changed
    BY <2>4 DEF Stores!StoredKnowledgeEntry
  <2> HIDE DEF new
  <2>6. /\ entries' \in Seq(Stores!StoredKnowledgeEntry) /\ Len(entries') = Len(entries) /\ entries'[i] = new
        /\ \A j \in 1 .. Len(entries) : j # i => entries'[j] = entries[j]
    BY <2>1, <2>2, <2>5
  <2> QED BY <2>5, <2>6 DEF EntriesInv
<1> QED BY <1>1, <1>2 DEF Stores!RepositoryNext

\* A record is replaced, or its status is.
LEMMA GovernanceStep == ASSUME RecordsInv, Stores!GovernanceNext PROVE RecordsInv'
<1>1. ASSUME NEW e \in Entries, NEW r \in Stores!KnowledgeGovernanceRecord, Stores!upsert_record(e, r) PROVE RecordsInv'
  BY <1>1 DEF Stores!upsert_record, RecordsInv
<1>2. ASSUME NEW e \in Entries, NEW s \in Stores!KnowledgeGovernanceStatus, Stores!transition_status(e, s)
      PROVE  RecordsInv'
  <2> DEFINE new == [governance[e] EXCEPT !.status = s]
  <2>1. governance[e] \in Stores!KnowledgeGovernanceRecord /\ governance' = [governance EXCEPT ![e] = new]
    BY <1>2 DEF Stores!transition_status, RecordsInv
  <2>2. new \in Stores!KnowledgeGovernanceRecord
    BY <2>1 DEF Stores!KnowledgeGovernanceRecord
  <2> HIDE DEF new
  <2> QED BY <2>1, <2>2 DEF RecordsInv
<1> QED BY <1>1, <1>2 DEF Stores!GovernanceNext

\* What a work object's questions relate to is never taken back.
LEMMA QuestionStep ==
  ASSUME questions \in Seq(Stores!QuestionLedgerEntry),
         \/ \E w \in WorkObjects \cup {Stores!None}, r \in SUBSET Entries : Stores!create_question(w, r)
         \/ \E q \in 1 .. MaxSize, r \in {{}} \cup {{e} : e \in Entries} : Stores!link_answer(q, r)
  PROVE  /\ questions' \in Seq(Stores!QuestionLedgerEntry)
         /\ \A w \in WorkObjects : Asked(questions, w) \subseteq Asked(questions', w)
<1> DEFINE n == Len(questions)
<1>1. ASSUME questions' \in Seq(Stores!QuestionLedgerEntry), n <= Len(questions'),
             \A q \in 1 .. n : /\ questions'[q].work_object = questions[q].work_object
                               /\ questions[q].related \subseteq questions'[q].related
      PROVE  \A w \in WorkObjects : Asked(questions, w) \subseteq Asked(questions', w)
  <2>1. n \in Nat /\ Len(questions') \in Nat
    BY <1>1
  <2>2. \A q \in 1 .. n : q \in 1 .. Len(questions')
    BY <1>1, <2>1
  <2> HIDE DEF n
  <2> SUFFICES ASSUME NEW w \in WorkObjects, NEW e \in Asked(questions, w) PROVE e \in Asked(questions', w)
    OBVIOUS
  <2>3. PICK q \in 1 .. n : questions[q].work_object = w /\ e \in questions[q].related
    BY DEF Asked, n
  <2>4. q \in 1 .. n /\ questions[q].work_object = w
    BY <2>3
  <2>5. q \in 1 .. Len(questions') /\ questions'[q].work_object = w /\ e \in questions'[q].related
    BY <1>1, <2>2, <2>3, <2>4
  <2> QED BY <2>5 DEF Asked
<1>2. ASSUME NEW v \in WorkObjects \cup {Stores!None}, NEW r \in SUBSET Entries, Stores!create_question(v, r)
      PROVE  /\ questions' \in Seq(Stores!QuestionLedgerEntry)
             /\ \A w \in WorkObjects : Asked(questions, w) \subseteq Asked(questions', w)
  <2> DEFINE new == [work_object |-> v, related |-> r, answered |-> FALSE]
  <2>1. questions' = Append(questions, new)
    BY <1>2 DEF Stores!create_question
  <2>2. new \in Stores!QuestionLedgerEntry
    BY DEF Stores!QuestionLedgerEntry
  <2> HIDE DEF new
  <2>3. questions' \in Seq(Stores!QuestionLedgerEntry) /\ n <= Len(questions') /\ \A q \in 1 .. n : questions'[q] = questions[q]
    BY <2>1, <2>2
  <2> QED BY <1>1, <2>3
<1>3. ASSUME NEW q \in 1 .. MaxSize, NEW r \in {{}} \cup {{e} : e \in Entries}, Stores!link_answer(q, r)
      PROVE  /\ questions' \in Seq(Stores!QuestionLedgerEntry)
             /\ \A w \in WorkObjects : Asked(questions, w) \subseteq Asked(questions', w)
  <2> DEFINE n1 == [questions[q] EXCEPT !.related = @ \cup r]
             new == [n1 EXCEPT !.answered = TRUE]
  <2>1. q \in 1 .. n /\ questions[q] \in Stores!QuestionLedgerEntry /\ r \in SUBSET Entries
    BY <1>3 DEF Stores!link_answer
  <2>2. questions' = [questions EXCEPT ![q] = new]
    BY <1>3, <2>1 DEF Stores!link_answer
  <2>3. /\ n1 \in Stores!QuestionLedgerEntry /\ n1.work_object = questions[q].work_object
        /\ n1.related = questions[q].related \cup r
    BY <2>1 DEF Stores!QuestionLedgerEntry
  <2> HIDE DEF n1
  <2>4. new \in Stores!QuestionLedgerEntry /\ new.work_object = n1.work_object /\ new.related = n1.related
    BY <2>3 DEF Stores!QuestionLedgerEntry
  <2> HIDE DEF new
  <2>5. /\ questions' \in Seq(Stores!QuestionLedgerEntry) /\ Len(questions') = n /\ questions'[q] = new
        /\ \A p \in 1 .. n : p # q => questions'[p] = questions[p]
    BY <2>1, <2>2, <2>4
  <2>6. n <= Len(questions')
    BY <2>5
  <2>7. \A p \in 1 .. n : /\ questions'[p].work_object = questions[p].work_object
                          /\ questions[p].related \subseteq questions'[p].related
    BY <2>3, <2>4, <2>5
  <2> QED BY <1>1, <2>5, <2>6, <2>7
<1> QED BY <1>2, <1>3

\* The packages of an answer up to a position are finite, and another one more counts one more.
LEMMA EarlierCount ==
  ASSUME NEW s, NEW k \in Nat, NEW a
  PROVE  /\ IsFiniteSet(Earlier(s, k, a)) /\ Cardinality(Earlier(s, k, a)) \in Nat
         /\ s[k + 1].answer = a => Cardinality(Earlier(s, k + 1, a)) = Cardinality(Earlier(s, k, a)) + 1
<1>1. IsFiniteSet(1 .. k)
  BY FS_Interval
<1>2. IsFiniteSet(Earlier(s, k, a)) /\ Cardinality(Earlier(s, k, a)) \in Nat
  <2>1. Earlier(s, k, a) \in SUBSET (1 .. k)
    BY DEF Earlier
  <2> QED BY <1>1, <2>1, FS_Subset, FS_CardinalityType
<1>3. ASSUME s[k + 1].answer = a
      PROVE  Earlier(s, k + 1, a) = Earlier(s, k, a) \cup {k + 1} /\ k + 1 \notin Earlier(s, k, a)
  <2>1. \A r : r \in 1 .. (k + 1) <=> r \in 1 .. k \/ r = k + 1
    OBVIOUS
  <2>2. k + 1 \notin 1 .. k
    OBVIOUS
  <2> QED BY <1>3, <2>1, <2>2 DEF Earlier
<1> QED BY <1>2, <1>3, FS_AddElement

\* A later package of an answer counts more.
LEMMA EarlierGrows ==
  ASSUME NEW s, NEW k \in Nat, NEW m \in Nat, k < m, NEW a, s[m].answer = a
  PROVE  Cardinality(Earlier(s, k, a)) < Cardinality(Earlier(s, m, a))
<1>1. Earlier(s, k, a) \in SUBSET Earlier(s, m, a) /\ m \in Earlier(s, m, a) /\ m \notin Earlier(s, k, a)
  BY DEF Earlier
<1>2. IsFiniteSet(Earlier(s, m, a)) /\ Cardinality(Earlier(s, m, a)) \in Nat /\ Cardinality(Earlier(s, k, a)) \in Nat
  BY EarlierCount
<1>3. /\ Cardinality(Earlier(s, k, a)) <= Cardinality(Earlier(s, m, a))
      /\ Cardinality(Earlier(s, m, a)) = Cardinality(Earlier(s, k, a)) => Earlier(s, m, a) = Earlier(s, k, a)
  BY <1>1, <1>2, FS_Subset
<1> QED BY <1>1, <1>2, <1>3

\* The highest version of an answer is the number of its packages.
LEMMA NextVersion ==
  ASSUME PackagesInv, NEW a \in AnswerIds
  PROVE  Stores!next_version_for_answer(a) = Cardinality(Earlier(packages, Len(packages), a)) + 1
<1> DEFINE n == Len(packages)
           mine == Earlier(packages, n, a)
           T == {0} \cup {packages[p].version : p \in mine}
<1>0. n \in Nat /\ mine \in SUBSET (1 .. n)
  BY DEF PackagesInv, Earlier
<1>1. Stores!next_version_for_answer(a) = 1 + Stores!Max(T)
  BY DEF Stores!next_version_for_answer, Earlier
<1>2. Cardinality(mine) \in Nat /\ IsFiniteSet(mine)
  BY <1>0, EarlierCount
<1>3. ASSUME NEW p \in mine
      PROVE  packages[p].version = Cardinality(Earlier(packages, p, a)) /\ packages[p].version \in Nat
  <2>1. p \in 1 .. n /\ packages[p].answer = a
    BY <1>3 DEF Earlier
  <2>2. packages[p].version = Cardinality(Earlier(packages, p, a))
    BY <2>1 DEF PackagesInv
  <2> QED BY <2>1, <2>2, EarlierCount
<1>4. CASE mine = {}
  <2>1. T = {0} /\ Cardinality(mine) = 0
    BY <1>4, FS_EmptySet
  <2> HIDE DEF T, mine
  <2>2. Stores!Max(T) = 0
    BY <2>1, MaxIs
  <2> QED BY <1>1, <2>1, <2>2 DEF mine
<1>5. CASE mine # {}
  <2>1. PICK x \in mine : \A y \in mine : y <= x
    BY <1>0, <1>5, LastPosition
  <2>2. x \in 1 .. n /\ \A y \in mine : y \in 1 .. n
    BY <1>0
  <2>3. mine = Earlier(packages, x, a)
    <3>1. \A y \in mine : y \in 1 .. x /\ packages[y].answer = a
      BY <2>1, <2>2 DEF Earlier
    <3>2. \A y \in 1 .. x : y \in 1 .. n
      BY <1>0, <2>2
    <3> QED BY <3>1, <3>2 DEF Earlier
  <2> HIDE DEF mine
  <2>4. packages[x].version = Cardinality(mine)
    BY <1>3, <2>3
  <2>5. \A y \in mine : packages[y].version \in Nat /\ packages[y].version <= Cardinality(mine)
    <3> TAKE y \in mine
    <3>1. Earlier(packages, y, a) \in SUBSET mine
      <4>1. y \in 1 .. x
        BY <2>1, <2>2
      <4>2. \A z \in 1 .. y : z \in 1 .. x
        BY <2>2, <4>1
      <4> QED BY <2>3, <4>2 DEF Earlier
    <3>2. Cardinality(Earlier(packages, y, a)) <= Cardinality(mine)
      BY <1>2, <3>1, FS_Subset
    <3> QED BY <1>3, <3>2
  <2>6. T \in SUBSET Nat /\ Cardinality(mine) \in T /\ \A y \in T : y <= Cardinality(mine)
    BY <1>2, <2>4, <2>5
  <2>7. Stores!Max(T) = Cardinality(mine)
    BY <2>6, MaxIs
  <2> QED BY <1>1, <1>2, <2>7 DEF mine
<1> QED BY <1>4, <1>5

\* A package takes the next version of its answer, and stays with its work object.
LEMMA PackageStep ==
  ASSUME MaxSize \in Nat, PackagesInv, NEW q \in 0 .. MaxSize, NEW v \in WorkObjects \cup {Stores!None}, NEW a \in AnswerIds,
         NEW related \in SUBSET Entries, NEW t \in 1 .. MaxStamp, Stores!create_package(q, v, a, related, t)
  PROVE  PackagesInv' /\ \A w \in WorkObjects : Cached(packages, w) \subseteq Cached(packages', w)
<1> DEFINE n == Len(packages)
           version == Stores!next_version_for_answer(a)
           new == [question |-> q, work_object |-> v, answer |-> a, version |-> version, related |-> related, at |-> t]
<1>1. packages' = Append(packages, new) /\ packages \in Seq(Stores!AnswerCachePackage) /\ n \in Nat
  BY DEF Stores!create_package, PackagesInv
<1>2. version = Cardinality(Earlier(packages, n, a)) + 1 /\ version \in Nat
  BY <1>1, NextVersion, EarlierCount
<1> HIDE DEF version
<1>3. new \in Stores!AnswerCachePackage /\ new.answer = a /\ new.version = version
  BY <1>2 DEF Stores!AnswerCachePackage
<1> HIDE DEF new
<1>4. /\ packages' \in Seq(Stores!AnswerCachePackage) /\ Len(packages') = n + 1 /\ packages'[n + 1] = new
      /\ \A p \in 1 .. n : packages'[p] = packages[p]
  BY <1>1, <1>3
<1> HIDE DEF n
<1>5. \A k \in 0 .. n : Earlier(packages', k, packages'[k].answer) = Earlier(packages, k, packages'[k].answer)
  <2> TAKE k \in 0 .. n
  <2>1. \A r \in 1 .. k : r \in 1 .. n
    BY <1>1
  <2> QED BY <1>4, <2>1 DEF Earlier
<1>6. ASSUME NEW p \in 1 .. (n + 1)
      PROVE  packages'[p].version = Cardinality(Earlier(packages', p, packages'[p].answer))
  <2>1. CASE p = n + 1
    <3>1. Earlier(packages', n, a) = Earlier(packages, n, a)
      BY <1>1, <1>4 DEF Earlier
    <3>2. Cardinality(Earlier(packages', n + 1, a)) = Cardinality(Earlier(packages', n, a)) + 1
      BY <1>1, <1>3, <1>4, EarlierCount
    <3> QED BY <1>2, <1>3, <1>4, <2>1, <3>1, <3>2
  <2>2. CASE p # n + 1
    <3>1. p \in 1 .. n /\ p \in 0 .. n
      BY <1>1, <2>2
    <3>2. packages[p].version = Cardinality(Earlier(packages, p, packages[p].answer))
      BY <3>1 DEF PackagesInv, n
    <3> QED BY <1>4, <1>5, <3>1, <3>2
  <2> QED BY <2>1, <2>2
<1>7. \A w \in WorkObjects : Cached(packages, w) \subseteq Cached(packages', w)
  <2> SUFFICES ASSUME NEW w \in WorkObjects, NEW e \in Cached(packages, w) PROVE e \in Cached(packages', w)
    OBVIOUS
  <2>1. PICK p \in 1 .. n : packages[p].work_object = w /\ e \in packages[p].related
    BY DEF Cached, n
  <2>2. p \in 1 .. n /\ packages[p].work_object = w
    BY <2>1
  <2>3. p \in 1 .. Len(packages') /\ packages'[p] = packages[p]
    BY <1>1, <1>4, <2>2
  <2> QED BY <2>1, <2>2, <2>3 DEF Cached
<1> QED BY <1>4, <1>6, <1>7 DEF PackagesInv

\* The evidence that was registered stays as it is.
EvidenceStays ==
  Len(evidence) \in Nat /\ Len(evidence') \in Nat /\ Len(evidence) <= Len(evidence')
    /\ \A i \in 1 .. Len(evidence) : evidence'[i] = evidence[i]

\* Evidence is registered, and what is cited was found at the first lock.
LEMMA EvidenceStep ==
  ASSUME MaxSize \in Nat, EvidenceInv, ReaderInv,
         \/ \E k \in Stores!CitationEvidenceRecord : Stores!register_evidence(k)
         \/ Stores!cite_answer
         \/ UNCHANGED <<evidence, citations>>
  PROVE  EvidenceInv' /\ EvidenceStays
<1> DEFINE n == Len(evidence)
<1>0. evidence \in Seq(Stores!CitationEvidenceRecord) /\ n \in Nat /\ n <= MaxSize /\ citations \in [AnswerIds -> SUBSET (1 .. n)]
  BY DEF EvidenceInv
<1>1. ASSUME NEW k \in Stores!CitationEvidenceRecord, Stores!register_evidence(k) PROVE EvidenceInv' /\ EvidenceStays
  <2>1. evidence' = Append(evidence, k) /\ n < MaxSize /\ citations' = citations
    BY <1>1 DEF Stores!register_evidence, Stores!has_room
  <2>2. /\ evidence' \in Seq(Stores!CitationEvidenceRecord) /\ Len(evidence') = n + 1
        /\ \A i \in 1 .. n : evidence'[i] = evidence[i]
    BY <1>0, <2>1
  <2> HIDE DEF n
  <2>3. \A i \in 1 .. n : i \in 1 .. (n + 1)
    BY <1>0
  <2>4. citations' \in [AnswerIds -> SUBSET (1 .. (n + 1))]
    BY <1>0, <2>1, <2>3
  <2>5. n + 1 <= MaxSize
    BY <1>0, <2>1
  <2>6. EvidenceInv'
    BY <2>2, <2>4, <2>5 DEF EvidenceInv
  <2> QED BY <1>0, <2>2, <2>6 DEF EvidenceStays, n
<1>2. CASE Stores!cite_answer
  <2>1. /\ citations' = [citations EXCEPT ![reader.answer] = @ \cup {reader.id}] /\ evidence' = evidence
        /\ reader.id \in 1 .. n
    BY <1>2 DEF Stores!cite_answer, ReaderInv
  <2> HIDE DEF n
  <2>2. citations' \in [AnswerIds -> SUBSET (1 .. n)]
    BY <1>0, <2>1
  <2> QED BY <1>0, <2>1, <2>2 DEF EvidenceInv, EvidenceStays, n
<1>3. CASE UNCHANGED <<evidence, citations>>
  BY <1>0, <1>3 DEF EvidenceInv, EvidenceStays
<1> QED BY <1>1, <1>2, <1>3

\* An operation between its locks stands while the stores grow.
LEMMA ReaderKept ==
  ASSUME ReaderInv, reader' = reader, EvidenceStays,
         \A w \in WorkObjects : Asked(questions, w) \subseteq Asked(questions', w), \A w \in WorkObjects : Cached(packages, w) \subseteq Cached(packages', w)
  PROVE  ReaderInv'
<1>1. \A i \in 1 .. Len(evidence) : i \in 1 .. Len(evidence')
  BY DEF EvidenceStays
<1>2. ASSUME reader.op \in {"query", "queried"}
      PROVE  /\ reader'.work_object \in WorkObjects
             /\ Asked(questions, reader.work_object) \subseteq Asked(questions', reader'.work_object)
             /\ Cached(packages, reader.work_object) \subseteq Cached(packages', reader'.work_object)
  BY <1>2 DEF ReaderInv
<1>3. reader'.op = "query" => /\ reader'.found \subseteq Asked(questions', reader'.work_object)
                              /\ reader'.start \subseteq reader'.found \cup Cached(packages', reader'.work_object)
  BY <1>2 DEF ReaderInv
<1>4. reader'.op = "queried" => /\ reader'.found \subseteq Asked(questions', reader'.work_object) \cup Cached(packages', reader'.work_object)
                                /\ reader'.start \subseteq reader'.found
  BY <1>2 DEF ReaderInv
<1>5. reader'.op = "traced" =>
        \A i \in reader'.ids :
          i \in 1 .. Len(evidence') /\ (i \notin reader'.kept => evidence'[i] = "Artifact" /\ i \in reader'.denied)
  BY <1>1 DEF ReaderInv, EvidenceStays
<1>6. /\ reader'.op = "cite" => reader'.id \in 1 .. Len(evidence')
      /\ reader'.op = "trace" => reader'.ids \subseteq 1 .. Len(evidence')
  BY <1>1 DEF ReaderInv
<1>7. reader'.op \in {"query", "queried"} =>
        reader' \in [op : {"query", "queried"}, work_object : WorkObjects, start : SUBSET Entries, found : SUBSET Entries]
  BY DEF ReaderInv
<1> QED BY <1>3, <1>4, <1>5, <1>6, <1>7 DEF ReaderInv

\* What is linked to a work object are entries.
LEMMA LinkedEntries ==
  ASSUME questions \in Seq(Stores!QuestionLedgerEntry), PackagesInv, NEW w
  PROVE  /\ Asked(questions, w) \in SUBSET Entries
         /\ Cached(packages, w) \in SUBSET Entries
         /\ Stores!entries_of(w) = Asked(questions, w) \cup Cached(packages, w)
<1>1. \A q \in 1 .. Len(questions) : questions[q].related \in SUBSET Entries
  <2>1. \A q \in 1 .. Len(questions) : questions[q] \in Stores!QuestionLedgerEntry
    OBVIOUS
  <2> QED BY <2>1 DEF Stores!QuestionLedgerEntry
<1>2. \A p \in 1 .. Len(packages) : packages[p].related \in SUBSET Entries
  <2>1. \A p \in 1 .. Len(packages) : packages[p] \in Stores!AnswerCachePackage
    BY DEF PackagesInv
  <2> QED BY <2>1 DEF Stores!AnswerCachePackage
<1>3. Asked(questions, w) \in SUBSET Entries
  BY <1>1 DEF Asked
<1>4. Cached(packages, w) \in SUBSET Entries
  BY <1>2 DEF Cached
<1>5. Stores!entries_of(w) = Asked(questions, w) \cup Cached(packages, w)
  <2>1. /\ Asked(questions, w) = UNION {questions[q].related : q \in Stores!questions_by_work_object(w)}
        /\ Cached(packages, w) = UNION {packages[p].related : p \in Stores!packages_by_work_object(w)}
    BY LinksOf
  <2> QED BY <2>1 DEF Stores!entries_of
<1> QED BY <1>3, <1>4, <1>5

\* The operations with two locks, and their return, when the stores stay as they are.
LEMMA ReaderStep ==
  ASSUME StoresInv, UNCHANGED <<questions, packages, evidence>>,
         \/ \E w \in WorkObjects : Stores!query_questions(w)
         \/ Stores!query_answers
         \/ \E a \in AnswerIds, i \in 1 .. MaxSize : Stores!cite_answer_check(a, i)
         \/ Stores!cite_answer
         \/ \E a \in AnswerIds : Stores!trace_answer_ids(a)
         \/ \E denied \in SUBSET (1 .. MaxSize) : Stores!trace_answer(denied)
         \/ Stores!returned
  PROVE  ReaderInv'
<1>0. /\ questions \in Seq(Stores!QuestionLedgerEntry) /\ PackagesInv /\ EvidenceInv /\ ReaderInv
      /\ \A w : Asked(questions', w) = Asked(questions, w) /\ Cached(packages', w) = Cached(packages, w)
  BY DEF StoresInv
<1>1. ASSUME NEW w \in WorkObjects, Stores!query_questions(w) PROVE ReaderInv'
  <2>1. reader' = [op |-> "query", work_object |-> w, start |-> Stores!entries_of(w), found |-> Asked(questions, w)]
    BY <1>1, LinksOf DEF Stores!query_questions
  <2>2. reader'.op = "query" /\ reader'.work_object = w /\ reader'.start = Stores!entries_of(w) /\ reader'.found = Asked(questions, w)
    BY <2>1
  <2>3. reader' \in [op : {"query", "queried"}, work_object : WorkObjects, start : SUBSET Entries, found : SUBSET Entries]
    BY <1>0, <2>1, LinkedEntries
  <2>4. Stores!entries_of(w) = Asked(questions, w) \cup Cached(packages, w)
    BY <1>0, LinkedEntries
  <2>5. reader'.found \subseteq Asked(questions', w) /\ reader'.start \subseteq reader'.found \cup Cached(packages', w)
    BY <1>0, <2>2, <2>4
  <2> QED BY <2>2, <2>3, <2>5 DEF ReaderInv
<1>2. CASE Stores!query_answers
  <2> DEFINE w == reader.work_object
             r1 == [reader EXCEPT !.op = "queried"]
             r2 == [r1 EXCEPT !.found = @ \cup Cached(packages, w)]
  <2>1. reader.op = "query" /\ reader' = r2
    BY <1>2, LinksOf DEF Stores!query_answers
  <2>2. /\ reader \in [op : {"query", "queried"}, work_object : WorkObjects, start : SUBSET Entries, found : SUBSET Entries]
        /\ reader.found \subseteq Asked(questions, w) /\ reader.start \subseteq reader.found \cup Cached(packages, w)
    BY <1>0, <2>1 DEF ReaderInv
  <2>3. /\ r1 \in [op : {"query", "queried"}, work_object : WorkObjects, start : SUBSET Entries, found : SUBSET Entries]
        /\ r1.op = "queried" /\ r1.work_object = w /\ r1.start = reader.start /\ r1.found = reader.found
    BY <2>2
  <2> HIDE DEF r1
  <2>4. Cached(packages, w) \in SUBSET Entries
    BY <1>0, LinkedEntries
  <2>5. /\ r2 \in [op : {"query", "queried"}, work_object : WorkObjects, start : SUBSET Entries, found : SUBSET Entries]
        /\ r2.op = "queried" /\ r2.work_object = w /\ r2.start = r1.start /\ r2.found = r1.found \cup Cached(packages, w)
    BY <2>3, <2>4
  <2> HIDE DEF r2
  <2>6. /\ reader'.op = "queried" /\ reader'.found \subseteq Asked(questions', reader'.work_object) \cup Cached(packages', reader'.work_object)
        /\ reader'.start \subseteq reader'.found
    BY <2>1, <2>2, <2>3, <2>5
  <2>7. reader'.found \subseteq Asked(questions', reader'.work_object) \cup Cached(packages', reader'.work_object)
    BY <1>0, <2>6 DEF Asked, Cached
  <2> QED BY <2>1, <2>5, <2>6, <2>7 DEF ReaderInv
<1>3. ASSUME NEW a \in AnswerIds, NEW i \in 1 .. MaxSize, Stores!cite_answer_check(a, i) PROVE ReaderInv'
  <2>1. reader'.op = "cite" /\ reader'.id = i /\ i \in 1 .. Len(evidence')
    BY <1>3 DEF Stores!cite_answer_check
  <2> QED BY <2>1 DEF ReaderInv
<1>4. CASE Stores!cite_answer \/ Stores!returned
  BY <1>4 DEF Stores!cite_answer, Stores!returned, Stores!Idle, ReaderInv
<1>5. ASSUME NEW a \in AnswerIds, Stores!trace_answer_ids(a) PROVE ReaderInv'
  <2>1. reader'.op = "trace" /\ reader'.ids = citations[a]
    BY <1>5 DEF Stores!trace_answer_ids
  <2>2. citations[a] \subseteq 1 .. Len(evidence')
    BY <1>0 DEF EvidenceInv
  <2> QED BY <2>1, <2>2 DEF ReaderInv
<1>6. ASSUME NEW denied \in SUBSET (1 .. MaxSize), Stores!trace_answer(denied) PROVE ReaderInv'
  <2> DEFINE found == {i \in reader.ids : i \in 1 .. Len(evidence)}
             kept == {i \in found : evidence[i] = "Artifact" => i \notin denied}
  <2>1. /\ reader.op = "trace" /\ reader'.op = "traced" /\ reader'.ids = reader.ids /\ reader'.denied = denied
        /\ reader'.kept = kept
    BY <1>6 DEF Stores!trace_answer
  <2>2. reader.ids \subseteq 1 .. Len(evidence)
    BY <1>0, <2>1 DEF ReaderInv
  <2>3. \A i \in reader.ids : i \in found /\ (i \notin kept => evidence[i] = "Artifact" /\ i \in denied)
    BY <2>2
  <2> HIDE DEF found, kept
  <2> QED BY <2>1, <2>2, <2>3 DEF ReaderInv
<1> QED BY <1>1, <1>2, <1>3, <1>4, <1>5, <1>6

\* Two packages of an answer: the later has the higher version.
LEMMA LatestIsLast ==
  ASSUME PackagesInv, NEW q,
         Stores!Cardinality({packages[p].answer : p \in {p \in 1 .. Len(packages) : packages[p].question = q}}) = 1
  PROVE  Stores!latest_for_question(q) = Stores!Max({p \in 1 .. Len(packages) : packages[p].question = q})
<1> DEFINE n == Len(packages)
           mine == {p \in 1 .. n : packages[p].question = q}
           answers == {packages[p].answer : p \in mine}
           before(p, r) ==
             \/ packages[p].version > packages[r].version
             \/ packages[p].version = packages[r].version /\ packages[p].at > packages[r].at
             \/ packages[p].version = packages[r].version /\ packages[p].at = packages[r].at /\ p < r
<1>0. n \in Nat /\ mine \in SUBSET (1 .. n)
  BY DEF PackagesInv
<1>1. IsFiniteSet(answers)
  <2> HIDE DEF mine
  <2>1. IsFiniteSet(mine)
    <3>1. IsFiniteSet(1 .. n)
      BY <1>0, FS_Interval
    <3> QED BY <1>0, <3>1, FS_Subset
  <2>2. [p \in mine |-> packages[p].answer] \in Surjection(mine, answers)
    BY DEF Surjection
  <2> QED BY <2>1, <2>2, FS_Surjection
<1>2. Cardinality(answers) = 1
  BY SameCount
<1>3. PICK a : answers = {a}
  BY <1>1, <1>2, FS_Singleton
<1>4. mine # {} /\ \A p \in mine : packages[p].answer = a
  BY <1>3
<1>5. PICK m \in mine : \A r \in mine : r <= m
  BY <1>0, <1>4, LastPosition
<1>6. Stores!Max(mine) = m
  <2>1. mine \in SUBSET Nat
    BY <1>0
  <2> HIDE DEF mine
  <2> QED BY <1>5, <2>1, MaxIs
<1>7. \A r \in mine : packages[r].version = Cardinality(Earlier(packages, r, a)) /\ packages[r].version \in Nat
  <2> TAKE r \in mine
  <2>1. r \in 1 .. n /\ packages[r].answer = a
    BY <1>4
  <2>2. packages[r].version = Cardinality(Earlier(packages, r, a))
    BY <2>1 DEF PackagesInv
  <2> QED BY <1>0, <2>1, <2>2, EarlierCount
<1>8. \A r \in mine \ {m} : packages[r].version < packages[m].version
  <2> TAKE r \in mine \ {m}
  <2>1. r \in Nat /\ m \in Nat /\ r < m
    BY <1>0, <1>5
  <2> QED BY <1>4, <1>7, <2>1, EarlierGrows
<1>9. Stores!latest_for_question(q) = CHOOSE p \in mine : \A r \in mine \ {p} : before(p, r)
  BY <1>4 DEF Stores!latest_for_question
<1> HIDE DEF mine
<1>10. \A r \in mine \ {m} : before(m, r)
  BY <1>7, <1>8
<1>11. \A p \in mine : (\A r \in mine \ {p} : before(p, r)) => p = m
  <2> SUFFICES ASSUME NEW p \in mine, before(p, m), p # m PROVE FALSE
    OBVIOUS
  <2>1. packages[p].version < packages[m].version /\ packages[p].version \in Nat /\ packages[m].version \in Nat
    BY <1>7, <1>8
  <2> QED BY <2>1
<1> HIDE DEF before
<1>12. (CHOOSE p \in mine : \A r \in mine \ {p} : before(p, r)) = m
  BY <1>10, <1>11
<1> QED BY <1>6, <1>9, <1>12 DEF mine

\* What the invariant of the stores says of them.
LEMMA StoresFollow == ASSUME MaxSize \in Nat, StoresInv PROVE Stores!TypeOK /\ Stores!StoresSound
<1>0. EntriesInv /\ RecordsInv /\ questions \in Seq(Stores!QuestionLedgerEntry) /\ PackagesInv /\ EvidenceInv /\ ReaderInv
  BY DEF StoresInv
<1>1. Stores!TypeOK
  <2>1. citations \in [AnswerIds -> SUBSET (1 .. MaxSize)]
    <3>1. \A i \in 1 .. Len(evidence) : i \in 1 .. MaxSize
      BY <1>0 DEF EvidenceInv
    <3> QED BY <1>0, <3>1 DEF EvidenceInv
  <2> QED BY <1>0, <2>1 DEF Stores!TypeOK, EntriesInv, RecordsInv, PackagesInv, EvidenceInv
<1>2. Stores!StoresSound
  <2>1. reader.op = "queried" => /\ reader.found \subseteq Stores!entries_of(reader.work_object)
                                 /\ reader.start \subseteq reader.found
    BY <1>0, LinkedEntries DEF ReaderInv
  <2>2. reader.op = "traced" =>
          \A i \in reader.ids :
            /\ i \in 1 .. Len(evidence)
            /\ i \notin reader.kept => evidence[i] = "Artifact" /\ i \in reader.denied
    BY <1>0 DEF ReaderInv
  <2>3. \A p \in 1 .. Len(packages) :
          packages[p].version = Stores!Cardinality({r \in 1 .. p : packages[r].answer = packages[p].answer})
    BY <1>0, SameCount DEF PackagesInv, Earlier
  <2>4. \A i \in 1 .. Len(entries) : entries[i].changed \/ (entries[i].title /\ entries[i].content)
    BY <1>0 DEF EntriesInv
  <2>5. \A q \in 1 .. MaxSize :
          LET mine == {p \in 1 .. Len(packages) : packages[p].question = q}
          IN Stores!Cardinality({packages[p].answer : p \in mine}) = 1 => Stores!latest_for_question(q) = Stores!Max(mine)
    BY <1>0, LatestIsLast
  <2> QED BY <2>1, <2>2, <2>3, <2>4, <2>5 DEF Stores!StoresSound
<1> QED BY <1>1, <1>2

\* TypeOK and StoresSound (the parts "repository", "governance", "ledger" and "evidence" of
\* KnowledgeSound): a query over ledger and cache finds what was linked when it began and
\* nothing that is not linked, a trace misses no evidence it may show, versions count the
\* packages of an answer, and an entry nobody updated is not blank.
THEOREM StoresAreSound == ASSUME MaxSize \in Nat PROVE Stores!Spec => [](Stores!TypeOK /\ Stores!StoresSound)
<1>1. ASSUME StoresInv, [Stores!Next]_(Stores!svars) PROVE StoresInv'
  <2>0. EntriesInv /\ RecordsInv /\ questions \in Seq(Stores!QuestionLedgerEntry) /\ PackagesInv /\ EvidenceInv /\ ReaderInv
    BY <1>1 DEF StoresInv
  <2>1. ASSUME UNCHANGED questions PROVE \A w \in WorkObjects : Asked(questions, w) \subseteq Asked(questions', w)
    BY <2>1
  <2>2. ASSUME UNCHANGED packages
        PROVE  PackagesInv' /\ \A w \in WorkObjects : Cached(packages, w) \subseteq Cached(packages', w)
    BY <2>0, <2>2 DEF PackagesInv
  <2>3. ASSUME UNCHANGED <<evidence, citations>> PROVE EvidenceInv' /\ EvidenceStays
    BY <2>0, <2>3, EvidenceStep
  <2>4. ASSUME UNCHANGED entries PROVE EntriesInv'
    BY <2>0, <2>4 DEF EntriesInv
  <2>5. ASSUME UNCHANGED governance PROVE RecordsInv'
    BY <2>0, <2>5 DEF RecordsInv
  <2>6. CASE Stores!RepositoryNext
    <3>1. UNCHANGED <<governance, questions, packages, evidence, citations, reader>>
      BY <2>6 DEF Stores!RepositoryNext, Stores!save_entry, Stores!update_entry
    <3>2. EntriesInv'
      BY <2>0, <2>6, RepositoryStep
    <3>3. ReaderInv'
      BY <2>0, <2>1, <2>2, <2>3, <3>1, ReaderKept
    <3> QED BY <2>0, <2>2, <2>3, <2>5, <3>1, <3>2, <3>3 DEF StoresInv
  <2>7. CASE Stores!GovernanceNext
    <3>1. UNCHANGED <<entries, questions, packages, evidence, citations, reader>>
      BY <2>7 DEF Stores!GovernanceNext, Stores!upsert_record, Stores!transition_status
    <3>2. RecordsInv'
      BY <2>0, <2>7, GovernanceStep
    <3>3. ReaderInv'
      BY <2>0, <2>1, <2>2, <2>3, <3>1, ReaderKept
    <3> QED BY <2>0, <2>2, <2>3, <2>4, <3>1, <3>2, <3>3 DEF StoresInv
  <2>8. CASE \/ \E w \in WorkObjects \cup {Stores!None}, r \in SUBSET Entries : Stores!create_question(w, r)
             \/ \E q \in 1 .. MaxSize, r \in {{}} \cup {{e} : e \in Entries} : Stores!link_answer(q, r)
    <3>1. UNCHANGED <<entries, governance, packages, evidence, citations, reader>>
      BY <2>8 DEF Stores!create_question, Stores!link_answer
    <3>2. questions' \in Seq(Stores!QuestionLedgerEntry) /\ \A w \in WorkObjects : Asked(questions, w) \subseteq Asked(questions', w)
      BY <2>0, <2>8, QuestionStep
    <3>3. ReaderInv'
      BY <2>0, <2>2, <2>3, <3>1, <3>2, ReaderKept
    <3> QED BY <2>2, <2>3, <2>4, <2>5, <3>1, <3>2, <3>3 DEF StoresInv
  <2>9. ASSUME NEW q \in 0 .. MaxSize, NEW w \in WorkObjects \cup {Stores!None}, NEW a \in AnswerIds, NEW r \in SUBSET Entries,
               NEW t \in 1 .. MaxStamp, Stores!create_package(q, w, a, r, t)
        PROVE  StoresInv'
    <3>1. UNCHANGED <<entries, governance, questions, evidence, citations, reader>>
      BY <2>9 DEF Stores!create_package
    <3>2. PackagesInv' /\ \A v \in WorkObjects : Cached(packages, v) \subseteq Cached(packages', v)
      BY <2>0, <2>9, PackageStep
    <3>3. ReaderInv'
      BY <2>0, <2>1, <2>3, <3>1, <3>2, ReaderKept
    <3> QED BY <2>0, <2>3, <2>4, <2>5, <3>1, <3>2, <3>3 DEF StoresInv
  <2>10. ASSUME NEW k \in Stores!CitationEvidenceRecord, Stores!register_evidence(k) PROVE StoresInv'
    <3>1. UNCHANGED <<entries, governance, questions, packages, citations, reader>>
      BY <2>10 DEF Stores!register_evidence
    <3>2. EvidenceInv' /\ EvidenceStays
      BY <2>0, <2>10, EvidenceStep
    <3>3. ReaderInv'
      BY <2>0, <2>1, <2>2, <3>1, <3>2, ReaderKept
    <3> QED BY <2>0, <2>2, <2>4, <2>5, <3>1, <3>2, <3>3 DEF StoresInv
  <2>11. CASE \/ \E w \in WorkObjects : Stores!query_questions(w)
              \/ Stores!query_answers
              \/ \E a \in AnswerIds, i \in 1 .. MaxSize : Stores!cite_answer_check(a, i)
              \/ Stores!cite_answer
              \/ \E a \in AnswerIds : Stores!trace_answer_ids(a)
              \/ \E denied \in SUBSET (1 .. MaxSize) : Stores!trace_answer(denied)
              \/ Stores!returned
    <3>1. UNCHANGED <<entries, governance, questions, packages, evidence>>
      BY <2>11 DEF Stores!query_questions, Stores!query_answers, Stores!cite_answer_check, Stores!cite_answer,
                   Stores!trace_answer_ids, Stores!trace_answer, Stores!returned
    <3>2. Stores!cite_answer \/ UNCHANGED <<evidence, citations>>
      BY <2>11 DEF Stores!query_questions, Stores!query_answers, Stores!cite_answer_check,
                   Stores!trace_answer_ids, Stores!trace_answer, Stores!returned
    <3>3. EvidenceInv'
      BY <2>0, <3>2, EvidenceStep
    <3>4. ReaderInv'
      BY <1>1, <2>11, <3>1, ReaderStep
    <3> QED BY <2>0, <2>2, <2>4, <2>5, <3>1, <3>3, <3>4 DEF StoresInv
  <2>12. CASE UNCHANGED Stores!svars
    <3>1. UNCHANGED <<entries, governance, questions, packages, evidence, citations, reader>>
      BY <2>12 DEF Stores!svars
    <3>2. ReaderInv'
      BY <2>0, <2>1, <2>2, <2>3, <3>1, ReaderKept
    <3> QED BY <2>0, <2>2, <2>3, <2>4, <2>5, <3>1, <3>2 DEF StoresInv
  <2>13. CASE Stores!LedgerNext
    BY <2>8, <2>9, <2>11, <2>13 DEF Stores!LedgerNext
  <2>14. CASE Stores!EvidenceNext
    BY <2>10, <2>11, <2>14 DEF Stores!EvidenceNext
  <2> QED BY <1>1, <2>6, <2>7, <2>11, <2>12, <2>13, <2>14 DEF Stores!Next
<1> QED BY <1>1, StoresStart, StoresFollow, PTL DEF Stores!Spec

-----------------------------------------------------------------------------
(* KnowledgeSearch.                                                        *)

\* Entries are finitely many numbers; similarities and limits are numbers.
SearchAssumption == IsFiniteSet(Entries) /\ Entries \subseteq Int /\ Spread \in Int /\ Limit \in Int

\* The module counts the elements of a set alike.
LEMMA SearchCount == \A S : Search!Cardinality(S) = Cardinality(S)
BY DEF Cardinality, Search!Cardinality

\* Those that come before an entry.
Ahead(scores, i) == {j \in DOMAIN scores : Search!precedes(scores, j, i)}

\* The order by score and id is total and transitive.
LEMMA PrecedesOrder ==
  ASSUME NEW S \in SUBSET Int, NEW scores \in [S -> Int], NEW a \in S, NEW b \in S, NEW c \in S
  PROVE  /\ ~Search!precedes(scores, a, a)
         /\ a # b => Search!precedes(scores, a, b) \/ Search!precedes(scores, b, a)
         /\ Search!precedes(scores, a, b) /\ Search!precedes(scores, b, c) => Search!precedes(scores, a, c)
<1>1. a \in Int /\ b \in Int /\ c \in Int /\ scores[a] \in Int /\ scores[b] \in Int /\ scores[c] \in Int
  OBVIOUS
<1> QED BY <1>1 DEF Search!precedes

\* Those before an entry are finite, and fewer than those before a later one.
LEMMA AheadCount ==
  ASSUME NEW S \in SUBSET Int, IsFiniteSet(S), NEW scores \in [S -> Int], NEW a \in S
  PROVE  /\ IsFiniteSet(Ahead(scores, a)) /\ Cardinality(Ahead(scores, a)) \in Nat
         /\ Cardinality(Ahead(scores, a)) < Cardinality(S)
         /\ \A b \in S : Search!precedes(scores, a, b) => Cardinality(Ahead(scores, a)) < Cardinality(Ahead(scores, b))
<1>1. ASSUME NEW b \in S
      PROVE  Ahead(scores, b) \in SUBSET S /\ IsFiniteSet(Ahead(scores, b)) /\ Cardinality(Ahead(scores, b)) \in Nat
  <2>1. Ahead(scores, b) \in SUBSET S
    BY DEF Ahead
  <2> QED BY <2>1, FS_Subset, FS_CardinalityType
<1>2. a \notin Ahead(scores, a)
  BY PrecedesOrder DEF Ahead
<1>3. ASSUME NEW T, IsFiniteSet(T), Ahead(scores, a) \in SUBSET T, a \in T
      PROVE  Cardinality(Ahead(scores, a)) < Cardinality(T)
  <2>1. /\ Cardinality(Ahead(scores, a)) <= Cardinality(T)
        /\ Cardinality(T) = Cardinality(Ahead(scores, a)) => T = Ahead(scores, a)
    BY <1>3, FS_Subset
  <2>2. Cardinality(T) \in Nat /\ Cardinality(Ahead(scores, a)) \in Nat
    BY <1>1, <1>3, FS_CardinalityType
  <2> QED BY <1>2, <1>3, <2>1, <2>2
<1>4. ASSUME NEW b \in S, Search!precedes(scores, a, b)
      PROVE  Cardinality(Ahead(scores, a)) < Cardinality(Ahead(scores, b))
  <2>1. a \in Ahead(scores, b)
    BY <1>4 DEF Ahead
  <2>2. Ahead(scores, a) \in SUBSET Ahead(scores, b)
    BY <1>4, PrecedesOrder DEF Ahead
  <2> QED BY <1>1, <1>3, <2>1, <2>2
<1> QED BY <1>1, <1>3, <1>4

\* A cut list holds the entries with too few others before them to be cut.
LEMMA RankedHolds ==
  ASSUME NEW S \in SUBSET Int, IsFiniteSet(S), NEW scores \in [S -> Int], NEW limit \in Nat
  PROVE  Search!ToSet(Search!ranked(scores, limit)) = {i \in S : Cardinality(Ahead(scores, i)) < limit}
<1> DEFINE n == Cardinality(S)
           m == IF limit < n THEN limit ELSE n
           list == [k \in 1 .. m |-> CHOOSE i \in S : Search!place(scores, i) = k]
           f == [i \in S |-> Search!place(scores, i)]
<1>1. DOMAIN scores = S /\ Search!Cardinality(S) = n /\ n \in Nat
  BY SearchCount, FS_CardinalityType
<1>2. Search!ranked(scores, limit) = list
  BY <1>1 DEF Search!ranked
<1>3. \A i \in S : /\ Search!place(scores, i) = 1 + Cardinality(Ahead(scores, i))
                   /\ Cardinality(Ahead(scores, i)) \in Nat /\ Cardinality(Ahead(scores, i)) < n
  BY SearchCount, AheadCount DEF Search!place, Ahead
<1>4. \A i, j \in S : Search!place(scores, i) = Search!place(scores, j) => i = j
  <2> TAKE i, j \in S
  <2>1. Search!precedes(scores, i, j) => Cardinality(Ahead(scores, i)) < Cardinality(Ahead(scores, j))
    BY AheadCount
  <2>2. Search!precedes(scores, j, i) => Cardinality(Ahead(scores, j)) < Cardinality(Ahead(scores, i))
    BY AheadCount
  <2>3. i # j => Search!precedes(scores, i, j) \/ Search!precedes(scores, j, i)
    BY PrecedesOrder
  <2> QED BY <1>3, <2>1, <2>2, <2>3
<1>5. \A k \in 1 .. n : \E i \in S : Search!place(scores, i) = k
  <2>1. f \in [S -> 1 .. n]
    BY <1>1, <1>3
  <2>2. f \in Injection(S, 1 .. n)
    BY <1>4, <2>1 DEF Injection, IsInjective
  <2>3. IsFiniteSet(1 .. n) /\ Cardinality(1 .. n) = n
    BY <1>1, FS_Interval
  <2> HIDE DEF f, n
  <2>4. f \in Surjection(S, 1 .. n)
    BY <2>2, <2>3, FS_Injection DEF n
  <2>5. \A k \in 1 .. n : \E i \in S : f[i] = k
    BY <2>4 DEF Surjection
  <2> QED BY <2>5 DEF f
<1>6. m \in Nat /\ m <= n /\ m <= limit /\ (m = limit \/ m = n)
  BY <1>1
<1> HIDE DEF n, m
<1>7. \A k \in 1 .. m : list[k] \in S /\ Search!place(scores, list[k]) = k
  <2> TAKE k \in 1 .. m
  <2>1. \E i \in S : Search!place(scores, i) = k
    BY <1>1, <1>5, <1>6
  <2> QED BY <2>1
<1>8. DOMAIN list = 1 .. m
  OBVIOUS
<1> HIDE DEF list
<1>9. Search!ToSet(list) = {list[k] : k \in 1 .. m}
  BY <1>8 DEF Search!ToSet
<1>10. \A i \in S : Cardinality(Ahead(scores, i)) < limit => \E k \in 1 .. m : list[k] = i
  <2> SUFFICES ASSUME NEW i \in S, Cardinality(Ahead(scores, i)) < limit PROVE \E k \in 1 .. m : list[k] = i
    OBVIOUS
  <2>1. Search!place(scores, i) \in 1 .. m
    BY <1>1, <1>3, <1>6
  <2> QED BY <1>4, <1>7, <2>1
<1>11. \A k \in 1 .. m : list[k] \in S /\ Cardinality(Ahead(scores, list[k])) < limit
  <2> TAKE k \in 1 .. m
  <2>1. list[k] \in S /\ k = 1 + Cardinality(Ahead(scores, list[k])) /\ Cardinality(Ahead(scores, list[k])) \in Nat
    BY <1>3, <1>7
  <2> QED BY <1>6, <2>1
<1> QED BY <1>2, <1>9, <1>10, <1>11

\* The scores of the two searches are numbers, those of the full text not negative.
LEMMA HitsTypes ==
  ASSUME SearchAssumption, Search!TypeOK, NEW term \in BOOLEAN
  PROVE  /\ DOMAIN Search!fulltext_hits(term) \in SUBSET Entries /\ DOMAIN Search!semantic_hits \in SUBSET Entries
         /\ \A i \in DOMAIN Search!fulltext_hits(term) : Search!fulltext_hits(term)[i] \in Nat
         /\ \A i \in DOMAIN Search!semantic_hits : Search!semantic_hits[i] \in Int
<1>1. PICK S \in SUBSET Entries : fulltext \in [S -> Search!KnowledgeIndexDocument]
  BY DEF Search!TypeOK, Search!Index
<1>2. PICK E \in SUBSET Entries : embedded \in [E -> Search!KnowledgeEmbeddingDocument]
  BY DEF Search!TypeOK, Search!Index
<1>3. \A doc : Search!score(doc, term) \in Nat
  <2> TAKE doc
  <2> DEFINE w(field) == IF term /\ field \in doc.fields THEN Search!FullTextTermWeights[field] ELSE 0
  <2>1. w("title") \in Nat /\ w("body") \in Nat /\ w("tags") \in Nat /\ w("metadata") \in Nat
    BY DEF Search!FullTextTermWeights
  <2>2. Search!score(doc, term) = w("title") + w("body") + w("tags") + w("metadata")
    BY DEF Search!score
  <2> HIDE DEF w
  <2> QED BY <2>1, <2>2
<1>4. \A i \in E : embedded[i].similarity \in Int
  <2>1. \A i \in E : embedded[i] \in Search!KnowledgeEmbeddingDocument
    BY <1>2
  <2>2. \A i \in E : embedded[i].similarity \in (-Spread) .. Spread
    BY <2>1 DEF Search!KnowledgeEmbeddingDocument
  <2> QED BY <2>2 DEF SearchAssumption
<1>5. DOMAIN fulltext = S /\ DOMAIN embedded = E
  BY <1>1, <1>2
<1> QED BY <1>3, <1>4, <1>5 DEF Search!fulltext_hits, Search!semantic_hits

\* Whatever has a higher score than an entry that was not cut was not cut either.
LEMMA HigherKept ==
  ASSUME NEW S \in SUBSET Int, IsFiniteSet(S), NEW scores \in [S -> Int], NEW limit \in Nat, NEW a \in S, NEW b \in S,
         scores[a] > scores[b], b \in Search!ToSet(Search!ranked(scores, limit))
  PROVE  a \in Search!ToSet(Search!ranked(scores, limit))
<1>1. Search!precedes(scores, a, b)
  BY DEF Search!precedes
<1>2. Cardinality(Ahead(scores, a)) < Cardinality(Ahead(scores, b)) /\ Cardinality(Ahead(scores, a)) \in Nat
  BY <1>1, AheadCount
<1>3. Cardinality(Ahead(scores, b)) \in Nat /\ Cardinality(Ahead(scores, b)) < limit
  BY AheadCount, RankedHolds
<1>4. Cardinality(Ahead(scores, a)) < limit
  BY <1>2, <1>3
<1> QED BY <1>4, RankedHolds

\* The hybrid search keeps an entry that both searches rank above one it keeps.
LEMMA HybridKeeps ==
  ASSUME SearchAssumption, Search!TypeOK, NEW term \in BOOLEAN, NEW limit \in Nat,
         NEW b \in Search!ToSet(Search!hybrid_query(term, limit)), NEW a \in Entries, Search!dominates(a, b, term),
         a \in DOMAIN Search!semantic_hits => Search!semantic_hits[a] >= 0
  PROVE  a \in Search!ToSet(Search!hybrid_query(term, limit))
<1> DEFINE ft == Search!fulltext_hits(term)
           sem == Search!semantic_hits
           F == Search!ToSet(Search!query(term, limit))
           M == Search!ToSet(Search!semantic_query(limit))
           value(i) == (IF i \in F THEN ft[i] ELSE 0) + (IF i \in M THEN sem[i] ELSE 0)
           all == [i \in F \cup M |-> value(i)]
<1>1. /\ DOMAIN ft \in SUBSET Entries /\ DOMAIN sem \in SUBSET Entries
      /\ \A i \in DOMAIN ft : ft[i] \in Nat
      /\ \A i \in DOMAIN sem : sem[i] \in Int
  BY HitsTypes
<1>2. ft \in [DOMAIN ft -> Int] /\ sem \in [DOMAIN sem -> Int]
  BY <1>1 DEF Search!fulltext_hits, Search!semantic_hits
<1>3. /\ DOMAIN ft \in SUBSET Int /\ IsFiniteSet(DOMAIN ft)
      /\ DOMAIN sem \in SUBSET Int /\ IsFiniteSet(DOMAIN sem)
  BY <1>1, FS_Subset DEF SearchAssumption
<1>4. /\ (b \in DOMAIN ft => a \in DOMAIN ft /\ ft[a] > ft[b])
      /\ (b \in DOMAIN sem => a \in DOMAIN sem /\ sem[a] > sem[b])
      /\ (a \in DOMAIN sem => sem[a] >= 0)
  BY DEF Search!dominates
<1>5. Search!query(term, limit) = Search!ranked(ft, limit) /\ Search!semantic_query(limit) = Search!ranked(sem, limit)
  BY DEF Search!query, Search!semantic_query
<1>6. Search!hybrid_query(term, limit) = Search!ranked(all, limit)
  BY DEF Search!hybrid_query, Search!fused
<1> HIDE DEF ft, sem
<1>7. F \in SUBSET DOMAIN ft /\ M \in SUBSET DOMAIN sem
  BY <1>2, <1>3, <1>5, RankedHolds
<1>8. b \in F => a \in F
  BY <1>2, <1>3, <1>4, <1>5, <1>7, HigherKept
<1>9. b \in M => a \in M
  BY <1>2, <1>3, <1>4, <1>5, <1>7, HigherKept
<1> HIDE DEF F, M
<1>10. \A i \in F \cup M : value(i) \in Int
  BY <1>1, <1>7
<1>11. F \cup M \in SUBSET Int /\ IsFiniteSet(F \cup M)
  <2>1. F \cup M \in SUBSET Entries
    BY <1>1, <1>7
  <2> QED BY <2>1, FS_Subset DEF SearchAssumption
<1>12. all \in [F \cup M -> Int] /\ DOMAIN all = F \cup M
  BY <1>10
<1>13. b \in F \cup M
  <2> HIDE DEF all
  <2> QED BY <1>6, <1>11, <1>12, RankedHolds
<1>14. a \in F \cup M /\ value(a) > value(b)
  <2>1. a \in F => ft[a] \in Nat
    BY <1>1, <1>7
  <2>2. b \in F => a \in F /\ ft[a] \in Nat /\ ft[b] \in Nat /\ ft[a] > ft[b]
    BY <1>1, <1>4, <1>7, <1>8
  <2>3. a \in M => sem[a] \in Int /\ sem[a] >= 0
    BY <1>1, <1>4, <1>7
  <2>4. b \in M => a \in M /\ sem[b] \in Int /\ sem[a] > sem[b]
    BY <1>1, <1>4, <1>7, <1>9
  <2> QED BY <1>13, <2>1, <2>2, <2>3, <2>4
<1>15. all[a] > all[b]
  BY <1>13, <1>14
<1> HIDE DEF all
<1> QED BY <1>6, <1>11, <1>12, <1>13, <1>14, <1>15, HigherKept

\* A user misses an entry they may read only behind enough others.
LEMMA ReadableKept ==
  ASSUME SearchAssumption, Search!TypeOK, NEW term \in BOOLEAN, NEW limit \in Nat, NEW readable \in SUBSET Entries,
         NEW i \in readable, i \in DOMAIN Search!fulltext_hits(term),
         i \notin Search!query_with_permissions(term, limit, TRUE, readable)
  PROVE  LET hits == Search!fulltext_hits(term)
         IN Search!Cardinality({j \in DOMAIN hits : hits[j] >= hits[i] /\ j # i}) >= limit
<1> DEFINE ft == Search!fulltext_hits(term)
           others == {j \in DOMAIN ft : ft[j] >= ft[i] /\ j # i}
<1>1. DOMAIN ft \in SUBSET Entries /\ \A j \in DOMAIN ft : ft[j] \in Nat
  BY HitsTypes
<1>2. ft \in [DOMAIN ft -> Int]
  BY <1>1 DEF Search!fulltext_hits
<1>3. DOMAIN ft \in SUBSET Int /\ IsFiniteSet(DOMAIN ft)
  BY <1>1, FS_Subset DEF SearchAssumption
<1>4. i \notin Search!ToSet(Search!ranked(ft, limit)) /\ i \in DOMAIN ft
  BY DEF Search!query_with_permissions, Search!query
<1> HIDE DEF ft
<1>5. Cardinality(Ahead(ft, i)) >= limit /\ Cardinality(Ahead(ft, i)) \in Nat
  BY <1>2, <1>3, <1>4, RankedHolds, AheadCount
<1>6. Ahead(ft, i) \in SUBSET others
  <2>1. \A j \in DOMAIN ft : j \in Int /\ ft[j] \in Int
    BY <1>1, <1>3
  <2> QED BY <1>4, <2>1 DEF Ahead, Search!precedes
<1>7. IsFiniteSet(others) /\ Cardinality(others) \in Nat
  <2>1. others \in SUBSET (DOMAIN ft)
    OBVIOUS
  <2> QED BY <1>3, <2>1, FS_Subset, FS_CardinalityType
<1>8. Cardinality(Ahead(ft, i)) <= Cardinality(others)
  BY <1>6, <1>7, FS_Subset
<1>9. Cardinality(others) >= limit
  BY <1>5, <1>7, <1>8
<1>10. Search!Cardinality(others) = Cardinality(others)
  BY SearchCount
<1> QED BY <1>9, <1>10 DEF ft

\* The vectors of the embedding index have one length.
OneLength == \A i, j \in DOMAIN embedded : embedded[i].dimensions = embedded[j].dimensions

\* What the invariant of the indexes says of them.
LEMMA SearchFollows == ASSUME SearchAssumption, Search!TypeOK, OneLength PROVE Search!SearchSound
<1>1. \A limit \in 1 .. Limit : limit \in Nat
  BY DEF SearchAssumption
<1>2. \A term \in BOOLEAN, limit \in 1 .. Limit :
        LET found == Search!hybrid_query(term, limit)
        IN \A b \in Search!ToSet(found), a \in Entries :
             /\ Search!dominates(a, b, term)
             /\ a \in DOMAIN Search!semantic_hits => Search!semantic_hits[a] >= 0
             => a \in Search!ToSet(found)
  BY <1>1, HybridKeeps
<1>3. DOMAIN embedded # {} => \E dims \in Dimensions : ~Search!mismatched(dims)
  <2> SUFFICES ASSUME NEW i \in DOMAIN embedded PROVE \E dims \in Dimensions : ~Search!mismatched(dims)
    OBVIOUS
  <2>1. PICK E \in SUBSET Entries : embedded \in [E -> Search!KnowledgeEmbeddingDocument]
    BY DEF Search!TypeOK, Search!Index
  <2>2. embedded[i] \in Search!KnowledgeEmbeddingDocument
    BY <2>1
  <2>3. embedded[i].dimensions \in Dimensions
    BY <2>2 DEF Search!KnowledgeEmbeddingDocument
  <2>4. ~Search!mismatched(embedded[i].dimensions)
    BY DEF Search!mismatched, OneLength
  <2> QED BY <2>3, <2>4
<1>4. \A term \in BOOLEAN, limit \in 1 .. Limit, readable \in SUBSET Entries :
        LET seen == Search!query_with_permissions(term, limit, TRUE, readable)
            hits == Search!fulltext_hits(term)
        IN \A i \in readable \cap DOMAIN hits :
             i \notin seen => Search!Cardinality({j \in DOMAIN hits : hits[j] >= hits[i] /\ j # i}) >= limit
  BY <1>1, ReadableKept
<1> QED BY <1>2, <1>3, <1>4 DEF Search!SearchSound

\* An index stays a map of documents.
LEMMA IndexKept ==
  ASSUME NEW D, NEW index \in Search!Index(D), NEW id \in Entries
  PROVE  /\ \A doc \in D : Search!insert(index, id, doc) \in Search!Index(D)
         /\ Search!remove(index, id) \in Search!Index(D)
<1>1. PICK S \in SUBSET Entries : index \in [S -> D]
  BY DEF Search!Index
<1>2. ASSUME NEW doc \in D PROVE Search!insert(index, id, doc) \in Search!Index(D)
  <2>1. Search!insert(index, id, doc) \in [S \cup {id} -> D] /\ S \cup {id} \in SUBSET Entries
    BY <1>1 DEF Search!insert
  <2> QED BY <2>1 DEF Search!Index
<1>3. Search!remove(index, id) \in [S \ {id} -> D] /\ S \ {id} \in SUBSET Entries
  BY <1>1 DEF Search!remove
<1> QED BY <1>2, <1>3 DEF Search!Index

\* Vectors of another length are not taken.
LEMMA LengthKept == ASSUME OneLength, [Search!Next]_(Search!kvars) PROVE OneLength'
<1>1. ASSUME UNCHANGED embedded PROVE OneLength'
  BY <1>1 DEF OneLength
<1>2. ASSUME NEW id \in Entries, NEW d \in Search!KnowledgeEmbeddingDocument, Search!upsert_embedding(id, d)
      PROVE  OneLength'
  <2>1. /\ embedded' = [i \in DOMAIN embedded \cup {id} |-> IF i = id THEN d ELSE embedded[i]]
        /\ DOMAIN embedded = {} \/ \E met \in DOMAIN embedded : embedded[met].dimensions = d.dimensions
    BY <1>2 DEF Search!upsert_embedding, Search!insert
  <2>2. \A i \in DOMAIN embedded : embedded[i].dimensions = d.dimensions
    BY <2>1 DEF OneLength
  <2>3. \A i \in DOMAIN embedded' : embedded'[i].dimensions = d.dimensions
    BY <2>1, <2>2
  <2> QED BY <2>3 DEF OneLength
<1>3. ASSUME NEW id \in Entries, Search!delete_embedding(id) PROVE OneLength'
  <2>1. embedded' = [i \in DOMAIN embedded \ {id} |-> embedded[i]]
    BY <1>3 DEF Search!delete_embedding, Search!remove
  <2> QED BY <2>1 DEF OneLength
<1>4. ASSUME NEW index \in Search!Index(Search!KnowledgeEmbeddingDocument), Search!rebuild_embeddings(index)
      PROVE  OneLength'
  <2>1. embedded' = index /\ Search!same_dimensions({index[i] : i \in DOMAIN index})
    BY <1>4 DEF Search!rebuild_embeddings
  <2>2. \A i, j \in DOMAIN index : index[i].dimensions = index[j].dimensions
    BY <2>1 DEF Search!same_dimensions
  <2> QED BY <2>1, <2>2 DEF OneLength
<1>5. CASE UNCHANGED Search!kvars
  BY <1>1, <1>5 DEF Search!kvars
<1>6. CASE \/ \E id \in Entries, d \in Search!KnowledgeIndexDocument : Search!upsert(id, d)
           \/ \E id \in Entries : Search!delete(id)
           \/ \E index \in Search!Index(Search!KnowledgeIndexDocument) : Search!rebuild(index)
  BY <1>1, <1>6 DEF Search!upsert, Search!delete, Search!rebuild
<1> QED BY <1>2, <1>3, <1>4, <1>5, <1>6 DEF Search!Next

\* The indexes stay of their types.
LEMMA IndexesTyped == ASSUME Search!TypeOK, [Search!Next]_(Search!kvars) PROVE Search!TypeOK'
<1>0. fulltext \in Search!Index(Search!KnowledgeIndexDocument) /\ embedded \in Search!Index(Search!KnowledgeEmbeddingDocument)
  BY DEF Search!TypeOK
<1>1. fulltext' \in Search!Index(Search!KnowledgeIndexDocument)
  BY <1>0, IndexKept DEF Search!Next, Search!kvars, Search!upsert, Search!delete, Search!rebuild,
     Search!upsert_embedding, Search!delete_embedding, Search!rebuild_embeddings
<1>2. embedded' \in Search!Index(Search!KnowledgeEmbeddingDocument)
  BY <1>0, IndexKept DEF Search!Next, Search!kvars, Search!upsert, Search!delete, Search!rebuild,
     Search!upsert_embedding, Search!delete_embedding, Search!rebuild_embeddings
<1> QED BY <1>1, <1>2 DEF Search!TypeOK, Search!Index, Search!KnowledgeIndexDocument, Search!KnowledgeEmbeddingDocument

\* TypeOK and SearchSound (the part "search" of KnowledgeSound): whatever was indexed, replaced
\* and deleted, the hybrid search never cuts an entry in favour of one that both searches rank
\* below it, the vectors accepted have one length, and a user misses an entry they may read only
\* behind enough others that score as high.
THEOREM SearchesSound == ASSUME SearchAssumption PROVE Search!Spec => [](Search!TypeOK /\ Search!SearchSound)
<1>1. Search!Init => Search!TypeOK /\ OneLength
  <2> SUFFICES ASSUME Search!Init PROVE Search!TypeOK /\ OneLength
    OBVIOUS
  <2>1. fulltext = <<>> /\ embedded = <<>>
    BY DEF Search!Init
  <2>2. \A D : <<>> \in [{} -> D]
    OBVIOUS
  <2>3. DOMAIN embedded = {}
    BY <2>1
  <2> QED BY <2>1, <2>2, <2>3 DEF Search!TypeOK, Search!Index, OneLength
<1> QED BY <1>1, IndexesTyped, LengthKept, SearchFollows, PTL DEF Search!Spec
=============================================================================
