------------------------------ MODULE ModelCalls ------------------------------
(***************************************************************************)
(* model-adapter: calls to a model provider through the adapter's layers,  *)
(* the parsing of a provider's event stream, and the token budget.         *)
(*                                                                         *)
(* A call goes through RetryingModelAdapter around                         *)
(* CircuitBreakingModelAdapter around ObservedModelAdapter around a        *)
(* provider adapter; the layers are separate types and this is the nesting *)
(* in which they act on each other.  Several callers share the breaker.    *)
(* A provider adapter turns an HTTP answer into an error whose class is    *)
(* read from its message, and the message quotes what the provider wrote:  *)
(* the class is one of a set.                                              *)
(***************************************************************************)
EXTENDS Naturals, Sequences, FiniteSets, SequencesExt, FiniteSetsExt

CONSTANTS Callers,
          Provider,          \* "openai" or "anthropic"
          FailureThreshold, Cooldown,           \* ModelCircuitBreakerConfig
          MaxAttempts, InitialDelay, MaxDelay,  \* ModelRetryConfig, multiplier 2
          MaxFailures,                          \* bound of consecutive_failures, at least the threshold
          Frames, MaxFrames,                    \* frame kinds of a stream and how many
          Sizes, MaxMessages, HistoryBudget     \* token counts of messages and their budget

VARIABLES breaker,   \* state, consecutive_failures and the time since it opened
          calls,     \* of every caller: where its call is, the attempt, the error class, the sleep left
          stream,    \* a stream body and the events parsed from it
          history,   \* messages (their token counts) and what compaction and deduplication leave
          exchange   \* a request as the caller makes it, as it is sent, and its checked structured output

mvars == <<breaker, calls, stream, history, exchange>>

Closed == [state |-> "Closed", failures |-> 0, age |-> 0]

Classes == {"RateLimited", "Timeout", "TransientNetwork", "ServerError", "Auth", "Validation",
            "PermissionDenied", "EmptyRequest", "EmptyResponse", "Unknown"}

is_retryable(class) == class \in {"RateLimited", "Timeout", "TransientNetwork", "ServerError"}
trips_on(class) == class \in {"RateLimited", "Timeout", "TransientNetwork", "ServerError"}

\* classify_model_error_message looks for its words in this order, in a text that holds the provider's own words.
Ordered == <<"RateLimited", "Timeout", "PermissionDenied", "Validation", "ServerError", "TransientNetwork", "Unknown">>
quoting(class) == {Ordered[i] : i \in 1 .. CHOOSE i \in DOMAIN Ordered : Ordered[i] = class}

Answers == {"ok", "empty", "bad_tool_call", "400", "401", "429", "500", "proxy_502", "network", "timeout"}

\* send_and_parse of the OpenAI adapter: every HTTP error is ExecutorFailed("API returned <status>: <message>").
\* An answer without text is text "".
openai_classes(answer) ==
    CASE answer \in {"ok", "empty"} -> {}
      [] answer = "bad_tool_call" -> {"Validation"}
      [] answer = "400" -> quoting("Validation")
      [] answer = "401" -> quoting("PermissionDenied")
      [] answer = "429" -> {"RateLimited"}
      [] answer = "500" -> quoting("ServerError")
      [] answer = "proxy_502" -> quoting("TransientNetwork")
      [] OTHER -> quoting(IF answer = "timeout" THEN "Timeout" ELSE "Unknown")

\* send_request of the Anthropic adapter: 401 and 429 have errors of their own, and an error body that is not
\* the API's JSON loses the status.
anthropic_classes(answer) ==
    CASE answer = "ok" -> {}
      [] answer = "empty" -> {"EmptyResponse"}
      [] answer = "bad_tool_call" -> {"Validation"}
      [] answer = "400" -> quoting("Validation")
      [] answer = "401" -> {"Auth"}
      [] answer = "429" -> {"RateLimited"}
      [] answer = "500" -> quoting("ServerError")
      [] answer = "proxy_502" -> {"Unknown"}
      [] OTHER -> quoting(IF answer = "timeout" THEN "Timeout" ELSE "Unknown")

classes_of(answer) == IF Provider = "openai" THEN openai_classes(answer) ELSE anthropic_classes(answer)

(* ---- retry policy ---- *)

\* DefaultModelRetryPolicy::backoff_delay after the given attempt; none when the attempts are used up.
factor[exponent \in 0 .. MaxAttempts] == IF exponent = 0 THEN 1 ELSE 2 * factor[exponent - 1]
backoff_delay(attempt) == Min({InitialDelay * factor[attempt - 1], MaxDelay})

\* Faulty variant: the attempts are not counted.
decide_forever(class, attempt) == IF is_retryable(class) THEN "Retry" ELSE "DoNotRetry"

decide(class, attempt) ==
    CASE ~ is_retryable(class) -> "DoNotRetry" [] attempt = 0 \/ attempt >= MaxAttempts -> "Exhausted" [] OTHER -> "Retry"

(* ---- calls ---- *)

\* Time is kept as what is left of a sleep and as the age of an open breaker, capped at the cooldown.
Idle == [pc |-> "idle", attempt |-> 0, class |-> "none", left |-> 0, sent |-> 0, traced |-> 0]
to(p, pc) == [calls EXCEPT ![p].pc = pc]

complete(p) ==
    /\ calls[p].pc = "idle"
    /\ calls' = [calls EXCEPT ![p] = [Idle EXCEPT !.pc = "gate", !.attempt = 1]]
    /\ UNCHANGED breaker

\* before_call: an open breaker whose cooldown is over becomes half open and lets the call through;
\* half open lets every call through.
before_call(p) ==
    /\ calls[p].pc = "gate"
    /\ \/ /\ breaker.state = "Open" /\ breaker.age < Cooldown
          /\ calls' = [calls EXCEPT ![p].pc = "decide", ![p].class = "Unknown"]
          /\ UNCHANGED breaker
       \/ /\ breaker.state = "Open" => breaker.age = Cooldown
          /\ calls' = [calls EXCEPT ![p].pc = "provider", ![p].sent = @ + 1]
          /\ breaker' = [breaker EXCEPT !.state = IF @ = "Open" THEN "HalfOpen" ELSE @]

\* The provider answers; ObservedModelAdapter records a trace of it.
provider_answers(p) ==
    /\ calls[p].pc = "provider"
    /\ \E answer \in Answers :
         \/ /\ classes_of(answer) = {}
            /\ calls' = [calls EXCEPT ![p].pc = "succeeded", ![p].traced = @ + 1]
         \/ \E class \in classes_of(answer) :
              calls' = [calls EXCEPT ![p].pc = "failed", ![p].class = class, ![p].traced = @ + 1]
    /\ UNCHANGED breaker

record_success(p) ==
    /\ calls[p].pc = "succeeded"
    /\ breaker' = Closed
    /\ calls' = [calls EXCEPT ![p].pc = "idle", ![p].class = "Ok"]

record_error(p) ==
    /\ calls[p].pc = "failed"
    /\ breaker' = IF ~ trips_on(calls[p].class) THEN breaker
                  ELSE LET failures == Min({breaker.failures + 1, MaxFailures}) IN
                       IF failures >= FailureThreshold THEN [state |-> "Open", failures |-> failures, age |-> 0]
                       ELSE [breaker EXCEPT !.failures = failures]
    /\ calls' = to(p, "decide")

\* The error goes to the caller, or the call sleeps and is made again.
retry(p) ==
    /\ calls[p].pc = "decide"
    /\ calls' = IF decide(calls[p].class, calls[p].attempt) = "Retry"
                THEN [calls EXCEPT ![p].pc = "asleep", ![p].left = backoff_delay(calls[p].attempt)]
                ELSE to(p, "idle")
    /\ UNCHANGED breaker

wake(p) ==
    /\ calls[p].pc = "asleep" /\ calls[p].left = 0
    /\ calls' = [calls EXCEPT ![p].pc = "gate", ![p].attempt = @ + 1]
    /\ UNCHANGED breaker

tick ==
    /\ breaker' = [breaker EXCEPT !.age = IF breaker.state = "Open" THEN Min({@ + 1, Cooldown}) ELSE @]
    /\ calls' = [p \in Callers |-> [calls[p] EXCEPT !.left = IF @ > 0 THEN @ - 1 ELSE 0]]

\* The steps that need nobody outside.
goes_on(p) == before_call(p) \/ record_success(p) \/ record_error(p) \/ retry(p) \/ wake(p)
step(p) == goes_on(p) \/ provider_answers(p)

\* The OpenAI adapter's client gives a request up after its timeout; the Anthropic adapter's client has none.
HasTimeout == Provider = "openai"

\* Where a call may stay: with its caller, or waiting for a provider that need not answer.
rests(p) == calls[p].pc = "idle" \/ (~ HasTimeout /\ calls[p].pc = "provider")

CallNext ==
    /\ (\E p \in Callers : complete(p) \/ step(p)) \/ tick
    /\ UNCHANGED <<stream, history, exchange>>

(* ---- parse_openai_sse_events, parse_anthropic_sse_events ---- *)

\* The kinds of frames of a body: "start" names the model, "text" and "tool" are deltas, "usage", "finish" the
\* reason, "stop" is [DONE] or message_stop, "error" an error event, "cut" a frame the connection broke in.
Malformed == <<"malformed">>

\* OpenAI reads no frame after [DONE]; any other frame that is not a chunk fails the whole stream.
openai_frames(body) ==
    LET ends == {i \in DOMAIN body : body[i] = "stop"} IN
    IF ends = {} THEN body ELSE SubSeq(body, 1, Min(ends) - 1)

deltas(frames) == SelectSeq(frames, LAMBDA f : f \in {"text", "tool", "usage", "finish"})

parse_openai_sse_events(body) ==
    LET frames == openai_frames(body) IN
    IF "cut" \in ToSet(frames) THEN Malformed ELSE <<"started">> \o deltas(frames)

\* Anthropic: message_stop adds a finish when there was none, an unknown event is skipped.
parse_anthropic_sse_events(body) ==
    LET finished(i) == \E j \in 1 .. i - 1 : body[j] = "finish" \/ body[j] = "stop"
        event(i) == IF body[i] = "stop" /\ ~ finished(i) THEN "finish" ELSE body[i]
    IN IF "cut" \in ToSet(body) THEN Malformed ELSE <<"started">> \o deltas([i \in DOMAIN body |-> event(i)])

parse(body) == IF Provider = "openai" THEN parse_openai_sse_events(body) ELSE parse_anthropic_sse_events(body)

\* ModelStreamAccumulator keeps the text, and whether the stream was finished.
accumulate(events) == [text |-> Len(SelectSeq(events, LAMBDA e : e = "text")), finished |-> "finish" \in ToSet(events)]

\* A body as the provider sends it and the connection leaves it: `start` first, `cut` last.
StreamNext ==
    /\ stream.events = <<>>
    /\ \E n \in 0 .. MaxFrames : \E body \in [1 .. n -> Frames] :
         /\ \A i \in 1 .. n : (body[i] = "start" => i = 1) /\ (body[i] = "cut" => i = n)
         /\ stream' = [body |-> body, events |-> parse(body)]
    /\ UNCHANGED <<breaker, calls, history, exchange>>

(* ---- token_budget.rs ---- *)

total(messages) == FoldSeq(LAMBDA n, sum : n + sum, 0, messages)
suffix(messages, removed) == SubSeq(messages, removed + 1, Len(messages))

\* HistoryCompaction::compact removes the oldest messages until the rest fits.
compact(messages) ==
    suffix(messages, Min({k \in 0 .. Len(messages) : total(suffix(messages, k)) <= HistoryBudget}))

\* ContextDedupe drops a message equal to the last one kept.
deduplicate(messages) ==
    FoldLeft(LAMBDA kept, n : IF kept # <<>> /\ Last(kept) = n THEN kept ELSE Append(kept, n), <<>>, messages)

\* ToolSchemaSelector::select takes each tool that still fits.
select(tools) ==
    FoldLeft(LAMBDA taken, n : IF total(taken) + n <= HistoryBudget THEN Append(taken, n) ELSE taken, <<>>, tools)

BudgetNext ==
    /\ history.kept = <<>>
    /\ \E n \in 1 .. MaxMessages : \E messages \in [1 .. n -> Sizes] :
         history' = [messages |-> messages, kept |-> compact(deduplicate(messages)), tools |-> select(messages)]
    /\ UNCHANGED <<breaker, calls, stream, exchange>>

(* ---- requests, their wire form and structured output ---- *)

Roles == {"System", "User", "Assistant", "Tool"}

\* A request: the roles of its messages, whether tools come with it, the caller's own output limit or none (0),
\* and whether the model is registered and supports tools.
Requests == [roles : UNION {[1 .. n -> Roles] : n \in 0 .. MaxMessages}, tools : BOOLEAN, forced : BOOLEAN,
             limit : 0 .. 1, supported : BOOLEAN]

\* CapabilityGatedToolAdapter: a request with tools, or with a forced choice, needs a model that has them.
gated(request) == (request.tools \/ request.forced) /\ ~ request.supported

\* The OpenAI adapter sends every message in place.  The configured limit is used only by a request without tools.
\* "default" stands for the limit of the configuration.
openai_request(request) ==
    [messages |-> [i \in DOMAIN request.roles |-> <<i, request.roles[i]>>],
     limit |-> IF request.limit > 0 THEN "given" ELSE IF request.tools THEN "none" ELSE "default"]

\* The Anthropic adapter sends the first system message apart and no other one; a tool result is a user message.
anthropic_request(request) ==
    LET numbered == [i \in DOMAIN request.roles |-> <<i, request.roles[i]>>]
        spoken == SelectSeq(numbered, LAMBDA m : m[2] # "System")
        system == SelectSeq(numbered, LAMBDA m : m[2] = "System")
    IN [messages |-> SubSeq(system, 1, Min({1, Len(system)}))
                     \o [i \in DOMAIN spoken |-> IF spoken[i][2] = "Tool" THEN <<spoken[i][1], "User">> ELSE spoken[i]],
        limit |-> IF request.limit > 0 THEN "given" ELSE "default"]

\* The OpenAI adapter, and the Anthropic one only when streaming, refuse a request without messages.
EmptyRequest(request) == Provider = "openai" /\ request.roles = <<>>

\* StructuredOutputValidator::validate: an output that does not parse or does not fit the schema is repaired
\* once, if there is a policy, and the repaired text is checked in its turn.
Outputs == {"malformed", "violating", "valid"}
validate(raw, repaired) ==
    IF raw = "valid" THEN "Ok"
    ELSE IF repaired = "none" THEN IF raw = "malformed" THEN "MalformedStructuredOutput" ELSE "SchemaViolation"
    ELSE IF repaired = "valid" THEN "Ok" ELSE "StructuredOutputRepairFailed"

ExchangeNext ==
    /\ exchange.result = "none"
    /\ \E request \in Requests, raw \in Outputs, repaired \in Outputs \cup {"none"} :
         exchange' =
            IF gated(request) THEN [exchange EXCEPT !.request = {request}, !.result = "UnsupportedModelCapability"]
            ELSE IF EmptyRequest(request) THEN [exchange EXCEPT !.request = {request}, !.result = "EmptyRequest"]
            ELSE [request |-> {request}, raw |-> {raw, repaired}, result |-> validate(raw, repaired),
                  sent |-> {IF Provider = "openai" THEN openai_request(request) ELSE anthropic_request(request)}]
    /\ UNCHANGED <<breaker, calls, stream, history>>

Init ==
    /\ exchange = [request |-> {}, sent |-> {}, raw |-> {}, result |-> "none"]
    /\ breaker = Closed
    /\ calls = [p \in Callers |-> Idle]
    /\ stream = [body |-> <<>>, events |-> <<>>]
    /\ history = [messages |-> <<>>, kept |-> <<>>, tools |-> <<>>]

Next == CallNext \/ StreamNext \/ BudgetNext \/ ExchangeNext

\* The runtime polls every call, time passes, and a request to a client with a timeout comes back.
Fairness == /\ \A p \in Callers : WF_mvars(goes_on(p) /\ UNCHANGED <<stream, history, exchange>>)
            /\ HasTimeout => \A p \in Callers : WF_mvars(provider_answers(p) /\ UNCHANGED <<stream, history, exchange>>)
            /\ WF_mvars(tick /\ UNCHANGED <<stream, history, exchange>>)
Spec == Init /\ [][Next]_mvars /\ Fairness

(* ---- what holds ---- *)

\* The shared breaker and the retries agree whatever the callers' order: a closed breaker has fewer failures
\* than the threshold, an open or half-open one at least as many, a call is sent at most once an attempt and
\* never more than max_attempts times, every answer is traced, and no call that was refused or failed
\* for good sleeps (ModelCircuitBreaker, RetryingModelAdapter::complete).
BreakerSound ==
    /\ breaker.state = "Closed" <=> breaker.failures < FailureThreshold
    /\ \A p \in Callers :
         /\ calls[p].attempt <= MaxAttempts /\ calls[p].sent <= calls[p].attempt
         /\ calls[p].traced = calls[p].sent - (IF calls[p].pc = "provider" THEN 1 ELSE 0)
         /\ calls[p].pc = "asleep" => is_retryable(calls[p].class) /\ calls[p].left <= MaxDelay

\* A stream that parses starts once and first, keeps every delta that came before its end, and finishes if
\* the provider finished it; one cut inside a frame is an error (parse_openai_sse_events,
\* parse_anthropic_sse_events).
StreamSound ==
    stream.events # <<>> =>
        LET body == IF Provider = "openai" THEN openai_frames(stream.body) ELSE stream.body
            count(seq, e) == Cardinality({i \in DOMAIN seq : seq[i] = e})
        IN \/ stream.events = Malformed /\ count(body, "cut") = 1
           \/ /\ Head(stream.events) = "started" /\ count(stream.events, "started") = 1
              /\ \A e \in {"text", "tool", "usage"} : count(stream.events, e) = count(body, e)
              /\ accumulate(stream.events).text = count(body, "text")
              /\ accumulate(stream.events).finished <=> \/ count(body, "finish") > 0
                                                        \/ Provider = "anthropic" /\ count(body, "stop") > 0

\* Compaction leaves the longest run of recent messages within the budget, and the selected tools fit
\* it (HistoryCompaction::compact, ToolSchemaSelector::select).
BudgetSound ==
    LET distinct == deduplicate(history.messages) IN
    /\ total(history.kept) <= HistoryBudget /\ total(history.tools) <= HistoryBudget
    /\ IsSuffix(history.kept, distinct)
    /\ Len(history.kept) < Len(distinct) => total(suffix(distinct, Len(distinct) - Len(history.kept) - 1)) > HistoryBudget
    /\ \A i \in 1 .. Len(distinct) - 1 : distinct[i] # distinct[i + 1]

\* Tools never reach a model that lacks them; what is sent keeps the caller's order and its own limit;
\* no message but a system one is lost; and only an output that fits is accepted
\* (CapabilityGatedToolAdapter, convert_request, StructuredOutputValidator::validate).
ExchangeSound ==
    \A request \in exchange.request :
        /\ exchange.result = "Ok" => "valid" \in exchange.raw
        /\ \A wire \in exchange.sent :
             /\ request.tools \/ request.forced => request.supported
             /\ request.limit > 0 => wire.limit = "given"
             /\ \A i \in DOMAIN request.roles : request.roles[i] # "System" =>
                   \E j \in DOMAIN wire.messages : wire.messages[j][1] = i
             /\ \A i, j \in DOMAIN wire.messages : i < j /\ wire.messages[i][2] # "System" =>
                   wire.messages[i][1] < wire.messages[j][1]

\* What the model adapter's layers, stream parsers, budget and conversions promise together.
ModelCallsSound == BreakerSound /\ StreamSound /\ BudgetSound /\ ExchangeSound

\* A call through the layers returns, or waits for an answer that nothing bounds: the retries are bounded and
\* the sleeps end (RetryingModelAdapter::complete, OpenAiCompatibleAdapter::new, AnthropicAdapter::new).
EveryModelCallReturns == \A p \in Callers : calls[p].pc # "idle" ~> rests(p)
=============================================================================
