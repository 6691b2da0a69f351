----------------------------- MODULE MCAgentRuns -----------------------------
(***************************************************************************)
(* Instances of AgentRuns for TLC, with the calls a run waits for: a       *)
(* behaviour is one of the runs, of the browser's actions (executor) or of *)
(* an adapter (models, stream, budget, exchange) of the provider s6, whose *)
(* variables share s1 to s6.                                               *)
(***************************************************************************)
EXTENDS AgentRuns

VARIABLES part, s1, s2, s3, s4, s5, s6

slots == <<s1, s2, s3, s4, s5, s6>>

Executor == INSTANCE BrowserExecutor WITH
    Calls <- Users, Fields <- 1, HasStore <- TRUE, Polls <- 1, MaxClock <- 2,
    browser <- s1, handler <- s2, owned <- s3, calls <- s4, artifacts <- s5, millis <- s6
Anthropic == INSTANCE ModelCalls WITH
    Callers <- Processors, Provider <- "anthropic", FailureThreshold <- 2, Cooldown <- 2, MaxAttempts <- 2,
    InitialDelay <- 1, MaxDelay <- 1, MaxFailures <- 3,
    Frames <- {"start", "text", "tool", "usage", "finish", "stop", "error", "cut"}, MaxFrames <- 4,
    Sizes <- {1, 2, 3}, MaxMessages <- 3, HistoryBudget <- 4,
    breaker <- s1, calls <- s2, stream <- s3, history <- s4, exchange <- s5
OpenAI == INSTANCE ModelCalls WITH
    Callers <- Processors, Provider <- "openai", FailureThreshold <- 2, Cooldown <- 2, MaxAttempts <- 2,
    InitialDelay <- 1, MaxDelay <- 1, MaxFailures <- 3,
    Frames <- {"start", "text", "tool", "usage", "finish", "stop", "error", "cut"}, MaxFrames <- 4,
    Sizes <- {1, 2, 3}, MaxMessages <- 3, HistoryBudget <- 4,
    breaker <- s1, calls <- s2, stream <- s3, history <- s4, exchange <- s5

ModelParts == {"models", "stream", "budget", "exchange"}

MCInit ==
  /\ Init
  /\ \/ part = "runs" /\ s1 = 0 /\ s2 = 0 /\ s3 = 0 /\ s4 = 0 /\ s5 = 0 /\ s6 = 0
     \/ part = "executor" /\ Executor!Init
     \/ part \in ModelParts /\ Anthropic!Init /\ s6 \in {"anthropic", "openai"}

\* The calls may all have ended; a run must not stop.
Rest == part # "runs" /\ UNCHANGED slots

AnthropicNext ==
  \/ part = "models" /\ Anthropic!CallNext
  \/ part = "stream" /\ Anthropic!StreamNext
  \/ part = "budget" /\ Anthropic!BudgetNext
  \/ part = "exchange" /\ Anthropic!ExchangeNext

OpenAINext ==
  \/ part = "models" /\ OpenAI!CallNext
  \/ part = "stream" /\ OpenAI!StreamNext
  \/ part = "budget" /\ OpenAI!BudgetNext
  \/ part = "exchange" /\ OpenAI!ExchangeNext

PartNext ==
  \/ part = "executor" /\ Executor!Next
  \/ part \in ModelParts /\ s6 = "anthropic" /\ AnthropicNext /\ UNCHANGED s6
  \/ part \in ModelParts /\ s6 = "openai" /\ OpenAINext /\ UNCHANGED s6
  \/ Rest

MCNext ==
  /\ UNCHANGED part
  /\ \/ part = "runs" /\ Next /\ UNCHANGED slots
     \/ PartNext /\ UNCHANGED vars

\* Whether the part is the calls of a provider's adapter.
calls_of(provider) == part = "models" /\ s6 = provider

\* The fairness of AgentRuns, BrowserExecutor and ModelCalls: started calls go on, a
\* request comes back if its client has a timeout, and the breaker's clock goes on.
MCFairness ==
  /\ \A c \in Callers : WF_<<vars, part, slots>>(part = "runs" /\ CallStep(c) /\ UNCHANGED <<part, slots>>)
  /\ \A u \in Users : WF_<<vars, part, slots>>(part = "executor" /\ Executor!step(u) /\ UNCHANGED <<part, vars>>)
  /\ \A p \in Processors :
       /\ WF_<<vars, part, slots>>(calls_of("anthropic") /\ Anthropic!goes_on(p) /\ UNCHANGED <<part, s3, s4, s5, s6, vars>>)
       /\ WF_<<vars, part, slots>>(calls_of("openai") /\ OpenAI!step(p) /\ UNCHANGED <<part, s3, s4, s5, s6, vars>>)
  /\ WF_<<vars, part, slots>>(part = "models" /\ Anthropic!tick /\ UNCHANGED <<part, s3, s4, s5, s6, vars>>)

MCSpec == MCInit /\ [][MCNext]_<<vars, part, slots>> /\ MCFairness

-----------------------------------------------------------------------------
\* Callers of an adapter agree with the shared breaker, and what a stream, a
\* trimmed history or an exchange hands on is whole (RetryingModelAdapter, the
\* providers' streams, the token budget).
CallsSound ==
  part \in ModelParts =>
    IF s6 = "anthropic" THEN Anthropic!ModelCallsSound ELSE OpenAI!ModelCallsSound

\* A browser action that got through to Chromium ends, and so does a model call,
\* whatever is retried, refused or polled for; only a request through the Anthropic
\* adapter, whose client has no timeout, may stay out for ever
\* (CdpBrowserExecutor::execute, RetryingModelAdapter::complete).
CallsReturn ==
  /\ \A u \in Users : (part = "executor" /\ Executor!running(u)) ~> (part = "executor" /\ Executor!ended(u))
  /\ \A p \in Processors :
       /\ (calls_of("anthropic") /\ s2[p].pc # "idle") ~> (calls_of("anthropic") /\ Anthropic!rests(p))
       /\ (calls_of("openai") /\ s2[p].pc # "idle") ~> (calls_of("openai") /\ OpenAI!rests(p))
=============================================================================
