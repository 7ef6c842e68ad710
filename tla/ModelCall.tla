------------------------------ MODULE ModelCall ------------------------------
(***************************************************************************)
(* A call of a language model (core/llm_factory.py, core/llm_cache.py, the   *)
(* speakers' nodes, RemoteQwenEvidenceAnalyzer, record_token_usage).        *)
(*                                                                         *)
(* The moderator and the judge call through a cache in Redis, with retries  *)
(* and then a fallback model; the speakers retry and then say what went     *)
(* wrong; Qwen is asked for JSON, then without, and then done without.      *)
(* Every attempt is itself retried by the client library.  Usage is counted *)
(* in the cache.                                                            *)
(***************************************************************************)
EXTENDS Naturals, FiniteSets, Functions

CONSTANTS
    Callers,    \* the calls
    Requests,   \* what they may ask: a model, a prompt version and messages
    FallbackModel,
    MaxFaults   \* bound on failures of Redis

VARIABLES
    kind,       \* who calls: judge, which is also the moderator, speaker or qwen
    request,    \* what it asks
    provider,   \* debate_llm_provider: openai, which is also openrouter, or anthropic
    cacheOn,    \* llm_cache_enabled, and Redis is configured
    cache,      \* the cached answers
    pc,         \* start, call, record, write, fallback; done, excused, without, failed
    attempt,    \* attempts that have failed
    sent,       \* history: all requests that it has sent
    answer,     \* the answer: the model that gave it and the messages
    route,      \* history: where the answer is from: none, request, cache, fallback
    daily, cost,\* the tokens counted for the user's day and for the session
    faults

vars == <<kind, request, provider, cacheOn, cache, pc, attempt, sent, answer, route, daily, cost, faults>>
settings == <<kind, request, provider, cacheOn>>
counts == <<daily, cost>>

NoAnswer == [model |-> "none", messages |-> "none"]
Ended == {"done", "excused", "without", "failed"}

TypeOK ==
    /\ kind \in [Callers -> {"judge", "speaker", "qwen"}] /\ request \in [Callers -> Requests]
    /\ provider \in {"openai", "anthropic"} /\ cacheOn \in BOOLEAN
    /\ pc \in [Callers -> {"start", "call", "record", "write", "fallback"} \cup Ended]
    /\ daily \in 0..Cardinality(Callers) /\ cost \in 0..Cardinality(Callers)

Init ==
    /\ kind \in [Callers -> {"judge", "speaker", "qwen"}] /\ request \in [Callers -> Requests]
    /\ provider \in {"openai", "anthropic"} /\ cacheOn \in BOOLEAN /\ cache = <<>>
    /\ pc = [c \in Callers |-> "start"] /\ attempt = [c \in Callers |-> 0]
    /\ sent = [c \in Callers |-> 0]
    /\ answer = [c \in Callers |-> NoAnswer] /\ route = [c \in Callers |-> "none"]
    /\ daily = 0 /\ cost = 0 /\ faults = 0

Set(f, c, value) == [f EXCEPT ![c] = value]
RedisFails == faults < MaxFaults /\ faults' = faults + 1

\* stop_after_attempt, and json mode on and off
Attempts(c) == IF kind[c] = "qwen" THEN 2 ELSE 3

\* One request and max_retries more, of which the client of Qwen has the library's default.
Tries(c) == IF kind[c] = "qwen" THEN 3 ELSE 4

\* A bug to compare with: the messages alone.
KeyOfMessages(r) == <<r.messages>>

\* _build_key
Key(r) == <<r.model, r.version, r.messages>>

Answer(c, model) == [model |-> model, messages |-> request[c].messages]
Cached(c) == kind[c] = "judge" /\ cacheOn

-----------------------------------------------------------------------------
(* CachedChatModel.invoke                                                   *)

Answered(c, value, from) == answer' = Set(answer, c, value) /\ route' = Set(route, c, from)

\* What follows a hit: it is neither counted nor written.
AfterHit == "done"

\* A hit is the answer; a miss, or an error of Redis, leads to a request.
Read(c) ==
    /\ pc[c] = "start"
    /\ \/ /\ Cached(c) /\ Key(request[c]) \in DOMAIN cache
          /\ Answered(c, cache[Key(request[c])], "cache") /\ pc' = Set(pc, c, AfterHit)
          /\ UNCHANGED faults
       \/ /\ pc' = Set(pc, c, "call") /\ UNCHANGED <<answer, route>>
          /\ \/ (Cached(c) => Key(request[c]) \notin DOMAIN cache) /\ UNCHANGED faults
             \/ Cached(c) /\ RedisFails
    /\ UNCHANGED <<settings, cache, attempt, sent, counts>>

\* The exceptions that are retried and lead to the fallback are those of the openai
\* package; the handler of Qwen takes any.
Handled(c) == kind[c] = "qwen" \/ provider = "openai"

\* What comes after an attempt that has failed.
AfterFailure(c) ==
    IF Handled(c) /\ attempt[c] + 1 < Attempts(c) THEN "start"
    ELSE CASE kind[c] = "qwen"    -> "without"
           [] kind[c] = "speaker" -> "excused"
           [] kind[c] = "judge"   -> IF Handled(c) THEN "fallback" ELSE "failed"

\* One attempt: the client library sends one request, or repeats it up to its limit.
Send(c) == \E n \in {1, Tries(c)} : sent' = Set(sent, c, sent[c] + n)

Call(c) ==
    /\ pc[c] = "call" /\ Send(c)
    /\ \/ /\ Answered(c, Answer(c, request[c].model), "request")
          /\ pc' = Set(pc, c, IF Cached(c) THEN "record" ELSE "done")
          /\ UNCHANGED attempt
       \/ /\ pc' = Set(pc, c, AfterFailure(c)) /\ attempt' = Set(attempt, c, attempt[c] + 1)
          /\ UNCHANGED <<answer, route>>
    /\ UNCHANGED <<settings, cache, counts, faults>>

\* The day is counted first, then the session; an error is logged.
CountTokens ==
    \/ daily' = daily + 1 /\ cost' = cost + 1 /\ UNCHANGED faults
    \/ RedisFails /\ daily' \in {daily, daily + 1} /\ UNCHANGED cost

\* An answer in a debate, from a provider that reports its tokens.
Record(c) ==
    /\ pc[c] = "record" /\ pc' = Set(pc, c, "write") /\ CountTokens
    /\ UNCHANGED <<settings, cache, attempt, sent, answer, route>>

Write(c) ==
    /\ pc[c] = "write" /\ pc' = Set(pc, c, "done")
    /\ LET key == Key(request[c])
       IN \/ /\ cache' = [k \in DOMAIN cache \cup {key} |->
                             IF k = key THEN answer[c] ELSE cache[k]]
             /\ UNCHANGED faults
          \/ RedisFails /\ UNCHANGED cache
    /\ UNCHANGED <<settings, attempt, sent, answer, route, counts>>

Expire ==
    /\ \E k \in DOMAIN cache : cache' = Restrict(cache, DOMAIN cache \ {k})
    /\ UNCHANGED <<settings, pc, attempt, sent, answer, route, counts, faults>>

\* invoke_with_fallback: the second model, neither cached nor counted.
Fallback(c) ==
    /\ pc[c] = "fallback" /\ Send(c)
    /\ \/ Answered(c, Answer(c, FallbackModel), "fallback") /\ pc' = Set(pc, c, "done")
       \/ pc' = Set(pc, c, "failed") /\ UNCHANGED <<answer, route>>
    /\ UNCHANGED <<settings, cache, attempt, counts, faults>>

Next == Expire \/ \E c \in Callers :
            Read(c) \/ Call(c) \/ Record(c) \/ Write(c) \/ Fallback(c)

Spec == Init /\ [][Next]_vars

-----------------------------------------------------------------------------
(* Properties                                                               *)

\* A caller gets an answer to its own messages and from the model of its role, or from
\* the fallback model after all its attempts: no other role or session's answer.
AnswerMatchesRequest ==
    \A c \in Callers : pc[c] = "done" =>
        /\ answer[c].messages = request[c].messages
        /\ \/ answer[c].model = request[c].model
           \/ answer[c].model = FallbackModel /\ attempt[c] = Attempts(c)

\* The two layers of retries multiply, and still end: a call sends at most sixteen
\* requests, and one that gives up has used up its attempts and tried the fallback,
\* unless the provider is anthropic, whose errors nothing handles.
GivesUpLate ==
    \A c \in Callers :
        /\ sent[c] <= Attempts(c) * Tries(c) + (IF kind[c] = "judge" THEN Tries(c) ELSE 0)
        /\ pc[c] \in {"excused", "without", "failed"} /\ Handled(c) =>
               attempt[c] = Attempts(c) /\ (pc[c] = "failed" => sent[c] > attempt[c])

\* As long as Redis works, the day and the session count every answer that a request
\* through the cache brought, once: no hit again, and no attempt that failed.  What the
\* speakers, Qwen and a fallback used is counted nowhere.
UsageIsCachedCalls ==
    /\ cost <= daily
    /\ faults = 0 =>
        /\ daily = cost
        /\ cost = Cardinality({c \in Callers : Cached(c) /\ route[c] = "request" /\ pc[c] # "record"})
=============================================================================
