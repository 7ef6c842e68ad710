---------------------------- MODULE Services_proofs ----------------------------
(***************************************************************************)
(* Proofs about Services, for any numbers of requests, calls, sessions,     *)
(* golden cases and faults.                                                *)
(***************************************************************************)
EXTENDS Services, FiniteSetTheorems, TLAPS

SessionProofs == INSTANCE DebateEvaluation_proofs
    WITH Golden <- {}, Numbers <- SessionGrades, MaxFaults <- EvaluationFaults,
         status <- debate, pc <- epc, rows <- scores, faults <- efaults

CaseProofs == INSTANCE DebateEvaluation_proofs
    WITH Debates <- {}, Golden <- GoldenCases, Numbers <- CaseGrades,
         MaxFaults <- EvaluationFaults,
         status <- debate, pc <- epc, rows <- scores, faults <- efaults

-----------------------------------------------------------------------------
(* Calls of a language model                                                *)

CallTyped ==
    /\ kind \in [Calls -> {"judge", "speaker", "qwen"}] /\ request \in [Calls -> CallRequests]
    /\ provider \in {"openai", "anthropic"} /\ cacheOn \in BOOLEAN
    /\ cpc \in [Calls -> {"start", "call", "record", "write", "fallback",
                          "done", "excused", "without", "failed"}]
    /\ attempt \in [Calls -> Nat] /\ sent \in [Calls -> Nat]
    /\ DOMAIN answer = Calls /\ DOMAIN route = Calls
    /\ daily \in Nat /\ cost \in Nat /\ cfaults \in Nat

\* The cache has under each key an answer of the model and to the messages of the key.
CacheSound == \A k \in DOMAIN cache : cache[k].model = k[1] /\ cache[k].messages = k[3]

\* What an answer is like until the caller has it, and where it is from.
Answers ==
    \A c \in Calls :
        /\ cpc[c] \in {"record", "write"} => answer[c] = Call!Answer(c, request[c].model)
        /\ cpc[c] = "record" => Call!Cached(c) /\ route[c] = "request"
        /\ cpc[c] \in {"start", "call", "fallback"} => route[c] = "none"

\* How many attempts have failed, and how many requests they may have sent.
Effort ==
    \A c \in Calls :
        /\ attempt[c] <= Call!Attempts(c) /\ sent[c] >= attempt[c]
        /\ cpc[c] \in {"start", "call"} =>
               attempt[c] < Call!Attempts(c) /\ sent[c] <= attempt[c] * Call!Tries(c)
        /\ cpc[c] = "fallback" =>
               /\ attempt[c] = Call!Attempts(c) /\ kind[c] = "judge"
               /\ sent[c] <= attempt[c] * Call!Tries(c)

\* The answers that must have been counted.
Counted ==
    {c \in Calls : Call!Cached(c) /\ route[c] = "request" /\ cpc[c] # "record"}

CallInv ==
    /\ CallTyped /\ CacheSound /\ Answers /\ Effort
    /\ Call!AnswerMatchesRequest /\ Call!GivesUpLate /\ Call!UsageIsCachedCalls

\* The instances of a library's operator are that operator.
LEMMA SameCardinality ==
    \A S : Call!Cardinality(S) = Cardinality(S) /\ Pool!Cardinality(S) = Cardinality(S)
<1>1. \A S : Call!Cardinality(S) = Cardinality(S)
  BY DEF Call!Cardinality, Cardinality
<1>2. \A S : Pool!Cardinality(S) = Cardinality(S)
  BY DEF Pool!Cardinality, Cardinality
<1> QED BY <1>1, <1>2

LEMMA UsageIs ==
    LET Usage == cost <= daily /\ (cfaults = 0 => daily = cost /\ cost = Cardinality(Counted))
    IN (Call!UsageIsCachedCalls <=> Usage) /\ (Call!UsageIsCachedCalls' <=> Usage')
BY SameCardinality DEF Counted, Call!UsageIsCachedCalls

LEMMA CallInit == Call!Init => CallInv
<1> SUFFICES ASSUME Call!Init PROVE CallInv
  OBVIOUS
<1> USE DEF Call!Init
<1>1. CallTyped
  BY DEF CallTyped
<1>2. CacheSound
  BY DEF CacheSound
<1>3. Answers /\ Effort /\ Call!AnswerMatchesRequest /\ Call!GivesUpLate
  BY DEF Answers, Effort, Call!AnswerMatchesRequest, Call!GivesUpLate, Call!Attempts,
         Call!Tries
<1>4. Call!UsageIsCachedCalls
  <2>1. Counted = {}
    BY DEF Counted
  <2>2. Cardinality(Counted) = 0
    BY <2>1, FS_EmptySet
  <2>3. cost <= daily /\ daily = cost /\ cost = Cardinality(Counted)
    BY <2>2
  <2> QED BY <2>3, UsageIs
<1> QED BY <1>1, <1>2, <1>3, <1>4 DEF CallInv

\* The steps of a call change nothing of the others.
LEMMA CallTypedStep == CallTyped /\ Call!Next => CallTyped'
<1> SUFFICES ASSUME CallTyped, Call!Next PROVE CallTyped'
  OBVIOUS
<1> USE DEF CallTyped, Call!Set, Call!settings, Call!counts, Call!RedisFails, Call!Answered
<1>1. CASE Call!Expire
  BY <1>1 DEF Call!Expire
<1>2. ASSUME NEW c \in Calls, Call!Read(c) PROVE CallTyped'
  BY <1>2 DEF Call!Read, Call!AfterHit
<1>3. ASSUME NEW c \in Calls, Call!Call(c) PROVE CallTyped'
  <2>1. Call!AfterFailure(c) \in {"start", "without", "excused", "fallback", "failed"}
    BY DEF Call!AfterFailure
  <2> QED BY <1>3, <2>1 DEF Call!Call, Call!Send, Call!Tries
<1>4. ASSUME NEW c \in Calls, Call!Record(c) PROVE CallTyped'
  BY <1>4 DEF Call!Record, Call!CountTokens
<1>5. ASSUME NEW c \in Calls, Call!Write(c) PROVE CallTyped'
  BY <1>5 DEF Call!Write
<1>6. ASSUME NEW c \in Calls, Call!Fallback(c) PROVE CallTyped'
  BY <1>6 DEF Call!Fallback, Call!Send, Call!Tries
<1> QED BY <1>1, <1>2, <1>3, <1>4, <1>5, <1>6 DEF Call!Next

LEMMA CacheSoundStep == CallTyped /\ CacheSound /\ Answers /\ Call!Next => CacheSound'
<1> SUFFICES ASSUME CallTyped, CacheSound, Answers, Call!Next PROVE CacheSound'
  OBVIOUS
<1>1. CASE UNCHANGED cache
  BY <1>1 DEF CacheSound
<1>2. CASE Call!Expire
  BY <1>2 DEF Call!Expire, CacheSound, Call!Restrict
<1>3. ASSUME NEW c \in Calls, Call!Write(c) PROVE CacheSound'
  <2> DEFINE key == Call!Key(request[c])
  <2>1. CASE UNCHANGED cache
    BY <1>1, <2>1
  <2>2. CASE cache' = [k \in DOMAIN cache \cup {key} |->
                           IF k = key THEN answer[c] ELSE cache[k]]
    <3>1. answer[c] = [model |-> request[c].model, messages |-> request[c].messages]
      BY <1>3 DEF Call!Write, Answers, Call!Answer
    <3>2. answer[c].model = key[1] /\ answer[c].messages = key[3]
      BY <3>1 DEF Call!Key
    <3> HIDE DEF key
    <3> QED BY <2>2, <3>2 DEF CacheSound
  <2> QED BY <1>3, <2>1, <2>2 DEF Call!Write
<1> QED BY <1>1, <1>2, <1>3 DEF Call!Next, Call!Read, Call!Call, Call!Record, Call!Fallback

LEMMA AnswersStep == CallTyped /\ Answers /\ Call!Next => Answers'
<1> SUFFICES ASSUME CallTyped, Answers, Call!Next PROVE Answers'
  OBVIOUS
<1> USE DEF CallTyped, Answers, Call!Answer, Call!Cached, Call!Set, Call!settings,
            Call!counts, Call!Answered
<1>1. CASE Call!Expire
  BY <1>1 DEF Call!Expire
<1>2. ASSUME NEW c \in Calls, Call!Read(c) PROVE Answers'
  BY <1>2 DEF Call!Read, Call!AfterHit
<1>3. ASSUME NEW c \in Calls, Call!Call(c) PROVE Answers'
  <2>1. Call!AfterFailure(c) \in {"start", "without", "excused", "fallback", "failed"}
    BY DEF Call!AfterFailure
  <2> QED BY <1>3, <2>1 DEF Call!Call
<1>4. ASSUME NEW c \in Calls, Call!Record(c) PROVE Answers'
  BY <1>4 DEF Call!Record
<1>5. ASSUME NEW c \in Calls, Call!Write(c) PROVE Answers'
  BY <1>5 DEF Call!Write
<1>6. ASSUME NEW c \in Calls, Call!Fallback(c) PROVE Answers'
  BY <1>6 DEF Call!Fallback
<1> QED BY <1>1, <1>2, <1>3, <1>4, <1>5, <1>6 DEF Call!Next

\* Where a failed attempt leads to, case by case.
LEMMA FailureLeadsTo ==
    ASSUME CallTyped, NEW c \in Calls, attempt[c] < Call!Attempts(c)
    PROVE  /\ Call!AfterFailure(c) = "start" => attempt[c] + 1 < Call!Attempts(c)
           /\ Call!AfterFailure(c) = "fallback" =>
                  kind[c] = "judge" /\ attempt[c] + 1 = Call!Attempts(c)
           /\ Call!AfterFailure(c) = "failed" => kind[c] = "judge" /\ ~Call!Handled(c)
           /\ Call!AfterFailure(c) \in {"without", "excused"} /\ Call!Handled(c) =>
                  attempt[c] + 1 = Call!Attempts(c)
           /\ Call!AfterFailure(c) \in {"start", "without", "excused", "fallback", "failed"}
<1> DEFINE more == Call!Handled(c) /\ attempt[c] + 1 < Call!Attempts(c)
<1>1. more \/ (Call!Handled(c) => attempt[c] + 1 = Call!Attempts(c))
  BY DEF CallTyped, Call!Attempts
<1>2. more => Call!AfterFailure(c) = "start"
  BY DEF Call!AfterFailure
<1>3. ~more =>
          /\ kind[c] = "qwen" => Call!AfterFailure(c) = "without"
          /\ kind[c] = "speaker" => Call!AfterFailure(c) = "excused"
          /\ kind[c] = "judge" =>
                 Call!AfterFailure(c) = IF Call!Handled(c) THEN "fallback" ELSE "failed"
  BY DEF Call!AfterFailure
<1>4. kind[c] \in {"judge", "speaker", "qwen"}
  BY DEF CallTyped
<1> QED BY <1>1, <1>2, <1>3, <1>4

LEMMA EffortStep == CallTyped /\ Effort /\ Call!Next => Effort'
<1> SUFFICES ASSUME CallTyped, Effort, Call!Next PROVE Effort'
  OBVIOUS
<1>0. \A c \in Calls : /\ Call!Attempts(c) \in {2, 3} /\ Call!Tries(c) \in {3, 4}
                        /\ kind[c] \in {"judge", "speaker", "qwen"}
                        /\ attempt[c] \in Nat /\ sent[c] \in Nat
  BY DEF CallTyped, Call!Attempts, Call!Tries
<1>1. ASSUME UNCHANGED <<kind, attempt, sent, cpc>> PROVE Effort'
  BY <1>1 DEF Effort, Call!Attempts, Call!Tries
<1>2. ASSUME NEW c \in Calls, UNCHANGED <<kind, attempt, sent>>,
             \E place \in {"call", "done", "write"} : cpc' = Call!Set(cpc, c, place),
             cpc'[c] = "call" => cpc[c] = "start"
      PROVE  Effort'
  BY <1>2 DEF Effort, CallTyped, Call!Attempts, Call!Tries, Call!Set
<1>3. ASSUME NEW c \in Calls, Call!Call(c) PROVE Effort'
  <2>1. PICK n \in {1, Call!Tries(c)} : sent' = [sent EXCEPT ![c] = sent[c] + n]
    BY <1>3 DEF Call!Call, Call!Send, Call!Set
  <2>2. /\ attempt[c] < Call!Attempts(c) /\ sent[c] <= attempt[c] * Call!Tries(c)
        /\ sent[c] >= attempt[c] /\ cpc[c] = "call" /\ UNCHANGED kind
    BY <1>3 DEF Call!Call, Effort, Call!settings
  <2>3. CASE /\ UNCHANGED attempt
             /\ \E place \in {"record", "done"} : cpc' = [cpc EXCEPT ![c] = place]
    BY <1>0, <2>1, <2>2, <2>3 DEF Effort, CallTyped, Call!Attempts, Call!Tries
  <2>4. CASE /\ cpc' = [cpc EXCEPT ![c] = Call!AfterFailure(c)]
             /\ attempt' = [attempt EXCEPT ![c] = attempt[c] + 1]
    <3>1. sent[c] + n <= (attempt[c] + 1) * Call!Tries(c) /\ sent[c] + n >= attempt[c] + 1
      BY <1>0, <2>1, <2>2
    <3> QED BY <1>0, <2>1, <2>2, <2>4, <3>1, FailureLeadsTo
            DEF Effort, CallTyped, Call!Attempts, Call!Tries
  <2> QED BY <1>3, <2>3, <2>4 DEF Call!Call, Call!Set
<1>4. ASSUME NEW c \in Calls, Call!Fallback(c) PROVE Effort'
  <2>1. PICK n \in {1, Call!Tries(c)} : sent' = [sent EXCEPT ![c] = sent[c] + n]
    BY <1>4 DEF Call!Fallback, Call!Send, Call!Set
  <2> QED BY <1>0, <1>4, <2>1
          DEF Call!Fallback, Effort, CallTyped, Call!Attempts, Call!Tries, Call!settings, Call!Set
<1>5. ASSUME NEW c \in Calls, Call!Read(c) \/ Call!Record(c) \/ Call!Write(c)
      PROVE  Effort'
  <2>1. UNCHANGED <<kind, attempt, sent>>
    BY <1>5 DEF Call!Read, Call!Record, Call!Write, Call!settings
  <2>2. \E place \in {"call", "done", "write"} : cpc' = Call!Set(cpc, c, place)
    BY <1>5 DEF Call!Read, Call!Record, Call!Write, Call!AfterHit
  <2>3. cpc'[c] = "call" => cpc[c] = "start"
    BY <1>5 DEF Call!Read, Call!Record, Call!Write, Call!Set, CallTyped
  <2> QED BY <1>2, <2>1, <2>2, <2>3
<1> QED BY <1>1, <1>3, <1>4, <1>5 DEF Call!Next, Call!Expire, Call!settings

LEMMA LimitStep == CallTyped /\ Effort /\ Call!GivesUpLate /\ Call!Next => Call!GivesUpLate'
<1> SUFFICES ASSUME CallTyped, Effort, Call!GivesUpLate, Call!Next PROVE Call!GivesUpLate'
  OBVIOUS
<1> USE DEF CallTyped, Call!GivesUpLate, Call!Attempts, Call!Tries, Call!Set, Call!settings
<1>0. /\ UNCHANGED <<kind, provider>>
      /\ \A c \in Calls : kind[c] \in {"judge", "speaker", "qwen"} /\ attempt[c] \in Nat
                           /\ sent[c] \in Nat /\ (Call!Handled(c)' <=> Call!Handled(c))
  BY DEF Call!Next, Call!Expire, Call!Read, Call!Call, Call!Record, Call!Write, Call!Fallback,
         Call!Handled
<1>1. CASE Call!Expire
  BY <1>0, <1>1 DEF Call!Expire
<1>2. ASSUME NEW c \in Calls, Call!Read(c) PROVE Call!GivesUpLate'
  BY <1>0, <1>2 DEF Call!Read, Call!AfterHit
<1>3. ASSUME NEW c \in Calls, Call!Call(c) PROVE Call!GivesUpLate'
  <2>1. PICK n \in {1, Call!Tries(c)} : sent' = [sent EXCEPT ![c] = sent[c] + n]
    BY <1>3 DEF Call!Call, Call!Send
  <2>2. /\ attempt[c] < Call!Attempts(c) /\ sent[c] <= attempt[c] * Call!Tries(c)
        /\ sent[c] >= attempt[c]
    BY <1>3 DEF Call!Call, Effort
  <2>3. sent[c] + n <= Call!Attempts(c) * Call!Tries(c)
    BY <1>0, <2>1, <2>2
  <2>4. CASE \E place \in {"record", "done"} : cpc' = [cpc EXCEPT ![c] = place]
                                              /\ UNCHANGED attempt
    BY <1>0, <2>1, <2>3, <2>4
  <2>5. CASE /\ cpc' = [cpc EXCEPT ![c] = Call!AfterFailure(c)]
             /\ attempt' = [attempt EXCEPT ![c] = attempt[c] + 1]
    BY <1>0, <2>1, <2>2, <2>3, <2>5, FailureLeadsTo
  <2> QED BY <1>3, <2>4, <2>5 DEF Call!Call
<1>4. ASSUME NEW c \in Calls, Call!Record(c) PROVE Call!GivesUpLate'
  BY <1>0, <1>4 DEF Call!Record
<1>5. ASSUME NEW c \in Calls, Call!Write(c) PROVE Call!GivesUpLate'
  BY <1>0, <1>5 DEF Call!Write
<1>6. ASSUME NEW c \in Calls, Call!Fallback(c) PROVE Call!GivesUpLate'
  <2>1. PICK n \in {1, Call!Tries(c)} : sent' = [sent EXCEPT ![c] = sent[c] + n]
    BY <1>6 DEF Call!Fallback, Call!Send
  <2>2. /\ attempt[c] = Call!Attempts(c) /\ kind[c] = "judge" /\ UNCHANGED attempt
        /\ sent[c] <= attempt[c] * Call!Tries(c) /\ sent[c] >= attempt[c]
    BY <1>6 DEF Call!Fallback, Effort
  <2> QED BY <1>0, <1>6, <2>1, <2>2 DEF Call!Fallback
<1> QED BY <1>1, <1>2, <1>3, <1>4, <1>5, <1>6 DEF Call!Next

LEMMA MatchStep ==
    CallTyped /\ CacheSound /\ Answers /\ Effort /\ Call!AnswerMatchesRequest /\ Call!Next
        => Call!AnswerMatchesRequest'
<1> SUFFICES ASSUME CallTyped, CacheSound, Answers, Effort, Call!AnswerMatchesRequest, Call!Next
             PROVE  Call!AnswerMatchesRequest'
  OBVIOUS
<1> USE DEF CallTyped, Call!AnswerMatchesRequest, Call!Set, Call!settings, Call!Answered
<1>0. /\ UNCHANGED <<kind, request>>
      /\ \A c \in Calls : Call!Attempts(c)' = Call!Attempts(c)
  BY DEF Call!Next, Call!Expire, Call!Read, Call!Call, Call!Record, Call!Write, Call!Fallback,
         Call!Attempts
<1>1. CASE Call!Expire
  BY <1>0, <1>1 DEF Call!Expire
<1>2. ASSUME NEW c \in Calls, Call!Read(c) PROVE Call!AnswerMatchesRequest'
  <2> DEFINE key == Call!Key(request[c])
  <2>1. key \in DOMAIN cache =>
            cache[key].model = request[c].model /\ cache[key].messages = request[c].messages
    BY DEF CacheSound, Call!Key
  <2> QED BY <1>0, <1>2, <2>1 DEF Call!Read, Call!AfterHit
<1>3. ASSUME NEW c \in Calls, Call!Call(c) PROVE Call!AnswerMatchesRequest'
  <2>1. Call!AfterFailure(c) # "done"
    BY <1>3, FailureLeadsTo DEF Call!Call, Effort
  <2> QED BY <1>0, <1>3, <2>1 DEF Call!Call, Call!Answer
<1>4. ASSUME NEW c \in Calls, Call!Record(c) PROVE Call!AnswerMatchesRequest'
  BY <1>0, <1>4 DEF Call!Record
<1>5. ASSUME NEW c \in Calls, Call!Write(c) PROVE Call!AnswerMatchesRequest'
  <2>1. answer[c] = [model |-> request[c].model, messages |-> request[c].messages]
    BY <1>5 DEF Call!Write, Answers, Call!Answer
  <2> QED BY <1>0, <1>5, <2>1 DEF Call!Write
<1>6. ASSUME NEW c \in Calls, Call!Fallback(c) PROVE Call!AnswerMatchesRequest'
  BY <1>0, <1>6 DEF Call!Fallback, Call!Answer, Effort
<1> QED BY <1>1, <1>2, <1>3, <1>4, <1>5, <1>6 DEF Call!Next

LEMMA UsageStep ==
    CallTyped /\ Answers /\ Call!UsageIsCachedCalls /\ Call!Next => Call!UsageIsCachedCalls'
<1> SUFFICES ASSUME CallTyped, Answers, Call!UsageIsCachedCalls, Call!Next
             PROVE  Call!UsageIsCachedCalls'
  OBVIOUS
<1> USE DEF CallTyped, Answers, Counted, Call!Set, Call!settings, Call!counts, Call!Answered,
            Call!Cached
<1>0. cost <= daily /\ (cfaults = 0 => daily = cost /\ cost = Cardinality(Counted))
  BY UsageIs
<1>1. ASSUME UNCHANGED Call!counts, Counted' = Counted, cfaults' = 0 => cfaults = 0
      PROVE  Call!UsageIsCachedCalls'
  BY <1>0, <1>1, UsageIs
<1>2. CASE Call!Expire
  BY <1>1, <1>2 DEF Call!Expire
<1>3. ASSUME NEW c \in Calls, Call!Read(c) PROVE Call!UsageIsCachedCalls'
  <2>1. UNCHANGED Call!counts /\ (cfaults' = 0 => cfaults = 0)
    BY <1>3 DEF Call!Read, Call!RedisFails
  <2>2. Counted' = Counted
    BY <1>3 DEF Call!Read, Call!AfterHit
  <2> QED BY <1>1, <2>1, <2>2
<1>4. ASSUME NEW c \in Calls, Call!Call(c) PROVE Call!UsageIsCachedCalls'
  <2>1. UNCHANGED Call!counts /\ (cfaults' = 0 => cfaults = 0)
    BY <1>4 DEF Call!Call
  <2>2. Counted' = Counted
    BY <1>4 DEF Call!Call
  <2> QED BY <1>1, <2>1, <2>2
<1>5. ASSUME NEW c \in Calls, Call!Record(c) PROVE Call!UsageIsCachedCalls'
  <2>1. Counted' = Counted \cup {c} /\ c \notin Counted
    BY <1>5 DEF Call!Record
  <2>2. IsFiniteSet(Counted)
    BY ServicesAssumption, FS_Subset
  <2>3. Cardinality(Counted') = Cardinality(Counted) + 1
    BY <2>1, <2>2, FS_AddElement
  <2>4. \/ daily' = daily + 1 /\ cost' = cost + 1 /\ cfaults' = cfaults
        \/ cfaults' = cfaults + 1 /\ daily' \in {daily, daily + 1} /\ cost' = cost
    BY <1>5 DEF Call!Record, Call!CountTokens, Call!RedisFails
  <2>5. cost' <= daily' /\ (cfaults' = 0 => daily' = cost' /\ cost' = Cardinality(Counted'))
    <3> HIDE DEF Counted
    <3> QED BY <1>0, <2>3, <2>4
  <2> QED BY <2>5, UsageIs
<1>6. ASSUME NEW c \in Calls, Call!Write(c) PROVE Call!UsageIsCachedCalls'
  <2>1. UNCHANGED Call!counts /\ (cfaults' = 0 => cfaults = 0)
    BY <1>6 DEF Call!Write, Call!RedisFails
  <2>2. Counted' = Counted
    BY <1>6 DEF Call!Write
  <2> QED BY <1>1, <2>1, <2>2
<1>7. ASSUME NEW c \in Calls, Call!Fallback(c) PROVE Call!UsageIsCachedCalls'
  <2>1. UNCHANGED Call!counts /\ (cfaults' = 0 => cfaults = 0)
    BY <1>7 DEF Call!Fallback
  <2>2. Counted' = Counted
    BY <1>7 DEF Call!Fallback
  <2> QED BY <1>1, <2>1, <2>2
<1> QED BY <1>2, <1>3, <1>4, <1>5, <1>6, <1>7 DEF Call!Next

LEMMA CallStep == CallInv /\ [Call!Next]_Call!vars => CallInv'
<1> SUFFICES ASSUME CallInv, [Call!Next]_Call!vars PROVE CallInv'
  OBVIOUS
<1>1. CASE Call!Next
  BY <1>1, CallTypedStep, CacheSoundStep, AnswersStep, EffortStep, LimitStep, MatchStep,
     UsageStep DEF CallInv
<1>2. CASE UNCHANGED Call!vars
  <2> USE <1>2 DEF CallInv, Call!vars
  <2>1. CallTyped' /\ CacheSound'
    BY DEF CallTyped, CacheSound
  <2>2. Answers' /\ Effort'
    BY DEF Answers, Effort, Call!Answer, Call!Cached, Call!Attempts, Call!Tries
  <2>3. Call!AnswerMatchesRequest' /\ Call!GivesUpLate'
    BY DEF Call!AnswerMatchesRequest, Call!GivesUpLate, Call!Attempts, Call!Tries, Call!Handled
  <2>4. Call!UsageIsCachedCalls'
    BY DEF Call!UsageIsCachedCalls, Call!Cached
  <2> QED BY <2>1, <2>2, <2>3, <2>4
<1> QED BY <1>1, <1>2

-----------------------------------------------------------------------------
(* The pool of connections                                                  *)

PoolTyped ==
    /\ DOMAIN opc = PoolRequests /\ DOMAIN got = PoolRequests
    /\ raced \subseteq {r \in PoolRequests : opc[r] # "start"}
    /\ IsFiniteSet(open) /\ open = 1..Cardinality(open)
    /\ (pool = 0 <=> open = {}) /\ pool \in open \cup {0}
    /\ \A r \in PoolRequests : opc[r] = "got" => got[r] \in open

\* Of the creations that have begun, finished ones or not, all but one began during
\* another one's.
Races ==
    LET begun == Cardinality(open) + Cardinality(Pool!Creating)
    IN begun > 0 => begun <= Cardinality(raced) + 1

PoolInv == PoolTyped /\ Races

LEMMA PoolFinite == ASSUME PoolTyped
                    PROVE  /\ IsFiniteSet(raced) /\ IsFiniteSet(Pool!Creating)
                           /\ Cardinality(raced) \in Nat /\ Cardinality(open) \in Nat
                           /\ Cardinality(Pool!Creating) \in Nat
<1>1. raced \subseteq PoolRequests /\ Pool!Creating \subseteq PoolRequests
  BY DEF PoolTyped, Pool!Creating
<1>2. IsFiniteSet(raced) /\ IsFiniteSet(Pool!Creating) /\ IsFiniteSet(open)
  BY <1>1, ServicesAssumption, FS_Subset DEF PoolTyped
<1> QED BY <1>2, FS_CardinalityType

LEMMA PoolInit == Pool!Init => PoolInv
<1> SUFFICES ASSUME Pool!Init PROVE PoolInv
  OBVIOUS
<1> USE DEF Pool!Init
<1>1. Cardinality({}) = 0 /\ IsFiniteSet({})
  BY FS_EmptySet
<1>2. Pool!Creating = {}
  BY DEF Pool!Creating
<1>3. PoolTyped
  BY <1>1 DEF PoolTyped
<1>4. Races
  BY <1>1, <1>2 DEF Races
<1> QED BY <1>3, <1>4 DEF PoolInv

LEMMA GetStep == ASSUME PoolInv, NEW r \in PoolRequests, Pool!Get(r) PROVE PoolInv'
<1> USE DEF PoolInv, PoolTyped, Pool!Get
<1>1. CASE pool # 0
  <2>1. Pool!Creating' = Pool!Creating
    BY <1>1 DEF Pool!Creating
  <2>2. PoolTyped'
    BY <1>1
  <2>3. Races'
    BY <1>1, <2>1 DEF Races
  <2> QED BY <2>2, <2>3
<1>2. CASE pool = 0
  <2>1. Pool!Creating' = Pool!Creating \cup {r} /\ r \notin Pool!Creating /\ r \notin raced
    BY <1>2 DEF Pool!Creating
  <2>2. PoolTyped'
    BY <1>2
  <2>3. Cardinality(Pool!Creating') = Cardinality(Pool!Creating) + 1
    BY <2>1, PoolFinite, FS_AddElement
  <2>4. Cardinality(open) = 0 /\ open' = open
    BY <1>2, FS_EmptySet
  <2>5. CASE Pool!Creating = {}
    <3>1. Cardinality(Pool!Creating) = 0 /\ raced' = raced
      BY <1>2, <2>5, FS_EmptySet
    <3> QED BY <2>2, <2>3, <2>4, <3>1, PoolFinite DEF Races
  <2>6. CASE Pool!Creating # {}
    <3>1. raced' = raced \cup {r}
      BY <1>2, <2>6
    <3>2. Cardinality(raced') = Cardinality(raced) + 1
      BY <2>1, <3>1, PoolFinite, FS_AddElement
    <3>3. Cardinality(Pool!Creating) > 0
      BY <2>6, PoolFinite, FS_EmptySet
    <3> QED BY <2>2, <2>3, <2>4, <3>2, <3>3, PoolFinite DEF Races
  <2> QED BY <2>5, <2>6
<1> QED BY <1>1, <1>2

LEMMA CreatingEnds ==
    ASSUME PoolTyped, NEW r \in PoolRequests, opc[r] = "creating",
           NEW place \in {"got", "failed"}, opc' = [opc EXCEPT ![r] = place]
    PROVE  Cardinality(Pool!Creating') = Cardinality(Pool!Creating) - 1
<1>1. Pool!Creating' = Pool!Creating \ {r} /\ r \in Pool!Creating
  BY DEF Pool!Creating, PoolTyped
<1> QED BY <1>1, PoolFinite, FS_RemoveElement

LEMMA CreatedStep == ASSUME PoolInv, NEW r \in PoolRequests, Pool!Created(r) PROVE PoolInv'
<1> DEFINE p == Cardinality(open) + 1
<1>1. /\ pool' = p /\ open' = open \cup {p} /\ got' = [got EXCEPT ![r] = p]
      /\ opc[r] = "creating" /\ opc' = [opc EXCEPT ![r] = "got"] /\ UNCHANGED raced
  BY SameCardinality DEF Pool!Created, Pool!Keeps
<1>2. p \in Nat \ {0} /\ p \notin open /\ open' = 1..p
  BY <1>1, PoolFinite DEF PoolInv, PoolTyped
<1>3. IsFiniteSet(open') /\ Cardinality(open') = p
  <2>1. IsFiniteSet(open)
    BY DEF PoolInv, PoolTyped
  <2>2. Cardinality(open \cup {p}) = Cardinality(open) + 1 /\ IsFiniteSet(open \cup {p})
    <3> HIDE DEF p
    <3> QED BY <1>2, <2>1, FS_AddElement
  <2> QED BY <1>1, <2>2
<1>4. Cardinality(Pool!Creating') = Cardinality(Pool!Creating) - 1
  BY <1>1, CreatingEnds DEF PoolInv
<1>5. PoolTyped'
  BY <1>1, <1>2, <1>3 DEF PoolInv, PoolTyped
<1>6. Races'
  BY <1>1, <1>3, <1>4, PoolFinite DEF PoolInv, Races
<1> QED BY <1>5, <1>6 DEF PoolInv

LEMMA CreateFailsStep ==
    ASSUME PoolInv, NEW r \in PoolRequests, Pool!CreateFails(r) PROVE PoolInv'
<1>1. /\ opc[r] = "creating" /\ opc' = [opc EXCEPT ![r] = "failed"]
      /\ UNCHANGED <<open, got, raced, pool>>
  BY DEF Pool!CreateFails
<1>2. Cardinality(Pool!Creating') = Cardinality(Pool!Creating) - 1
  BY <1>1, CreatingEnds DEF PoolInv
<1>3. PoolTyped'
  BY <1>1 DEF PoolInv, PoolTyped
<1>4. Races'
  BY <1>1, <1>2, PoolFinite DEF PoolInv, Races
<1> QED BY <1>3, <1>4 DEF PoolInv

LEMMA PoolStep == PoolInv /\ [Pool!Next]_Pool!vars => PoolInv'
<1>1. ASSUME PoolInv, UNCHANGED Pool!vars PROVE PoolInv'
  BY <1>1 DEF Pool!vars, PoolInv, PoolTyped, Races, Pool!Creating
<1> QED BY <1>1, GetStep, CreatedStep, CreateFailsStep DEF Pool!Next

LEMMA LeaksWereRaces == PoolInv => Pool!LeakedPoolsWereRaces
<1> SUFFICES ASSUME PoolInv PROVE Pool!LeakedPoolsWereRaces
  OBVIOUS
<1>1. Cardinality(open \ {pool}) <= Cardinality(raced)
  <2>1. CASE pool = 0
    <3>1. open \ {pool} = {}
      BY <2>1 DEF PoolInv, PoolTyped
    <3> QED BY <3>1, PoolFinite, FS_EmptySet DEF PoolInv
  <2>2. CASE pool # 0
    <3>1. pool \in open
      BY <2>2 DEF PoolInv, PoolTyped
    <3>2. Cardinality(open \ {pool}) = Cardinality(open) - 1
      BY <3>1, FS_RemoveElement DEF PoolInv, PoolTyped
    <3>3. Cardinality(open) > 0
      BY <3>1, PoolFinite DEF PoolInv, PoolTyped
    <3> QED BY <3>2, <3>3, PoolFinite DEF PoolInv, Races
  <2> QED BY <2>1, <2>2
<1> QED BY <1>1, SameCardinality DEF Pool!LeakedPoolsWereRaces, PoolInv, PoolTyped

-----------------------------------------------------------------------------
(* Publishing to Notion                                                     *)

\* Where a publisher has the row, as long as its connection lasts.
OpenPcs == {"create", "reply", "commit"}

PagesTyped ==
    /\ DOMAIN npc = Publishers \cup Deleters
    /\ DOMAIN mine = Publishers /\ DOMAIN told = Publishers
    /\ pages \in Nat /\ stored \in Nat
    /\ \A t \in Publishers : mine[t] \in Nat

\* A publisher whose connection lasts has the row locked: nobody stores a page or deletes
\* the session before it does.
RowLocked ==
    \A t \in Publishers : npc[t] \in OpenPcs /\ t \notin cut =>
        nlock = t /\ stored = Notion!NoPage /\ status = "completed"

\* A request that waits for its reply or commits has a page.
PageCreated == \A t \in Publishers : npc[t] \in {"reply", "commit"} => mine[t] \in 1..pages

\* Who was told a page was told one that exists.
PageTold ==
    status # "deleted" =>
        \A t \in Publishers :
            npc[t] = "published" => told[t] = stored /\ stored # Notion!NoPage

PagesInv == PagesTyped /\ RowLocked /\ PageCreated /\ PageTold /\ Notion!OnePagePerSession

LEMMA PagesInit == Notion!Init => PagesInv
BY DEF Notion!Init, PagesInv, PagesTyped, RowLocked, OpenPcs, PageCreated, PageTold,
       Notion!OnePagePerSession, Notion!Tasks, Notion!NoPage

LEMMA PagesStep == PagesInv /\ [Notion!Next]_Notion!vars => PagesInv'
<1> SUFFICES ASSUME PagesInv, [Notion!Next]_Notion!vars PROVE PagesInv'
  OBVIOUS
<1> USE ServicesAssumption
<1> USE DEF PagesInv, PagesTyped, RowLocked, OpenPcs, PageCreated, PageTold,
            Notion!OnePagePerSession, Notion!Goto, Notion!Fault, Notion!Unlock, Notion!Tell,
            Notion!NoPage
<1>1. CASE Notion!Complete
  BY <1>1 DEF Notion!Complete
<1>2. ASSUME NEW t \in Publishers, Notion!Select(t) PROVE PagesInv'
  BY <1>2 DEF Notion!Select, Notion!Locks
<1>3. ASSUME NEW t \in Publishers, Notion!Create(t) PROVE PagesInv'
  BY <1>3 DEF Notion!Create
<1>4. ASSUME NEW t \in Publishers, Notion!Reply(t) PROVE PagesInv'
  BY <1>4 DEF Notion!Reply
<1>5. ASSUME NEW t \in Publishers, Notion!GiveUp(t) PROVE PagesInv'
  BY <1>5 DEF Notion!GiveUp
<1>6. ASSUME NEW t \in Publishers, Notion!CreateLate(t) PROVE PagesInv'
  BY <1>6 DEF Notion!CreateLate
<1>7. ASSUME NEW t \in Publishers, Notion!Commit(t) PROVE PagesInv'
  BY <1>7 DEF Notion!Commit
<1>8. ASSUME NEW t \in Publishers, Notion!Disconnect(t) PROVE PagesInv'
  BY <1>8 DEF Notion!Disconnect
<1>9. ASSUME NEW t \in Publishers, Notion!Crash(t) PROVE PagesInv'
  BY <1>9 DEF Notion!Crash
<1>10. ASSUME NEW t \in Deleters, Notion!Delete(t) PROVE PagesInv'
  BY <1>10 DEF Notion!Delete
<1>11. CASE UNCHANGED Notion!vars
  BY <1>11 DEF Notion!vars
<1> QED
  BY <1>1, <1>2, <1>3, <1>4, <1>5, <1>6, <1>7, <1>8, <1>9, <1>10, <1>11 DEF Notion!Next

-----------------------------------------------------------------------------
(* The components together                                                  *)

\* A behaviour is one of a single component, all the time.
LEMMA CallAlone == AllSpec => (which = "call" /\ Call!Spec) \/ []~(which = "call")
<1>1. AllInit /\ which = "call" => Call!Init
  BY DEF AllInit
<1>2. which = "call" /\ [AllNext]_allvars => (which = "call")' /\ [Call!Next]_Call!vars
  BY DEF AllNext, allvars, cvars, Call!vars
<1>3. ~(which = "call") /\ [AllNext]_allvars => (~(which = "call"))'
  BY DEF AllNext, allvars
<1> QED BY <1>1, <1>2, <1>3, PTL DEF AllSpec, Call!Spec

\* Whatever other callers do, and whatever fails, a caller of a model has an answer to its
\* own messages from the model of its role, or from the fallback model after all its
\* attempts; it gives up only then; and tokens are counted once for each answer that the
\* cache did not have (CachedChatModel, invoke_with_fallback, record_token_usage).
THEOREM CallersAnswered == AllSpec => []CallsAnswered
<1>1. Call!Spec => []CallInv
  BY CallInit, CallStep, PTL DEF Call!Spec
<1>2. CallInv => CallsAnswered
  BY DEF CallInv, CallsAnswered
<1>3. ~(which = "call") => CallsAnswered
  BY DEF CallsAnswered
<1> QED BY <1>1, <1>2, <1>3, CallAlone, PTL

LEMMA NotionAlone == AllSpec => (which = "notion" /\ Notion!Spec) \/ []~(which = "notion")
<1>1. AllInit /\ which = "notion" => Notion!Init
  BY DEF AllInit
<1>2. which = "notion" /\ [AllNext]_allvars => (which = "notion")' /\ [Notion!Next]_Notion!vars
  BY DEF AllNext, allvars, nvars, Notion!vars
<1>3. ~(which = "notion") /\ [AllNext]_allvars => (~(which = "notion"))'
  BY DEF AllNext, allvars
<1> QED BY <1>1, <1>2, <1>3, PTL DEF AllSpec, Notion!Spec

\* However many requests publish or delete a session at once, each page at Notion is the
\* stored one, a running request's or one that a fault cost its id, and everybody was told
\* the stored one: the FOR UPDATE of publish_debate_to_notion sees to it.
THEOREM OnePage == AllSpec => []PagesAccounted
<1>1. Notion!Spec => []PagesInv
  BY PagesInit, PagesStep, PTL DEF Notion!Spec
<1>2. PagesInv => PagesAccounted
  BY DEF PagesInv, PagesAccounted
<1>3. ~(which = "notion") => PagesAccounted
  BY DEF PagesAccounted
<1> QED BY <1>1, <1>2, <1>3, NotionAlone, PTL

LEMMA EvaluationAlone ==
    AllSpec => (which = "evaluation" /\ SessionProofs!Spec) \/ []~(which = "evaluation")
<1>1. AllInit /\ which = "evaluation" => SessionProofs!Init
  BY
     DEF AllInit, Evaluation!Init, Evaluation!Tasks, Evaluation!Background, Evaluation!Script,
         Evaluation!Ends, Evaluation!Ungraded, Evaluation!Metrics, Evaluation!None,
         SessionProofs!Init, SessionProofs!Tasks, SessionProofs!Background,
         SessionProofs!Script, SessionProofs!Ends, SessionProofs!Ungraded,
         SessionProofs!Metrics, SessionProofs!None
<1>2. Evaluation!Next => SessionProofs!Next
  BY
     DEF Evaluation!Init, Evaluation!Next, Evaluation!vars, Evaluation!NaN, Evaluation!None,
         Evaluation!Metrics, Evaluation!Ungraded, Evaluation!Background, Evaluation!Script,
         Evaluation!Tasks, Evaluation!Session, Evaluation!Ends, Evaluation!Goto,
         Evaluation!Scheduled, Evaluation!Conclude, Evaluation!Delete, Evaluation!HasSummary,
         Evaluation!HasExcerpts, Evaluation!Grades, Evaluation!Grade, Evaluation!Outcomes,
         Evaluation!Save, Evaluation!ScoreSummary, Evaluation!ScoreEvidence,
         Evaluation!ErrorWith, Evaluation!Row, Evaluation!OnRecord, Evaluation!AfterSave,
         Evaluation!SaveScore, Evaluation!RunSession, Evaluation!RunGolden, Evaluation!Minimum,
         Evaluation!Reaches, Evaluation!Unknown, Evaluation!Passes, Evaluation!Verdict,
         Evaluation!GiveVerdict, Evaluation!WriteReport, Evaluation!Die, Evaluation!script,
         SessionProofs!Init, SessionProofs!Next, SessionProofs!vars, SessionProofs!NaN,
         SessionProofs!None, SessionProofs!Metrics, SessionProofs!Ungraded,
         SessionProofs!Background, SessionProofs!Script, SessionProofs!Tasks,
         SessionProofs!Session, SessionProofs!Ends, SessionProofs!Goto,
         SessionProofs!Scheduled, SessionProofs!Conclude, SessionProofs!Delete,
         SessionProofs!HasSummary, SessionProofs!HasExcerpts, SessionProofs!Grades,
         SessionProofs!Grade, SessionProofs!Outcomes, SessionProofs!Save,
         SessionProofs!ScoreSummary, SessionProofs!ScoreEvidence, SessionProofs!ErrorWith,
         SessionProofs!Row, SessionProofs!OnRecord, SessionProofs!AfterSave,
         SessionProofs!SaveScore, SessionProofs!RunSession, SessionProofs!RunGolden,
         SessionProofs!Minimum, SessionProofs!Reaches, SessionProofs!Unknown,
         SessionProofs!Passes, SessionProofs!Verdict, SessionProofs!GiveVerdict,
         SessionProofs!WriteReport, SessionProofs!Die, SessionProofs!script
<1>3. which = "evaluation" /\ [AllNext]_allvars =>
          (which = "evaluation")' /\ [SessionProofs!Next]_SessionProofs!vars
  BY <1>2 DEF AllNext, allvars, evars, SessionProofs!vars
<1>4. ~(which = "evaluation") /\ [AllNext]_allvars => (~(which = "evaluation"))'
  BY DEF AllNext, allvars
<1> QED BY <1>1, <1>3, <1>4, PTL DEF AllSpec, SessionProofs!Spec


LEMMA RegressionAlone ==
    AllSpec => (which = "regression" /\ CaseProofs!Spec) \/ []~(which = "regression")
<1>1. AllInit /\ which = "regression" => CaseProofs!Init
  BY
     DEF AllInit, Regression!Init, Regression!Tasks, Regression!Background, Regression!Script,
         Regression!Ends, Regression!Ungraded, Regression!Metrics, Regression!None,
         CaseProofs!Init, CaseProofs!Tasks, CaseProofs!Background, CaseProofs!Script,
         CaseProofs!Ends, CaseProofs!Ungraded, CaseProofs!Metrics, CaseProofs!None
<1>2. Regression!Next => CaseProofs!Next
  BY
     DEF Regression!Init, Regression!Next, Regression!vars, Regression!NaN, Regression!None,
         Regression!Metrics, Regression!Ungraded, Regression!Background, Regression!Script,
         Regression!Tasks, Regression!Session, Regression!Ends, Regression!Goto,
         Regression!Scheduled, Regression!Conclude, Regression!Delete, Regression!HasSummary,
         Regression!HasExcerpts, Regression!Grades, Regression!Grade, Regression!Outcomes,
         Regression!Save, Regression!ScoreSummary, Regression!ScoreEvidence,
         Regression!ErrorWith, Regression!Row, Regression!OnRecord, Regression!AfterSave,
         Regression!SaveScore, Regression!RunSession, Regression!RunGolden, Regression!Minimum,
         Regression!Reaches, Regression!Unknown, Regression!Passes, Regression!Verdict,
         Regression!GiveVerdict, Regression!WriteReport, Regression!Die, Regression!script,
         CaseProofs!Init, CaseProofs!Next, CaseProofs!vars, CaseProofs!NaN, CaseProofs!None,
         CaseProofs!Metrics, CaseProofs!Ungraded, CaseProofs!Background, CaseProofs!Script,
         CaseProofs!Tasks, CaseProofs!Session, CaseProofs!Ends, CaseProofs!Goto,
         CaseProofs!Scheduled, CaseProofs!Conclude, CaseProofs!Delete, CaseProofs!HasSummary,
         CaseProofs!HasExcerpts, CaseProofs!Grades, CaseProofs!Grade, CaseProofs!Outcomes,
         CaseProofs!Save, CaseProofs!ScoreSummary, CaseProofs!ScoreEvidence,
         CaseProofs!ErrorWith, CaseProofs!Row, CaseProofs!OnRecord, CaseProofs!AfterSave,
         CaseProofs!SaveScore, CaseProofs!RunSession, CaseProofs!RunGolden, CaseProofs!Minimum,
         CaseProofs!Reaches, CaseProofs!Unknown, CaseProofs!Passes, CaseProofs!Verdict,
         CaseProofs!GiveVerdict, CaseProofs!WriteReport, CaseProofs!Die, CaseProofs!script
<1>3. which = "regression" /\ [AllNext]_allvars =>
          (which = "regression")' /\ [CaseProofs!Next]_CaseProofs!vars
  BY <1>2 DEF AllNext, allvars, evars, CaseProofs!vars
<1>4. ~(which = "regression") /\ [AllNext]_allvars => (~(which = "regression"))'
  BY DEF AllNext, allvars
<1> QED BY <1>1, <1>3, <1>4, PTL DEF AllSpec, CaseProofs!Spec

LEMMA PoolAlone == AllSpec => (which = "pool" /\ Pool!Spec) \/ []~(which = "pool")
<1>1. AllInit /\ which = "pool" => Pool!Init
  BY DEF AllInit
<1>2. which = "pool" /\ [AllNext]_allvars => (which = "pool")' /\ [Pool!Next]_Pool!vars
  BY DEF AllNext, allvars, ovars, Pool!vars
<1>3. ~(which = "pool") /\ [AllNext]_allvars => (~(which = "pool"))'
  BY DEF AllNext, allvars
<1> QED BY <1>1, <1>2, <1>3, PTL DEF AllSpec, Pool!Spec

\* The scores of the sessions (DebateEvaluation_proofs).
LEMMA SessionsScored ==
    SessionProofs!Spec =>
        [](/\ Evaluation!MissingGradeExplained /\ Evaluation!ScoresComplete
           /\ Evaluation!ScoresHaveSession /\ Evaluation!ReportIsWhole)
<1>1. SessionProofs!Constants
  BY ServicesAssumption DEF SessionProofs!Constants
<1>2. SessionProofs!Spec => /\ []SessionProofs!MissingGradeExplained
                           /\ []SessionProofs!ScoresComplete
                           /\ []SessionProofs!ScoresHaveSession
                           /\ []SessionProofs!ReportIsWhole
  BY <1>1, SessionProofs!GradesExplained, SessionProofs!CompleteScores,
     SessionProofs!ScoresOnRecord, SessionProofs!ReportsAreWhole
<1>3. SessionProofs!MissingGradeExplained => Evaluation!MissingGradeExplained
  BY DEF SessionProofs!MissingGradeExplained, Evaluation!MissingGradeExplained,
         SessionProofs!None, Evaluation!None
<1>4. SessionProofs!ScoresComplete => Evaluation!ScoresComplete
  BY DEF SessionProofs!ScoresComplete, Evaluation!ScoresComplete, SessionProofs!RowsBy,
         Evaluation!RowsBy
<1>5. SessionProofs!ScoresHaveSession => Evaluation!ScoresHaveSession
  BY DEF SessionProofs!ScoresHaveSession, Evaluation!ScoresHaveSession
<1>6. SessionProofs!ReportIsWhole => Evaluation!ReportIsWhole
  BY DEF SessionProofs!ReportIsWhole, Evaluation!ReportIsWhole
<1> QED BY <1>2, <1>3, <1>4, <1>5, <1>6, PTL

\* The verdicts on the golden cases.
LEMMA CasesJudged ==
    CaseProofs!Spec =>
        [](/\ Regression!PassWasScored /\ Regression!ReportIsWhole
           /\ Regression!ScoresHaveSession)
<1>1. CaseProofs!Constants
  BY ServicesAssumption DEF CaseProofs!Constants
<1>2. CaseProofs!Spec => /\ []CaseProofs!PassWasScored /\ []CaseProofs!ReportIsWhole
                        /\ []CaseProofs!ScoresHaveSession
  BY <1>1, CaseProofs!PassesAreScored, CaseProofs!ReportsAreWhole, CaseProofs!ScoresOnRecord
<1>3. CaseProofs!PassWasScored => Regression!PassWasScored
  BY
     DEF CaseProofs!PassWasScored, CaseProofs!Script, CaseProofs!Verdict, CaseProofs!Minimum,
         CaseProofs!NaN, CaseProofs!Passes, CaseProofs!Unknown, CaseProofs!Reaches,
         CaseProofs!None, Regression!PassWasScored, Regression!Script, Regression!Verdict,
         Regression!Minimum, Regression!NaN, Regression!Passes, Regression!Unknown,
         Regression!Reaches, Regression!None
<1>4. CaseProofs!ReportIsWhole => Regression!ReportIsWhole
  BY DEF CaseProofs!ReportIsWhole, Regression!ReportIsWhole
<1>5. CaseProofs!ScoresHaveSession => Regression!ScoresHaveSession
  BY DEF CaseProofs!ScoresHaveSession, Regression!ScoresHaveSession
<1> QED BY <1>2, <1>3, <1>4, <1>5, PTL

\* A debate's scores are complete once its tasks are over, no score outlives its session,
\* a row without a grade tells why, a golden case passes by grades only, and a report has
\* one verdict on each case (domain/debate_evaluation.py, run_ragas_eval.py); and a pool
\* that nobody can close comes from a first request that raced with another one's
\* creation (get_pool).
THEOREM BackgroundWork == AllSpec => []BackgroundAccounted
<1>1. Pool!Spec => []PoolInv
  BY PoolInit, PoolStep, PTL DEF Pool!Spec
<1> DEFINE InSessions ==
               /\ Evaluation!MissingGradeExplained /\ Evaluation!ScoresComplete
               /\ Evaluation!ScoresHaveSession /\ Evaluation!ReportIsWhole
           InCases == /\ Regression!PassWasScored /\ Regression!ReportIsWhole
                      /\ Regression!ScoresHaveSession
<1>2. AllSpec => [](which = "evaluation" => InSessions)
  <2>1. SessionProofs!Spec => []InSessions
    BY SessionsScored
  <2> QED BY <2>1, EvaluationAlone, PTL
<1>3. AllSpec => [](which = "regression" => InCases)
  <2>1. CaseProofs!Spec => []InCases
    BY CasesJudged
  <2> QED BY <2>1, RegressionAlone, PTL
<1>4. AllSpec => [](which = "pool" => Pool!LeakedPoolsWereRaces)
  BY <1>1, LeaksWereRaces, PoolAlone, PTL
<1>5. /\ which = "evaluation" => InSessions
      /\ which = "regression" => InCases
      /\ which = "pool" => Pool!LeakedPoolsWereRaces
      => BackgroundAccounted
  BY DEF BackgroundAccounted
<1> QED BY <1>2, <1>3, <1>4, <1>5, PTL
=============================================================================
