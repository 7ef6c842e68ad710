---------------------------- MODULE Evidence_proofs ----------------------------
(***************************************************************************)
(* The components that make evidence of what other services publish, for    *)
(* every value of the constants: the verdict of a document, the ratios and  *)
(* the history of prices of a stock, the quote of the day, the list of      *)
(* filings, the evidence of a debate and its fusion, the feed of a user,    *)
(* the text of filings and the selection of news.  Each component is argued *)
(* about alone; a last lemma of each part says that a behaviour of the      *)
(* composition is one of it or leaves it parked.                            *)
(***************************************************************************)
EXTENDS Evidence, FiniteSetTheorems, SequenceTheorems, TLAPS

-----------------------------------------------------------------------------
(* The verdict of a document.  None of the branches of the rule engine      *)
(* yields a sentiment and an impact of opposite signs, so what is stored is *)
(* what it yields.                                                          *)

Verdicts == [sentiment : VALID_SENTIMENTS, impact : -2..2]

\* A verdict of the rule engine: of its type, and its parts agree.
Sound(v) == v \in Verdicts /\ ~Mismatch(v)

-----------------------------------------------------------------------------
(* The rule engine                                                          *)

\* Clamping to a range around zero stays in it and keeps the sign.
LEMMA ClampKeepsSign ==
    ASSUME NEW m \in 1..2, NEW n \in Int
    PROVE  /\ Clamp(-m, m, n) \in (-m)..m
           /\ n > 0 => Clamp(-m, m, n) > 0
           /\ n < 0 => Clamp(-m, m, n) < 0
  BY DEF Clamp

\* The impact that the engine starts from has the sign of the sentiment.
LEMMA BaseImpactAgrees ==
    ASSUME NEW s \in VALID_SENTIMENTS, NEW impact \in SUBSET Int
    PROVE  /\ BaseImpact(s, impact) \in -2..2
           /\ s = "positive" => BaseImpact(s, impact) > 0
           /\ s = "negative" => BaseImpact(s, impact) < 0
<1>1. CASE \E i \in impact : Usable(s, i)
  <2> DEFINE c == CHOOSE i \in impact : Usable(s, i)
  <2>1. c \in impact /\ Usable(s, c)
    BY <1>1
  <2>2. BaseImpact(s, impact) = Clamp(-2, 2, c)
    BY <1>1 DEF BaseImpact
  <2> HIDE DEF c
  <2>3. /\ s = "positive" => c > 0
        /\ s = "negative" => c < 0
    BY <2>1 DEF Usable
  <2> QED
    BY <2>1, <2>2, <2>3, ClampKeepsSign
<1>2. CASE ~ \E i \in impact : Usable(s, i)
  <2>1. BaseImpact(s, impact) = DefaultImpact(s)
    BY <1>2 DEF BaseImpact
  <2> QED
    BY <2>1 DEF DefaultImpact
<1> QED
  BY <1>1, <1>2

\* If a rule matches, one decides.
LEMMA SomeRuleDecides ==
    ASSUME NEW d \in Documents, d.rules # {}
    PROVE  Deciding(d) \in Rules
<1> DEFINE First(i) == /\ RuleOrder[i] \in d.rules
                       /\ \A j \in 1..(i - 1) : RuleOrder[j] \notin d.rules
<1>1. /\ Len(RuleOrder) = 5
      /\ RuleOrder[1] = "hardNegative" /\ RuleOrder[2] = "hardPositive"
      /\ RuleOrder[3] = "mixedEvent" /\ RuleOrder[4] = "critical" /\ RuleOrder[5] = "admin"
  BY DEF RuleOrder
<1>2. d.rules \subseteq Rules
  BY DEF Documents
<1>3. PICK k \in 1..5 : RuleOrder[k] \in d.rules
  BY <1>1, <1>2 DEF Rules
<1>4. \E i \in 1..5 : First(i)
  <2>1. CASE RuleOrder[1] \in d.rules
    <3>1. First(1)
      BY <2>1
    <3> QED
      BY <3>1
  <2>2. CASE RuleOrder[1] \notin d.rules /\ RuleOrder[2] \in d.rules
    <3>1. 1..(2 - 1) = {1}
      OBVIOUS
    <3>2. First(2)
      BY <2>2, <3>1
    <3> QED
      BY <3>2
  <2>3. CASE RuleOrder[1] \notin d.rules /\ RuleOrder[2] \notin d.rules
             /\ RuleOrder[3] \in d.rules
    <3>1. 1..(3 - 1) = {1, 2}
      OBVIOUS
    <3>2. First(3)
      BY <2>3, <3>1
    <3> QED
      BY <3>2
  <2>4. CASE RuleOrder[1] \notin d.rules /\ RuleOrder[2] \notin d.rules
             /\ RuleOrder[3] \notin d.rules /\ RuleOrder[4] \in d.rules
    <3>1. 1..(4 - 1) = {1, 2, 3}
      OBVIOUS
    <3>2. First(4)
      BY <2>4, <3>1
    <3> QED
      BY <3>2
  <2>5. CASE RuleOrder[1] \notin d.rules /\ RuleOrder[2] \notin d.rules
             /\ RuleOrder[3] \notin d.rules /\ RuleOrder[4] \notin d.rules
    <3>1. k = 5
      BY <1>3, <2>5
    <3>2. 1..(5 - 1) = {1, 2, 3, 4}
      OBVIOUS
    <3>3. First(5)
      BY <1>3, <2>5, <3>1, <3>2
    <3> QED
      BY <3>3
  <2> QED
    BY <2>1, <2>2, <2>3, <2>4, <2>5
<1> DEFINE c == CHOOSE i \in 1..5 : First(i)
<1>5. c \in 1..5
  <2> HIDE DEF First
  <2> QED
    BY <1>4
<1>6. Deciding(d) = RuleOrder[c]
  BY <1>1 DEF Deciding
<1>7. Rules = {RuleOrder[i] : i \in 1..5}
  BY <1>1 DEF Rules
<1> HIDE DEF c
<1> QED
  BY <1>5, <1>6, <1>7

\* What a rule that decides alone yields.
LEMMA RuleSound ==
    ASSUME NEW d \in Documents, d.rules # {}
    PROVE  Sound(OfRule(Deciding(d), d))
<1> DEFINE r == Deciding(d)
<1>1. r \in {"hardNegative", "hardPositive", "mixedEvent", "critical", "admin"}
  <2>1. Rules = {"hardNegative", "hardPositive", "mixedEvent", "critical", "admin"}
    <3>1. Len(RuleOrder) = 5 /\ 1..5 = {1, 2, 3, 4, 5}
      BY DEF RuleOrder
    <3> QED
      BY <3>1 DEF Rules, RuleOrder
  <2> QED
    BY <2>1, SomeRuleDecides
<1>2. \A matches : Strong(matches) \in 1..2
  BY DEF Strong
<1> HIDE DEF r
<1>3. Sound(OfRule(r, d))
  <2>1. CASE r = "hardNegative"
    BY <2>1, <1>2 DEF OfRule, Verdict, Sound, Verdicts, Mismatch, VALID_SENTIMENTS
  <2>2. CASE r = "hardPositive"
    BY <2>2, <1>2 DEF OfRule, Verdict, Sound, Verdicts, Mismatch, VALID_SENTIMENTS
  <2>3. CASE r \in {"mixedEvent", "critical", "admin"}
    BY <2>3 DEF OfRule, Verdict, Neutral, Sound, Verdicts, Mismatch, VALID_SENTIMENTS
  <2> QED
    BY <1>1, <2>1, <2>2, <2>3
<1> QED
  BY <1>3 DEF r

\* What the keywords yield.
LEMMA KeywordsSound ==
    ASSUME NEW d \in Documents, d.pos > 0 \/ d.neg > 0,
           NEW base \in VALID_SENTIMENTS, NEW impact \in -2..2
    PROVE  Sound(OfKeywords(d, base, impact))
<1>1. d.pos \in Nat /\ d.neg \in Nat
  BY AnalysisAssumption DEF Documents
<1>2. \A matches : Strong(matches) \in 1..2
  BY DEF Strong
<1>3. CASE d.pos > 0 /\ d.neg > 0
  <2>1. Leaning(d) \in -1..1
    BY <1>1 DEF Leaning
  <2>2. Clamp(-1, 1, impact + Leaning(d)) \in -1..1
    BY <2>1, ClampKeepsSign
  <2>3. OfKeywords(d, base, impact) = Verdict("mixed", Clamp(-1, 1, impact + Leaning(d)))
    BY <1>3 DEF OfKeywords
  <2> QED
    BY <2>2, <2>3 DEF Verdict, Sound, Verdicts, Mismatch, VALID_SENTIMENTS
<1>4. CASE d.pos > 0 /\ d.neg = 0
  <2>1. OfKeywords(d, base, impact) = IF base = "negative" THEN Verdict("mixed", 0)
                                      ELSE Verdict("positive", Strong(d.pos))
    BY <1>4, <1>1 DEF OfKeywords
  <2> QED
    BY <2>1, <1>2 DEF Verdict, Sound, Verdicts, Mismatch, VALID_SENTIMENTS
<1>5. CASE d.pos = 0 /\ d.neg > 0
  <2>1. OfKeywords(d, base, impact) = IF base = "positive" THEN Verdict("mixed", 0)
                                      ELSE Verdict("negative", -Strong(d.neg))
    BY <1>5, <1>1 DEF OfKeywords
  <2> QED
    BY <2>1, <1>2 DEF Verdict, Sound, Verdicts, Mismatch, VALID_SENTIMENTS
<1> QED
  BY <1>1, <1>3, <1>4, <1>5

\* What the engine yields, whatever label and impact it is given.
LEMMA ApplySound ==
    ASSUME NEW d \in Documents, NEW s, NEW impact \in SUBSET Int
    PROVE  Sound(Apply(d, s, impact))
<1> DEFINE base == IF s \in VALID_SENTIMENTS THEN s ELSE "neutral"
           amount == BaseImpact(base, impact)
<1>1. base \in VALID_SENTIMENTS
  BY DEF VALID_SENTIMENTS
<1>2. /\ amount \in -2..2
      /\ base = "positive" => amount > 0
      /\ base = "negative" => amount < 0
  <2> HIDE DEF base
  <2> QED
    BY <1>1, BaseImpactAgrees
<1>3. Apply(d, s, impact) = IF d.rules # {} THEN OfRule(Deciding(d), d)
                            ELSE IF d.pos > 0 \/ d.neg > 0 THEN OfKeywords(d, base, amount)
                            ELSE IF s \in VALID_SENTIMENTS THEN Verdict(base, amount)
                            ELSE Neutral
  BY DEF Apply
<1> HIDE DEF base, amount
<1>4. Sound(Verdict(base, amount))
  BY <1>1, <1>2 DEF Verdict, Sound, Verdicts, Mismatch
<1>5. Sound(Neutral)
  BY DEF Neutral, Verdict, Sound, Verdicts, Mismatch, VALID_SENTIMENTS
<1>6. d.rules # {} => Sound(OfRule(Deciding(d), d))
  BY RuleSound
<1>7. d.pos > 0 \/ d.neg > 0 => Sound(OfKeywords(d, base, amount))
  BY <1>1, <1>2, KeywordsSound
<1> QED
  BY <1>3, <1>4, <1>5, <1>6, <1>7

-----------------------------------------------------------------------------
(* What is stored                                                           *)

\* The harness stores a sound verdict as it is.
LEMMA StoredAsItIs ==
    ASSUME NEW v, Sound(v), NEW summary, NEW points
    PROVE  /\ Stored(v, summary, points).verdict = v
           /\ Stored(v, summary, points).repaired = FALSE
  BY DEF Stored, Sound

\* A baseline, or an answer that could not be used.
LEMMA PlainSound ==
    ASSUME NEW d \in Documents, NEW label
    PROVE  /\ PlainAnalysis(d, label).verdict = Apply(d, label, {})
           /\ PlainAnalysis(d, label).repaired = FALSE
           /\ Sound(Apply(d, label, {}))
<1>1. Sound(Apply(d, label, {}))
  BY ApplySound
<1> QED
  BY <1>1, StoredAsItIs DEF PlainAnalysis

\* An answer of the model; of a news it changes neither sentiment nor impact.
LEMMA AnsweredSound ==
    ASSUME NEW d \in Documents, NEW label, NEW answer \in Answers
    PROVE  /\ Sound(Analysis(d, label, answer).verdict)
           /\ Analysis(d, label, answer).repaired = FALSE
           /\ d.rules # {} => Analysis(d, label, answer).verdict = OfRule(Deciding(d), d)
           /\ d.kind = "news" => Analysis(d, label, answer).verdict = Apply(d, label, {})
<1> DEFINE v == Apply(d, Sentiment(d, label, answer), Impact(d, answer))
<1>1. answer.impact \in SUBSET Int
  BY AnalysisAssumption DEF Answers
<1>2. Impact(d, answer) \in SUBSET Int
  BY <1>1 DEF Impact, Clamp
<1>3. Sound(v)
  BY <1>2, ApplySound
<1>4. d.rules # {} => v = OfRule(Deciding(d), d)
  BY DEF Apply
<1>5. d.kind = "news" => v = Apply(d, label, {})
  BY DEF Sentiment, Impact
<1>6. PICK summary, points : Analysis(d, label, answer) = Stored(v, summary, points)
  BY DEF Analysis
<1>7. Analysis(d, label, answer).verdict = v /\ Analysis(d, label, answer).repaired = FALSE
  <2> HIDE DEF v
  <2> QED
    BY <1>3, <1>6 DEF Stored, Sound
<1> HIDE DEF v
<1> QED
  BY <1>3, <1>4, <1>5, <1>7

-----------------------------------------------------------------------------
(* The invariant                                                            *)

\* Until the worker has been at it, the verdict stored is that of the baseline, which is
\* what the engine makes of the classifier's label alone.
UntilEnriched ==
    stage \in {"baseline", "queued"} =>
        /\ baseline = Apply(doc, hf, {})
        /\ result.verdict = baseline

\* A document that waits for the worker has passed the gate.
QueuedForReason ==
    stage = "queued" => \/ doc.kind = "filing" /\ filing_needs_qwen(doc)
                        \/ doc.kind = "news" /\ news_needs_qwen(baseline)

IInv == TypeOK /\ HarnessNeverRepairs /\ ModelCannotOverrule /\ UntilEnriched /\ QueuedForReason

LEMMA InitIInv == Init => IInv
<1> SUFFICES ASSUME Init PROVE IInv
  OBVIOUS
<1>1. Sound(Neutral)
  BY DEF Neutral, Verdict, Sound, Verdicts, Mismatch, VALID_SENTIMENTS
<1>2. TypeOK
  BY <1>1 DEF Init, TypeOK, NoResult, Sound, Verdicts, Labels
<1> QED
  BY <1>2 DEF Init, IInv, HarnessNeverRepairs, ModelCannotOverrule, RuleDecidesAlone,
              NewsVerdictKept, UntilEnriched, QueuedForReason, NoResult

LEMMA BaselineIInv ==
    ASSUME IInv, Baseline PROVE IInv'
<1>1. /\ doc \in Documents /\ doc' = doc /\ hf' = hf /\ again' = again /\ asked' = asked
      /\ result' = PlainAnalysis(doc, hf) /\ baseline' = result'.verdict
      /\ stage' = "baseline"
  BY DEF IInv, TypeOK, Baseline
<1>2. /\ result'.verdict = Apply(doc, hf, {}) /\ result'.repaired = FALSE
      /\ Sound(Apply(doc, hf, {}))
  BY <1>1, PlainSound
<1>3. doc.rules # {} => Apply(doc, hf, {}) = OfRule(Deciding(doc), doc)
  BY DEF Apply
<1>4. TypeOK'
  BY <1>1, <1>2 DEF IInv, TypeOK, Sound, Verdicts
<1>5. HarnessNeverRepairs' /\ UntilEnriched' /\ QueuedForReason'
  BY <1>1, <1>2 DEF HarnessNeverRepairs, UntilEnriched, QueuedForReason
<1>6. ModelCannotOverrule'
  BY <1>1, <1>2, <1>3 DEF ModelCannotOverrule, RuleDecidesAlone, NewsVerdictKept
<1> QED
  BY <1>4, <1>5, <1>6 DEF IInv

LEMMA MaybeEnrichIInv ==
    ASSUME IInv, MaybeEnrich PROVE IInv'
<1>1. /\ stage = "baseline" /\ stage' \in {"queued", "done"}
      /\ doc' = doc /\ hf' = hf /\ again' = again /\ asked' = asked
      /\ baseline' = baseline /\ result' = result
  BY DEF MaybeEnrich
<1>2. stage' = "queued" => \/ doc.kind = "filing" /\ filing_needs_qwen(doc)
                           \/ doc.kind = "news" /\ news_needs_qwen(baseline)
  BY DEF MaybeEnrich
<1>3. TypeOK' /\ HarnessNeverRepairs' /\ UntilEnriched' /\ QueuedForReason'
  BY <1>1, <1>2 DEF IInv, TypeOK, HarnessNeverRepairs, UntilEnriched, QueuedForReason,
                    filing_needs_qwen, news_needs_qwen
<1>4. ModelCannotOverrule'
  BY <1>1 DEF IInv, ModelCannotOverrule, RuleDecidesAlone, NewsVerdictKept, UntilEnriched
<1> QED
  BY <1>3, <1>4 DEF IInv

LEMMA EnrichIInv ==
    ASSUME IInv, Enrich PROVE IInv'
<1>1. /\ stage = "queued" /\ stage' = "done" /\ doc \in Documents
      /\ doc' = doc /\ hf' = hf /\ baseline' = baseline
      /\ again' \in {hf, "none"} /\ asked' = Gate(doc, again')
      /\ hf \in Labels /\ baseline = Apply(doc, hf, {})
  BY DEF Enrich, IInv, TypeOK, UntilEnriched
<1>2. /\ Sound(result'.verdict) /\ result'.repaired = FALSE
      /\ doc.rules # {} => result'.verdict = OfRule(Deciding(doc), doc)
      /\ doc.kind = "news" => result'.verdict = Apply(doc, again', {})
  <2>1. CASE result' = PlainAnalysis(doc, again')
    <3>1. /\ result'.verdict = Apply(doc, again', {}) /\ result'.repaired = FALSE
          /\ Sound(Apply(doc, again', {}))
      BY <1>1, <2>1, PlainSound
    <3>2. doc.rules # {} => Apply(doc, again', {}) = OfRule(Deciding(doc), doc)
      BY DEF Apply
    <3> QED
      BY <3>1, <3>2
  <2>2. CASE \E answer \in Answers : result' = Analysis(doc, again', answer)
    <3>1. PICK answer \in Answers : result' = Analysis(doc, again', answer)
      BY <2>2
    <3> QED
      BY <1>1, <3>1, AnsweredSound
  <2> QED
    BY <2>1, <2>2 DEF Enrich
<1>3. asked' \in BOOLEAN
  BY <1>1 DEF Gate, filing_needs_qwen
<1>4. again' \in Labels
  BY <1>1 DEF Labels
<1>5. TypeOK'
  BY <1>1, <1>2, <1>3, <1>4 DEF IInv, TypeOK, Sound, Verdicts
<1>6. HarnessNeverRepairs' /\ UntilEnriched' /\ QueuedForReason'
  BY <1>1, <1>2 DEF HarnessNeverRepairs, UntilEnriched, QueuedForReason
<1>7. ModelCannotOverrule'
  BY <1>1, <1>2 DEF ModelCannotOverrule, RuleDecidesAlone, NewsVerdictKept
<1> QED
  BY <1>5, <1>6, <1>7 DEF IInv

LEMMA NextIInv == IInv /\ [Next]_vars => IInv'
<1> SUFFICES ASSUME IInv, [Next]_vars PROVE IInv'
  OBVIOUS
<1>1. CASE Baseline
  BY <1>1, BaselineIInv
<1>2. CASE MaybeEnrich
  BY <1>2, MaybeEnrichIInv
<1>3. CASE Enrich
  BY <1>3, EnrichIInv
<1>4. CASE UNCHANGED vars
  BY <1>4 DEF vars, IInv, TypeOK, HarnessNeverRepairs, ModelCannotOverrule,
              RuleDecidesAlone, NewsVerdictKept, UntilEnriched, QueuedForReason
<1> QED
  BY <1>1, <1>2, <1>3, <1>4 DEF Next

\* The invariant holds in every state of every behaviour.
THEOREM IInvHolds == Spec => []IInv
<1> QED
  BY InitIInv, NextIInv, PTL DEF Spec

-----------------------------------------------------------------------------
(* The properties                                                           *)

\* The verdict that the rule engine hands to the harness never has a positive sentiment
\* with a negative impact, or the other way round (_apply_harness).
THEOREM HarnessIdle == Spec => []HarnessNeverRepairs
<1>1. IInv => HarnessNeverRepairs
  BY DEF IInv
<1> QED
  BY <1>1, IInvHolds, PTL

\* A rule that decides alone is overruled by nobody, and the verdict on a news by no
\* answer of the model (_analyze_text_impl, enrich_news_row).
THEOREM ModelOverrulesNothing == Spec => []ModelCannotOverrule
<1>1. IInv => ModelCannotOverrule
  BY DEF IInv
<1> QED
  BY <1>1, IInvHolds, PTL

\* A neutral label, or none, and neither rules nor keywords: nothing of interest.
LEMMA NothingOfInterest ==
    ASSUME NEW d \in Documents, NEW label \in {"neutral", "none"},
           d.rules = {}, d.pos + d.neg = 0, MinImpact > 0
    PROVE  ~news_needs_qwen(Apply(d, label, {}))
<1>1. d.pos = 0 /\ d.neg = 0
  BY AnalysisAssumption DEF Documents
<1>2. Apply(d, label, {}) = Verdict("neutral", 0)
  BY <1>1 DEF Apply, BaseImpact, DefaultImpact, Neutral, VALID_SENTIMENTS
<1> QED
  BY <1>2, AnalysisAssumption DEF news_needs_qwen, Verdict, Abs

\* With a threshold above zero, a job of the worker that asks the model nothing is about a
\* news that its rules or keywords made interesting and its classifier did not
\* (news_needs_qwen and enrich_news_row).
THEOREM IdleJobs ==
    ASSUME MinImpact > 0 PROVE Spec => JobWithoutQuestion
<1>1. IInv /\ [Next]_vars =>
        [Enrich /\ ~asked' => doc.kind = "news" /\ again' \in {"neutral", "none"}
            /\ (hf \in {"neutral", "none"} => doc.rules # {} \/ doc.pos + doc.neg > 0)]_vars
  <2> SUFFICES ASSUME IInv, Enrich, ~asked'
               PROVE  /\ doc.kind = "news" /\ again' \in {"neutral", "none"}
                      /\ hf \in {"neutral", "none"} => doc.rules # {} \/ doc.pos + doc.neg > 0
    OBVIOUS
  <2>1. /\ stage = "queued" /\ doc \in Documents /\ hf \in Labels
        /\ again' \in {hf, "none"} /\ ~Gate(doc, again')
        /\ baseline = Apply(doc, hf, {})
        /\ \/ doc.kind = "filing" /\ filing_needs_qwen(doc)
           \/ doc.kind = "news" /\ news_needs_qwen(baseline)
    BY DEF IInv, TypeOK, UntilEnriched, QueuedForReason, Enrich
  <2>2. doc.kind = "news" /\ again' \in {"neutral", "none"}
    BY <2>1 DEF Gate
  <2>3. doc.pos \in Nat /\ doc.neg \in Nat
    BY <2>1, AnalysisAssumption DEF Documents
  <2>4. CASE hf \in {"neutral", "none"} /\ doc.rules = {} /\ doc.pos + doc.neg = 0
    <3>1. ~news_needs_qwen(Apply(doc, hf, {}))
      BY <2>1, <2>4, NothingOfInterest
    <3>2. FALSE
      BY <2>1, <2>2, <3>1
    <3> QED
      BY <3>2
  <2> QED
    BY <2>2, <2>3, <2>4
<1> QED
  BY <1>1, IInvHolds, PTL DEF Spec, JobWithoutQuestion

-----------------------------------------------------------------------------
(* PER and PBR                                                              *)

\* A set of naturals that is not empty has a least member.
LEMMA HasLeast ==
    ASSUME NEW S, S \subseteq Nat, S # {}
    PROVE  \E m \in S : \A q \in S : m <= q
<1>1. PICK m \in S : \A q \in S : <<q, m>> \notin OpToRel(<, Nat)
  BY WFMin, NatLessThanWellFounded, Zenon
<1>2. \A q \in S : ~(q < m)
  BY <1>1 DEF OpToRel
<1> QED BY <1>2

\* A set of naturals below a bound that is not empty has a latest member.
LEMMA HasLatest ==
    ASSUME NEW n \in Nat, NEW S, S \subseteq 1..n, S # {}
    PROVE  \E m \in S : \A q \in S : q <= m
<1> DEFINE After(q) == {p \in S : p > q}
           R == StrictSubsetOrdering(S)
<1>1. IsFiniteSet(S)
  <2>1. IsFiniteSet(1..n)
    BY FS_Interval
  <2> QED BY <2>1, FS_Subset
<1>2. IsWellFoundedOn(R, SUBSET S)
  BY <1>1, FS_StrictSubsetOrderingWellFounded, FS_FiniteSubsetsOfFinite
<1> DEFINE T == {After(q) : q \in S}
<1>3. T \subseteq SUBSET S /\ T # {}
  OBVIOUS
<1>4. PICK U \in T : \A V \in T : ~ (<<V, U>> \in R)
  <2> HIDE DEF T, R
  <2> QED BY <1>2, <1>3, WFMin
<1>5. PICK m \in S : U = After(m)
  OBVIOUS
<1>6. ASSUME NEW q \in S, q > m PROVE FALSE
  <2>1. After(q) \subseteq After(m) /\ q \in After(m) /\ q \notin After(q)
    <3>1. m \in Int /\ q \in Int /\ S \subseteq Int
      BY <1>5, <1>6
    <3>2. ~ (q > q) /\ \A p \in S : p > q => p > m
      BY <1>6, <3>1
    <3> HIDE DEF T, R
    <3> QED BY <1>6, <3>2, Zenon
  <2>2. <<After(q), After(m)>> \in R
    BY <2>1, <1>3 DEF StrictSubsetOrdering
  <2> QED BY <2>2, <1>4, <1>5
<1> QED BY <1>6

\* Induction over the numbers up to n, on a set instead of a predicate.
LEMMA UpTo ==
    ASSUME NEW n \in Nat, NEW S, 0 \in S, \A k \in 0..n : k \in S /\ k < n => k + 1 \in S
    PROVE  \A k \in 0..n : k \in S
<1> SUFFICES ASSUME {k \in 0..n : k \notin S} # {} PROVE FALSE
  OBVIOUS
<1>1. PICK m \in {k \in 0..n : k \notin S} : \A q \in {k \in 0..n : k \notin S} : m <= q
  <2>1. {k \in 0..n : k \notin S} \subseteq Nat
    OBVIOUS
  <2> QED BY <2>1, HasLeast
<1>2. m # 0 /\ m - 1 \in 0..n /\ m - 1 < n /\ (m - 1) + 1 = m
  BY <1>1
<1>3. m - 1 \in S
  BY <1>1, <1>2
<1> QED BY <1>1, <1>2, <1>3

\* The sums of the first members of a sequence exist.
LEMMA SumsExist ==
    ASSUME NEW n \in Nat, NEW g
    PROVE  \E h : h = [k \in 0..n |-> IF k = 0 THEN 0 ELSE h[k - 1] + g[k]]
<1> DEFINE S == {m \in 0..n :
                   \E h : h = [k \in 0..m |-> IF k = 0 THEN 0 ELSE h[k - 1] + g[k]]}
<1>1. 0 \in S
  <2> DEFINE h == [k \in 0..0 |-> 0]
  <2>1. h = [k \in 0..0 |-> IF k = 0 THEN 0 ELSE h[k - 1] + g[k]]
    OBVIOUS
  <2> HIDE DEF h
  <2> QED BY <2>1
<1>2. ASSUME NEW m \in 0..n, m \in S, m < n PROVE m + 1 \in S
  <2>1. PICK h : h = [k \in 0..m |-> IF k = 0 THEN 0 ELSE h[k - 1] + g[k]]
    BY <1>2
  <2> DEFINE e == [k \in 0..(m + 1) |-> IF k = m + 1 THEN h[m] + g[m + 1] ELSE h[k]]
  <2>2. ASSUME NEW k \in 0..(m + 1)
        PROVE  e[k] = IF k = 0 THEN 0 ELSE e[k - 1] + g[k]
    <3>1. CASE k = m + 1
      BY <3>1
    <3>2. CASE k \in 0..m
      <4>1. h[k] = IF k = 0 THEN 0 ELSE h[k - 1] + g[k]
        BY <2>1, <3>2
      <4> QED BY <3>2, <4>1
    <3> QED BY <3>1, <3>2
  <2>3. e = [k \in 0..(m + 1) |-> e[k]]
    OBVIOUS
  <2> HIDE DEF e
  <2>4. e = [k \in 0..(m + 1) |-> IF k = 0 THEN 0 ELSE e[k - 1] + g[k]]
    BY <2>2, <2>3
  <2> QED BY <1>2, <2>4
<1> HIDE DEF S
<1>3. n \in S
  BY <1>1, <1>2, UpTo
<1> QED BY <1>3 DEF S

\* What the latest row is.
LEMMA LatestIs ==
    ASSUME NEW n \in Nat, NEW rows_, DOMAIN rows_ \subseteq 1..n, DOMAIN rows_ # {}
    PROVE  /\ Ratios!Latest(rows_) \in DOMAIN rows_
           /\ \A q \in DOMAIN rows_ : q <= Ratios!Latest(rows_)
<1>1. \E m \in DOMAIN rows_ : \A q \in DOMAIN rows_ : m >= q
  BY HasLatest
<1> QED BY <1>1 DEF Ratios!Latest, Ratios!Max

\* Trimming keeps all rows that are newer than one it keeps.
LEMMA TrimmedAbove ==
    ASSUME NEW n \in Nat, NEW rows_, DOMAIN rows_ \subseteq 1..n
    PROVE  LET kept == Ratios!Trimmed(rows_)
           IN /\ DOMAIN kept \subseteq DOMAIN rows_
              /\ \A q \in DOMAIN kept : kept[q] = rows_[q]
              /\ \A q \in DOMAIN kept : \A p \in DOMAIN rows_ : p >= q => p \in DOMAIN kept
<1> DEFINE After(q) == {p \in DOMAIN rows_ : p > q}
<1>1. DOMAIN Ratios!Trimmed(rows_) = {q \in DOMAIN rows_ : Cardinality(After(q)) < MaxQuarters}
  <2>1. \A S : Ratios!Cardinality(S) = Cardinality(S)
    BY DEF Ratios!Cardinality, Cardinality
  <2> QED BY <2>1 DEF Ratios!Trimmed
<1>2. ASSUME NEW q \in DOMAIN rows_, NEW p \in DOMAIN rows_, p >= q,
             Cardinality(After(q)) < MaxQuarters
      PROVE  Cardinality(After(p)) < MaxQuarters
  <2>1. After(p) \subseteq After(q) /\ After(q) \subseteq 1..n
    BY <1>2
  <2>2. IsFiniteSet(After(q))
    BY <2>1, FS_Interval, FS_Subset
  <2>3. Cardinality(After(p)) <= Cardinality(After(q))
    BY <2>1, <2>2, FS_Subset
  <2>4. Cardinality(After(p)) \in Nat /\ Cardinality(After(q)) \in Nat
    BY <2>1, <2>2, FS_Subset, FS_CardinalityType
  <2> HIDE DEF After
  <2> QED BY <1>2, <2>3, <2>4, EvidenceAssumption
<1>3. \A q \in DOMAIN Ratios!Trimmed(rows_) : Ratios!Trimmed(rows_)[q] = rows_[q]
  BY DEF Ratios!Trimmed
<1> HIDE DEF After
<1> QED BY <1>1, <1>2, <1>3

\* The types, and where rows are: none is newer than the latest report.
RatiosTyped ==
    /\ day \in 1..LastTrade /\ quarter \in 1..LastQuarter /\ close \in 0..LastTrade
    /\ vpc \in [Ratios!Syncs -> {"start", "sync", "price", "market", "update", "commit",
                                 "release", "done", "failed"}]
    /\ DOMAIN own = Ratios!Syncs /\ DOMAIN priced = Ratios!Syncs
    /\ DOMAIN valued = Ratios!Syncs /\ DOMAIN loaded = Ratios!Syncs
    /\ DOMAIN ratio \subseteq 1..quarter
    /\ \A s \in Ratios!Syncs : DOMAIN own[s] \subseteq 1..quarter
    /\ met \in BOOLEAN /\ vfaults \in Nat

\* A financial sync commits after it has released its key.
Holds(s) ==
    \/ vpc[s] \in {"sync", "price", "market", "update", "release"}
    \/ vpc[s] = "commit" /\ s \in PriceSyncs

\* Each key has at most one holder, and only running syncs have rows of their own.
KeysHeld ==
    /\ \A s \in Ratios!Syncs : Holds(s) => Ratios!Kind(s) \in lock
    /\ \A s, o \in Ratios!Syncs :
           Holds(s) /\ Holds(o) /\ Ratios!Kind(s) = Ratios!Kind(o) => s = o
    /\ \A s \in Ratios!Syncs : DOMAIN own[s] # {} =>
           /\ Ratios!Running(s) /\ vpc[s] # "sync"
           /\ s \in PriceSyncs => vpc[s] = "commit"
    /\ met \/ \A s, o \in Ratios!Syncs :
                 Ratios!Running(s) /\ Ratios!Running(o) => Ratios!Kind(s) = Ratios!Kind(o)

\* The quarters that have a row, committed or not.
StoredQuarters == DOMAIN ratio \cup UNION {DOMAIN own[o] : o \in Ratios!Syncs}

OfRow(rows_) == \A q \in DOMAIN rows_ : rows_[q].quarter \in {-1, 0, q}

RowsRight == OfRow(ratio) /\ \A s \in Ratios!Syncs : OfRow(own[s])

\* A financial sync has the latest row of all among its own.
FinanceLeads ==
    \A s \in FinanceSyncs : vpc[s] \in {"price", "market", "update"} =>
        \E m \in DOMAIN own[s] : \A q \in StoredQuarters : q <= m

\* What a sync has read as the latest row is the latest still.
Reads(s) ==
    vpc[s] = "update" /\ DOMAIN Ratios!Rows(s) # {} =>
        /\ valued[s] \in DOMAIN Ratios!Rows(s) /\ \A q \in StoredQuarters : q <= valued[s]
        /\ loaded[s] = Ratios!Rows(s)[valued[s]]
        /\ s \in FinanceSyncs => valued[s] \in DOMAIN own[s]

\* Unless the kinds have met, ratios are of their rows.
RightRow == ~met => RowsRight /\ FinanceLeads /\ \A s \in Ratios!Syncs : Reads(s)

Current(r) == r = Ratios!NoRatio \/ r.day = close

\* The latest of the rows has the valuation at the latest close, or none.
LatestCurrent(rows_) ==
    \A q \in DOMAIN rows_ : (\A p \in DOMAIN rows_ : p <= q) => Current(rows_[q])

\* No price sync is between its closes and its commit.
PricesDone == \A s \in PriceSyncs : vpc[s] \notin {"price", "market", "update", "commit"}

\* What a sync knows of the latest close, and what it leaves behind.
Values(s) ==
    /\ s \in PriceSyncs /\ vpc[s] = "price" => close # 0
    /\ vpc[s] \in {"market", "update"} => priced[s] = close /\ close # 0
    /\ s \in PriceSyncs /\ vpc[s] = "commit" => LatestCurrent(Ratios!Rows(s))
    /\ s \in FinanceSyncs /\ vpc[s] \in {"release", "commit"} => LatestCurrent(own[s])

\* Before there is a close there are no ratios.
Unvalued(rows_) == close = 0 => \A q \in DOMAIN rows_ : rows_[q] = Ratios!NoRatio

\* Unless the kinds have met or something failed, the latest row is valued at the latest
\* close, except while a price sync is about to do so.
LatestValued ==
    ~met /\ vfaults = 0 =>
        /\ PricesDone => LatestCurrent(ratio)
        /\ Unvalued(ratio)
        /\ \A s \in Ratios!Syncs : Values(s) /\ Unvalued(own[s])

RatiosInv == RatiosTyped /\ KeysHeld /\ RightRow /\ LatestValued

LEMMA RatiosInit == Ratios!Init => RatiosInv
<1> SUFFICES ASSUME Ratios!Init PROVE RatiosInv
  OBVIOUS
<1> USE DEF Ratios!Init
<1>1. RatiosTyped
  <2>1. DOMAIN <<>> = {}
    OBVIOUS
  <2>2. 1 \in 1..LastTrade /\ 1 \in 1..LastQuarter /\ 0 \in 0..LastTrade
    BY EvidenceAssumption
  <2> QED BY <2>1, <2>2 DEF RatiosTyped
<1>2. KeysHeld
  BY DEF KeysHeld, Holds, Ratios!Running
<1>3. RightRow
  BY DEF RightRow, RowsRight, FinanceLeads, Reads, OfRow, Ratios!Syncs
<1>4. LatestValued
  BY DEF LatestValued, LatestCurrent, Values, Unvalued, Ratios!Syncs
<1> QED BY <1>1, <1>2, <1>3, <1>4 DEF RatiosInv

\* The rows that a sync sees.
LEMMA RowsAre ==
    ASSUME RatiosTyped, NEW s \in Ratios!Syncs
    PROVE  /\ DOMAIN Ratios!Rows(s) = DOMAIN ratio \cup DOMAIN own[s]
           /\ DOMAIN Ratios!Rows(s) \subseteq 1..quarter /\ quarter \in Nat
           /\ \A q \in DOMAIN own[s] : Ratios!Rows(s)[q] = own[s][q]
           /\ \A q \in DOMAIN ratio \ DOMAIN own[s] : Ratios!Rows(s)[q] = ratio[q]
           /\ DOMAIN Ratios!Rows(s) \subseteq StoredQuarters
<1>1. DOMAIN own[s] \subseteq StoredQuarters /\ DOMAIN ratio \subseteq StoredQuarters
  BY DEF StoredQuarters
<1> QED BY <1>1, EvidenceAssumption DEF RatiosTyped, Ratios!Rows

\* The latest row that a sync sees.
LEMMA LatestSeen ==
    ASSUME RatiosTyped, NEW s \in Ratios!Syncs, DOMAIN Ratios!Rows(s) # {}
    PROVE  /\ Ratios!Latest(Ratios!Rows(s)) \in DOMAIN Ratios!Rows(s)
           /\ Ratios!Latest(Ratios!Rows(s)) \in 1..quarter
           /\ \A q \in DOMAIN Ratios!Rows(s) : q <= Ratios!Latest(Ratios!Rows(s))
BY RowsAre, LatestIs

LEMMA RatiosTypedStep == RatiosTyped /\ Ratios!Next => RatiosTyped'
<1> SUFFICES ASSUME RatiosTyped, Ratios!Next PROVE RatiosTyped'
  OBVIOUS
<1> USE EvidenceAssumption DEF RatiosTyped, Ratios!Set, Ratios!Goto
<1>1. CASE Ratios!Trade
  BY <1>1 DEF Ratios!Trade
<1>2. CASE Ratios!Report
  BY <1>2 DEF Ratios!Report
<1>3. ASSUME NEW s \in Ratios!Syncs, Ratios!Begin(s) PROVE RatiosTyped'
  BY <1>3 DEF Ratios!Begin
<1>4. ASSUME NEW s \in Ratios!Syncs, Ratios!SyncPrices(s) PROVE RatiosTyped'
  BY <1>4 DEF Ratios!SyncPrices
<1>5. ASSUME NEW s \in Ratios!Syncs, Ratios!SyncFinance(s) PROVE RatiosTyped'
  BY <1>5 DEF Ratios!SyncFinance, Ratios!Fetched, Ratios!Reported
<1>6. ASSUME NEW s \in Ratios!Syncs, Ratios!ReadPrice(s) PROVE RatiosTyped'
  BY <1>6 DEF Ratios!ReadPrice, Ratios!AfterValuation
<1>7. ASSUME NEW s \in Ratios!Syncs, Ratios!ReadQuarter(s) PROVE RatiosTyped'
  BY <1>7 DEF Ratios!ReadQuarter
<1>8. ASSUME NEW s \in Ratios!Syncs, Ratios!Update(s) PROVE RatiosTyped'
  <2>1. Ratios!Latest(Ratios!Rows(s)) \in 1..quarter
    BY <1>8, RowsAre, LatestIs DEF Ratios!Update
  <2> QED BY <1>8, <2>1 DEF Ratios!Update, Ratios!AfterValuation, Ratios!Target, Ratios!Written
<1>9. ASSUME NEW s \in Ratios!Syncs, Ratios!UpdateNothing(s) \/ Ratios!SkipValuation(s)
      PROVE  RatiosTyped'
  BY <1>9 DEF Ratios!UpdateNothing, Ratios!SkipValuation, Ratios!AfterValuation
<1>10. ASSUME NEW s \in Ratios!Syncs, Ratios!Commit(s) PROVE RatiosTyped'
  <2>1. DOMAIN ratio' \subseteq 1..quarter
    BY <1>10, RowsAre, TrimmedAbove DEF Ratios!Commit
  <2>2. DOMAIN <<>> = {}
    OBVIOUS
  <2> QED BY <1>10, <2>1, <2>2 DEF Ratios!Commit
<1>11. ASSUME NEW s \in Ratios!Syncs, Ratios!Release(s) PROVE RatiosTyped'
  BY <1>11 DEF Ratios!Release
<1>12. ASSUME NEW s \in Ratios!Syncs, Ratios!Fail(s) PROVE RatiosTyped'
  <2>1. DOMAIN <<>> = {}
    OBVIOUS
  <2> QED BY <1>12, <2>1 DEF Ratios!Fail
<1> QED BY <1>1, <1>2, <1>3, <1>4, <1>5, <1>6, <1>7, <1>8, <1>9, <1>10, <1>11, <1>12
        DEF Ratios!Next

LEMMA KeysHeldStep == RatiosTyped /\ KeysHeld /\ Ratios!Next => KeysHeld'
<1> SUFFICES ASSUME RatiosTyped, KeysHeld, Ratios!Next PROVE KeysHeld'
  OBVIOUS
<1> USE EvidenceAssumption
    DEF RatiosTyped, KeysHeld, Holds, Ratios!Set, Ratios!Goto, Ratios!Running, Ratios!Ended,
        Ratios!Kind
<1>1. CASE Ratios!Trade
  BY <1>1 DEF Ratios!Trade
<1>2. CASE Ratios!Report
  BY <1>2 DEF Ratios!Report
<1>3. ASSUME NEW s \in Ratios!Syncs, Ratios!Begin(s) PROVE KeysHeld'
  <2>1. CASE vpc' = [vpc EXCEPT ![s] = "done"] /\ UNCHANGED <<lock, met>>
    BY <1>3, <2>1 DEF Ratios!Begin
  <2>2. CASE /\ Ratios!Kind(s) \notin lock /\ lock' = lock \cup {Ratios!Kind(s)}
             /\ vpc' = [vpc EXCEPT ![s] = "sync"]
             /\ met' = (met \/ \E o \in Ratios!Syncs :
                                Ratios!Running(o) /\ Ratios!Kind(o) # Ratios!Kind(s))
    <3>1. own' = own /\ vpc[s] = "start"
      BY <1>3 DEF Ratios!Begin
    <3>2. CASE ~met'
      <4>1. /\ ~met
            /\ \A o \in Ratios!Syncs : Ratios!Running(o) => Ratios!Kind(o) = Ratios!Kind(s)
        BY <2>2, <3>2
      <4> QED BY <2>2, <3>1, <4>1
    <3>3. CASE met'
      BY <2>2, <3>1, <3>3
    <3> QED BY <3>2, <3>3
  <2> QED BY <1>3, <2>1, <2>2 DEF Ratios!Begin
<1>4. ASSUME NEW s \in Ratios!Syncs, Ratios!SyncPrices(s) PROVE KeysHeld'
  BY <1>4 DEF Ratios!SyncPrices
<1>5. ASSUME NEW s \in Ratios!Syncs, Ratios!SyncFinance(s) PROVE KeysHeld'
  BY <1>5 DEF Ratios!SyncFinance
<1>6. ASSUME NEW s \in Ratios!Syncs, Ratios!ReadPrice(s) PROVE KeysHeld'
  BY <1>6 DEF Ratios!ReadPrice, Ratios!AfterValuation
<1>7. ASSUME NEW s \in Ratios!Syncs, Ratios!ReadQuarter(s) PROVE KeysHeld'
  BY <1>7 DEF Ratios!ReadQuarter
<1>8. ASSUME NEW s \in Ratios!Syncs, Ratios!Update(s) PROVE KeysHeld'
  BY <1>8 DEF Ratios!Update, Ratios!AfterValuation, Ratios!Syncs
<1>9. ASSUME NEW s \in Ratios!Syncs, Ratios!UpdateNothing(s) \/ Ratios!SkipValuation(s)
      PROVE  KeysHeld'
  BY <1>9 DEF Ratios!UpdateNothing, Ratios!SkipValuation, Ratios!AfterValuation, Ratios!Syncs
<1>10. ASSUME NEW s \in Ratios!Syncs, Ratios!Commit(s) PROVE KeysHeld'
  <2>1. DOMAIN <<>> = {}
    OBVIOUS
  <2> QED BY <1>10, <2>1 DEF Ratios!Commit, Ratios!Syncs
<1>11. ASSUME NEW s \in Ratios!Syncs, Ratios!Release(s) PROVE KeysHeld'
  BY <1>11 DEF Ratios!Release, Ratios!Syncs
<1>12. ASSUME NEW s \in Ratios!Syncs, Ratios!Fail(s) PROVE KeysHeld'
  <2>1. DOMAIN <<>> = {}
    OBVIOUS
  <2> QED BY <1>12, <2>1 DEF Ratios!Fail, Ratios!Syncs
<1> QED BY <1>1, <1>2, <1>3, <1>4, <1>5, <1>6, <1>7, <1>8, <1>9, <1>10, <1>11, <1>12
        DEF Ratios!Next

\* Until the kinds meet, a price sync runs alone ...
LEMMA PriceAlone ==
    ASSUME RatiosTyped, KeysHeld, ~met, NEW s \in PriceSyncs, Ratios!Running(s)
    PROVE  \A o \in Ratios!Syncs : o # s => ~Ratios!Running(o) /\ DOMAIN own[o] = {}
<1>1. ASSUME NEW o \in Ratios!Syncs, Ratios!Running(o) PROVE o = s
  <2>1. s \in Ratios!Syncs /\ Ratios!Kind(o) = Ratios!Kind(s)
    BY <1>1 DEF KeysHeld, Ratios!Syncs
  <2>2. o \in PriceSyncs
    BY <2>1 DEF Ratios!Kind
  <2>3. Holds(s) /\ Holds(o)
    BY <1>1, <2>1, <2>2 DEF RatiosTyped, Holds, Ratios!Running, Ratios!Ended
  <2> QED BY <2>1, <2>3 DEF KeysHeld
<1> QED BY <1>1 DEF KeysHeld

\* ... and beside a financial sync that has its key others can only commit.
LEMMA FinanceAlone ==
    ASSUME RatiosTyped, KeysHeld, ~met, NEW s \in FinanceSyncs, Ratios!Running(s)
    PROVE  \A o \in Ratios!Syncs : Ratios!Running(o) =>
               o \in FinanceSyncs /\ (o # s /\ Holds(s) => vpc[o] = "commit")
<1> SUFFICES ASSUME NEW o \in Ratios!Syncs, Ratios!Running(o)
             PROVE  o \in FinanceSyncs /\ (o # s /\ Holds(s) => vpc[o] = "commit")
  OBVIOUS
<1>1. s \in Ratios!Syncs /\ Ratios!Kind(o) = Ratios!Kind(s)
  BY DEF KeysHeld, Ratios!Syncs
<1>2. o \in FinanceSyncs
  BY <1>1, EvidenceAssumption DEF Ratios!Kind, Ratios!Syncs
<1>3. o # s /\ Holds(s) => ~Holds(o)
  BY <1>1 DEF KeysHeld
<1> QED
  BY <1>1, <1>2, <1>3 DEF Holds, Ratios!Running, Ratios!Ended, RatiosTyped

\* What a sync sees changes only with the table or its own rows.
LEMMA SameRows ==
    ASSUME NEW s \in Ratios!Syncs, ratio' = ratio, own'[s] = own[s]
    PROVE  Ratios!Rows(s)' = Ratios!Rows(s)
BY DEF Ratios!Rows

\* The steps that only move a sync on.
LEMMA RightQuiet ==
    ASSUME RatiosTyped, RightRow, ~met, UNCHANGED <<ratio, own, valued, loaded>>,
           NEW s \in Ratios!Syncs, NEW label, vpc' = [vpc EXCEPT ![s] = label],
           \/ label \in {"sync", "commit", "release", "done", "failed"}
           \/ label = "price" /\ s \in PriceSyncs
           \/ label = "market" /\ vpc[s] = "price"
    PROVE  RightRow'
<1> USE DEF RatiosTyped
<1>1. \A o \in Ratios!Syncs : Ratios!Rows(o)' = Ratios!Rows(o)
  BY SameRows
<1>2. StoredQuarters' = StoredQuarters
  BY DEF StoredQuarters
<1>3. RowsRight'
  BY DEF RightRow, RowsRight, OfRow
<1>4. FinanceLeads'
  BY <1>2, EvidenceAssumption DEF RightRow, FinanceLeads, Ratios!Syncs
<1>5. ASSUME NEW o \in Ratios!Syncs PROVE Reads(o)'
  <2>1. vpc'[o] = "update" => vpc[o] = "update"
    OBVIOUS
  <2> QED BY <1>1, <1>2, <2>1 DEF RightRow, Reads
<1> QED BY <1>3, <1>4, <1>5 DEF RightRow

LEMMA RightSyncFinance ==
    ASSUME RatiosTyped, KeysHeld, RightRow, ~met, NEW s \in Ratios!Syncs, Ratios!SyncFinance(s)
    PROVE  RightRow'
<1> USE DEF RatiosTyped, Ratios!Set, Ratios!Goto
<1> DEFINE F == Ratios!Fetched
<1>1. /\ s \in FinanceSyncs /\ vpc[s] = "sync" /\ vpc' = [vpc EXCEPT ![s] = "price"]
      /\ own' = [own EXCEPT ![s] =
                    [q \in F |-> IF q \in DOMAIN ratio THEN ratio[q] ELSE Ratios!NoRatio]]
      /\ UNCHANGED <<ratio, valued, loaded, met>>
  BY DEF Ratios!SyncFinance
<1>2. F \subseteq 1..quarter /\ quarter \in F /\ quarter \in Nat
  BY EvidenceAssumption DEF Ratios!Fetched, Ratios!Reported
<1> HIDE DEF F
<1>3. \A o \in Ratios!Syncs : Ratios!Running(o) => o = s \/ vpc[o] = "commit"
  BY <1>1, FinanceAlone DEF Holds, Ratios!Running, Ratios!Ended
<1>4. \A o \in Ratios!Syncs : vpc[o] \notin {"price", "market", "update"}
  BY <1>1, <1>3 DEF Ratios!Running, Ratios!Ended
<1>5. RowsRight'
  BY <1>1, <1>2 DEF RightRow, RowsRight, OfRow, Ratios!NoRatio
<1>6. DOMAIN own'[s] = F /\ \A o \in Ratios!Syncs : o # s => own'[o] = own[o]
  BY <1>1
<1>7. StoredQuarters' \subseteq 1..quarter
  BY ZenonT(40), <1>1, <1>2, <1>6 DEF StoredQuarters
<1>8. \A q \in StoredQuarters' : q <= quarter
  BY <1>2, <1>7
<1>9. \A o \in Ratios!Syncs : vpc'[o] \in {"price", "market", "update"} =>
          o = s /\ vpc'[o] = "price"
  BY <1>1, <1>4
<1>10. FinanceLeads'
  BY <1>2, <1>6, <1>8, <1>9 DEF FinanceLeads, Ratios!Syncs
<1>11. \A o \in Ratios!Syncs : Reads(o)'
  BY <1>9 DEF Reads
<1> QED BY <1>5, <1>10, <1>11 DEF RightRow

LEMMA RightReadQuarter ==
    ASSUME RatiosTyped, KeysHeld, RightRow, ~met, NEW s \in Ratios!Syncs, Ratios!ReadQuarter(s)
    PROVE  RightRow'
<1> USE DEF RatiosTyped, Ratios!Set, Ratios!Goto
<1> DEFINE v == Ratios!Latest(Ratios!Rows(s))
<1>1. /\ vpc[s] = "market" /\ vpc' = [vpc EXCEPT ![s] = "update"]
      /\ UNCHANGED <<ratio, own, met>>
      /\ \A o \in Ratios!Syncs : o # s => valued'[o] = valued[o] /\ loaded'[o] = loaded[o]
      /\ DOMAIN Ratios!Rows(s) # {} => valued'[s] = v /\ loaded'[s] = Ratios!Rows(s)[v]
  BY DEF Ratios!ReadQuarter
<1>2. DOMAIN Ratios!Rows(s) # {} =>
          /\ v \in DOMAIN Ratios!Rows(s) /\ v \in 1..quarter
          /\ \A q \in DOMAIN Ratios!Rows(s) : q <= v
  BY LatestSeen
<1> HIDE DEF v
<1>3. \A o \in Ratios!Syncs : Ratios!Rows(o)' = Ratios!Rows(o)
  BY <1>1, SameRows
<1>4. StoredQuarters' = StoredQuarters
  BY <1>1 DEF StoredQuarters
<1>5. RowsRight'
  BY <1>1 DEF RightRow, RowsRight, OfRow
<1>6. FinanceLeads'
  BY <1>1, <1>4 DEF RightRow, FinanceLeads, Ratios!Syncs
<1>7. ASSUME DOMAIN Ratios!Rows(s) # {}
      PROVE  (\A q \in StoredQuarters : q <= v) /\ (s \in FinanceSyncs => v \in DOMAIN own[s])
  <2>1. CASE s \in FinanceSyncs
    <3>1. PICK m \in DOMAIN own[s] : \A q \in StoredQuarters : q <= m
      BY <1>1, <2>1 DEF RightRow, FinanceLeads
    <3>2. m \in DOMAIN Ratios!Rows(s) /\ m \in 1..quarter /\ v \in StoredQuarters
      BY <1>2, <1>7, RowsAre
    <3>3. m <= v /\ v <= m /\ m \in Int /\ v \in Int
      BY <1>2, <1>7, <3>1, <3>2
    <3>4. m = v
      BY <3>3
    <3> QED BY <3>1, <3>4
  <2>2. CASE s \in PriceSyncs
    <3>1. \A o \in Ratios!Syncs : DOMAIN own[o] = {}
      BY <1>1, <2>2, PriceAlone DEF KeysHeld, Ratios!Running, Ratios!Ended
    <3>2. StoredQuarters = DOMAIN Ratios!Rows(s)
      <4>1. UNION {DOMAIN own[o] : o \in Ratios!Syncs} = {}
        <5> HIDE DEF RatiosTyped
        <5> QED BY <3>1
      <4>2. DOMAIN Ratios!Rows(s) = DOMAIN ratio
        BY <3>1, RowsAre
      <4> QED BY <4>1, <4>2 DEF StoredQuarters
    <3> QED BY <1>2, <1>7, <2>2, <3>2, EvidenceAssumption
  <2> QED BY <2>1, <2>2 DEF Ratios!Syncs
<1>8. ASSUME NEW o \in Ratios!Syncs PROVE Reads(o)'
  <2>1. CASE o = s
    BY <1>1, <1>2, <1>3, <1>4, <1>7, <2>1 DEF Reads
  <2>2. CASE o # s
    <3>1. /\ vpc'[o] = vpc[o] /\ valued'[o] = valued[o] /\ loaded'[o] = loaded[o]
          /\ own'[o] = own[o]
      BY <1>1, <2>2
    <3> QED BY <1>3, <1>4, <3>1 DEF RightRow, Reads
  <2> QED BY <2>1, <2>2
<1> QED BY <1>5, <1>6, <1>8 DEF RightRow

LEMMA RightUpdate ==
    ASSUME RatiosTyped, KeysHeld, RightRow, ~met, NEW s \in Ratios!Syncs, Ratios!Update(s)
    PROVE  RightRow'
<1> USE DEF RatiosTyped, Ratios!Set, Ratios!Goto
<1> DEFINE v == Ratios!Latest(Ratios!Rows(s))
<1>1. /\ vpc[s] = "update" /\ DOMAIN Ratios!Rows(s) # {}
      /\ vpc' = [vpc EXCEPT ![s] = Ratios!AfterValuation(s)]
      /\ UNCHANGED <<ratio, valued, loaded, met>>
      /\ \/ UNCHANGED own
         \/ \E r \in Ratios!Computed(s) :
                own' = [own EXCEPT ![s] = Ratios!Written(own[s], v, r)]
  BY DEF Ratios!Update, Ratios!Target
<1>2. Ratios!AfterValuation(s) \in {"commit", "release"}
  BY DEF Ratios!AfterValuation
<1>3. CASE UNCHANGED own
  BY <1>1, <1>2, <1>3, RightQuiet
<1>4. /\ v \in DOMAIN Ratios!Rows(s) /\ v \in 1..quarter
      /\ \A q \in DOMAIN Ratios!Rows(s) : q <= v
  BY <1>1, LatestSeen
<1> HIDE DEF v
<1>5. /\ valued[s] \in DOMAIN Ratios!Rows(s) /\ \A q \in StoredQuarters : q <= valued[s]
  BY <1>1 DEF RightRow, Reads
<1>6. v = valued[s]
  <2>1. v \in StoredQuarters /\ valued[s] \in 1..quarter
    BY <1>4, <1>5, RowsAre
  <2>2. v <= valued[s] /\ valued[s] <= v /\ v \in Int /\ valued[s] \in Int
    BY <1>4, <1>5, <2>1
  <2> QED BY <2>2
<1>7. ASSUME NEW r \in Ratios!Computed(s),
             own' = [own EXCEPT ![s] = Ratios!Written(own[s], v, r)]
      PROVE  RightRow'
  <2>1. /\ DOMAIN own'[s] = DOMAIN own[s] \cup {v} /\ own'[s][v] = r
        /\ \A q \in DOMAIN own[s] : q # v => own'[s][q] = own[s][q]
        /\ \A o \in Ratios!Syncs : o # s => own'[o] = own[o]
    BY <1>7 DEF Ratios!Written
  <2>2. StoredQuarters' \subseteq StoredQuarters
    <3>1. v \in StoredQuarters
      BY <1>4, RowsAre
    <3> QED BY <1>1, <2>1, <3>1 DEF StoredQuarters
  <2>3. r.quarter \in {-1, 0, v}
    BY <1>6 DEF Ratios!Computed, Ratios!OfMarket, Ratios!NoRatio, Ratios!OfShares, Ratios!OfDart
  <2>4. RowsRight'
    BY <1>1, <2>1, <2>3 DEF RightRow, RowsRight, OfRow
  <2>5. \A o \in Ratios!Syncs : vpc'[o] \in {"price", "market", "update"} =>
            o # s /\ vpc'[o] = vpc[o] /\ own'[o] = own[o]
    BY <1>1, <1>2, <2>1
  <2>6. FinanceLeads'
    BY <2>2, <2>5 DEF RightRow, FinanceLeads, Ratios!Syncs
  <2>7. ASSUME NEW o \in Ratios!Syncs, vpc'[o] = "update" PROVE Reads(o)'
    <3>1. o # s /\ vpc[o] = "update" /\ own'[o] = own[o]
      BY <2>5, <2>7
    <3>2. Ratios!Rows(o)' = Ratios!Rows(o)
      BY <1>1, <3>1, SameRows
    <3> QED BY <1>1, <2>2, <3>1, <3>2 DEF RightRow, Reads
  <2>8. \A o \in Ratios!Syncs : Reads(o)'
    BY <2>7 DEF Reads
  <2> QED BY <2>4, <2>6, <2>8 DEF RightRow
<1> QED BY <1>1, <1>3, <1>7

\* A sync that ends, its rows committed and trimmed or rolled back.
LEMMA RightEnd ==
    ASSUME RatiosTyped, KeysHeld, RightRow, ~met, NEW s \in Ratios!Syncs, Ratios!Running(s),
           own' = [own EXCEPT ![s] = <<>>], UNCHANGED <<valued, loaded, met>>,
           NEW label \in {"release", "done", "failed"}, vpc' = [vpc EXCEPT ![s] = label],
           \/ UNCHANGED ratio
           \/ /\ vpc[s] = "commit" /\ DOMAIN ratio' \subseteq DOMAIN Ratios!Rows(s)
              /\ \A q \in DOMAIN ratio' : ratio'[q] = Ratios!Rows(s)[q]
    PROVE  RightRow'
<1> USE DEF RatiosTyped
<1>1. DOMAIN own'[s] = {} /\ \A o \in Ratios!Syncs : o # s => own'[o] = own[o]
  <2>1. DOMAIN <<>> = {}
    OBVIOUS
  <2> QED BY <2>1
<1>2. StoredQuarters' \subseteq StoredQuarters
  <2>1. DOMAIN ratio' \subseteq StoredQuarters
    BY RowsAre DEF StoredQuarters
  <2> QED BY <1>1, <2>1 DEF StoredQuarters
<1>3. RowsRight'
  <2>1. OfRow(ratio) /\ \A o \in Ratios!Syncs : OfRow(own[o])
    BY DEF RightRow, RowsRight
  <2>2. OfRow(Ratios!Rows(s))
    <3> SUFFICES ASSUME NEW q \in DOMAIN Ratios!Rows(s)
                 PROVE  Ratios!Rows(s)[q].quarter \in {-1, 0, q}
      BY DEF OfRow
    <3>1. q \in DOMAIN own[s] \/ q \in DOMAIN ratio \ DOMAIN own[s]
      BY RowsAre
    <3>2. CASE q \in DOMAIN own[s]
      BY <2>1, <3>2, RowsAre DEF OfRow
    <3>3. CASE q \in DOMAIN ratio \ DOMAIN own[s]
      BY <2>1, <3>3, RowsAre DEF OfRow
    <3> QED BY <3>1, <3>2, <3>3
  <2>3. \A o \in Ratios!Syncs : OfRow(own'[o])
    BY <1>1, <2>1 DEF OfRow
  <2>4. OfRow(ratio')
    BY <2>1, <2>2 DEF OfRow
  <2> QED BY <2>3, <2>4 DEF RowsRight, OfRow
<1>4. \A o \in Ratios!Syncs : vpc'[o] \in {"price", "market", "update"} =>
          o # s /\ vpc'[o] = vpc[o] /\ own'[o] = own[o]
  BY <1>1
<1>5. FinanceLeads'
  BY <1>2, <1>4 DEF RightRow, FinanceLeads, Ratios!Syncs
<1>6. ASSUME NEW o \in Ratios!Syncs, vpc'[o] = "update" PROVE Reads(o)'
  <2>1. o # s /\ vpc[o] = "update" /\ own'[o] = own[o] /\ Ratios!Running(o)
    BY <1>4, <1>6 DEF Ratios!Running, Ratios!Ended
  <2>2. CASE o \in PriceSyncs
    BY <2>1, <2>2, PriceAlone
  <2>3. CASE o \in FinanceSyncs
    <3>1. DOMAIN Ratios!Rows(o) # {}
      BY <2>1, <2>3, RowsAre DEF RightRow, FinanceLeads
    <3>2. /\ valued[o] \in DOMAIN own[o] /\ \A q \in StoredQuarters : q <= valued[o]
          /\ loaded[o] = Ratios!Rows(o)[valued[o]]
      BY <2>1, <2>3, <3>1 DEF RightRow, Reads
    <3>3. loaded[o] = own[o][valued[o]]
      BY <3>2, RowsAre
    <3>4. /\ valued[o] \in DOMAIN Ratios!Rows(o)'
          /\ Ratios!Rows(o)'[valued[o]] = own[o][valued[o]]
      BY <2>1, <3>2 DEF Ratios!Rows
    <3> QED BY <1>2, <2>1, <3>2, <3>3, <3>4 DEF Reads
  <2> QED BY <2>2, <2>3 DEF Ratios!Syncs
<1>7. \A o \in Ratios!Syncs : Reads(o)'
  BY <1>6 DEF Reads
<1> QED BY <1>3, <1>5, <1>7 DEF RightRow

LEMMA RightRowStep == RatiosTyped /\ KeysHeld /\ RightRow /\ Ratios!Next => RightRow'
<1> SUFFICES ASSUME RatiosTyped, KeysHeld, RightRow, Ratios!Next, ~met' PROVE RightRow'
  BY DEF RightRow
<1> USE DEF Ratios!Set, Ratios!Goto
<1>1. ASSUME UNCHANGED <<ratio, own, valued, loaded, vpc, met>> PROVE RightRow'
  <2>1. \A s \in Ratios!Syncs : Ratios!Rows(s)' = Ratios!Rows(s)
    BY <1>1, SameRows
  <2>2. StoredQuarters' = StoredQuarters
    BY <1>1 DEF StoredQuarters
  <2>3. RowsRight' /\ FinanceLeads'
    BY <1>1, <2>2 DEF RightRow, RowsRight, FinanceLeads, OfRow
  <2>4. \A s \in Ratios!Syncs : Reads(s)'
    BY <1>1, <2>1, <2>2 DEF RightRow, Reads
  <2> QED BY <2>3, <2>4 DEF RightRow
<1>2. CASE Ratios!Trade \/ Ratios!Report
  BY <1>1, <1>2 DEF Ratios!Trade, Ratios!Report
<1>3. ASSUME NEW s \in Ratios!Syncs, Ratios!Begin(s) PROVE RightRow'
  <2>1. PICK label \in {"sync", "done"} : vpc' = [vpc EXCEPT ![s] = label]
    BY <1>3 DEF Ratios!Begin
  <2>2. UNCHANGED <<ratio, own, valued, loaded>>
    BY <1>3 DEF Ratios!Begin
  <2>3. ~met
    BY <1>3, Zenon DEF Ratios!Begin
  <2> QED BY <2>1, <2>2, <2>3, RightQuiet
<1>4. ASSUME NEW s \in Ratios!Syncs, Ratios!SyncPrices(s) PROVE RightRow'
  BY <1>4, RightQuiet DEF Ratios!SyncPrices
<1>5. ASSUME NEW s \in Ratios!Syncs, Ratios!SyncFinance(s) PROVE RightRow'
  <2>1. ~met
    BY <1>5 DEF Ratios!SyncFinance
  <2> QED BY <1>5, <2>1, RightSyncFinance
<1>6. ASSUME NEW s \in Ratios!Syncs, Ratios!ReadPrice(s) PROVE RightRow'
  BY <1>6, RightQuiet DEF Ratios!ReadPrice, Ratios!AfterValuation
<1>7. ASSUME NEW s \in Ratios!Syncs, Ratios!ReadQuarter(s) PROVE RightRow'
  <2>1. ~met
    BY <1>7 DEF Ratios!ReadQuarter
  <2> QED BY <1>7, <2>1, RightReadQuarter
<1>8. ASSUME NEW s \in Ratios!Syncs, Ratios!Update(s) PROVE RightRow'
  <2>1. ~met
    BY <1>8 DEF Ratios!Update
  <2> QED BY <1>8, <2>1, RightUpdate
<1>9. ASSUME NEW s \in Ratios!Syncs, Ratios!UpdateNothing(s) \/ Ratios!SkipValuation(s)
      PROVE  RightRow'
  BY <1>9, RightQuiet DEF Ratios!UpdateNothing, Ratios!SkipValuation, Ratios!AfterValuation
<1>10. ASSUME NEW s \in Ratios!Syncs, Ratios!Commit(s) PROVE RightRow'
  <2>1. /\ vpc[s] = "commit" /\ ~met /\ own' = [own EXCEPT ![s] = <<>>]
        /\ UNCHANGED <<valued, loaded, met>>
        /\ ratio' = Ratios!Rows(s) \/ ratio' = Ratios!Trimmed(Ratios!Rows(s))
    BY <1>10 DEF Ratios!Commit
  <2>2. /\ DOMAIN ratio' \subseteq DOMAIN Ratios!Rows(s)
        /\ \A q \in DOMAIN ratio' : ratio'[q] = Ratios!Rows(s)[q]
    <3>1. DOMAIN Ratios!Rows(s) \subseteq 1..quarter /\ quarter \in Nat
      BY RowsAre
    <3> QED BY <2>1, <3>1, TrimmedAbove
  <2>3. PICK label \in {"release", "done"} : vpc' = [vpc EXCEPT ![s] = label]
    BY <1>10 DEF Ratios!Commit
  <2>4. Ratios!Running(s)
    BY <2>1 DEF Ratios!Running, Ratios!Ended
  <2> QED BY <2>1, <2>2, <2>3, <2>4, RightEnd
<1>11. ASSUME NEW s \in Ratios!Syncs, Ratios!Release(s) PROVE RightRow'
  BY <1>11, RightQuiet DEF Ratios!Release
<1>12. ASSUME NEW s \in Ratios!Syncs, Ratios!Fail(s) PROVE RightRow'
  BY <1>12, RightEnd DEF Ratios!Fail
<1> QED BY <1>2, <1>3, <1>4, <1>5, <1>6, <1>7, <1>8, <1>9, <1>10, <1>11, <1>12
        DEF Ratios!Next

\* The latest row is current if that of either part is, and if trimming is all that is done.
LEMMA LatestOfBoth ==
    ASSUME RatiosTyped, NEW s \in Ratios!Syncs, LatestCurrent(ratio), LatestCurrent(own[s])
    PROVE  LatestCurrent(Ratios!Rows(s))
<1> SUFFICES ASSUME NEW q \in DOMAIN Ratios!Rows(s), \A p \in DOMAIN Ratios!Rows(s) : p <= q
             PROVE  Current(Ratios!Rows(s)[q])
  BY DEF LatestCurrent
<1>1. CASE q \in DOMAIN own[s]
  BY <1>1, RowsAre DEF LatestCurrent
<1>2. CASE q \notin DOMAIN own[s]
  BY <1>2, RowsAre DEF LatestCurrent
<1> QED BY <1>1, <1>2

LEMMA LatestOfTrimmed ==
    ASSUME NEW n \in Nat, NEW rows_, DOMAIN rows_ \subseteq 1..n, LatestCurrent(rows_)
    PROVE  LatestCurrent(Ratios!Trimmed(rows_))
<1> DEFINE kept == Ratios!Trimmed(rows_)
<1>1. /\ DOMAIN kept \subseteq DOMAIN rows_
      /\ \A q \in DOMAIN kept : kept[q] = rows_[q]
      /\ \A q \in DOMAIN kept : \A p \in DOMAIN rows_ : p >= q => p \in DOMAIN kept
  BY TrimmedAbove
<1> HIDE DEF kept
<1>2. ASSUME NEW q \in DOMAIN kept, \A p \in DOMAIN kept : p <= q PROVE Current(kept[q])
  <2>1. \A p \in DOMAIN rows_ : p <= q
    BY <1>1, <1>2
  <2> QED BY <1>1, <2>1 DEF LatestCurrent
<1>3. LatestCurrent(kept)
  BY <1>2 DEF LatestCurrent
<1> QED BY <1>3 DEF kept

\* Steps that leave rows, closes and prices alone.
LEMMA ValuedQuiet ==
    ASSUME RatiosTyped, LatestValued, ~met, vfaults = 0, UNCHANGED <<ratio, own, close, priced>>,
           NEW s \in Ratios!Syncs, NEW label, vpc' = [vpc EXCEPT ![s] = label],
           \/ label \in {"sync", "done"} /\ (vpc[s] = "start" \/ vpc[s] = "release")
           \/ vpc[s] = "market" /\ label = "update"
           \/ vpc[s] = "release" /\ label = "commit" /\ s \in FinanceSyncs
    PROVE  LatestValued'
<1> USE DEF RatiosTyped
<1>1. Ratios!Rows(s)' = Ratios!Rows(s) /\ \A o \in Ratios!Syncs : Ratios!Rows(o)' = Ratios!Rows(o)
  BY SameRows
<1>2. s \in FinanceSyncs => s \notin PriceSyncs
  BY EvidenceAssumption
<1>3. PricesDone' => PricesDone
  BY <1>2 DEF PricesDone, Ratios!Syncs
<1>4. (PricesDone => LatestCurrent(ratio))' /\ Unvalued(ratio)'
  BY <1>3 DEF LatestValued, LatestCurrent, Current, Unvalued
<1>5. ASSUME NEW o \in Ratios!Syncs PROVE (Values(o) /\ Unvalued(own[o]))'
  BY <1>1, <1>2 DEF LatestValued, Values, LatestCurrent, Current, Unvalued
<1> QED BY <1>4, <1>5 DEF LatestValued

LEMMA ValuedSyncPrices ==
    ASSUME RatiosTyped, KeysHeld, LatestValued, ~met, vfaults = 0,
           NEW s \in Ratios!Syncs, Ratios!SyncPrices(s)
    PROVE  LatestValued'
<1> USE DEF RatiosTyped, Ratios!Goto
<1>1. /\ s \in PriceSyncs /\ vpc[s] = "sync" /\ vpc' = [vpc EXCEPT ![s] = "price"]
      /\ close' = day /\ close' # 0 /\ UNCHANGED <<ratio, own, priced, met>>
  BY DEF Ratios!SyncPrices
<1>2. \A o \in Ratios!Syncs : o # s => vpc'[o] \in {"start", "done", "failed"}
  BY <1>1, PriceAlone DEF Ratios!Running, Ratios!Ended
<1>3. ~PricesDone'
  BY <1>1 DEF PricesDone
<1>4. \A o \in Ratios!Syncs : Values(o)'
  BY <1>1, <1>2, EvidenceAssumption DEF Values
<1> QED BY <1>1, <1>3, <1>4 DEF LatestValued, Unvalued

LEMMA ValuedSyncFinance ==
    ASSUME RatiosTyped, LatestValued, ~met, vfaults = 0,
           NEW s \in Ratios!Syncs, Ratios!SyncFinance(s)
    PROVE  LatestValued'
<1> USE DEF RatiosTyped, Ratios!Goto, Ratios!Set
<1>1. /\ s \in FinanceSyncs /\ vpc[s] = "sync" /\ vpc' = [vpc EXCEPT ![s] = "price"]
      /\ own' = [own EXCEPT ![s] = [q \in Ratios!Fetched |->
                      IF q \in DOMAIN ratio THEN ratio[q] ELSE Ratios!NoRatio]]
      /\ UNCHANGED <<ratio, close, priced, met>>
  BY DEF Ratios!SyncFinance
<1>2. s \notin PriceSyncs
  BY <1>1, EvidenceAssumption
<1>3. PricesDone' => PricesDone
  BY <1>1, <1>2 DEF PricesDone, Ratios!Syncs
<1>4. (PricesDone => LatestCurrent(ratio))' /\ Unvalued(ratio)'
  BY <1>1, <1>3 DEF LatestValued, LatestCurrent, Current, Unvalued
<1>5. ASSUME NEW o \in Ratios!Syncs PROVE (Values(o) /\ Unvalued(own[o]))'
  <2>1. CASE o = s
    BY <1>1, <1>2, <2>1 DEF LatestValued, Values, Unvalued
  <2>2. CASE o # s
    <3>1. own'[o] = own[o] /\ vpc'[o] = vpc[o]
      BY <1>1, <2>2
    <3>2. Ratios!Rows(o)' = Ratios!Rows(o)
      BY <1>1, <3>1, SameRows
    <3> QED BY <1>1, <3>1, <3>2 DEF LatestValued, Values, LatestCurrent, Current, Unvalued
  <2> QED BY <2>1, <2>2
<1> QED BY <1>4, <1>5 DEF LatestValued

LEMMA ValuedReadPrice ==
    ASSUME RatiosTyped, LatestValued, ~met, vfaults = 0,
           NEW s \in Ratios!Syncs, Ratios!ReadPrice(s)
    PROVE  LatestValued'
<1> USE DEF RatiosTyped, Ratios!Goto, Ratios!Set
<1>1. /\ vpc[s] = "price" /\ priced' = [priced EXCEPT ![s] = close]
      /\ vpc' = [vpc EXCEPT ![s] = IF close = 0 THEN Ratios!AfterValuation(s) ELSE "market"]
      /\ UNCHANGED <<ratio, own, close, met>>
  BY DEF Ratios!ReadPrice
<1>2. close = 0 => s \in FinanceSyncs /\ Ratios!AfterValuation(s) = "release"
  BY <1>1 DEF LatestValued, Values, Ratios!AfterValuation, Ratios!Syncs
<1>3. PricesDone' => PricesDone
  BY <1>1, <1>2, EvidenceAssumption DEF PricesDone, Ratios!Syncs
<1>4. (PricesDone => LatestCurrent(ratio))' /\ Unvalued(ratio)'
  BY <1>1, <1>3 DEF LatestValued, LatestCurrent, Current, Unvalued
<1>5. ASSUME NEW o \in Ratios!Syncs PROVE (Values(o) /\ Unvalued(own[o]))'
  <2>1. CASE o = s /\ close = 0
    BY <1>1, <1>2, <2>1, EvidenceAssumption
       DEF LatestValued, Values, LatestCurrent, Current, Unvalued
  <2>2. CASE o = s /\ close # 0
    BY <1>1, <2>2 DEF LatestValued, Values, Unvalued
  <2>3. CASE o # s
    <3>1. priced'[o] = priced[o] /\ vpc'[o] = vpc[o]
      BY <1>1, <2>3
    <3>2. Ratios!Rows(o)' = Ratios!Rows(o)
      BY <1>1, SameRows
    <3> QED BY <1>1, <3>1, <3>2 DEF LatestValued, Values, LatestCurrent, Current, Unvalued
  <2> QED BY <2>1, <2>2, <2>3
<1> QED BY <1>4, <1>5 DEF LatestValued

LEMMA ValuedUpdate ==
    ASSUME RatiosTyped, RightRow, LatestValued, ~met, vfaults = 0,
           NEW s \in Ratios!Syncs, Ratios!Update(s)
    PROVE  LatestValued'
<1> USE DEF RatiosTyped, Ratios!Goto, Ratios!Set
<1> DEFINE v == Ratios!Latest(Ratios!Rows(s))
<1>1. /\ vpc[s] = "update" /\ DOMAIN Ratios!Rows(s) # {}
      /\ vpc' = [vpc EXCEPT ![s] = Ratios!AfterValuation(s)]
      /\ UNCHANGED <<ratio, priced, close, met>>
  BY DEF Ratios!Update
<1>2. PICK r \in Ratios!Computed(s) :
          \/ v = valued[s] /\ r = loaded[s] /\ UNCHANGED own
          \/ own' = [own EXCEPT ![s] = Ratios!Written(own[s], v, r)]
  BY DEF Ratios!Update, Ratios!Target
<1>3. /\ v \in DOMAIN Ratios!Rows(s) /\ v \in 1..quarter
      /\ \A q \in DOMAIN Ratios!Rows(s) : q <= v
  BY <1>1, LatestSeen
<1> HIDE DEF v
<1>4. Current(r) /\ close # 0
  BY <1>1 DEF LatestValued, Values, Current, Ratios!Computed, Ratios!OfMarket,
              Ratios!OfShares, Ratios!OfDart
<1>5. /\ valued[s] \in DOMAIN Ratios!Rows(s) /\ loaded[s] = Ratios!Rows(s)[valued[s]]
      /\ s \in FinanceSyncs => valued[s] \in DOMAIN own[s]
  BY <1>1 DEF RightRow, Reads
<1>6. /\ Ratios!AfterValuation(s) = IF s \in PriceSyncs THEN "commit" ELSE "release"
      /\ s \in FinanceSyncs => s \notin PriceSyncs
  BY EvidenceAssumption DEF Ratios!AfterValuation
<1>7. PricesDone' => PricesDone
  BY <1>1, <1>6, EvidenceAssumption DEF PricesDone, Ratios!Syncs
<1>8. (PricesDone => LatestCurrent(ratio))' /\ Unvalued(ratio)'
  BY <1>1, <1>4, <1>7 DEF LatestValued, LatestCurrent, Current, Unvalued
<1>9. \A o \in Ratios!Syncs : o # s => own'[o] = own[o]
  BY <1>2
<1>10. /\ v \in DOMAIN Ratios!Rows(s)' /\ Ratios!Rows(s)'[v] = r
       /\ s \in FinanceSyncs => v \in DOMAIN own'[s] /\ own'[s][v] = r
  <2>1. CASE v = valued[s] /\ r = loaded[s] /\ UNCHANGED own
    <3>1. Ratios!Rows(s)' = Ratios!Rows(s)
      BY <1>1, <2>1, SameRows
    <3> QED BY <1>3, <1>5, <2>1, <3>1, RowsAre
  <2>2. CASE own' = [own EXCEPT ![s] = Ratios!Written(own[s], v, r)]
    <3>1. v \in DOMAIN own'[s] /\ own'[s][v] = r
      BY <2>2 DEF Ratios!Written
    <3> QED BY <3>1 DEF Ratios!Rows
  <2> QED BY <1>2, <2>1, <2>2
<1>11. DOMAIN own'[s] \subseteq DOMAIN own[s] \cup {v}
  BY <1>2 DEF Ratios!Written
<1>12. /\ \A q \in DOMAIN Ratios!Rows(s)' : q <= v
       /\ \A q \in DOMAIN own'[s] : q <= v
  <2>1. DOMAIN Ratios!Rows(s)' = DOMAIN ratio \cup DOMAIN own'[s]
    BY <1>1 DEF Ratios!Rows
  <2>2. /\ DOMAIN ratio \subseteq DOMAIN Ratios!Rows(s)
        /\ DOMAIN own[s] \subseteq DOMAIN Ratios!Rows(s)
    BY RowsAre
  <2>3. v <= v
    BY <1>3
  <2> QED BY <1>3, <1>11, <2>1, <2>2, <2>3
<1>13. /\ DOMAIN Ratios!Rows(s)' \subseteq Int /\ v \in Int /\ DOMAIN own'[s] \subseteq Int
  <2>1. DOMAIN Ratios!Rows(s)' = DOMAIN ratio \cup DOMAIN own'[s]
    BY <1>1 DEF Ratios!Rows
  <2> QED BY <1>3, <1>11, <2>1
<1>14. LatestCurrent(Ratios!Rows(s))'
  <2> SUFFICES ASSUME NEW q \in DOMAIN Ratios!Rows(s)', \A p \in DOMAIN Ratios!Rows(s)' : p <= q
               PROVE  Ratios!Rows(s)'[q] = Ratios!NoRatio \/ Ratios!Rows(s)'[q].day = close'
    BY DEF LatestCurrent, Current
  <2>1. v <= q /\ q <= v /\ q \in Int
    BY <1>10, <1>12, <1>13
  <2>2. q = v
    BY <1>13, <2>1
  <2> QED BY <1>1, <1>4, <1>10, <2>2 DEF Current
<1>15. s \in FinanceSyncs => LatestCurrent(own[s])'
  <2> SUFFICES ASSUME s \in FinanceSyncs,
                      NEW q \in DOMAIN own'[s], \A p \in DOMAIN own'[s] : p <= q
               PROVE  own'[s][q] = Ratios!NoRatio \/ own'[s][q].day = close'
    BY DEF LatestCurrent, Current
  <2>1. v <= q /\ q <= v /\ q \in Int
    BY <1>10, <1>12, <1>13
  <2>2. q = v
    BY <1>13, <2>1
  <2> QED BY <1>1, <1>4, <1>10, <2>2 DEF Current
<1>16. ASSUME NEW o \in Ratios!Syncs PROVE (Values(o) /\ Unvalued(own[o]))'
  <2>1. CASE o = s
    BY <1>1, <1>4, <1>6, <1>14, <1>15, <2>1 DEF Values, Unvalued
  <2>2. CASE o # s
    <3>1. own'[o] = own[o] /\ vpc'[o] = vpc[o]
      BY <1>1, <1>9, <2>2
    <3>2. Ratios!Rows(o)' = Ratios!Rows(o)
      BY <1>1, <3>1, SameRows
    <3> QED BY <1>1, <3>1, <3>2 DEF LatestValued, Values, LatestCurrent, Current, Unvalued
  <2> QED BY <2>1, <2>2
<1> QED BY <1>8, <1>16 DEF LatestValued

LEMMA ValuedUpdateNothing ==
    ASSUME RatiosTyped, LatestValued, ~met, vfaults = 0,
           NEW s \in Ratios!Syncs, Ratios!UpdateNothing(s)
    PROVE  LatestValued'
<1> USE DEF RatiosTyped, Ratios!Goto
<1>1. /\ vpc[s] = "update" /\ DOMAIN Ratios!Rows(s) = {}
      /\ vpc' = [vpc EXCEPT ![s] = Ratios!AfterValuation(s)]
      /\ UNCHANGED <<ratio, own, priced, close, met>>
  BY DEF Ratios!UpdateNothing
<1>2. DOMAIN own[s] = {} /\ DOMAIN ratio = {}
  BY <1>1, RowsAre
<1>3. Ratios!AfterValuation(s) = IF s \in PriceSyncs THEN "commit" ELSE "release"
  BY DEF Ratios!AfterValuation
<1>4. (PricesDone => LatestCurrent(ratio))' /\ Unvalued(ratio)'
  BY <1>1, <1>2 DEF LatestCurrent, Unvalued
<1>5. ASSUME NEW o \in Ratios!Syncs PROVE (Values(o) /\ Unvalued(own[o]))'
  <2>1. Ratios!Rows(o)' = Ratios!Rows(o)
    BY <1>1, SameRows
  <2>2. CASE o = s
    BY <1>1, <1>2, <1>3, <2>1, <2>2 DEF Values, LatestCurrent, Unvalued
  <2>3. CASE o # s
    BY <1>1, <2>1, <2>3 DEF LatestValued, Values, LatestCurrent, Current, Unvalued
  <2> QED BY <2>2, <2>3
<1> QED BY <1>4, <1>5 DEF LatestValued

LEMMA ValuedCommit ==
    ASSUME RatiosTyped, KeysHeld, LatestValued, ~met, vfaults = 0,
           NEW s \in Ratios!Syncs, Ratios!Commit(s)
    PROVE  LatestValued'
<1> USE DEF RatiosTyped, Ratios!Goto, Ratios!Set
<1>1. /\ vpc[s] = "commit" /\ own' = [own EXCEPT ![s] = <<>>]
      /\ ratio' = IF s \in FinanceSyncs THEN Ratios!Trimmed(Ratios!Rows(s)) ELSE Ratios!Rows(s)
      /\ vpc' = [vpc EXCEPT ![s] = IF s \in PriceSyncs THEN "release" ELSE "done"]
      /\ UNCHANGED <<close, priced, met>>
  BY DEF Ratios!Commit
<1>2. DOMAIN own'[s] = {} /\ \A o \in Ratios!Syncs : o # s => own'[o] = own[o]
  <2>1. DOMAIN <<>> = {}
    OBVIOUS
  <2> QED BY <1>1, <2>1
<1>3. Ratios!Running(s) /\ (s \in FinanceSyncs => s \notin PriceSyncs)
  BY <1>1, EvidenceAssumption DEF Ratios!Running, Ratios!Ended
<1>4. LatestCurrent(Ratios!Rows(s))
  <2>1. CASE s \in PriceSyncs
    BY <1>1, <2>1 DEF LatestValued, Values
  <2>2. CASE s \in FinanceSyncs
    <3>1. PricesDone
      BY <1>3, <2>2, FinanceAlone, EvidenceAssumption
         DEF PricesDone, Ratios!Running, Ratios!Ended, Ratios!Syncs
    <3> QED BY <1>1, <2>2, <3>1, LatestOfBoth DEF LatestValued, Values
  <2> QED BY <2>1, <2>2 DEF Ratios!Syncs
<1>5. DOMAIN Ratios!Rows(s) \subseteq 1..quarter /\ quarter \in Nat
  BY RowsAre
<1>6. LatestCurrent(ratio')
  BY <1>1, <1>4, <1>5, LatestOfTrimmed
<1>7. \A q \in DOMAIN ratio' : q \in DOMAIN Ratios!Rows(s) /\ ratio'[q] = Ratios!Rows(s)[q]
  BY <1>1, <1>5, TrimmedAbove
<1>8. Unvalued(ratio)'
  <2> SUFFICES ASSUME close = 0, NEW q \in DOMAIN ratio' PROVE ratio'[q] = Ratios!NoRatio
    BY <1>1 DEF Unvalued
  <2>1. Unvalued(ratio) /\ Unvalued(own[s])
    BY DEF LatestValued
  <2>2. q \in DOMAIN own[s] \/ q \in DOMAIN ratio \ DOMAIN own[s]
    BY <1>7, RowsAre
  <2> QED BY <1>7, <2>1, <2>2, RowsAre DEF Unvalued
<1>9. (PricesDone => LatestCurrent(ratio))'
  BY <1>1, <1>6 DEF LatestCurrent, Current
<1>10. ASSUME NEW o \in Ratios!Syncs PROVE (Values(o) /\ Unvalued(own[o]))'
  <2>1. CASE o = s
    BY <1>1, <1>2, <1>3, <2>1 DEF Values, LatestCurrent, Unvalued
  <2>2. CASE o # s
    <3>1. own'[o] = own[o] /\ vpc'[o] = vpc[o]
      BY <1>1, <1>2, <2>2
    <3>2. o \in PriceSyncs => vpc[o] # "commit"
      BY <1>3, <2>2, PriceAlone, FinanceAlone, EvidenceAssumption
         DEF Ratios!Running, Ratios!Ended, Ratios!Syncs
    <3> QED BY <1>1, <3>1, <3>2 DEF LatestValued, Values, LatestCurrent, Current, Unvalued
  <2> QED BY <2>1, <2>2
<1> QED BY <1>8, <1>9, <1>10 DEF LatestValued

LEMMA LatestValuedStep ==
    RatiosTyped /\ KeysHeld /\ RightRow /\ LatestValued /\ Ratios!Next => LatestValued'
<1> SUFFICES ASSUME RatiosTyped, KeysHeld, RightRow, LatestValued, Ratios!Next,
                    ~met', vfaults' = 0
             PROVE  LatestValued'
  BY DEF LatestValued
<1> USE DEF Ratios!Set, Ratios!Goto
<1>1. CASE Ratios!Trade \/ Ratios!Report
  <2>1. UNCHANGED <<ratio, own, close, priced, vpc, met, vfaults>>
    BY <1>1 DEF Ratios!Trade, Ratios!Report
  <2>2. ASSUME NEW o \in Ratios!Syncs PROVE (Values(o) /\ Unvalued(own[o]))'
    <3>1. Ratios!Rows(o)' = Ratios!Rows(o)
      BY <2>1, SameRows
    <3> QED BY <2>1, <3>1 DEF LatestValued, Values, LatestCurrent, Current, Unvalued
  <2>3. (PricesDone => LatestCurrent(ratio))' /\ Unvalued(ratio)'
    BY <2>1 DEF LatestValued, PricesDone, LatestCurrent, Current, Unvalued
  <2> QED BY <2>2, <2>3 DEF LatestValued
<1>2. ASSUME NEW s \in Ratios!Syncs, Ratios!Begin(s) PROVE LatestValued'
  <2>1. PICK label \in {"sync", "done"} : vpc' = [vpc EXCEPT ![s] = label]
    BY <1>2 DEF Ratios!Begin
  <2>2. vpc[s] = "start" /\ vfaults = 0 /\ UNCHANGED <<ratio, own, close, priced>>
    BY <1>2 DEF Ratios!Begin
  <2>3. ~met
    BY <1>2, Zenon DEF Ratios!Begin
  <2> QED BY <2>1, <2>2, <2>3, ValuedQuiet
<1>3. ASSUME NEW s \in Ratios!Syncs, Ratios!SyncPrices(s) PROVE LatestValued'
  <2>1. ~met /\ vfaults = 0
    BY <1>3 DEF Ratios!SyncPrices
  <2> QED BY <1>3, <2>1, ValuedSyncPrices
<1>4. ASSUME NEW s \in Ratios!Syncs, Ratios!SyncFinance(s) PROVE LatestValued'
  <2>1. ~met /\ vfaults = 0
    BY <1>4 DEF Ratios!SyncFinance
  <2> QED BY <1>4, <2>1, ValuedSyncFinance
<1>5. ASSUME NEW s \in Ratios!Syncs, Ratios!ReadPrice(s) PROVE LatestValued'
  <2>1. ~met /\ vfaults = 0
    BY <1>5 DEF Ratios!ReadPrice
  <2> QED BY <1>5, <2>1, ValuedReadPrice
<1>6. ASSUME NEW s \in Ratios!Syncs, Ratios!ReadQuarter(s) PROVE LatestValued'
  BY <1>6, ValuedQuiet DEF Ratios!ReadQuarter
<1>7. ASSUME NEW s \in Ratios!Syncs, Ratios!Update(s) PROVE LatestValued'
  <2>1. ~met /\ vfaults = 0
    BY <1>7 DEF Ratios!Update
  <2> QED BY <1>7, <2>1, ValuedUpdate
<1>8. ASSUME NEW s \in Ratios!Syncs, Ratios!UpdateNothing(s) PROVE LatestValued'
  <2>1. ~met /\ vfaults = 0
    BY <1>8 DEF Ratios!UpdateNothing
  <2> QED BY <1>8, <2>1, ValuedUpdateNothing
<1>9. ASSUME NEW s \in Ratios!Syncs, Ratios!SkipValuation(s) \/ Ratios!Fail(s) PROVE LatestValued'
  BY <1>9 DEF Ratios!SkipValuation, Ratios!Fail, RatiosTyped
<1>10. ASSUME NEW s \in Ratios!Syncs, Ratios!Commit(s) PROVE LatestValued'
  <2>1. ~met /\ vfaults = 0
    BY <1>10 DEF Ratios!Commit
  <2> QED BY <1>10, <2>1, ValuedCommit
<1>11. ASSUME NEW s \in Ratios!Syncs, Ratios!Release(s) PROVE LatestValued'
  BY <1>11, ValuedQuiet DEF Ratios!Release, Ratios!Syncs
<1> QED BY <1>1, <1>2, <1>3, <1>4, <1>5, <1>6, <1>7, <1>8, <1>9, <1>10, <1>11
        DEF Ratios!Next

LEMMA RatiosStep == RatiosInv /\ [Ratios!Next]_Ratios!vars => RatiosInv'
<1>1. CASE Ratios!Next
  BY <1>1, RatiosTypedStep, KeysHeldStep, RightRowStep, LatestValuedStep DEF RatiosInv
<1>2. ASSUME RatiosInv, UNCHANGED Ratios!vars PROVE RatiosInv'
  <2>1. \A s \in Ratios!Syncs : Ratios!Rows(s)' = Ratios!Rows(s)
    BY <1>2, SameRows DEF Ratios!vars
  <2>2. StoredQuarters' = StoredQuarters
    BY <1>2 DEF Ratios!vars, StoredQuarters
  <2>3. RatiosTyped' /\ KeysHeld'
    BY <1>2 DEF RatiosInv, RatiosTyped, KeysHeld, Holds, Ratios!Running, Ratios!vars
  <2>4. RightRow'
    BY <1>2, <2>1, <2>2
       DEF RatiosInv, RightRow, RowsRight, OfRow, FinanceLeads, Reads, Ratios!vars
  <2>5. LatestValued'
    BY <1>2, <2>1 DEF RatiosInv, LatestValued, PricesDone, Values, LatestCurrent, Current,
                      Unvalued, Ratios!vars
  <2> QED BY <2>3, <2>4, <2>5 DEF RatiosInv
<1> QED BY <1>1, <1>2

LEMMA RatiosRight == RatiosInv => Ratios!RatioOfItsRow
<1> SUFFICES ASSUME RatiosInv, ~met PROVE Ratios!RatioOfItsRow
  BY DEF Ratios!RatioOfItsRow
<1>1. \A q \in DOMAIN ratio : ratio[q].quarter \in {-1, 0, q}
  BY DEF RatiosInv, RightRow, RowsRight, OfRow
<1>2. ASSUME \A s \in Ratios!Syncs : ~Ratios!Running(s), vfaults = 0, DOMAIN ratio # {}
      PROVE  LET top == ratio[Ratios!Latest(ratio)] IN top = Ratios!NoRatio \/ top.day = close
  <2>1. PricesDone
    BY <1>2 DEF PricesDone, Ratios!Running, Ratios!Ended, Ratios!Syncs
  <2>2. LatestCurrent(ratio)
    BY <1>2, <2>1 DEF RatiosInv, LatestValued
  <2>3. DOMAIN ratio \subseteq 1..quarter /\ quarter \in Nat
    BY EvidenceAssumption DEF RatiosInv, RatiosTyped
  <2>4. /\ Ratios!Latest(ratio) \in DOMAIN ratio
        /\ \A q \in DOMAIN ratio : q <= Ratios!Latest(ratio)
    BY <1>2, <2>3, LatestIs
  <2> QED BY <2>2, <2>4 DEF LatestCurrent, Current
<1> QED BY <1>1, <1>2 DEF Ratios!RatioOfItsRow

LEMMA RatiosAlone == AllSpec => (which = "ratios" /\ Ratios!Spec) \/ []~(which = "ratios")
<1>1. AllInit /\ which = "ratios" => Ratios!Init
  BY DEF AllInit
<1>2. which = "ratios" /\ [AllNext]_allvars =>
          (which = "ratios")' /\ [Ratios!Next]_Ratios!vars
  BY DEF AllNext, allvars, vvars, Ratios!vars
<1>3. ~(which = "ratios") /\ [AllNext]_allvars => (~(which = "ratios"))'
  BY DEF AllNext, allvars
<1> QED BY <1>1, <1>2, <1>3, PTL DEF AllSpec, Ratios!Spec

LEMMA RatiosHold == AllSpec => [](which = "ratios" => Ratios!RatioOfItsRow)
<1>1. Ratios!Spec => []RatiosInv
  BY RatiosInit, RatiosStep, PTL DEF Ratios!Spec
<1> QED BY <1>1, RatiosRight, RatiosAlone, PTL

-----------------------------------------------------------------------------
(* The newest days of a table                                               *)

LEMMA HasFirst ==
    ASSUME NEW n \in Nat, NEW S, S \subseteq 1..n, S # {}
    PROVE  \E m \in S : \A q \in S : m <= q
<1> DEFINE B == {b \in 1..n : \A q \in S : b <= q}
<1>0. S \subseteq Int /\ \A q \in S : 1 <= q /\ q <= n
  OBVIOUS
<1>1. 1 \in B
  <2>0. PICK q \in S : TRUE
    OBVIOUS
  <2>1. 1 <= n
    BY <1>0, <2>0
  <2> QED BY <2>1, <1>0
<1>2. PICK m \in B : \A b \in B : b <= m
  <2>1. B \subseteq 1..n /\ B # {}
    BY <1>1
  <2> HIDE DEF B
  <2> QED BY <2>1, HasLatest
<1>3. m \in S
  <2> SUFFICES ASSUME m \notin S PROVE FALSE
    OBVIOUS
  <2>1. m \in Int /\ \A q \in S : m < q
    BY <1>0
  <2>2. PICK q \in S : TRUE
    OBVIOUS
  <2>3. m + 1 \in 1..n /\ \A r \in S : m + 1 <= r
    BY <1>0, <2>1, <2>2
  <2>4. m + 1 \in B
    BY <2>3
  <2> QED BY <1>2, <2>1, <2>4
<1> QED BY <1>3

LEMMA MaxIs ==
    ASSUME NEW n \in Nat, NEW S, S \subseteq 1..n, S # {}
    PROVE  Prices!Max(S) \in S /\ \A q \in S : q <= Prices!Max(S)
<1>1. \E m \in S : \A q \in S : m >= q
  <2>1. PICK m \in S : \A q \in S : q <= m
    BY HasLatest
  <2> QED BY <2>1
<1> QED BY <1>1 DEF Prices!Max

LEMMA MinIs ==
    ASSUME NEW n \in Nat, NEW S, S \subseteq 1..n, S # {}
    PROVE  Prices!Min(S) \in S /\ \A q \in S : Prices!Min(S) <= q
<1>1. \E m \in S : \A q \in S : m <= q
  BY HasFirst
<1> QED BY <1>1 DEF Prices!Min

\* What of a set of days is newer than a day.
Since(d, S) == {p \in S : p > d}

LEMMA NewestIs ==
    ASSUME NEW n, NEW S
    PROVE  Prices!Newest(n, S) = {d \in S : Cardinality(Since(d, S)) < n}
<1>1. \A d : Prices!Cardinality(Since(d, S)) = Cardinality(Since(d, S))
  BY DEF Prices!Cardinality, Cardinality
<1> QED BY <1>1 DEF Prices!Newest, Since

LEMMA SinceLess ==
    ASSUME NEW k \in Nat, NEW S, S \subseteq 1..k, NEW T, T \subseteq S, NEW d \in Int
    PROVE  /\ Cardinality(Since(d, S)) \in Nat /\ Cardinality(Since(d, T)) \in Nat
           /\ Cardinality(Since(d, T)) <= Cardinality(Since(d, S))
<1>1. IsFiniteSet(1..k)
  BY FS_Interval
<1>2. IsFiniteSet(Since(d, S)) /\ IsFiniteSet(Since(d, T))
  <2>1. Since(d, S) \subseteq 1..k /\ Since(d, T) \subseteq 1..k
    BY DEF Since
  <2> QED BY <1>1, <2>1, FS_Subset
<1>3. Since(d, T) \subseteq Since(d, S)
  BY DEF Since
<1> QED BY <1>2, <1>3, FS_Subset, FS_CardinalityType

\* Later days have less after them.
LEMMA LaterLess ==
    ASSUME NEW k \in Nat, NEW S, S \subseteq 1..k, NEW d \in Int, NEW e \in Int, d <= e
    PROVE  Cardinality(Since(e, S)) <= Cardinality(Since(d, S))
<1>1. IsFiniteSet(1..k)
  BY FS_Interval
<1>2. IsFiniteSet(Since(d, S))
  <2>1. Since(d, S) \subseteq 1..k
    BY DEF Since
  <2> QED BY <1>1, <2>1, FS_Subset
<1>3. Since(e, S) \subseteq Since(d, S)
  <2>1. \A p \in S : p > e => p > d
    <3> SUFFICES ASSUME NEW p \in S, p > e PROVE p > d
      OBVIOUS
    <3>1. p \in Int
      OBVIOUS
    <3> QED BY <3>1
  <2> QED BY <2>1 DEF Since
<1> QED BY <1>2, <1>3, FS_Subset

\* What is newer than one of the newest days is one of them.
LEMMA NewestUp ==
    ASSUME NEW k \in Nat, NEW S, S \subseteq 1..k, NEW n \in Nat,
           NEW d \in Prices!Newest(n, S), NEW e \in S, d <= e
    PROVE  e \in Prices!Newest(n, S)
<1>1. d \in S /\ Cardinality(Since(d, S)) < n
  BY NewestIs
<1>0. d \in Int /\ e \in Int
  BY <1>1
<1>2. Cardinality(Since(e, S)) <= Cardinality(Since(d, S))
  BY <1>0, LaterLess
<1>3. Cardinality(Since(e, S)) \in Nat /\ Cardinality(Since(d, S)) \in Nat
  BY <1>0, SinceLess
<1> QED BY <1>1, <1>2, <1>3, NewestIs

\* The newest days are as many as asked for, if there are so many after some day.
LEMMA NewestMany ==
    ASSUME NEW k \in Nat, NEW S, S \subseteq 1..k, NEW n \in Nat, NEW d \in Int,
           Cardinality(Since(d, S)) >= n
    PROVE  Cardinality(Since(d, Prices!Newest(n, S))) >= n
<1> DEFINE N == Prices!Newest(n, S)
           Lost == Since(d, S) \ Since(d, N)
<1>1. N \subseteq S
  BY NewestIs
<1>2. CASE Lost = {}
  <2>1. Since(d, S) = Since(d, N)
    BY <1>1, <1>2 DEF Since
  <2> QED BY <2>1
<1>3. CASE Lost # {}
  <2>1. PICK m \in Lost : \A q \in Lost : q <= m
    <3>1. Lost \subseteq 1..k
      BY DEF Since
    <3> HIDE DEF Lost
    <3> QED BY <1>3, <3>1, HasLatest
  <2>2. m \in S /\ m > d /\ m \notin N
    BY DEF Since
  <2>0. m \in Int
    BY <2>2
  <2>3. Since(m, S) \subseteq Since(d, N)
    <3> SUFFICES ASSUME NEW p \in S, p > m PROVE p \in N /\ p > d
      BY DEF Since
    <3>1. p > d
      BY <2>2
    <3>2. p \notin Lost
      BY <2>1, <2>2
    <3> QED BY <3>1, <3>2 DEF Since
  <2>4. Cardinality(Since(m, S)) >= n
    <3>1. Cardinality(Since(m, S)) \in Nat
      BY <2>0, SinceLess
    <3> QED BY <2>2, <3>1, NewestIs
  <2>5. IsFiniteSet(Since(d, N))
    <3>1. IsFiniteSet(1..k)
      BY FS_Interval
    <3>2. Since(d, N) \subseteq 1..k
      BY <1>1 DEF Since
    <3> QED BY <3>1, <3>2, FS_Subset
  <2>6. Cardinality(Since(m, S)) <= Cardinality(Since(d, N))
    BY <2>3, <2>5, FS_Subset
  <2>7. Cardinality(Since(m, S)) \in Nat /\ Cardinality(Since(d, N)) \in Nat
    BY <1>1, <2>0, SinceLess
  <2> QED BY <2>4, <2>6, <2>7
<1> QED BY <1>2, <1>3

LEMMA NewestStays ==
    ASSUME NEW k \in Nat, NEW S, S \subseteq 1..k, NEW n \in Nat
    PROVE  Prices!Newest(n, Prices!Newest(n, S)) = Prices!Newest(n, S)
<1> DEFINE N == Prices!Newest(n, S)
<1>1. N \subseteq S
  BY NewestIs
<1>2. ASSUME NEW d \in N PROVE Cardinality(Since(d, N)) < n
  <2>1. d \in S /\ d \in Int /\ Cardinality(Since(d, S)) < n
    <3>1. d \in S /\ Cardinality(Since(d, S)) < n
      BY NewestIs
    <3> QED BY <3>1
  <2>2. /\ Cardinality(Since(d, N)) <= Cardinality(Since(d, S))
        /\ Cardinality(Since(d, N)) \in Nat /\ Cardinality(Since(d, S)) \in Nat
    BY <1>1, <2>1, SinceLess
  <2> QED BY <2>1, <2>2
<1> HIDE DEF N
<1>3. Prices!Newest(n, N) = {d \in N : Cardinality(Since(d, N)) < n}
  BY NewestIs
<1>4. Prices!Newest(n, N) = N
  BY <1>2, <1>3
<1> QED BY <1>4 DEF N

LEMMA NewestHasLast ==
    ASSUME NEW k \in Nat, NEW S, S \subseteq 1..k, NEW n \in Nat \ {0}, NEW m \in S,
           \A q \in S : q <= m
    PROVE  m \in Prices!Newest(n, S)
<1>1. Since(m, S) = {}
  <2> SUFFICES ASSUME NEW p \in S, p > m PROVE FALSE
    BY DEF Since
  <2>1. p \in Int /\ m \in Int /\ p <= m
    OBVIOUS
  <2> QED BY <2>1
<1>2. Cardinality(Since(m, S)) = 0
  BY <1>1, FS_EmptySet
<1> QED BY <1>2, NewestIs

\* What else a table has than the days of S is older than the n newest of S.
Older(n, T, S) == \A d \in T \ S : Cardinality(Since(d, S)) >= n

-----------------------------------------------------------------------------
(* The history of prices.  The day of a row counts, not its number: between *)
(* the oldest and the newest row there is every trading day, whatever was   *)
(* trimmed, and a sync asks for the days up to one that is stored.          *)

\* The days that may have a close.
TradingDays == DOMAIN final \cup (IF open THEN {today} ELSE {})

PricesTyped ==
    /\ today \in Nat /\ DOMAIN final \subseteq 1..(today - 1)
    /\ TradingDays \subseteq 1..today
    /\ DOMAIN price \subseteq TradingDays /\ DOMAIN ind \subseteq 1..today
    /\ open \in BOOLEAN /\ behind \in BOOLEAN
    /\ pstage \in {"idle", "begun", "fetched", "stored"} /\ (pstage = "stored" => behind)
    /\ view.reading \in BOOLEAN /\ view.torn \in BOOLEAN
    /\ view = [reading |-> view.reading, shown |-> view.shown, torn |-> view.torn]

\* A sync reaches back to a stored row, or as far as a backfill does.
Asks(first, latest) ==
    /\ first <= latest /\ latest <= today /\ window = first..latest
    /\ \A d \in DOMAIN price : d <= latest
    /\ first = latest - Backfill \/ \E m \in DOMAIN price : first <= m

\* It was given every trading day that it asked for; only the last close may change.
Given(latest) ==
    /\ DOMAIN fetched \subseteq window \cap TradingDays
    /\ \A d \in window \cap DOMAIN final :
           d < latest => d \in DOMAIN fetched /\ fetched[d] = final[d]

SyncOfRange ==
    pstage \in {"begun", "fetched"} =>
        \E first, latest \in Int :
            Asks(first, latest) /\ (pstage = "fetched" => Given(latest))

Whole ==
    \A d \in DOMAIN final \ unasked : \A lo, hi \in DOMAIN price :
        lo <= d /\ d < hi => d \in DOMAIN price /\ price[d].close = final[d]

\* The close of the trading day before another.
Before(d, base) ==
    \E p \in DOMAIN final :
        /\ p < d /\ base = {final[p]}
        /\ \A q \in DOMAIN final : q <= p \/ d <= q

RatesOfDayBefore == \A d \in DOMAIN price : price[d].base # {} => Before(d, price[d].base)

\* Indicators without a close are older than the rows that are kept.
IndicatorsOlder == Older(MaxRows, DOMAIN ind, DOMAIN price)

RowsKept == ~behind => Prices!Newest(MaxRows, DOMAIN price) = DOMAIN price

PageCurrent ==
    view.reading /\ ~view.torn =>
        ~behind /\ view.shown = Prices!CloseOf(Prices!Newest(1, DOMAIN price))

PricesInv ==
    /\ PricesTyped /\ SyncOfRange /\ Whole /\ RatesOfDayBefore /\ IndicatorsOlder
    /\ RowsKept /\ PageCurrent /\ Prices!IndicatorsFollowPrices

LEMMA PricesInit == Prices!Init => PricesInv
<1> SUFFICES ASSUME Prices!Init PROVE PricesInv
  OBVIOUS
<1>1. /\ DOMAIN final = {} /\ DOMAIN price = {} /\ DOMAIN ind = {} /\ today = 1
      /\ pstage = "idle" /\ behind = FALSE /\ open \in BOOLEAN
      /\ view = [reading |-> FALSE, shown |-> Prices!Nothing, torn |-> FALSE]
  <2>1. DOMAIN Prices!Nothing = {}
    BY DEF Prices!Nothing
  <2> QED BY <2>1 DEF Prices!Init, Prices!NoView
<1>2. PricesTyped
  <2>1. TradingDays \subseteq {1} /\ 1..today = {1}
    BY <1>1 DEF TradingDays
  <2>2. view.reading = FALSE /\ view.torn = FALSE /\ view.shown = Prices!Nothing
    BY <1>1
  <2> QED BY <1>1, <2>1, <2>2 DEF PricesTyped
<1>3. Prices!IndicatorsFollowPrices
  <2>1. DOMAIN Prices!CloseOf(DOMAIN price) = {}
    BY <1>1 DEF Prices!CloseOf
  <2>2. ind = Prices!Averages(Prices!CloseOf(DOMAIN price))
    BY <1>1, <2>1 DEF Prices!Init, Prices!Nothing, Prices!Averages
  <2> QED BY <2>2 DEF Prices!IndicatorsFollowPrices
<1>4. RowsKept
  <2>1. Prices!Newest(MaxRows, DOMAIN price) \subseteq DOMAIN price
    BY NewestIs
  <2> QED BY <1>1, <2>1 DEF RowsKept
<1> QED BY <1>1, <1>2, <1>3, <1>4
        DEF PricesInv, SyncOfRange, Whole, RatesOfDayBefore, IndicatorsOlder, Older, PageCurrent

\* What a step leaves that touches neither the tables nor the market.
LEMMA TablesKept ==
    ASSUME PricesInv, UNCHANGED <<today, open, final, price, ind, behind, unasked>>
    PROVE  /\ TradingDays' = TradingDays
           /\ Whole' /\ RatesOfDayBefore' /\ IndicatorsOlder' /\ RowsKept'
           /\ Prices!IndicatorsFollowPrices'
<1>1. DOMAIN price' = DOMAIN price
  OBVIOUS
<1>2. Prices!CloseOf(DOMAIN price)' = Prices!CloseOf(DOMAIN price)
  BY DEF Prices!CloseOf
<1>3. Whole' /\ RatesOfDayBefore' /\ IndicatorsOlder' /\ RowsKept'
  BY DEF PricesInv, Whole, RatesOfDayBefore, Before, IndicatorsOlder, RowsKept
<1>4. Prices!IndicatorsFollowPrices'
  BY <1>2 DEF PricesInv, Prices!IndicatorsFollowPrices
<1> QED BY <1>3, <1>4 DEF TradingDays

LEMMA DayEnds ==
    ASSUME PricesInv, Prices!NextDay
    PROVE  PricesInv'
<1>1. /\ today' = today + 1 /\ open' \in BOOLEAN /\ today \in Nat
      /\ UNCHANGED <<price, ind, pstage, window, fetched, behind, unasked, view>>
  BY DEF Prices!NextDay, PricesInv, PricesTyped
<1>2. DOMAIN final' = TradingDays /\ \A d \in DOMAIN final : final'[d] = final[d]
  <2>1. today \notin DOMAIN final
    BY <1>1 DEF PricesInv, PricesTyped
  <2>2. CASE open
    BY <2>1, <2>2 DEF Prices!NextDay, Prices!With, TradingDays
  <2>3. CASE ~open
    BY <2>3 DEF Prices!NextDay, TradingDays
  <2> QED BY <2>2, <2>3
<1>3. /\ DOMAIN final \subseteq TradingDays /\ TradingDays \subseteq DOMAIN final \cup {today}
      /\ TradingDays \subseteq TradingDays' /\ TradingDays' \subseteq TradingDays \cup {today'}
  BY <1>2 DEF TradingDays
<1>4. /\ TradingDays \subseteq 1..today /\ DOMAIN price \subseteq TradingDays
      /\ \A d \in DOMAIN price : d \in Int /\ d <= today
  <2>1. TradingDays \subseteq 1..today /\ DOMAIN price \subseteq TradingDays
    BY DEF PricesInv, PricesTyped
  <2>2. \A d \in 1..today : d \in Int /\ d <= today
    BY <1>1
  <2> QED BY <2>1, <2>2
<1>5. PricesTyped'
  <2>1. TradingDays' \subseteq 1..today' /\ DOMAIN final' \subseteq 1..(today' - 1)
    BY <1>1, <1>2, <1>3, <1>4
  <2>2. DOMAIN ind \subseteq 1..today'
    BY <1>1 DEF PricesInv, PricesTyped
  <2> QED BY <1>1, <1>3, <1>4, <2>1, <2>2 DEF PricesInv, PricesTyped
<1>6. SyncOfRange'
  <2> SUFFICES ASSUME pstage \in {"begun", "fetched"}
               PROVE  \E first, latest \in Int :
                          (Asks(first, latest) /\ (pstage = "fetched" => Given(latest)))'
    BY <1>1 DEF SyncOfRange
  <2>1. PICK first, latest \in Int :
            Asks(first, latest) /\ (pstage = "fetched" => Given(latest))
    BY DEF PricesInv, SyncOfRange
  <2>2. Asks(first, latest)'
    BY <1>1, <2>1 DEF Asks
  <2>3. ASSUME pstage = "fetched" PROVE Given(latest)'
    <3>1. Given(latest)
      BY <2>1, <2>3
    <3>2. DOMAIN fetched' \subseteq window' \cap TradingDays'
      BY <1>1, <1>3, <3>1 DEF Given
    <3>3. ASSUME NEW d \in window \cap DOMAIN final', d < latest
          PROVE  d \in DOMAIN fetched /\ fetched[d] = final'[d]
      <4>1. d # today
        BY <1>1, <2>1, <3>3 DEF Asks
      <4>2. d \in DOMAIN final
        BY <1>2, <1>3, <4>1
      <4> QED BY <1>2, <3>1, <3>3, <4>2 DEF Given
    <3> QED BY <1>1, <3>2, <3>3 DEF Given
  <2> QED BY <1>1, <2>2, <2>3
<1>7. Whole'
  <2> SUFFICES ASSUME NEW d \in DOMAIN final' \ unasked, NEW lo \in DOMAIN price,
                      NEW hi \in DOMAIN price, lo <= d, d < hi
               PROVE  d \in DOMAIN price /\ price[d].close = final'[d]
    BY <1>1 DEF Whole
  <2>1. d # today
    <3>1. hi \in Int /\ hi <= today
      BY <1>4
    <3> QED BY <1>1, <3>1
  <2>2. d \in DOMAIN final
    BY <1>2, <1>3, <2>1
  <2> QED BY <1>2, <2>2 DEF PricesInv, Whole
<1>8. RatesOfDayBefore'
  <2> SUFFICES ASSUME NEW d \in DOMAIN price, price[d].base # {}
               PROVE  Before(d, price[d].base)'
    BY <1>1 DEF RatesOfDayBefore
  <2>1. PICK p \in DOMAIN final : /\ p < d /\ price[d].base = {final[p]}
                                  /\ \A q \in DOMAIN final : q <= p \/ d <= q
    BY DEF PricesInv, RatesOfDayBefore, Before
  <2>2. d <= today
    BY <1>1, <1>4
  <2>3. p \in DOMAIN final' /\ final'[p] = final[p]
    BY <1>2, <1>3
  <2>4. \A q \in DOMAIN final' : q <= p \/ d <= q
    BY <1>2, <1>3, <2>1, <2>2
  <2> QED BY <1>1, <2>1, <2>3, <2>4 DEF Before
<1>9. IndicatorsOlder' /\ RowsKept'
  BY <1>1 DEF PricesInv, IndicatorsOlder, RowsKept
<1>10. PageCurrent' /\ Prices!IndicatorsFollowPrices'
  BY <1>1 DEF PricesInv, PageCurrent, Prices!IndicatorsFollowPrices, Prices!CloseOf
<1> QED BY <1>5, <1>6, <1>7, <1>8, <1>9, <1>10 DEF PricesInv

LEMMA SyncBegins ==
    ASSUME PricesInv, Prices!Begin
    PROVE  PricesInv'
<1>1. /\ UNCHANGED <<today, open, final, price, ind, fetched, behind, unasked, view>>
      /\ pstage = "idle" /\ pstage' = "begun"
  BY DEF Prices!Begin
<1>2. /\ TradingDays' = TradingDays
      /\ Whole' /\ RatesOfDayBefore' /\ IndicatorsOlder' /\ RowsKept'
      /\ Prices!IndicatorsFollowPrices'
  BY <1>1, TablesKept
<1>3. PricesTyped'
  BY <1>1, <1>2 DEF PricesInv, PricesTyped
<1>4. PageCurrent'
  BY <1>1 DEF PricesInv, PageCurrent, Prices!CloseOf
<1>5. SyncOfRange'
  <2>1. PICK mode \in {"initial", "refresh"} : window' = Prices!FirstDay(mode)..today
    BY DEF Prices!Begin
  <2>2. DOMAIN price \subseteq 1..today /\ today \in Nat /\ \A d \in DOMAIN price : d <= today
    BY DEF PricesInv, PricesTyped
  <2>3. /\ Prices!FirstDay(mode) \in Int /\ Prices!FirstDay(mode) <= today
        /\ \/ Prices!FirstDay(mode) = today - Backfill
           \/ \E m \in DOMAIN price : Prices!FirstDay(mode) <= m
    <3>1. CASE DOMAIN price = {} \/ mode = "initial"
      BY <2>2, <3>1, EvidenceAssumption DEF Prices!FirstDay
    <3>2. CASE ~(DOMAIN price = {} \/ mode = "initial")
      <4>1. Prices!Max(DOMAIN price) \in DOMAIN price
        BY <2>2, <3>2, MaxIs
      <4>2. Prices!FirstDay(mode) = Prices!StartDate(Prices!Max(DOMAIN price))
        BY <3>2 DEF Prices!FirstDay
      <4> QED BY <2>2, <4>1, <4>2, EvidenceAssumption DEF Prices!StartDate
    <3> QED BY <3>1, <3>2
  <2>4. PICK b, t \in Int : b = Prices!FirstDay(mode) /\ t = today
    BY <2>2, <2>3
  <2>5. Asks(b, t)'
    BY <1>1, <2>1, <2>2, <2>3, <2>4 DEF Asks
  <2>6. ~(pstage = "fetched")'
    BY <1>1
  <2> QED BY <2>5, <2>6 DEF SyncOfRange
<1> QED BY <1>2, <1>3, <1>4, <1>5 DEF PricesInv

LEMMA SyncFetches ==
    ASSUME PricesInv, Prices!Fetch
    PROVE  PricesInv'
<1>1. /\ UNCHANGED <<today, open, final, price, ind, window, behind, unasked, view>>
      /\ pstage = "begun" /\ pstage' = "fetched"
  BY DEF Prices!Fetch
<1>2. /\ TradingDays' = TradingDays
      /\ Whole' /\ RatesOfDayBefore' /\ IndicatorsOlder' /\ RowsKept'
      /\ Prices!IndicatorsFollowPrices'
  BY <1>1, TablesKept
<1>3. PricesTyped'
  BY <1>1, <1>2 DEF PricesInv, PricesTyped
<1>4. PageCurrent'
  BY <1>1 DEF PricesInv, PageCurrent, Prices!CloseOf
<1>5. SyncOfRange'
  <2>1. PICK first, latest \in Int : Asks(first, latest)
    BY <1>1 DEF PricesInv, SyncOfRange
  <2>2. Asks(first, latest)'
    BY <1>1, <2>1 DEF Asks
  <2>3. Given(latest)'
    <3> DEFINE past == Prices!Only(final, window)
               live == IF open THEN window \cap {today} ELSE {}
    <3>1. /\ DOMAIN past = window \cap DOMAIN final
          /\ \A d \in DOMAIN past : past[d] = final[d]
      BY DEF Prices!Only
    <3>2. live \subseteq window \cap TradingDays /\ \A d \in live : d = today
      BY DEF TradingDays
    <3>3. /\ DOMAIN past \subseteq DOMAIN fetched'
          /\ DOMAIN fetched' \subseteq DOMAIN past \cup live
          /\ \A d \in DOMAIN past \ live : fetched'[d] = past[d]
      <4>1. fetched' \in {past} \cup {Prices!With(past, [d \in live |-> c]) : c \in Closes}
        BY DEF Prices!Fetch
      <4> HIDE DEF past, live
      <4>2. CASE fetched' = past
        BY <4>2
      <4>3. ASSUME NEW c \in Closes, fetched' = Prices!With(past, [d \in live |-> c])
            PROVE  /\ DOMAIN past \subseteq DOMAIN fetched'
                   /\ DOMAIN fetched' \subseteq DOMAIN past \cup live
                   /\ \A d \in DOMAIN past \ live : fetched'[d] = past[d]
        BY <4>3 DEF Prices!With
      <4> QED BY <4>1, <4>2, <4>3
    <3>4. today \in Int /\ latest <= today
      BY <2>1 DEF PricesInv, PricesTyped, Asks
    <3>5. \A d \in live : ~(d < latest)
      BY <3>2, <3>4
    <3>6. DOMAIN final \subseteq TradingDays
      BY DEF TradingDays
    <3> HIDE DEF past, live
    <3>7. DOMAIN fetched' \subseteq window \cap TradingDays
      BY <3>1, <3>2, <3>3, <3>6
    <3>8. \A d \in window \cap DOMAIN final :
              d < latest => d \in DOMAIN fetched' /\ fetched'[d] = final[d]
      BY <3>1, <3>3, <3>5
    <3> QED BY <1>1, <1>2, <3>7, <3>8 DEF Given
  <2> QED BY <1>1, <2>2, <2>3 DEF SyncOfRange
<1> QED BY <1>2, <1>3, <1>4, <1>5 DEF PricesInv

LEMMA SyncFails ==
    ASSUME PricesInv, Prices!Fail
    PROVE  PricesInv'
<1>1. UNCHANGED <<today, open, final, price, ind, behind, unasked, view>> /\ pstage' = "idle"
  BY DEF Prices!Fail
<1>2. /\ TradingDays' = TradingDays
      /\ Whole' /\ RatesOfDayBefore' /\ IndicatorsOlder' /\ RowsKept'
      /\ Prices!IndicatorsFollowPrices'
  BY <1>1, TablesKept
<1>3. PricesTyped' /\ SyncOfRange'
  BY <1>1, <1>2 DEF PricesInv, PricesTyped, SyncOfRange
<1>4. PageCurrent'
  BY <1>1 DEF PricesInv, PageCurrent, Prices!CloseOf
<1> QED BY <1>2, <1>3, <1>4 DEF PricesInv

LEMMA PageRead ==
    ASSUME PricesInv, Prices!ReadPrice \/ Prices!ReadIndicator
    PROVE  PricesInv'
<1>1. UNCHANGED <<today, open, final, price, ind, pstage, window, fetched, behind, unasked>>
  BY DEF Prices!ReadPrice, Prices!ReadIndicator
<1>2. /\ TradingDays' = TradingDays
      /\ Whole' /\ RatesOfDayBefore' /\ IndicatorsOlder' /\ RowsKept'
      /\ Prices!IndicatorsFollowPrices'
  BY <1>1, TablesKept
<1>3. SyncOfRange'
  BY <1>1, <1>2 DEF PricesInv, SyncOfRange, Asks, Given
<1>4. CASE Prices!ReadPrice
  <2>1. view' = [reading |-> TRUE, shown |-> Prices!CloseOf(Prices!Newest(1, DOMAIN price)),
                 torn |-> behind]
    BY <1>4 DEF Prices!ReadPrice
  <2>2. /\ view'.reading = TRUE /\ view'.torn = behind
        /\ view'.shown = Prices!CloseOf(Prices!Newest(1, DOMAIN price))
    BY <2>1
  <2>3. PricesTyped'
    BY <1>1, <1>2, <2>1, <2>2 DEF PricesInv, PricesTyped
  <2>4. PageCurrent'
    BY <1>1, <2>2 DEF PageCurrent, Prices!CloseOf
  <2> QED BY <1>2, <1>3, <2>3, <2>4 DEF PricesInv
<1>5. CASE Prices!ReadIndicator
  <2>1. view' = [reading |-> FALSE, shown |-> Prices!Nothing, torn |-> FALSE]
    BY <1>5 DEF Prices!ReadIndicator, Prices!NoView
  <2>2. view'.reading = FALSE /\ view'.torn = FALSE /\ view'.shown = Prices!Nothing
    BY <2>1
  <2>3. PricesTyped'
    BY <1>1, <1>2, <2>1, <2>2 DEF PricesInv, PricesTyped
  <2>4. PageCurrent'
    BY <2>2 DEF PageCurrent
  <2> QED BY <1>2, <1>3, <2>3, <2>4 DEF PricesInv
<1> QED BY <1>4, <1>5

\* The days of the tables are days of the calendar.
LEMMA CalendarDays ==
    ASSUME PricesInv
    PROVE  /\ today \in Nat /\ DOMAIN price \subseteq 1..today /\ DOMAIN ind \subseteq 1..today
           /\ DOMAIN price \subseteq TradingDays /\ DOMAIN final \subseteq TradingDays
           /\ \A d \in TradingDays : d \in Int /\ d <= today
<1>1. today \in Nat /\ TradingDays \subseteq 1..today /\ DOMAIN price \subseteq TradingDays
  BY DEF PricesInv, PricesTyped
<1>2. DOMAIN final \subseteq TradingDays
  BY DEF TradingDays
<1>3. \A d \in 1..today : d \in Int /\ d <= today
  BY <1>1
<1> QED BY <1>1, <1>2, <1>3 DEF PricesInv, PricesTyped

\* What is left of the closes when the oldest are dropped.
LEMMA Trimmed ==
    ASSUME PricesInv, price' = Prices!Trim(price), UNCHANGED <<today, open, final, unasked>>
    PROVE  /\ DOMAIN price' = Prices!Newest(MaxRows, DOMAIN price)
           /\ DOMAIN price' \subseteq DOMAIN price
           /\ \A d \in DOMAIN price' : price'[d] = price[d]
           /\ \A m \in DOMAIN price : \E newer \in DOMAIN price' : m <= newer
           /\ TradingDays' = TradingDays /\ Whole' /\ RatesOfDayBefore' /\ RowsKept'
<1> DEFINE N == Prices!Newest(MaxRows, DOMAIN price)
<1>1. /\ today \in Nat /\ DOMAIN price \subseteq 1..today
      /\ \A d \in DOMAIN price : d \in Int
  BY CalendarDays
<1>2. N \subseteq DOMAIN price
  BY NewestIs
<1>3. DOMAIN price' = N /\ \A d \in N : price'[d] = price[d]
  <2> HIDE DEF N
  <2>1. price' = Prices!Only(price, N)
    BY DEF Prices!Trim, N
  <2> QED BY <1>2, <2>1 DEF Prices!Only
<1>4. \A m \in DOMAIN price : \E newer \in DOMAIN price' : m <= newer
  <2> SUFFICES ASSUME NEW m \in DOMAIN price PROVE \E newer \in N : m <= newer
    BY <1>3
  <2>1. PICK top \in DOMAIN price : \A q \in DOMAIN price : q <= top
    BY <1>1, HasLatest
  <2>2. top \in N
    BY <1>1, <2>1, EvidenceAssumption, NewestHasLast
  <2> QED BY <2>1, <2>2
<1>5. Whole'
  <2> SUFFICES ASSUME NEW d \in DOMAIN final \ unasked, NEW lo \in N, NEW hi \in N,
                      lo <= d, d < hi
               PROVE  d \in N /\ price[d].close = final[d]
    BY <1>3 DEF Whole
  <2>1. d \in DOMAIN price /\ price[d].close = final[d]
    BY <1>2 DEF PricesInv, Whole
  <2>2. d \in N
    BY <1>1, <2>1, EvidenceAssumption, NewestUp
  <2> QED BY <2>1, <2>2
<1>6. RatesOfDayBefore'
  BY <1>2, <1>3 DEF PricesInv, RatesOfDayBefore, Before
<1>7. RowsKept'
  <2>1. Prices!Newest(MaxRows, N) = N
    BY <1>1, EvidenceAssumption, NewestStays
  <2> HIDE DEF N
  <2> QED BY <1>3, <2>1 DEF RowsKept
<1> QED BY <1>2, <1>3, <1>4, <1>5, <1>6, <1>7 DEF TradingDays

LEMMA AveragesOf ==
    ASSUME NEW f
    PROVE  /\ DOMAIN Prices!Averages(f) = DOMAIN f
           /\ Prices!Averages(f) = [d \in DOMAIN f |-> Prices!Averages(f)[d]]
BY DEF Prices!Averages

LEMMA TablesTrimmed ==
    ASSUME PricesInv, Prices!Cleanup
    PROVE  PricesInv'
<1>1. /\ UNCHANGED <<today, open, final, pstage, window, fetched, behind, unasked, view>>
      /\ price' = Prices!Trim(price) /\ ind' = Prices!Trim(ind)
  BY DEF Prices!Cleanup
<1>2. /\ DOMAIN price' = Prices!Newest(MaxRows, DOMAIN price)
      /\ DOMAIN price' \subseteq DOMAIN price
      /\ \A d \in DOMAIN price' : price'[d] = price[d]
      /\ \A m \in DOMAIN price : \E newer \in DOMAIN price' : m <= newer
      /\ TradingDays' = TradingDays /\ Whole' /\ RatesOfDayBefore' /\ RowsKept'
  BY <1>1, Trimmed
<1>3. DOMAIN ind' \subseteq DOMAIN ind
  BY <1>1 DEF Prices!Trim, Prices!Only
<1>4. /\ today \in Nat /\ DOMAIN price \subseteq 1..today /\ DOMAIN ind \subseteq 1..today
      /\ \A d \in DOMAIN price : d \in Int
  BY CalendarDays
<1>5. PricesTyped'
  BY <1>1, <1>2, <1>3 DEF PricesInv, PricesTyped
<1>6. SyncOfRange'
  <2> SUFFICES ASSUME pstage \in {"begun", "fetched"}
               PROVE  \E first, latest \in Int :
                          (Asks(first, latest) /\ (pstage = "fetched" => Given(latest)))'
    BY <1>1 DEF SyncOfRange
  <2>1. PICK first, latest \in Int :
            Asks(first, latest) /\ (pstage = "fetched" => Given(latest))
    BY DEF PricesInv, SyncOfRange
  <2>2. first = latest - Backfill \/ \E m \in DOMAIN price' : first <= m
    <3> SUFFICES ASSUME NEW m \in DOMAIN price, first <= m
                 PROVE  \E newer \in DOMAIN price' : first <= newer
      BY <2>1 DEF Asks
    <3>1. PICK newer \in DOMAIN price' : m <= newer
      BY <1>2
    <3>2. m \in Int /\ newer \in Int
      BY <1>2, <1>4
    <3> QED BY <3>1, <3>2
  <2>3. Asks(first, latest)'
    BY <1>1, <1>2, <2>1, <2>2 DEF Asks
  <2>4. (pstage = "fetched" => Given(latest))'
    BY <1>1, <1>2, <2>1 DEF Given
  <2> QED BY <2>3, <2>4
<1>7. IndicatorsOlder'
  <2> SUFFICES ASSUME NEW d \in DOMAIN ind \ DOMAIN price'
               PROVE  Cardinality(Since(d, DOMAIN price')) >= MaxRows
    BY <1>3 DEF IndicatorsOlder, Older
  <2>1. d \in Int
    BY <1>4
  <2>2. Cardinality(Since(d, DOMAIN price)) \in Nat
    BY <1>4, <2>1, SinceLess
  <2>3. Cardinality(Since(d, DOMAIN price)) >= MaxRows
    <3>1. CASE d \in DOMAIN price
      BY <1>2, <2>2, <3>1, EvidenceAssumption, NewestIs
    <3>2. CASE d \notin DOMAIN price
      BY <3>2 DEF PricesInv, IndicatorsOlder, Older
    <3> QED BY <3>1, <3>2
  <2> QED BY <1>2, <1>4, <2>1, <2>3, EvidenceAssumption, NewestMany
<1>8. ~behind => /\ DOMAIN price' = DOMAIN price
                 /\ \A S : Prices!CloseOf(S \cap DOMAIN price)'
                               = Prices!CloseOf(S \cap DOMAIN price)
  BY <1>2 DEF PricesInv, RowsKept, Prices!CloseOf
<1>9. Prices!IndicatorsFollowPrices'
  <2> SUFFICES ASSUME ~behind
               PROVE  ind' = Prices!Averages(Prices!CloseOf(DOMAIN price)')
    BY <1>1 DEF Prices!IndicatorsFollowPrices
  <2> DEFINE closes == Prices!CloseOf(DOMAIN price)
  <2>1. DOMAIN closes = DOMAIN price
    BY DEF Prices!CloseOf
  <2>2. ind = Prices!Averages(closes)
    BY DEF PricesInv, Prices!IndicatorsFollowPrices
  <2>3. Prices!CloseOf(DOMAIN price)' = closes
    BY <1>2, <1>8 DEF Prices!CloseOf
  <2> HIDE DEF closes
  <2>4. DOMAIN ind = DOMAIN price /\ ind = [d \in DOMAIN price |-> ind[d]]
    BY <2>1, <2>2, AveragesOf
  <2>5. Prices!Newest(MaxRows, DOMAIN ind) = DOMAIN ind
    BY <2>4 DEF PricesInv, RowsKept
  <2>6. ind' = ind
    BY <1>1, <2>4, <2>5 DEF Prices!Trim, Prices!Only
  <2> QED BY <2>2, <2>3, <2>6
<1>10. PageCurrent'
  <2> SUFFICES ASSUME view.reading, ~view.torn
               PROVE  ~behind /\ view.shown = Prices!CloseOf(Prices!Newest(1, DOMAIN price))'
    BY <1>1 DEF PageCurrent
  <2>1. ~behind /\ view.shown = Prices!CloseOf(Prices!Newest(1, DOMAIN price))
    BY DEF PricesInv, PageCurrent
  <2>2. Prices!Newest(1, DOMAIN price) \subseteq DOMAIN price
    BY NewestIs
  <2> QED BY <1>2, <1>8, <2>1, <2>2 DEF Prices!CloseOf
<1> QED BY <1>2, <1>5, <1>6, <1>7, <1>9, <1>10 DEF PricesInv

\* The indicators of days without a close do not get among the newest.
LEMMA NewestAmong ==
    ASSUME PricesInv
    PROVE  LET N == Prices!Newest(MaxRows, DOMAIN price)
           IN  Prices!Newest(MaxRows, DOMAIN ind \cup N) = N
<1> DEFINE k == today
           n == MaxRows
           S == DOMAIN price
           O == DOMAIN ind
<1>0. k \in Nat /\ S \subseteq 1..k /\ O \subseteq 1..k /\ n \in Nat /\ Older(n, O, S)
  BY CalendarDays, EvidenceAssumption DEF PricesInv, IndicatorsOlder
<1> SUFFICES Prices!Newest(n, O \cup Prices!Newest(n, S)) = Prices!Newest(n, S)
  OBVIOUS
<1> HIDE DEF k, n, S, O
<1> DEFINE N == Prices!Newest(n, S)
           A == O \cup N
<1>1. N \subseteq S /\ A \subseteq 1..k
  BY <1>0, NewestIs
<1>2. ASSUME NEW d \in N PROVE Cardinality(Since(d, A)) < n
  <2>1. d \in S /\ d \in Int /\ Cardinality(Since(d, S)) < n
    BY <1>1, NewestIs
  <2>2. Since(d, A) \subseteq Since(d, S)
    <3> SUFFICES ASSUME NEW p \in O \ S, p > d PROVE FALSE
      BY <1>1 DEF Since
    <3>0. p \in Int
      BY <1>0
    <3>1. p \in Int /\ Cardinality(Since(p, S)) <= Cardinality(Since(d, S))
      <4>1. d <= p
        BY <2>1, <3>0
      <4> QED BY <1>0, <2>1, <3>0, <4>1, LaterLess
    <3>2. Cardinality(Since(p, S)) \in Nat /\ Cardinality(Since(d, S)) \in Nat
      BY <1>0, <2>1, <3>1, SinceLess
    <3>3. Cardinality(Since(p, S)) >= n
      BY <1>0 DEF Older
    <3> QED BY <1>0, <2>1, <3>1, <3>2, <3>3
  <2>3. IsFiniteSet(Since(d, S))
    <3>1. IsFiniteSet(1..k)
      BY <1>0, FS_Interval
    <3>2. Since(d, S) \subseteq 1..k
      BY <1>0 DEF Since
    <3> QED BY <3>1, <3>2, FS_Subset
  <2>4. /\ Cardinality(Since(d, A)) <= Cardinality(Since(d, S))
        /\ Cardinality(Since(d, A)) \in Nat /\ Cardinality(Since(d, S)) \in Nat
    <3>1. IsFiniteSet(Since(d, A)) /\ Cardinality(Since(d, A)) <= Cardinality(Since(d, S))
      BY <2>2, <2>3, FS_Subset
    <3> QED BY <2>3, <3>1, FS_CardinalityType
  <2> QED BY <1>0, <2>1, <2>4
<1>3. ASSUME NEW d \in O \ N PROVE ~(Cardinality(Since(d, A)) < n)
  <2>0. d \in Int
    BY <1>0
  <2>1. Cardinality(Since(d, S)) \in Nat /\ d \in Int
    BY <1>0, <2>0, SinceLess
  <2>2. Cardinality(Since(d, S)) >= n
    BY <1>0, <2>1, NewestIs DEF Older
  <2>3. Cardinality(Since(d, N)) >= n
    BY <1>0, <2>1, <2>2, NewestMany
  <2>4. /\ Cardinality(Since(d, N)) <= Cardinality(Since(d, A))
        /\ Cardinality(Since(d, N)) \in Nat /\ Cardinality(Since(d, A)) \in Nat
    <3>1. N \subseteq A
      OBVIOUS
    <3> HIDE DEF A, N
    <3> QED BY <1>0, <1>1, <2>1, <3>1, SinceLess
  <2> QED BY <1>0, <2>3, <2>4
<1>4. Prices!Newest(n, A) = {d \in A : Cardinality(Since(d, A)) < n}
  <2> HIDE DEF A
  <2> QED BY NewestIs
<1>5. Prices!Newest(n, A) = N
  <2> HIDE DEF N
  <2> QED BY <1>2, <1>3, <1>4
<1> QED BY <1>5

LEMMA SyncFinishes ==
    ASSUME PricesInv, Prices!Finish
    PROVE  PricesInv'
<1> DEFINE N == Prices!Newest(MaxRows, DOMAIN price)
           fresh == Prices!Averages(Prices!CloseOf(N))
           all == Prices!With(ind, fresh)
<1>1. /\ UNCHANGED <<today, open, final, unasked, view>>
      /\ pstage = "stored" /\ pstage' = "idle" /\ behind' = FALSE
      /\ price' = Prices!Trim(price) /\ ind' = Prices!Trim(all)
  BY DEF Prices!Finish, Prices!Averaged
<1>2. /\ DOMAIN price' = N
      /\ DOMAIN price' \subseteq DOMAIN price
      /\ \A d \in DOMAIN price' : price'[d] = price[d]
      /\ TradingDays' = TradingDays /\ Whole' /\ RatesOfDayBefore' /\ RowsKept'
  BY <1>1, Trimmed
<1>3. /\ today \in Nat /\ DOMAIN price \subseteq 1..today /\ DOMAIN ind \subseteq 1..today
  BY CalendarDays
<1>4. Prices!CloseOf(DOMAIN price)' = Prices!CloseOf(N)
  <2>1. Prices!CloseOf(DOMAIN price)' = [d \in DOMAIN price' |-> price'[d].close]
    BY DEF Prices!CloseOf
  <2>2. Prices!CloseOf(N) = [d \in N |-> price[d].close]
    BY DEF Prices!CloseOf
  <2> HIDE DEF N
  <2> QED BY <1>2, <2>1, <2>2
<1>5. DOMAIN fresh = N /\ fresh = [d \in N |-> fresh[d]]
  <2>1. DOMAIN Prices!CloseOf(N) = N
    BY DEF Prices!CloseOf
  <2> HIDE DEF N
  <2> QED BY <2>1, AveragesOf
<1>6. DOMAIN all = DOMAIN ind \cup N /\ \A d \in N : all[d] = fresh[d]
  <2> HIDE DEF N, fresh
  <2> QED BY <1>5 DEF Prices!With
<1>7. Prices!Newest(MaxRows, DOMAIN all) = N
  <2>2. Prices!Newest(MaxRows, DOMAIN ind \cup N) = N
    BY NewestAmong
  <2> HIDE DEF N, fresh, all
  <2> QED BY <1>6, <2>2
<1>8. ind' = fresh
  <2> HIDE DEF N, fresh, all
  <2>1. ind' = [d \in DOMAIN all \cap N |-> all[d]]
    BY <1>1, <1>7 DEF Prices!Trim, Prices!Only
  <2>2. DOMAIN all \cap N = N
    BY <1>6
  <2>3. ind' = [d \in N |-> fresh[d]]
    BY <1>6, <2>1, <2>2
  <2> QED BY <1>5, <2>3
<1>9. DOMAIN ind' = DOMAIN price'
  BY <1>2, <1>5, <1>8
<1>10. Prices!IndicatorsFollowPrices'
  BY <1>4, <1>8 DEF Prices!IndicatorsFollowPrices
<1> HIDE DEF N, fresh, all
<1>11. IndicatorsOlder' /\ SyncOfRange'
  BY <1>1, <1>9 DEF IndicatorsOlder, Older, SyncOfRange
<1>12. behind
  BY <1>1 DEF PricesInv, PricesTyped
<1>13. PageCurrent'
  BY <1>1, <1>12 DEF PricesInv, PageCurrent
<1>14. PricesTyped'
  BY <1>1, <1>2, <1>3, <1>9 DEF PricesInv, PricesTyped
<1> QED BY <1>2, <1>10, <1>11, <1>13, <1>14 DEF PricesInv

\* What a range of days begins and ends with.
LEMMA RangeEnds ==
    ASSUME NEW first \in Int, NEW latest \in Int, first <= latest
    PROVE  Prices!Min(first..latest) = first /\ Prices!Max(first..latest) = latest
<1>1. \A x \in first..latest : (\A y \in first..latest : x <= y) <=> x = first
  OBVIOUS
<1>2. \A x \in first..latest : (\A y \in first..latest : x >= y) <=> x = latest
  OBVIOUS
<1>3. first \in first..latest /\ latest \in first..latest
  OBVIOUS
<1>4. Prices!Min(first..latest) = first
  BY <1>1, <1>3 DEF Prices!Min
<1>5. Prices!Max(first..latest) = latest
  BY <1>2, <1>3 DEF Prices!Max
<1> QED BY <1>4, <1>5

\* The upsert: rows of the sync replace what was stored of their days.
LEMMA Upsert ==
    ASSUME Prices!Store
    PROVE  /\ DOMAIN price' = DOMAIN price \cup DOMAIN fetched
           /\ \A d \in DOMAIN fetched :
                  price'[d].close = fetched[d] /\ price'[d].base = Prices!Base(d)
           /\ \A d \in DOMAIN price \ DOMAIN fetched : price'[d] = price[d]
<1>1. price' = Prices!With(price, Prices!Rows)
  BY DEF Prices!Store
<1>2. /\ DOMAIN Prices!Rows = DOMAIN fetched
      /\ \A d \in DOMAIN fetched :
             Prices!Rows[d].close = fetched[d] /\ Prices!Rows[d].base = Prices!Base(d)
  BY DEF Prices!Rows
<1> QED BY <1>1, <1>2 DEF Prices!With

\* The rows of a sync refer to the trading day before, as long as it asked for that.
LEMMA RowsOfSync ==
    ASSUME PricesInv, NEW first \in Int, NEW latest \in Int,
           Asks(first, latest), Given(latest),
           NEW d \in DOMAIN fetched, Prices!Base(d) # {}
    PROVE  Before(d, Prices!Base(d))
<1> DEFINE earlier == {e \in DOMAIN fetched : e < d}
<1>1. earlier # {} /\ Prices!Base(d) = {fetched[Prices!Max(earlier)]}
  BY DEF Prices!Base
<1>2. /\ window = first..latest /\ DOMAIN fetched \subseteq window \cap TradingDays
      /\ today \in Nat /\ TradingDays \subseteq 1..today /\ latest <= today
      /\ DOMAIN final \subseteq TradingDays
  BY CalendarDays DEF PricesInv, PricesTyped, Asks, Given
<1>3. /\ Prices!Max(earlier) \in earlier /\ \A q \in earlier : q <= Prices!Max(earlier)
  <2>1. earlier \subseteq 1..today
    BY <1>2
  <2> HIDE DEF earlier
  <2> QED BY <1>1, <1>2, <2>1, MaxIs
<1>4. PICK p \in DOMAIN fetched :
          p < d /\ Prices!Base(d) = {fetched[p]} /\ \A q \in earlier : q <= p
  BY <1>1, <1>3
<1>5. d \in Int /\ d <= latest /\ p \in Int /\ p < latest /\ p \in window /\ p # today
  <2>1. d \in first..latest /\ p \in first..latest
    BY <1>2
  <2> QED BY <1>2, <1>4, <2>1
<1>6. p \in DOMAIN final /\ fetched[p] = final[p]
  <2>1. p \in DOMAIN final
    BY <1>2, <1>5 DEF TradingDays
  <2> QED BY <1>5, <2>1 DEF Given
<1>7. ASSUME NEW q \in DOMAIN final, ~(q <= p), ~(d <= q) PROVE FALSE
  <2>1. q \in Int
    BY CalendarDays
  <2>2. p < q /\ q < d
    BY <1>5, <1>7, <2>1
  <2>3. q \in window /\ q < latest
    <3>1. first <= p
      BY <1>2, <1>5
    <3> QED BY <1>2, <1>5, <2>1, <2>2, <3>1
  <2>4. q \in DOMAIN fetched
    BY <2>3 DEF Given
  <2> QED BY <1>4, <1>7, <2>2, <2>4
<1> QED BY <1>4, <1>6, <1>7 DEF Before

LEMMA StoredWhole ==
    ASSUME PricesInv, Prices!Store, NEW first \in Int, NEW latest \in Int,
           Asks(first, latest), Given(latest)
    PROVE  Whole'
<1>1. /\ DOMAIN price' = DOMAIN price \cup DOMAIN fetched
      /\ \A d \in DOMAIN fetched : price'[d].close = fetched[d]
      /\ \A d \in DOMAIN price \ DOMAIN fetched : price'[d] = price[d]
  BY Upsert
<1>2. /\ final' = final
      /\ unasked' = IF DOMAIN price = {} THEN unasked
                    ELSE (unasked \ window) \cup Prices!Lapsed
  BY DEF Prices!Store
<1>3. /\ window = first..latest /\ DOMAIN fetched \subseteq window
      /\ \A d \in DOMAIN price : d \in Int /\ d <= latest
      /\ DOMAIN price \subseteq 1..today /\ today \in Nat
      /\ \A d \in DOMAIN final : d \in Int
  BY CalendarDays DEF Asks, Given
<1>4. \A d \in DOMAIN price' : d \in Int /\ d <= latest
  <2>1. \A d \in window : d \in Int /\ d <= latest
    BY <1>3
  <2> QED BY <1>1, <1>3, <2>1
<1> SUFFICES ASSUME NEW d \in DOMAIN final \ unasked', NEW lo \in DOMAIN price',
                    NEW hi \in DOMAIN price', lo <= d, d < hi
             PROVE  d \in DOMAIN price' /\ price'[d].close = final[d]
  BY <1>2 DEF Whole
<1>5. d \in Int /\ lo \in Int /\ hi \in Int /\ hi <= latest /\ d < latest
  BY <1>3, <1>4
<1>6. CASE d \in window
  <2>1. d \in DOMAIN fetched /\ fetched[d] = final[d]
    BY <1>5, <1>6 DEF Given
  <2> QED BY <1>1, <2>1
<1>7. CASE d \notin window
  <2>1. d < first
    BY <1>3, <1>5, <1>7
  <2>2. lo \in DOMAIN price
    <3>1. \A w \in window : first <= w
      BY <1>3
    <3> QED BY <1>1, <1>3, <1>5, <2>1, <3>1
  <2>3. d \notin DOMAIN fetched
    BY <1>3, <1>7
  <2>4. d \notin unasked /\ d \notin Prices!Lapsed
    BY <1>2, <1>7, <2>2
  <2>5. PICK top \in DOMAIN price :
            top = Prices!Max(DOMAIN price) /\ \A q \in DOMAIN price : q <= top
    BY <1>3, <2>2, MaxIs
  <2>6. d < top
    <3> SUFFICES ASSUME top <= d PROVE FALSE
      BY <1>3, <1>5
    <3>1. Prices!Min(window) = first /\ Prices!Max(window) = latest
      BY <1>3, RangeEnds DEF Asks
    <3>2. d >= latest - Backfill
      <4>1. d \in top..(first - 1)
        BY <1>3, <1>5, <2>1
      <4>2. Prices!Lapsed = {e \in top..(first - 1) : e < latest - Backfill}
        BY <2>5, <3>1 DEF Prices!Lapsed
      <4> QED BY <1>5, <2>4, <4>1, <4>2, EvidenceAssumption
    <3>3. CASE first = latest - Backfill
      BY <1>5, <2>1, <3>2, <3>3, EvidenceAssumption
    <3>4. ASSUME NEW m \in DOMAIN price, first <= m PROVE FALSE
      <4>1. m \in Int /\ top \in Int /\ m <= top
        BY <1>3, <2>5
      <4> QED BY <1>5, <2>1, <3>4, <4>1
    <3> QED BY <3>3, <3>4 DEF Asks
  <2>7. d \in DOMAIN price /\ price[d].close = final[d]
    BY <2>2, <2>4, <2>6 DEF PricesInv, Whole
  <2> QED BY <1>1, <2>3, <2>7
<1> QED BY <1>6, <1>7

LEMMA SyncStores ==
    ASSUME PricesInv, Prices!Store
    PROVE  PricesInv'
<1>1. /\ UNCHANGED <<today, open, final, ind, window, fetched>>
      /\ pstage = "fetched" /\ pstage' = "stored" /\ behind' = TRUE
      /\ view' = [view EXCEPT !.torn = view.reading]
  BY DEF Prices!Store
<1>2. PICK first, latest \in Int : Asks(first, latest) /\ Given(latest)
  BY <1>1 DEF PricesInv, SyncOfRange
<1>3. /\ DOMAIN price' = DOMAIN price \cup DOMAIN fetched
      /\ \A d \in DOMAIN fetched : price'[d].base = Prices!Base(d)
      /\ \A d \in DOMAIN price \ DOMAIN fetched : price'[d] = price[d]
  BY Upsert
<1>4. TradingDays' = TradingDays
  BY <1>1 DEF TradingDays
<1>5. /\ DOMAIN price' \subseteq TradingDays /\ today \in Nat
      /\ TradingDays \subseteq 1..today /\ DOMAIN ind \subseteq 1..today
  BY <1>2, <1>3 DEF PricesInv, PricesTyped, Given
<1>6. /\ view'.reading = view.reading /\ view'.torn = view.reading
      /\ view'.shown = view.shown
      /\ view' = [reading |-> view.reading, shown |-> view.shown, torn |-> view.reading]
  BY <1>1 DEF PricesInv, PricesTyped
<1>7. PricesTyped'
  BY <1>1, <1>4, <1>5, <1>6 DEF PricesInv, PricesTyped
<1>8. SyncOfRange' /\ RowsKept' /\ Prices!IndicatorsFollowPrices'
  BY <1>1 DEF SyncOfRange, RowsKept, Prices!IndicatorsFollowPrices
<1>9. PageCurrent'
  BY <1>6 DEF PricesInv, PricesTyped, PageCurrent
<1>10. Whole'
  BY <1>2, StoredWhole
<1>11. RatesOfDayBefore'
  <2> SUFFICES ASSUME NEW d \in DOMAIN price', price'[d].base # {}
               PROVE  Before(d, price'[d].base)
    BY <1>1 DEF RatesOfDayBefore, Before
  <2>1. CASE d \in DOMAIN fetched
    <3>1. price'[d].base = Prices!Base(d)
      BY <1>3, <2>1
    <3> QED BY <1>2, <2>1, <3>1, RowsOfSync
  <2>2. CASE d \notin DOMAIN fetched
    <3>1. d \in DOMAIN price /\ price'[d] = price[d]
      BY <1>3, <2>2
    <3> QED BY <3>1 DEF PricesInv, RatesOfDayBefore
  <2> QED BY <2>1, <2>2
<1>12. IndicatorsOlder'
  <2> SUFFICES ASSUME NEW d \in DOMAIN ind, d \notin DOMAIN price'
               PROVE  Cardinality(Since(d, DOMAIN price')) >= MaxRows
    BY <1>1 DEF IndicatorsOlder, Older
  <2>1. d \in Int /\ DOMAIN price' \subseteq 1..today
    <3>1. d \in 1..today
      BY <1>5
    <3>2. d \in Int
      BY <1>5, <3>1
    <3>3. DOMAIN price' \subseteq 1..today
      BY <1>5
    <3> QED BY <3>2, <3>3
  <2>2. Cardinality(Since(d, DOMAIN price)) >= MaxRows
    BY <1>3 DEF PricesInv, IndicatorsOlder, Older
  <2>3. /\ Cardinality(Since(d, DOMAIN price')) \in Nat
        /\ Cardinality(Since(d, DOMAIN price)) \in Nat
        /\ Cardinality(Since(d, DOMAIN price)) <= Cardinality(Since(d, DOMAIN price'))
    BY <1>3, <1>5, <2>1, SinceLess
  <2> QED BY <2>2, <2>3, EvidenceAssumption
<1> QED BY <1>7, <1>8, <1>9, <1>10, <1>11, <1>12 DEF PricesInv
LEMMA PricesStep == PricesInv /\ [Prices!Next]_Prices!vars => PricesInv'
<1> SUFFICES ASSUME PricesInv, [Prices!Next]_Prices!vars PROVE PricesInv'
  OBVIOUS
<1>1. CASE UNCHANGED Prices!vars
  <2>1. UNCHANGED <<today, open, final, price, ind, pstage, window, fetched, behind, unasked,
                    view>>
    BY <1>1 DEF Prices!vars
  <2>2. /\ TradingDays' = TradingDays
        /\ Whole' /\ RatesOfDayBefore' /\ IndicatorsOlder' /\ RowsKept'
        /\ Prices!IndicatorsFollowPrices'
    BY <2>1, TablesKept
  <2>3. PricesTyped' /\ SyncOfRange'
    BY <2>1, <2>2 DEF PricesInv, PricesTyped, SyncOfRange, Asks, Given
  <2>4. PageCurrent'
    BY <2>1 DEF PricesInv, PageCurrent, Prices!CloseOf
  <2> QED BY <2>2, <2>3, <2>4 DEF PricesInv
<1>2. CASE Prices!Next
  BY <1>2, DayEnds, SyncBegins, SyncFetches, SyncStores, SyncFinishes, SyncFails,
     TablesTrimmed, PageRead DEF Prices!Next
<1> QED BY <1>1, <1>2

LEMMA WholeBetweenEnds == PricesInv => Prices!HistoryIsWhole
<1> SUFFICES ASSUME PricesInv, DOMAIN price # {}, NEW d \in DOMAIN final \ unasked,
                    Prices!Min(DOMAIN price) <= d, d < Prices!Max(DOMAIN price)
             PROVE  d \in DOMAIN price /\ price[d].close = final[d]
  BY DEF Prices!HistoryIsWhole
<1>1. Prices!Min(DOMAIN price) \in DOMAIN price /\ Prices!Max(DOMAIN price) \in DOMAIN price
  BY CalendarDays, MinIs, MaxIs
<1> QED BY <1>1 DEF PricesInv, Whole

\* Where no day was left out, the trading day before a row is the row before it.
LEMMA RatesOfRowBefore == PricesInv => Prices!RatesMatchCloses
<1> SUFFICES ASSUME PricesInv, NEW d \in DOMAIN price, NEW e \in DOMAIN price, e < d,
                    \A f \in DOMAIN price : f <= e \/ f >= d,
                    price[d].base # {}, (e..d) \cap unasked = {}
             PROVE  price[d].base = {price[e].close}
  BY DEF Prices!RatesMatchCloses
<1>1. /\ d \in Int /\ e \in Int /\ d <= today /\ today \in Int
      /\ e \in TradingDays /\ \A q \in DOMAIN final : q \in Int
  BY CalendarDays
<1>2. e \in DOMAIN final
  <2>1. e # today
    BY <1>1
  <2> QED BY <1>1, <2>1 DEF TradingDays
<1>3. PICK p \in DOMAIN final : /\ p < d /\ price[d].base = {final[p]}
                                /\ \A q \in DOMAIN final : q <= p \/ d <= q
  BY DEF PricesInv, RatesOfDayBefore, Before
<1>4. e <= p /\ p \in Int
  BY <1>1, <1>2, <1>3
<1>5. p \notin unasked /\ e \notin unasked
  <2>1. p \in e..d /\ e \in e..d
    BY <1>1, <1>3, <1>4
  <2> QED BY <2>1
<1>6. p \in DOMAIN price /\ price[p].close = final[p]
  BY <1>3, <1>4, <1>5 DEF PricesInv, Whole
<1>7. p = e
  <2>1. p <= e \/ p >= d
    BY <1>6
  <2> QED BY <1>1, <1>3, <1>4, <2>1
<1> QED BY <1>3, <1>6, <1>7

\* An average is over the closes up to its own day, that one included.
LEMMA AverageHasOwn ==
    ASSUME NEW k \in Nat, NEW f, DOMAIN f \subseteq 1..k, NEW d \in DOMAIN f,
           Prices!Averages(f)[d] # Prices!Nothing
    PROVE  Prices!Averages(f)[d][d] = f[d]
<1> DEFINE upto == {e \in DOMAIN f : e <= d}
           newest == Prices!Newest(Window, upto)
<1>1. upto \subseteq 1..k /\ d \in upto /\ \A q \in upto : q <= d
  OBVIOUS
<1>2. d \in newest /\ newest \subseteq DOMAIN f
  <2> HIDE DEF upto
  <2>1. d \in newest
    BY <1>1, EvidenceAssumption, NewestHasLast
  <2>2. newest \subseteq upto
    BY NewestIs
  <2> QED BY <2>1, <2>2 DEF upto
<1>3. Prices!Averages(f)[d] = Prices!Only(f, newest)
  BY DEF Prices!Averages
<1> HIDE DEF newest
<1> QED BY <1>2, <1>3 DEF Prices!Only

LEMMA PageShowsOneDay == PricesInv => Prices!PageOfOneDay
<1> SUFFICES ASSUME PricesInv, view.reading, ~view.torn PROVE Prices!PageOfOneDay
  BY DEF Prices!PageOfOneDay
<1> DEFINE closes == Prices!CloseOf(DOMAIN price)
           N == Prices!Newest(1, DOMAIN price)
<1>1. view.shown = Prices!CloseOf(N) /\ ind = Prices!Averages(closes)
  BY DEF PricesInv, PageCurrent, Prices!IndicatorsFollowPrices
<1>2. DOMAIN closes = DOMAIN price /\ \A d \in DOMAIN price : closes[d] = price[d].close
  BY DEF Prices!CloseOf
<1>3. DOMAIN view.shown = N /\ \A d \in N : view.shown[d] = price[d].close
  <2> HIDE DEF N
  <2> QED BY <1>1 DEF Prices!CloseOf
<1>4. N \subseteq DOMAIN price /\ DOMAIN price \subseteq 1..today /\ today \in Nat
  BY NewestIs, CalendarDays
<1> HIDE DEF closes
<1>5. DOMAIN ind = DOMAIN price
  BY <1>1, <1>2, AveragesOf
<1>6. ASSUME NEW d \in DOMAIN price, ind[d] # Prices!Nothing PROVE ind[d][d] = closes[d]
  BY <1>1, <1>2, <1>4, <1>6, AverageHasOwn
<1> QED BY <1>2, <1>3, <1>4, <1>5, <1>6 DEF Prices!PageOfOneDay

LEMMA PricesAlone == AllSpec => (which = "prices" /\ Prices!Spec) \/ []~(which = "prices")
<1>1. AllInit /\ which = "prices" => Prices!Init
  BY DEF AllInit
<1>2. which = "prices" /\ [AllNext]_allvars => (which = "prices")' /\ [Prices!Next]_Prices!vars
  BY DEF AllNext, allvars, pvars, Prices!vars
<1>3. ~(which = "prices") /\ [AllNext]_allvars => (~(which = "prices"))'
  BY DEF AllNext, allvars
<1> QED BY <1>1, <1>2, <1>3, PTL DEF AllSpec, Prices!Spec

\* PricesConsistent: between the oldest and the newest row of a symbol the history has
\* every trading day with its final close, its change rates are from the closes that are
\* stored, and once sync_prices_for_ticker is over the indicators average what the table
\* has, however syncs, the trimming of the scheduler, failures and the end of the day fall;
\* and get_stock_detail shows a close and an indicator of one day.
THEOREM PricesAreConsistent == AllSpec => []PricesConsistent
<1>1. Prices!Spec => []PricesInv
  BY PricesInit, PricesStep, PTL DEF Prices!Spec
<1>2. PricesInv => /\ Prices!HistoryIsWhole /\ Prices!RatesMatchCloses
                   /\ Prices!IndicatorsFollowPrices /\ Prices!PageOfOneDay
  BY WholeBetweenEnds, RatesOfRowBefore, PageShowsOneDay DEF PricesInv
<1> QED BY <1>1, <1>2, PricesAlone, PTL DEF PricesConsistent

-----------------------------------------------------------------------------
(* The quote of the day                                                     *)

QuoteTyped ==
    /\ now \in Nat /\ phase \in Quote!Phases /\ best \in Nat /\ qfaults \in Nat
    /\ key \in [price : Nat, ts : Nat, until : Nat]
    /\ last \in [price : Nat, began : Nat]
    /\ qpc \in [Readers -> {"idle", "fetch", "fetched"}]
    /\ began \in [Readers -> Nat] /\ seen \in [Readers -> Nat] /\ overlapped \in BOOLEAN

\* Stamps are not older than the fetch that they are from, by more than a fetch takes.
Stamped ==
    /\ key.ts <= now /\ key.ts <= key.price + FetchTime /\ key.price <= now
    /\ \A c \in Readers :
           /\ Quote!Fetching(c) => began[c] <= now
           /\ qpc[c] = "fetched" =>
                  began[c] <= seen[c] /\ seen[c] <= now /\ now <= seen[c] + FetchTime

\* Without overlap and faults one caller fetches at a time, and the latest price that was
\* answered is the one in Redis and the one that was answered last.
NewestKept ==
    ~overlapped /\ qfaults = 0 =>
        /\ \A c, d \in Readers : Quote!Fetching(c) /\ Quote!Fetching(d) => c = d
        /\ last.price = best /\ best <= now /\ (key = Quote!NoQuote \/ key.price = best)
        /\ \A c \in Readers : qpc[c] = "fetched" => best <= seen[c]

QuoteInv == QuoteTyped /\ Stamped /\ NewestKept /\ Quote!QuoteRecent

LEMMA QuoteInit == Quote!Init => QuoteInv
<1> SUFFICES ASSUME Quote!Init PROVE QuoteInv
  OBVIOUS
<1> USE EvidenceAssumption DEF Quote!Init
<1>1. QuoteTyped
  BY DEF QuoteTyped, Quote!NoQuote
<1>2. Stamped
  BY DEF Stamped, Quote!NoQuote, Quote!Fetching
<1>3. NewestKept
  BY DEF NewestKept, Quote!NoQuote, Quote!Fetching
<1>4. Quote!QuoteRecent
  BY DEF Quote!QuoteRecent
<1> QED BY <1>1, <1>2, <1>3, <1>4 DEF QuoteInv

LEMMA QuoteStep == QuoteInv /\ [Quote!Next]_Quote!vars => QuoteInv'
<1> SUFFICES ASSUME QuoteInv, [Quote!Next]_Quote!vars PROVE QuoteInv'
  OBVIOUS
<1> USE EvidenceAssumption
    DEF QuoteInv, QuoteTyped, Quote!QuoteRecent, Quote!Goto, Quote!Answer, Quote!answers,
        Quote!NoQuote, Quote!Fetching
<1>1. CASE Quote!Tick
  <2>1. QuoteTyped' /\ Quote!QuoteRecent'
    BY <1>1 DEF Quote!Tick
  <2>2. Stamped'
    BY <1>1 DEF Quote!Tick, Stamped
  <2>3. NewestKept'
    BY <1>1 DEF Quote!Tick, NewestKept
  <2> QED BY <2>1, <2>2, <2>3
<1>2. CASE Quote!Purge
  <2>1. QuoteTyped' /\ Quote!QuoteRecent' /\ Stamped'
    BY <1>2 DEF Quote!Purge, Stamped
  <2>2. NewestKept'
    BY <1>2 DEF Quote!Purge, NewestKept
  <2> QED BY <2>1, <2>2
<1>3. ASSUME NEW c \in Readers, Quote!Load(c) PROVE QuoteInv'
  <2>1. CASE /\ Quote!Fresh(key) /\ Quote!Answer(key.price, now)
             /\ UNCHANGED <<qpc, overlapped, qfaults>>
    <3>1. /\ now - key.ts <= MaxAge /\ key # Quote!NoQuote
          /\ began' = [began EXCEPT ![c] = now] /\ UNCHANGED <<now, phase, key, seen>>
          /\ qpc[c] = "idle"
      BY <1>3, <2>1 DEF Quote!Load, Quote!Fresh
    <3>2. QuoteTyped' /\ Quote!QuoteRecent'
      BY <2>1, <3>1 DEF Stamped
    <3>3. Stamped'
      BY <2>1, <3>1 DEF Stamped
    <3>4. NewestKept'
      BY <2>1, <3>1 DEF NewestKept
    <3> QED BY <3>2, <3>3, <3>4
  <2>2. CASE /\ Quote!Goto(c, "fetch") /\ UNCHANGED Quote!answers
             /\ overlapped' = (overlapped \/ \E o \in Readers \ {c} : Quote!Fetching(o))
             /\ IF Quote!Fresh(key) THEN qfaults < QuoteFaults /\ qfaults' = qfaults + 1
                                    ELSE UNCHANGED qfaults
    <3>1. /\ began' = [began EXCEPT ![c] = now] /\ UNCHANGED <<now, phase, key, seen>>
          /\ qpc[c] = "idle"
      BY <1>3, <2>2 DEF Quote!Load
    <3>2. QuoteTyped' /\ Quote!QuoteRecent' /\ Stamped'
      BY <2>2, <3>1 DEF Stamped
    <3>3. NewestKept'
      <4> SUFFICES ASSUME ~overlapped', qfaults' = 0 PROVE NewestKept'
        BY DEF NewestKept
      <4>1. ~overlapped /\ \A o \in Readers : o # c => ~Quote!Fetching(o)
        BY <2>2
      <4>2. qfaults = 0
        BY <2>2
      <4> QED BY <2>2, <3>1, <4>1, <4>2 DEF NewestKept
    <3> QED BY <3>2, <3>3
  <2> QED BY <1>3, <2>1, <2>2 DEF Quote!Load
<1>4. ASSUME NEW c \in Readers, Quote!Fetch(c) PROVE QuoteInv'
  <2>1. QuoteTyped' /\ Quote!QuoteRecent' /\ Stamped'
    BY <1>4 DEF Quote!Fetch, Stamped
  <2>2. NewestKept'
    BY <1>4 DEF Quote!Fetch, NewestKept
  <2> QED BY <2>1, <2>2
<1>5. ASSUME NEW c \in Readers, Quote!FetchFails(c) PROVE QuoteInv'
  BY <1>5 DEF Quote!FetchFails, Stamped, NewestKept
<1>6. ASSUME NEW c \in Readers, Quote!Store(c) PROVE QuoteInv'
  <2>1. /\ qpc[c] = "fetched" /\ qpc' = [qpc EXCEPT ![c] = "idle"]
        /\ last' = [price |-> seen[c], began |-> began[c]]
        /\ best' = IF seen[c] > best THEN seen[c] ELSE best
        /\ UNCHANGED <<now, phase, began, seen, overlapped>>
    BY <1>6 DEF Quote!Store
  <2>2. began[c] <= seen[c] /\ seen[c] <= now /\ now <= seen[c] + FetchTime
    BY <2>1 DEF Stamped
  <2>3. Quote!QuoteRecent'
    BY <2>1, <2>2
  <2>4. CASE /\ key' = [price |-> seen[c], ts |-> now, until |-> now + Ttl[phase]]
             /\ UNCHANGED qfaults
    <3>1. Ttl[phase] \in Nat
      BY DEF Quote!Phases
    <3>2. QuoteTyped'
      BY <2>1, <2>4, <3>1
    <3>3. Stamped'
      BY <2>1, <2>2, <2>4 DEF Stamped
    <3>4. NewestKept'
      BY <2>1, <2>2, <2>4 DEF NewestKept
    <3> QED BY <2>3, <3>2, <3>3, <3>4
  <2>5. CASE qfaults' = qfaults + 1 /\ UNCHANGED key
    <3>1. QuoteTyped' /\ Stamped'
      BY <2>1, <2>5 DEF Stamped
    <3>2. NewestKept'
      BY <2>5 DEF NewestKept
    <3> QED BY <2>3, <3>1, <3>2
  <2> QED BY <1>6, <2>4, <2>5 DEF Quote!Store
<1>7. CASE UNCHANGED Quote!vars
  BY <1>7 DEF Quote!vars, Stamped, NewestKept
<1> QED BY <1>1, <1>2, <1>3, <1>4, <1>5, <1>6, <1>7 DEF Quote!Next

LEMMA QuoteAlone == AllSpec => (which = "quote" /\ Quote!Spec) \/ []~(which = "quote")
<1>1. AllInit /\ which = "quote" => Quote!Init
  BY DEF AllInit
<1>2. which = "quote" /\ [AllNext]_allvars => (which = "quote")' /\ [Quote!Next]_Quote!vars
  BY DEF AllNext, allvars, qvars, Quote!vars
<1>3. ~(which = "quote") /\ [AllNext]_allvars => (~(which = "quote"))'
  BY DEF AllNext, allvars
<1> QED BY <1>1, <1>2, <1>3, PTL DEF AllSpec, Quote!Spec

LEMMA QuoteHolds ==
    AllSpec => [](which = "quote" => Quote!QuoteRecent /\ Quote!BackwardExplained)
<1>1. Quote!Spec => []QuoteInv
  BY QuoteInit, QuoteStep, PTL DEF Quote!Spec
<1>2. QuoteInv => Quote!QuoteRecent /\ Quote!BackwardExplained
  BY DEF QuoteInv, QuoteTyped, NewestKept, Quote!BackwardExplained
<1> QED BY <1>1, <1>2, QuoteAlone, PTL

-----------------------------------------------------------------------------
(* The list of filings                                                      *)

\* As many pages as are counted have room for all filings.
LEMMA PagesSuffice ==
    ASSUME NEW a \in Nat, NEW b \in Nat \ {0}
    PROVE  LET q == (a + b - 1) \div b IN q \in Nat /\ q * b >= a
<1> DEFINE c == a + b - 1
           q == c \div b
           r == c % b
<1>1. c \in Nat
  OBVIOUS
<1>2. q \in Int /\ r \in 0..(b - 1) /\ c = q * b + r
  BY <1>1
<1> QED OBVIOUS

LEMMA Monotone ==
    ASSUME NEW m \in Nat, NEW n \in Nat, NEW b \in Nat, m <= n
    PROVE  m * b <= n * b
OBVIOUS

LEMMA NextPage ==
    ASSUME NEW n \in Nat, NEW b \in Nat
    PROVE  ((n + 1) - 1) * b = (n - 1) * b + b
OBVIOUS

ListPc == {"code", "download", "write", "list", "upsert", "done", "failed"}

ListTyped ==
    /\ filed \in Nat /\ fpc \in [ListSyncs -> ListPc]
    /\ known \in [ListSyncs -> Nat] /\ page \in [ListSyncs -> Nat \ {0}]
    /\ items \in [ListSyncs -> Seq(Int)]
    /\ \A s \in ListSyncs : known[s] <= filed

\* What a sync has to store is listed, or is on a page that it has not asked for: filings
\* that come in only move others to later pages.
ListedSoFar ==
    \A s \in ListSyncs :
        /\ fpc[s] \in {"code", "download", "write"} => page[s] = 1
        /\ fpc[s] = "list" =>
               \A n \in 1..known[s] :
                   n > filed - Listing!Before(page[s]) => n \in Listing!ToSet(items[s])
        /\ fpc[s] = "upsert" => 1..known[s] \subseteq Listing!ToSet(items[s])
        /\ fpc[s] = "done" => 1..known[s] \subseteq frows

ListInv == ListTyped /\ ListedSoFar /\ Listing!PartialMapExplained

LEMMA ListInit == Listing!Init => ListInv
BY DEF ListInv, ListTyped, ListPc, ListedSoFar, Listing!PartialMapExplained, Listing!Init

\* A page holds the filings between two bounds.
LEMMA PageHolds ==
    ASSUME filed \in Nat, NEW n \in Nat \ {0}, NEW m \in 1..filed,
           m <= filed - Listing!Before(n), m > filed - Listing!Before(n + 1)
    PROVE  m \in Listing!ToSet(Listing!Page(n))
<1> USE EvidenceAssumption
<1> DEFINE b == Listing!Before(n)
           i == filed + 1 - b - m
<1>1. b \in Nat /\ Listing!Before(n + 1) = b + PageCount
  <2>1. (n - 1) * PageCount \in Nat
    OBVIOUS
  <2> QED BY <2>1, NextPage DEF Listing!Before
<1>2. i \in 1..PageCount /\ i <= filed - b
  BY <1>1
<1>3. i \in 1..Listing!PageSize(n) /\ Listing!PageSize(n) \in Nat
  BY <1>1, <1>2 DEF Listing!PageSize
<1>4. Listing!Page(n)[i] = m /\ i \in DOMAIN Listing!Page(n)
  BY <1>1, <1>2, <1>3 DEF Listing!Page
<1> QED BY <1>4 DEF Listing!ToSet

LEMMA PageIsSeq ==
    ASSUME filed \in Nat, NEW n \in Nat \ {0}
    PROVE  Listing!Page(n) \in Seq(Int)
<1> USE EvidenceAssumption
<1>1. Listing!Before(n) \in Nat
  BY DEF Listing!Before
<1>2. Listing!PageSize(n) \in Nat
  BY <1>1 DEF Listing!PageSize
<1> QED BY <1>1, <1>2 DEF Listing!Page

\* No filing is beyond the last page.
LEMMA LastPageLast ==
    ASSUME filed \in Nat, NEW n \in Nat \ {0}, n >= Listing!LastPage
    PROVE  filed - Listing!Before(n + 1) <= 0
<1> USE EvidenceAssumption
<1>1. Listing!TotalPages \in Nat /\ Listing!TotalPages * PageCount >= filed
  BY PagesSuffice DEF Listing!TotalPages
<1>2. n >= Listing!TotalPages
  BY <1>1 DEF Listing!LastPage
<1>3. n * PageCount >= filed /\ n * PageCount \in Nat
  <2>1. Listing!TotalPages * PageCount <= n * PageCount
    BY <1>1, <1>2, Monotone
  <2> QED BY <1>1, <2>1
<1>4. Listing!Before(n + 1) = n * PageCount
  BY DEF Listing!Before
<1> QED BY <1>3, <1>4

LEMMA ListStep == ListInv /\ [Listing!Next]_Listing!vars => ListInv'
<1> SUFFICES ASSUME ListInv, [Listing!Next]_Listing!vars PROVE ListInv'
  OBVIOUS
<1> USE EvidenceAssumption DEF ListInv, ListTyped, ListPc, Listing!Go, Listing!listing
<1>1. CASE Listing!NewFiling
  <2>1. ListTyped' /\ Listing!PartialMapExplained'
    BY <1>1 DEF Listing!NewFiling, Listing!PartialMapExplained
  <2>2. ListedSoFar'
    <3> SUFFICES ASSUME NEW s \in ListSyncs, NEW n \in 1..known[s],
                        n > filed' - Listing!Before(page[s]),
                        ~(n > filed - Listing!Before(page[s]))
                 PROVE  FALSE
      BY <1>1 DEF Listing!NewFiling, ListedSoFar, Listing!Before, Listing!ToSet
    <3>1. Listing!Before(page[s]) \in Int
      BY DEF Listing!Before
    <3> QED BY <1>1, <3>1 DEF Listing!NewFiling
  <2> QED BY <2>1, <2>2
<1>2. ASSUME NEW s \in ListSyncs, Listing!ReadMapping(s) PROVE ListInv'
  <2>1. Listing!PartialMapExplained'
    BY <1>2 DEF Listing!ReadMapping, Listing!PartialMapExplained
  <2>3. ListTyped'
    <3>1. PICK p \in ListPc : fpc' = [fpc EXCEPT ![s] = p]
      BY <1>2 DEF Listing!ReadMapping
    <3> QED BY <1>2, <3>1 DEF Listing!ReadMapping
  <2>2. ListedSoFar'
    BY <1>2 DEF Listing!ReadMapping, ListedSoFar, Listing!Before, Listing!ToSet
  <2> QED BY <2>1, <2>2, <2>3
<1>3. ASSUME NEW s \in ListSyncs, Listing!BeginWrite(s) PROVE ListInv'
  <2>1. ListTyped' /\ Listing!PartialMapExplained'
    BY <1>3 DEF Listing!BeginWrite, Listing!PartialMapExplained
  <2>2. ListedSoFar'
    BY <1>3 DEF Listing!BeginWrite, ListedSoFar, Listing!Before, Listing!ToSet
  <2> QED BY <2>1, <2>2
<1>4. ASSUME NEW s \in ListSyncs, Listing!EndWrite(s) PROVE ListInv'
  <2>1. ListTyped' /\ Listing!PartialMapExplained'
    BY <1>4 DEF Listing!EndWrite, Listing!PartialMapExplained
  <2>2. ListedSoFar'
    BY <1>4 DEF Listing!EndWrite, ListedSoFar, Listing!Before, Listing!ToSet
  <2> QED BY <2>1, <2>2
<1>5. ASSUME NEW s \in ListSyncs, Listing!ListPage(s) PROVE ListInv'
  <2> DEFINE old == items[s]
             new == Listing!Page(page[s])
  <2>1. /\ fpc[s] = "list" /\ items' = [items EXCEPT ![s] = old \o new]
        /\ UNCHANGED <<file, filed, frows, known, crashed, ffaults>>
    BY <1>5 DEF Listing!ListPage
  <2>2. old \in Seq(Int) /\ new \in Seq(Int) /\ old \o new \in Seq(Int)
    BY PageIsSeq
  <2>3. ListTyped' /\ Listing!PartialMapExplained'
    <3>1. PICK p \in {"list", "upsert"} : fpc' = [fpc EXCEPT ![s] = p]
      <4>1. fpc = [fpc EXCEPT ![s] = "list"]
        BY <2>1
      <4> QED BY <1>5, <4>1 DEF Listing!ListPage
    <3>2. page' \in [ListSyncs -> Nat \ {0}]
      BY <1>5 DEF Listing!ListPage
    <3>3. items' \in [ListSyncs -> Seq(Int)]
      BY <2>1, <2>2
    <3>4. ListTyped'
      BY <2>1, <3>1, <3>2, <3>3
    <3>5. Listing!PartialMapExplained'
      BY <2>1, <3>1 DEF Listing!PartialMapExplained
    <3> QED BY <3>4, <3>5
  <2>4. \A n \in 1..known[s] : n > filed - Listing!Before(page[s] + 1) =>
                                   n \in Listing!ToSet(old \o new)
    <3> SUFFICES ASSUME NEW n \in 1..known[s], n > filed - Listing!Before(page[s] + 1)
                 PROVE  n \in Listing!ToSet(old \o new)
      OBVIOUS
    <3>1. n \in Listing!ToSet(old) \/ n \in Listing!ToSet(new)
      <4>1. Listing!Before(page[s]) \in Nat
        BY DEF Listing!Before
      <4>2. CASE n > filed - Listing!Before(page[s])
        BY <2>1, <4>2 DEF ListedSoFar
      <4>3. CASE n <= filed - Listing!Before(page[s])
        BY <4>3, PageHolds
      <4> QED BY <4>1, <4>2, <4>3
    <3>2. ASSUME NEW i \in DOMAIN old, old[i] = n PROVE n \in Listing!ToSet(old \o new)
      <4>1. i \in DOMAIN (old \o new) /\ (old \o new)[i] = n
        BY <2>2, <3>2
      <4> QED BY <4>1 DEF Listing!ToSet
    <3>3. ASSUME NEW i \in DOMAIN new, new[i] = n PROVE n \in Listing!ToSet(old \o new)
      <4>1. Len(old) + i \in DOMAIN (old \o new) /\ (old \o new)[Len(old) + i] = n
        BY <2>2, <3>3
      <4> QED BY <4>1 DEF Listing!ToSet
    <3> QED BY <3>1, <3>2, <3>3 DEF Listing!ToSet
  <2>5. ListedSoFar'
    <3> SUFFICES ASSUME NEW t \in ListSyncs
                 PROVE  (/\ fpc[t] \in {"code", "download", "write"} => page[t] = 1
                         /\ fpc[t] = "list" =>
                                \A n \in 1..known[t] :
                                    n > filed - Listing!Before(page[t]) =>
                                        n \in Listing!ToSet(items[t])
                         /\ fpc[t] = "upsert" => 1..known[t] \subseteq Listing!ToSet(items[t])
                         /\ fpc[t] = "done" => 1..known[t] \subseteq frows)'
      BY DEF ListedSoFar
    <3>1. CASE t # s
      <4>1. fpc'[t] = fpc[t] /\ page'[t] = page[t] /\ items'[t] = items[t]
        BY <1>5, <2>1, <3>1 DEF Listing!ListPage
      <4>2. known'[t] = known[t] /\ filed' = filed /\ frows' = frows
        BY <2>1
      <4> QED BY <4>1, <4>2 DEF ListedSoFar, Listing!Before, Listing!ToSet
    <3>2. CASE t = s
      <4>1. items'[s] = old \o new
        BY <2>1
      <4>2. CASE page[s] >= Listing!LastPage
        <5>1. fpc'[s] = "upsert"
          BY <1>5, <4>2 DEF Listing!ListPage
        <5>2. 1..known[s] \subseteq Listing!ToSet(old \o new)
          <6>1. filed - Listing!Before(page[s] + 1) <= 0
            BY <4>2, LastPageLast
          <6>2. Listing!Before(page[s] + 1) \in Int
            BY DEF Listing!Before
          <6> QED BY <2>4, <6>1, <6>2
        <5> QED BY <2>1, <3>2, <4>1, <5>1, <5>2 DEF Listing!ToSet
      <4>3. CASE ~(page[s] >= Listing!LastPage)
        <5>1. fpc'[s] = "list" /\ page'[s] = page[s] + 1
          BY <1>5, <4>3 DEF Listing!ListPage
        <5> QED BY <2>1, <2>4, <3>2, <4>1, <5>1 DEF Listing!Before, Listing!ToSet
      <4> QED BY <4>2, <4>3
    <3> QED BY <3>1, <3>2
  <2> QED BY <2>3, <2>5
<1>6. ASSUME NEW s \in ListSyncs, Listing!Upsert(s) PROVE ListInv'
  <2>1. ListTyped' /\ Listing!PartialMapExplained'
    BY <1>6 DEF Listing!Upsert, Listing!PartialMapExplained
  <2>2. ListedSoFar'
    BY <1>6 DEF Listing!Upsert, Listing!Upserted, ListedSoFar, Listing!Before, Listing!ToSet
  <2> QED BY <2>1, <2>2
<1>7. ASSUME NEW s \in ListSyncs, Listing!Fail(s) PROVE ListInv'
  <2>1. ListTyped' /\ Listing!PartialMapExplained'
    BY <1>7 DEF Listing!Fail, Listing!PartialMapExplained
  <2>2. ListedSoFar'
    BY <1>7 DEF Listing!Fail, ListedSoFar, Listing!Before, Listing!ToSet
  <2> QED BY <2>1, <2>2
<1>8. CASE UNCHANGED Listing!vars
  BY <1>8 DEF Listing!vars, Listing!PartialMapExplained, ListedSoFar, Listing!Before,
              Listing!ToSet
<1> QED BY <1>1, <1>2, <1>3, <1>4, <1>5, <1>6, <1>7, <1>8 DEF Listing!Next

LEMMA ListAlone == AllSpec => (which = "listing" /\ Listing!Spec) \/ []~(which = "listing")
<1>1. AllInit /\ which = "listing" => Listing!Init
  BY DEF AllInit
<1>2. which = "listing" /\ [AllNext]_allvars =>
          (which = "listing")' /\ [Listing!Next]_Listing!vars
  BY DEF AllNext, allvars, fvars, Listing!vars
<1>3. ~(which = "listing") /\ [AllNext]_allvars => (~(which = "listing"))'
  BY DEF AllNext, allvars
<1> QED BY <1>1, <1>2, <1>3, PTL DEF AllSpec, Listing!Spec

LEMMA ListingHolds ==
    AllSpec =>
        [](which = "listing" => Listing!ListingComplete /\ Listing!PartialMapExplained)
<1>1. Listing!Spec => []ListInv
  BY ListInit, ListStep, PTL DEF Listing!Spec
<1>2. ListInv => Listing!ListingComplete /\ Listing!PartialMapExplained
  BY DEF ListInv, ListedSoFar, Listing!ListingComplete
<1> QED BY <1>1, <1>2, ListAlone, PTL

-----------------------------------------------------------------------------
(* The evidence of a debate.  What a search finds had a row when it looked; *)
(* it is on its way to the database until it is saved or its row has gone.  *)

Distinct(s) == \A i, j \in 1..Len(s) : i # j => s[i] # s[j]

RetrievalTyped ==
    /\ rows \subseteq Retrieval!Docs /\ vec \subseteq Retrieval!Vectors
    /\ source \in 1..5 /\ settings \in [hybrid : BOOLEAN, reranker : BOOLEAN]
    /\ hits \subseteq Seq(Retrieval!Vectors)
    /\ lists \in Seq(Seq(Retrieval!Docs)) /\ Len(lists) = source - 1
    /\ evidence \in Seq(Retrieval!Docs) /\ unsaved \in Seq(Retrieval!Docs)
    /\ saved \subseteq [doc : Retrieval!Docs, live : BOOLEAN]

\* A document that had a row since the search began.
Quotable(d) == d \in rows \/ d \in gone

ListsQuotable ==
    \A l \in 1..Len(lists) : \A i \in 1..Len(lists[l]) : Quotable(lists[l][i])

EvidenceQuotable ==
    /\ Len(evidence) <= TopK /\ (settings.hybrid => Distinct(evidence))
    /\ \A i \in 1..Len(evidence) : Quotable(evidence[i])
    /\ \A i \in 1..Len(unsaved) : Quotable(unsaved[i])

SavedOrWaits(d) ==
    \/ d \in gone
    \/ \E s \in saved : s.doc = d
    \/ \E j \in 1..Len(unsaved) : unsaved[j] = d

EvidenceSaved ==
    /\ step = "debate" => \A i \in 1..Len(evidence) : SavedOrWaits(evidence[i])
    /\ \A s \in saved : s.live => s.doc \in rows

RetrievalInv == RetrievalTyped /\ ListsQuotable /\ EvidenceQuotable /\ EvidenceSaved

LEMMA DocsFinite == IsFiniteSet(Retrieval!Docs) /\ IsFiniteSet(Retrieval!Vectors)
<1>1. IsFiniteSet(Retrieval!Docs)
  BY EvidenceAssumption, FS_Union DEF Retrieval!Docs
<1>2. IsFiniteSet(News \X {1})
  <2>1. IsFiniteSet({1})
    BY FS_Singleton
  <2> QED BY <2>1, EvidenceAssumption, FS_Product
<1>3. IsFiniteSet(Filings \X (1..FilingChunks))
  <2>1. IsFiniteSet(1..FilingChunks)
    BY EvidenceAssumption, FS_Interval
  <2> QED BY <2>1, EvidenceAssumption, FS_Product
<1>4. IsFiniteSet(Retrieval!Vectors)
  BY <1>2, <1>3, FS_Union DEF Retrieval!Vectors
<1> QED BY <1>1, <1>4

\* A ranking of a set has each of its members once.
LEMMA RankingIs ==
    ASSUME NEW S, IsFiniteSet(S), NEW s \in Retrieval!SetToSeqs(S)
    PROVE  s \in Seq(S) /\ Distinct(s)
<1>1. Retrieval!Cardinality(S) = Cardinality(S)
  BY DEF Retrieval!Cardinality, Cardinality
<1>2. Cardinality(S) \in Nat
  BY FS_CardinalityType
<1>3. /\ s \in [1..Cardinality(S) -> S]
      /\ \A i, j \in 1..Cardinality(S) : i # j => s[i] # s[j]
  BY <1>1 DEF Retrieval!SetToSeqs
<1>4. s \in Seq(S) /\ Len(s) = Cardinality(S)
  BY <1>2, <1>3
<1> QED BY <1>3, <1>4 DEF Distinct

LEMMA TakeIs ==
    ASSUME NEW S, NEW s \in Seq(S), NEW n \in Nat
    PROVE  /\ Retrieval!Take(s, n) \in Seq(S)
           /\ Len(Retrieval!Take(s, n)) <= n /\ Len(Retrieval!Take(s, n)) <= Len(s)
           /\ Len(Retrieval!Take(s, n)) \in Nat
           /\ \A i \in 1..Len(Retrieval!Take(s, n)) : Retrieval!Take(s, n)[i] = s[i]
           /\ Distinct(s) => Distinct(Retrieval!Take(s, n))
<1> DEFINE m == IF n < Len(s) THEN n ELSE Len(s)
           t == Retrieval!Take(s, n)
<1>1. m \in Nat /\ m <= n /\ m <= Len(s)
  OBVIOUS
<1>2. t = SubSeq(s, 1, m)
  BY DEF Retrieval!Take
<1> HIDE DEF m
<1>3. t \in Seq(S) /\ Len(t) = m /\ \A i \in 1..m : t[i] = s[i]
  BY <1>1, <1>2, SubSeqProperties
<1> HIDE DEF t
<1>4. Distinct(s) => Distinct(t)
  BY <1>1, <1>3 DEF Distinct
<1> QED BY <1>1, <1>3, <1>4 DEF t

\* As many documents are named as there are places, if none is named twice.
LEMMA DistinctCount ==
    ASSUME NEW S, NEW s \in Seq(S), Distinct(s)
    PROVE  Retrieval!Cardinality(Retrieval!ToSet(s)) = Len(s)
<1> DEFINE T == Retrieval!ToSet(s)
           f == [i \in 1..Len(s) |-> s[i]]
<1>1. Retrieval!Cardinality(T) = Cardinality(T)
  BY DEF Retrieval!Cardinality, Cardinality
<1>2. T = {s[i] : i \in 1..Len(s)}
  BY DEF Retrieval!ToSet
<1>3. f \in Bijection(1..Len(s), T)
  BY <1>2 DEF Distinct, Bijection, Injection, Surjection, IsInjective
<1>4. ExistsBijection(1..Len(s), T)
  BY <1>3 DEF ExistsBijection
<1>5. IsFiniteSet(1..Len(s)) /\ Cardinality(1..Len(s)) = Len(s)
  <2>1. Len(s) \in Nat
    OBVIOUS
  <2>2. Cardinality(1..Len(s)) = IF 1 > Len(s) THEN 0 ELSE Len(s) - 1 + 1
    BY <2>1, FS_Interval
  <2> QED BY <2>1, <2>2, FS_Interval
<1> HIDE DEF T
<1>6. Cardinality(T) = Len(s)
  BY <1>4, <1>5, FS_Bijection
<1> QED BY <1>1, <1>6 DEF T

LEMMA RetrievalInit == Retrieval!Init => RetrievalInv
<1> SUFFICES ASSUME Retrieval!Init PROVE RetrievalInv
  OBVIOUS
<1>1. vec \subseteq Retrieval!Vectors
  BY DEF Retrieval!Init, Retrieval!VectorsOf
<1>2. /\ lists = <<>> /\ evidence = <<>> /\ unsaved = <<>> /\ saved = {} /\ hits = {}
      /\ source = 1 /\ step = "search" /\ rows \subseteq Retrieval!Docs
      /\ settings \in [hybrid : BOOLEAN, reranker : BOOLEAN]
  BY DEF Retrieval!Init
<1>3. Len(lists) = 0 /\ Len(evidence) = 0 /\ Len(unsaved) = 0
  BY <1>2
<1>4. RetrievalTyped
  BY <1>1, <1>2, <1>3 DEF RetrievalTyped
<1>5. ListsQuotable /\ EvidenceQuotable /\ EvidenceSaved
  BY <1>2, <1>3, EvidenceAssumption
     DEF ListsQuotable, EvidenceQuotable, EvidenceSaved, Distinct
<1> QED BY <1>4, <1>5 DEF RetrievalInv

LEMMA RankingsAre ==
    ASSUME NEW S, IsFiniteSet(S), NEW s \in Retrieval!Rankings(S, SourceK)
    PROVE  s \in Seq(S)
<1>1. PICK q \in Retrieval!SetToSeqs(S) :
          s = SubSeq(q, 1, IF SourceK < Len(q) THEN SourceK ELSE Len(q))
  BY DEF Retrieval!Rankings
<1>2. q \in Seq(S)
  BY RankingIs
<1>3. s = Retrieval!Take(q, SourceK)
  BY <1>1 DEF Retrieval!Take
<1> QED BY <1>2, <1>3, TakeIs, EvidenceAssumption

LEMMA QueryKeeps ==
    ASSUME RetrievalInv, Retrieval!Query
    PROVE  RetrievalInv'
<1>1. UNCHANGED <<rows, vec, gone, settings, source, lists, broken, step, evidence, unsaved,
                  saved>>
  BY DEF Retrieval!Query, Retrieval!caches
<1>2. hits' \subseteq Seq(Retrieval!Vectors)
  <2>1. CASE hits' = {<<>>}
    BY <2>1
  <2>2. ASSUME NEW S, S = {v \in vec : v[1] \in Retrieval!KindOf[source]},
               NEW s \in Retrieval!Rankings(S, SourceK), hits' = {s}
        PROVE  hits' \subseteq Seq(Retrieval!Vectors)
    <3>1. S \subseteq Retrieval!Vectors
      BY <2>2 DEF RetrievalInv, RetrievalTyped
    <3>2. s \in Seq(S)
      BY <3>1, DocsFinite, FS_Subset, RankingsAre
    <3> QED BY <2>2, <3>1, <3>2
  <2> QED BY <2>1, <2>2 DEF Retrieval!Query
<1>3. RetrievalTyped'
  BY <1>1, <1>2 DEF RetrievalInv, RetrievalTyped
<1> QED BY <1>1, <1>3 DEF RetrievalInv, ListsQuotable, EvidenceQuotable, EvidenceSaved,
                          SavedOrWaits, Quotable

\* A list that is found has documents of rows.
LEMMA ListFound ==
    ASSUME RetrievalInv, source \in 1..4, NEW ranking \in Seq(rows), Retrieval!Found(ranking),
           UNCHANGED <<rows, vec, gone, settings, step, evidence, unsaved, saved>>
    PROVE  RetrievalInv'
<1>1. /\ lists' = Append(lists, ranking) /\ hits' = {} /\ source' = source + 1
      /\ lists \in Seq(Seq(Retrieval!Docs)) /\ Len(lists) = source - 1
      /\ ranking \in Seq(Retrieval!Docs)
  BY DEF Retrieval!Found, RetrievalInv, RetrievalTyped
<1>2. /\ lists' \in Seq(Seq(Retrieval!Docs)) /\ Len(lists') = Len(lists) + 1
      /\ \A l \in 1..Len(lists) : lists'[l] = lists[l]
      /\ lists'[Len(lists) + 1] = ranking
  BY <1>1, AppendProperties
<1>3. RetrievalTyped'
  BY <1>1, <1>2 DEF RetrievalInv, RetrievalTyped
<1>4. ListsQuotable'
  <2> SUFFICES ASSUME NEW l \in 1..(Len(lists) + 1), NEW i \in 1..Len(lists'[l])
               PROVE  Quotable(lists'[l][i])
    BY <1>2 DEF ListsQuotable, Quotable
  <2>1. CASE l = Len(lists) + 1
    <3>1. lists'[l][i] \in rows
      BY <1>2, <2>1
    <3> QED BY <3>1 DEF Quotable
  <2>2. CASE l # Len(lists) + 1
    <3>1. l \in 1..Len(lists) /\ lists'[l] = lists[l]
      BY <1>1, <1>2, <2>2
    <3> QED BY <3>1 DEF RetrievalInv, ListsQuotable, Quotable
  <2> QED BY <2>1, <2>2
<1> QED BY <1>3, <1>4
        DEF RetrievalInv, EvidenceQuotable, EvidenceSaved, SavedOrWaits, Quotable

LEMMA LoadRowsKeeps ==
    ASSUME RetrievalInv, Retrieval!LoadRows
    PROVE  RetrievalInv'
<1>1. PICK s \in hits : \E ranking \in Retrieval!Hits(s) : Retrieval!Found(ranking)
  BY DEF Retrieval!LoadRows
<1>2. PICK ranking \in Retrieval!Hits(s) : Retrieval!Found(ranking)
  BY <1>1
<1>3. PICK places \in Retrieval!SetToSeqs(Retrieval!Cached(s)) :
          ranking = [i \in DOMAIN places |-> s[places[i]][1]]
  BY <1>2 DEF Retrieval!Hits
<1>4. places \in Seq(Retrieval!Cached(s))
  <2>1. s \in Seq(Retrieval!Vectors)
    BY DEF RetrievalInv, RetrievalTyped
  <2>2. Retrieval!Cached(s) \subseteq 1..Len(s) /\ Len(s) \in Nat
    BY <2>1 DEF Retrieval!Cached
  <2>3. IsFiniteSet(Retrieval!Cached(s))
    <3>1. IsFiniteSet(1..Len(s))
      BY <2>2, FS_Interval
    <3> QED BY <2>2, <3>1, FS_Subset
  <2> QED BY <2>3, RankingIs
<1>5. ranking \in Seq(rows)
  <2>1. \A i \in 1..Len(places) : s[places[i]][1] \in rows
    BY <1>4 DEF Retrieval!Cached
  <2> QED BY <1>3, <1>4, <2>1
<1>6. UNCHANGED <<rows, vec, gone, settings, step, evidence, unsaved, saved>> /\ source \in 1..4
  BY DEF Retrieval!LoadRows, Retrieval!caches
<1> QED BY <1>2, <1>5, <1>6, ListFound

LEMMA LexicalKeeps ==
    ASSUME RetrievalInv, Retrieval!Lexical
    PROVE  RetrievalInv'
<1>1. PICK docs \in SUBSET (rows \cap Retrieval!KindOf[source]) :
          \E s \in Retrieval!SetToSeqs(docs) : Retrieval!Found(s)
  BY DEF Retrieval!Lexical
<1>2. PICK s \in Retrieval!SetToSeqs(docs) : Retrieval!Found(s)
  BY <1>1
<1>3. docs \subseteq rows /\ docs \subseteq Retrieval!Docs
  BY DEF RetrievalInv, RetrievalTyped
<1>4. IsFiniteSet(docs)
  BY <1>3, DocsFinite, FS_Subset
<1>5. s \in Seq(rows)
  <2>1. s \in Seq(docs)
    BY <1>4, RankingIs
  <2> QED BY <1>3, <2>1
<1>6. UNCHANGED <<rows, vec, gone, settings, step, evidence, unsaved, saved>> /\ source \in 1..4
  BY DEF Retrieval!Lexical, Retrieval!caches
<1> QED BY <1>2, <1>5, <1>6, ListFound

LEMMA SearchFailsKeeps ==
    ASSUME RetrievalInv, Retrieval!SearchFails
    PROVE  RetrievalInv'
<1>1. /\ UNCHANGED <<rows, vec, gone, settings, source, hits, lists, broken, evidence,
                     unsaved, saved>>
      /\ step' = "failed"
  BY DEF Retrieval!SearchFails, Retrieval!caches, Retrieval!search
<1> QED BY <1>1 DEF RetrievalInv, RetrievalTyped, ListsQuotable, EvidenceQuotable,
                    EvidenceSaved, SavedOrWaits, Quotable

\* What is ranked for the debate was in some list.
LEMMA CandidatesQuotable ==
    ASSUME RetrievalInv
    PROVE  /\ IsFiniteSet(Retrieval!Candidates) /\ Retrieval!Candidates \subseteq Retrieval!Docs
           /\ \A d \in Retrieval!Candidates : Quotable(d)
<1>1. Retrieval!Candidates \subseteq Retrieval!Docs
  BY DEF Retrieval!Candidates
<1>2. IsFiniteSet(Retrieval!Candidates)
  BY <1>1, DocsFinite, FS_Subset
<1>3. ASSUME NEW d \in Retrieval!Candidates PROVE Quotable(d)
  <2>1. PICK l \in 1..Len(lists) : Retrieval!PlacesIn(d, l) # {}
    BY DEF Retrieval!Candidates, Retrieval!Places
  <2>2. PICK i \in 1..Len(lists[l]) : lists[l][i] = d
    BY <2>1 DEF Retrieval!PlacesIn
  <2> QED BY <2>1, <2>2 DEF RetrievalInv, ListsQuotable
<1> QED BY <1>1, <1>2, <1>3

\* Without fusion the answer merges the hits of two lists.
LEMMA MergedQuotable ==
    ASSUME RetrievalInv, source = 3,
           NEW m \in Retrieval!Merges(Len(lists[1]), Len(lists[2])), NEW s,
           s = [i \in 1..Len(m) |-> Retrieval!Unfused[m[i]]]
    PROVE  s \in Seq(Retrieval!Docs) /\ \A i \in 1..Len(s) : Quotable(s[i])
<1>1. /\ lists[1] \in Seq(Retrieval!Docs) /\ lists[2] \in Seq(Retrieval!Docs)
      /\ Len(lists) = 2
  <2>1. lists \in Seq(Seq(Retrieval!Docs)) /\ Len(lists) = 2
    BY DEF RetrievalInv, RetrievalTyped
  <2>2. \A l \in 1..2 : lists[l] \in Seq(Retrieval!Docs)
    BY <2>1, ElementOfSeq
  <2> QED BY <2>1, <2>2
<1> DEFINE u == Retrieval!Unfused
           n == Len(lists[1]) + Len(lists[2])
<1>2. /\ u \in Seq(Retrieval!Docs) /\ Len(u) = n
      /\ \A i \in 1..n : u[i] = IF i <= Len(lists[1]) THEN lists[1][i]
                               ELSE lists[2][i - Len(lists[1])]
  BY <1>1, ConcatProperties DEF Retrieval!Unfused
<1>3. ASSUME NEW i \in 1..n PROVE Quotable(u[i])
  <2>1. CASE i <= Len(lists[1])
    <3>1. i \in 1..Len(lists[1]) /\ u[i] = lists[1][i]
      BY <1>1, <1>2, <2>1
    <3> QED BY <1>1, <3>1 DEF RetrievalInv, ListsQuotable
  <2>2. CASE ~(i <= Len(lists[1]))
    <3>1. i - Len(lists[1]) \in 1..Len(lists[2]) /\ u[i] = lists[2][i - Len(lists[1])]
      BY <1>1, <1>2, <2>2
    <3> QED BY <1>1, <3>1 DEF RetrievalInv, ListsQuotable
  <2> QED BY <2>1, <2>2
<1>4. m \in Seq(1..n)
  <2>1. n \in Nat
    BY <1>1
  <2>2. IsFiniteSet(1..n)
    <3> HIDE DEF n
    <3> QED BY <2>1, FS_Interval
  <2> QED BY <2>2, RankingIs DEF Retrieval!Merges
<1> HIDE DEF u, n
<1>5. s = [i \in 1..Len(m) |-> u[m[i]]]
  BY DEF u
<1>6. \A i \in 1..Len(m) : m[i] \in 1..n /\ u[m[i]] \in Retrieval!Docs
  BY <1>2, <1>4
<1>7. s \in Seq(Retrieval!Docs) /\ Len(s) = Len(m)
  BY <1>4, <1>5, <1>6
<1> QED BY <1>3, <1>5, <1>6, <1>7

LEMMA RankKeeps ==
    ASSUME RetrievalInv, Retrieval!Rank
    PROVE  RetrievalInv'
<1>1. /\ UNCHANGED <<rows, vec, gone, settings, source, hits, lists, broken, saved>>
      /\ step' = "debate" /\ unsaved' = evidence'
  BY DEF Retrieval!Rank, Retrieval!caches
<1>2. PICK s \in Seq(Retrieval!Docs), n \in Nat :
          /\ evidence' = Retrieval!Take(s, TopK) /\ n = TopK
          /\ settings.hybrid => Distinct(s)
          /\ \A i \in 1..Len(s) : Quotable(s[i])
  <2>1. CASE settings.hybrid
    <3>1. PICK s \in Retrieval!Fused :
              \/ evidence' = Retrieval!Take(s, TopK)
              \/ \E t \in Retrieval!SetToSeqs(Retrieval!ToSet(Retrieval!Take(s, RerankK))) :
                     evidence' = Retrieval!Take(t, TopK)
      BY <2>1 DEF Retrieval!Rank
    <3>2. s \in Seq(Retrieval!Candidates) /\ Distinct(s)
      BY CandidatesQuotable, RankingIs DEF Retrieval!Fused
    <3>3. CASE evidence' = Retrieval!Take(s, TopK)
      BY <3>2, <3>3, CandidatesQuotable, EvidenceAssumption
    <3>4. ASSUME NEW t \in Retrieval!SetToSeqs(Retrieval!ToSet(Retrieval!Take(s, RerankK))),
                 evidence' = Retrieval!Take(t, TopK)
          PROVE  \E r \in Seq(Retrieval!Docs), n \in Nat :
                     /\ evidence' = Retrieval!Take(r, TopK) /\ n = TopK
                     /\ settings.hybrid => Distinct(r)
                     /\ \A i \in 1..Len(r) : Quotable(r[i])
      <4> DEFINE T == Retrieval!ToSet(Retrieval!Take(s, RerankK))
      <4>1. T \subseteq Retrieval!Candidates
        <5>1. Retrieval!Take(s, RerankK) \in Seq(Retrieval!Candidates)
          BY <3>2, TakeIs, EvidenceAssumption
        <5> QED BY <5>1 DEF Retrieval!ToSet
      <4>2. IsFiniteSet(T)
        BY <4>1, CandidatesQuotable, FS_Subset
      <4> HIDE DEF T
      <4>3. t \in Seq(T) /\ Distinct(t)
        BY <4>2, RankingIs DEF T
      <4>4. t \in Seq(Retrieval!Candidates)
        BY <4>1, <4>3
      <4> QED BY <3>4, <4>3, <4>4, CandidatesQuotable, EvidenceAssumption
    <3> QED BY <3>1, <3>3, <3>4
  <2>2. CASE ~settings.hybrid
    <3>1. source = 3 /\ \E m \in Retrieval!Merges(Len(lists[1]), Len(lists[2])) :
              evidence' = Retrieval!Take([i \in 1..Len(m) |-> Retrieval!Unfused[m[i]]], TopK)
      BY <2>2 DEF Retrieval!Rank
    <3>2. PICK m \in Retrieval!Merges(Len(lists[1]), Len(lists[2])) :
              evidence' = Retrieval!Take([i \in 1..Len(m) |-> Retrieval!Unfused[m[i]]], TopK)
      BY <3>1
    <3> DEFINE s == [i \in 1..Len(m) |-> Retrieval!Unfused[m[i]]]
    <3>3. s \in Seq(Retrieval!Docs) /\ \A i \in 1..Len(s) : Quotable(s[i])
      BY <3>1, MergedQuotable
    <3> HIDE DEF s
    <3>4. evidence' = Retrieval!Take(s, TopK)
      BY <3>2 DEF s
    <3> QED BY <2>2, <3>3, <3>4, EvidenceAssumption
  <2> QED BY <2>1, <2>2
<1>3. /\ evidence' \in Seq(Retrieval!Docs) /\ Len(evidence') <= TopK
      /\ Len(evidence') <= Len(s) /\ Len(evidence') \in Nat
      /\ \A i \in 1..Len(evidence') : evidence'[i] = s[i]
      /\ settings.hybrid => Distinct(evidence')
  BY <1>2, TakeIs
<1>4. \A i \in 1..Len(evidence') : Quotable(evidence'[i])
  BY <1>2, <1>3
<1>5. RetrievalTyped'
  BY <1>1, <1>3 DEF RetrievalInv, RetrievalTyped
<1>6. EvidenceQuotable'
  BY <1>1, <1>3, <1>4 DEF EvidenceQuotable, Quotable, Distinct
<1>7. EvidenceSaved'
  BY <1>1 DEF RetrievalInv, EvidenceSaved, SavedOrWaits
<1>8. ListsQuotable'
  BY <1>1 DEF RetrievalInv, ListsQuotable, Quotable
<1> QED BY <1>5, <1>6, <1>7, <1>8 DEF RetrievalInv

LEMMA SaveEvidenceKeeps ==
    ASSUME RetrievalInv, Retrieval!SaveEvidence
    PROVE  RetrievalInv'
<1>1. /\ UNCHANGED <<rows, vec, gone, settings, source, hits, lists, broken, evidence, step>>
      /\ step = "debate" /\ unsaved # <<>> /\ unsaved' = Tail(unsaved)
      /\ saved' = IF Head(unsaved) \in rows
                  THEN saved \cup {[doc |-> Head(unsaved), live |-> TRUE]} ELSE saved
  BY DEF Retrieval!SaveEvidence, Retrieval!caches, Retrieval!search
<1>2. unsaved \in Seq(Retrieval!Docs) /\ unsaved # <<>>
  BY <1>1 DEF RetrievalInv, RetrievalTyped
<1>3. /\ Head(unsaved) \in Retrieval!Docs /\ Head(unsaved) = unsaved[1] /\ 1 \in 1..Len(unsaved)
      /\ unsaved' \in Seq(Retrieval!Docs) /\ Len(unsaved') = Len(unsaved) - 1
      /\ Len(unsaved) \in Nat
      /\ \A i \in 1..Len(unsaved') : unsaved'[i] = unsaved[i + 1]
  BY <1>1, <1>2, HeadTailProperties
<1>4. saved \subseteq saved' /\ saved' \subseteq [doc : Retrieval!Docs, live : BOOLEAN]
  <2>1. [doc |-> Head(unsaved), live |-> TRUE] \in [doc : Retrieval!Docs, live : BOOLEAN]
    BY <1>3
  <2>2. saved \subseteq [doc : Retrieval!Docs, live : BOOLEAN]
    BY DEF RetrievalInv, RetrievalTyped
  <2> QED BY <1>1, <2>1, <2>2
<1>5. RetrievalTyped'
  BY <1>1, <1>3, <1>4 DEF RetrievalInv, RetrievalTyped
<1>6. ListsQuotable'
  BY <1>1 DEF RetrievalInv, ListsQuotable, Quotable
<1>7. EvidenceQuotable'
  <2>1. \A i \in 1..Len(unsaved') : i + 1 \in 1..Len(unsaved)
    BY <1>3
  <2> QED BY <1>1, <1>3, <2>1 DEF RetrievalInv, EvidenceQuotable, Quotable
<1>8. Head(unsaved) \in gone \/ \E r \in saved' : r.doc = Head(unsaved)
  <2>1. Quotable(Head(unsaved))
    BY <1>3 DEF RetrievalInv, EvidenceQuotable
  <2>2. CASE Head(unsaved) \in rows
    <3>1. [doc |-> Head(unsaved), live |-> TRUE] \in saved'
      BY <1>1, <2>2
    <3> QED BY <3>1
  <2> QED BY <2>1, <2>2 DEF Quotable
<1>9. ASSUME NEW d, SavedOrWaits(d) PROVE SavedOrWaits(d)'
  <2>1. CASE d \in gone \/ \E r \in saved : r.doc = d
    BY <1>1, <1>4, <2>1 DEF SavedOrWaits
  <2>2. ASSUME NEW j \in 1..Len(unsaved), unsaved[j] = d PROVE SavedOrWaits(d)'
    <3>1. CASE j = 1
      BY <1>1, <1>3, <1>8, <2>2, <3>1 DEF SavedOrWaits
    <3>2. CASE j # 1
      <4>1. j - 1 \in 1..Len(unsaved') /\ unsaved'[j - 1] = d
        BY <1>3, <2>2, <3>2
      <4> QED BY <4>1 DEF SavedOrWaits
    <3> QED BY <3>1, <3>2
  <2> QED BY <1>9, <2>1, <2>2 DEF SavedOrWaits
<1>10. EvidenceSaved'
  <2>1. \A i \in 1..Len(evidence) : SavedOrWaits(evidence[i])'
    <3> SUFFICES ASSUME NEW i \in 1..Len(evidence) PROVE SavedOrWaits(evidence[i])'
      OBVIOUS
    <3>1. SavedOrWaits(evidence[i])
      BY <1>1 DEF RetrievalInv, EvidenceSaved
    <3> QED BY <1>1, <1>9, <3>1
  <2>2. \A r \in saved' : r.live => r.doc \in rows
    BY <1>1 DEF RetrievalInv, EvidenceSaved
  <2> QED BY <1>1, <2>1, <2>2 DEF EvidenceSaved
<1> QED BY <1>5, <1>6, <1>7, <1>10 DEF RetrievalInv

LEMMA DropKeeps ==
    ASSUME RetrievalInv, NEW d \in Retrieval!Docs, Retrieval!Drop(d)
    PROVE  RetrievalInv'
<1>1. /\ UNCHANGED <<vec, settings, source, hits, lists, broken, evidence, step, unsaved>>
      /\ rows' = rows \ {d} /\ gone' = gone \cup {d} /\ saved' = Retrieval!ClearReferences(d)
  BY DEF Retrieval!Drop, Retrieval!search
<1>2. \A x : Quotable(x) => Quotable(x)'
  BY <1>1 DEF Quotable
<1>3. saved \subseteq [doc : Retrieval!Docs, live : BOOLEAN]
  BY DEF RetrievalInv, RetrievalTyped
<1>4. /\ \A r \in saved' : \E old \in saved :
             r.doc = old.doc /\ r.live = (old.live /\ old.doc # d)
      /\ \A old \in saved : \E r \in saved' : r.doc = old.doc
      /\ saved' \subseteq [doc : Retrieval!Docs, live : BOOLEAN]
  <2>1. \A old \in saved :
            /\ [old EXCEPT !.live = old.live /\ old.doc # d].doc = old.doc
            /\ [old EXCEPT !.live = old.live /\ old.doc # d].live = (old.live /\ old.doc # d)
            /\ [old EXCEPT !.live = old.live /\ old.doc # d]
                   \in [doc : Retrieval!Docs, live : BOOLEAN]
    BY <1>3
  <2> QED BY ZenonT(40), <1>1, <2>1 DEF Retrieval!ClearReferences
<1>5. RetrievalTyped'
  BY <1>1, <1>4 DEF RetrievalInv, RetrievalTyped
<1>6. ListsQuotable' /\ EvidenceQuotable'
  BY <1>1, <1>2 DEF RetrievalInv, ListsQuotable, EvidenceQuotable
<1>7. \A x : SavedOrWaits(x) => SavedOrWaits(x)'
  BY <1>1, <1>4 DEF SavedOrWaits
<1>8. EvidenceSaved'
  <2>1. \A r \in saved' : r.live => r.doc \in rows'
    BY <1>1, <1>4 DEF RetrievalInv, EvidenceSaved
  <2> QED BY <1>1, <1>7, <2>1 DEF RetrievalInv, EvidenceSaved
<1> QED BY <1>5, <1>6, <1>8 DEF RetrievalInv

LEMMA UnembedKeeps ==
    ASSUME RetrievalInv, NEW d \in Retrieval!Docs, Retrieval!Unembed(d)
    PROVE  RetrievalInv'
<1>1. /\ UNCHANGED <<rows, gone, settings, source, hits, lists, broken, evidence, step,
                     unsaved, saved>>
      /\ vec' \subseteq vec
  BY DEF Retrieval!Unembed, Retrieval!search
<1>2. RetrievalTyped'
  BY <1>1 DEF RetrievalInv, RetrievalTyped
<1> QED BY <1>1, <1>2 DEF RetrievalInv, ListsQuotable, EvidenceQuotable,
                          EvidenceSaved, SavedOrWaits, Quotable

LEMMA RetrievalStep == RetrievalInv /\ [Retrieval!Next]_Retrieval!vars => RetrievalInv'
<1> SUFFICES ASSUME RetrievalInv, [Retrieval!Next]_Retrieval!vars PROVE RetrievalInv'
  OBVIOUS
<1>1. CASE UNCHANGED Retrieval!vars
  BY <1>1 DEF Retrieval!vars, RetrievalInv, RetrievalTyped, ListsQuotable, EvidenceQuotable,
              EvidenceSaved, SavedOrWaits, Quotable
<1>2. CASE Retrieval!Next
  BY <1>2, QueryKeeps, LoadRowsKeeps, LexicalKeeps, SearchFailsKeeps, RankKeeps,
     SaveEvidenceKeeps, DropKeeps, UnembedKeeps DEF Retrieval!Next
<1> QED BY <1>1, <1>2

LEMMA RetrievalSound ==
    RetrievalInv => /\ Retrieval!EvidenceDistinct /\ Retrieval!OrphansNotQuoted
                    /\ Retrieval!EvidenceOnRecord
<1> SUFFICES ASSUME RetrievalInv
             PROVE  /\ Retrieval!EvidenceDistinct /\ Retrieval!OrphansNotQuoted
                    /\ Retrieval!EvidenceOnRecord
  OBVIOUS
<1>1. evidence \in Seq(Retrieval!Docs) /\ DOMAIN evidence = 1..Len(evidence)
  BY DEF RetrievalInv, RetrievalTyped
<1>2. Retrieval!EvidenceDistinct
  BY <1>1, DistinctCount DEF RetrievalInv, EvidenceQuotable, Retrieval!EvidenceDistinct
<1>3. Retrieval!OrphansNotQuoted
  BY <1>1 DEF RetrievalInv, EvidenceQuotable, Quotable, Retrieval!ToSet,
              Retrieval!OrphansNotQuoted
<1>4. Retrieval!EvidenceOnRecord
  <2>1. ASSUME step = "debate", unsaved = <<>>, NEW i \in 1..Len(evidence)
        PROVE  evidence[i] \in gone \/ \E r \in saved : r.doc = evidence[i]
    BY <2>1 DEF RetrievalInv, EvidenceSaved, SavedOrWaits
  <2> QED BY <1>1, <2>1 DEF RetrievalInv, EvidenceSaved, Retrieval!ToSet,
                            Retrieval!EvidenceOnRecord
<1> QED BY <1>2, <1>3, <1>4

LEMMA RetrievalAlone ==
    AllSpec => (which = "retrieval" /\ Retrieval!Spec) \/ []~(which = "retrieval")
<1>1. AllInit /\ which = "retrieval" => Retrieval!Init
  BY DEF AllInit
<1>2. which = "retrieval" /\ [AllNext]_allvars =>
          (which = "retrieval")' /\ [Retrieval!Next]_Retrieval!vars
  BY DEF AllNext, allvars, rvars, Retrieval!vars
<1>3. ~(which = "retrieval") /\ [AllNext]_allvars => (~(which = "retrieval"))'
  BY DEF AllNext, allvars
<1> QED BY <1>1, <1>2, <1>3, PTL DEF AllSpec, Retrieval!Spec

-----------------------------------------------------------------------------
(* The order of the fused list.  However often documents are found, one     *)
(* that outranks another in each list has gained more after each beginning  *)
(* of each list, by at least the weight of the next rank for each place     *)
(* that it has more there.                                                  *)

LEMMA GainsAre ==
    ASSUME NEW d, NEW l, Len(lists[l]) \in Nat
    PROVE  /\ Retrieval!Gains(d, l)[0] = 0
           /\ \A k \in 1..Len(lists[l]) :
                 Retrieval!Gains(d, l)[k] =
                    Retrieval!Gains(d, l)[k - 1] +
                    (IF lists[l][k] = d THEN Retrieval!Weight(k) ELSE 0)
<1> DEFINE n == Len(lists[l])
           g == [k \in 1..n |-> IF lists[l][k] = d THEN Retrieval!Weight(k) ELSE 0]
           f == Retrieval!Gains(d, l)
<1>1. PICK h : h = [k \in 0..n |-> IF k = 0 THEN 0 ELSE h[k - 1] + g[k]]
  BY SumsExist
<1>2. h = [k \in 0..n |-> IF k = 0 THEN 0
                          ELSE h[k - 1] + (IF lists[l][k] = d THEN Retrieval!Weight(k) ELSE 0)]
  <2>1. \A k \in 0..n : k # 0 =>
           g[k] = IF lists[l][k] = d THEN Retrieval!Weight(k) ELSE 0
    OBVIOUS
  <2> HIDE DEF g
  <2> QED BY <1>1, <2>1
<1>3. f = CHOOSE e : e = [k \in 0..n |-> IF k = 0 THEN 0
                          ELSE e[k - 1] + (IF lists[l][k] = d THEN Retrieval!Weight(k) ELSE 0)]
  BY DEF Retrieval!Gains
<1>4. f = [k \in 0..n |-> IF k = 0 THEN 0
                          ELSE f[k - 1] + (IF lists[l][k] = d THEN Retrieval!Weight(k) ELSE 0)]
  <2> HIDE DEF f
  <2> QED BY <1>2, <1>3
<1> HIDE DEF f
<1>5. f[0] = 0
  BY <1>4
<1>6. ASSUME NEW k \in 1..n
      PROVE  f[k] = f[k - 1] + (IF lists[l][k] = d THEN Retrieval!Weight(k) ELSE 0)
  <2>1. k \in 0..n /\ k # 0
    OBVIOUS
  <2> QED BY <1>4, <2>1
<1> QED BY <1>5, <1>6 DEF f

LEMMA DivMonotone ==
    ASSUME NEW a \in Nat, NEW b \in Nat \ {0}
    PROVE  a \div (b + 1) <= a \div b /\ a \div b \in Nat
OBVIOUS

LEMMA WeightsFall ==
    ASSUME NEW n \in Nat
    PROVE  /\ Retrieval!Weight(n) \in Nat
           /\ Retrieval!Weight(n + 1) <= Retrieval!Weight(n)
<1>1. RrfK + n \in Nat \ {0} /\ RrfK + (n + 1) = (RrfK + n) + 1 /\ Scale \in Nat
  BY FusionAssumption
<1> QED BY <1>1, DivMonotone DEF Retrieval!Weight

\* The places of a document among the first n of a list.
Upto(d, l, n) == {i \in Retrieval!PlacesIn(d, l) : i <= n}

LEMMA UptoGrows ==
    ASSUME NEW d, NEW l, Len(lists[l]) \in Nat
    PROVE  /\ Upto(d, l, 0) = {}
           /\ \A n \in 0..Len(lists[l]) : IsFiniteSet(Upto(d, l, n))
           /\ \A n \in 1..Len(lists[l]) :
                 Cardinality(Upto(d, l, n)) =
                    Cardinality(Upto(d, l, n - 1)) + (IF lists[l][n] = d THEN 1 ELSE 0)
<1>1. Upto(d, l, 0) = {}
  BY DEF Upto, Retrieval!PlacesIn
<1>2. ASSUME NEW n \in 0..Len(lists[l]) PROVE IsFiniteSet(Upto(d, l, n))
  <2>1. Upto(d, l, n) \subseteq 1..Len(lists[l])
    BY DEF Upto, Retrieval!PlacesIn
  <2>2. IsFiniteSet(1..Len(lists[l]))
    BY FS_Interval
  <2> QED BY <2>1, <2>2, FS_Subset
<1>3. ASSUME NEW n \in 1..Len(lists[l])
      PROVE  Cardinality(Upto(d, l, n)) =
                Cardinality(Upto(d, l, n - 1)) + (IF lists[l][n] = d THEN 1 ELSE 0)
  <2>1. n - 1 \in 0..Len(lists[l]) /\ n \notin Upto(d, l, n - 1)
    BY DEF Upto
  <2>2. IsFiniteSet(Upto(d, l, n - 1))
    BY <1>2, <2>1
  <2>3. Cardinality(Upto(d, l, n - 1)) \in Nat
    BY <2>2, FS_CardinalityType
  <2>4. CASE lists[l][n] = d
    <3>1. Upto(d, l, n) = Upto(d, l, n - 1) \cup {n}
      BY <2>4 DEF Upto, Retrieval!PlacesIn
    <3> QED BY <2>1, <2>2, <2>4, <3>1, FS_AddElement
  <2>5. CASE lists[l][n] # d
    <3>1. Upto(d, l, n) = Upto(d, l, n - 1)
      BY <2>5 DEF Upto, Retrieval!PlacesIn
    <3> QED BY <2>3, <2>5, <3>1
  <2> QED BY <2>4, <2>5
<1> QED BY <1>1, <1>2, <1>3

\* Of each beginning of a list a document that outranks another has more places.
LEMMA Ahead ==
    ASSUME NEW d, NEW e, NEW l, Len(lists[l]) \in Nat, Retrieval!Outranks(d, e, l),
           NEW n \in 0..Len(lists[l])
    PROVE  /\ Cardinality(Upto(d, l, n)) \in Nat /\ Cardinality(Upto(e, l, n)) \in Nat
           /\ Cardinality(Upto(e, l, n)) <= Cardinality(Upto(d, l, n))
<1>1. IsFiniteSet(Upto(d, l, n)) /\ IsFiniteSet(Upto(e, l, n))
  BY UptoGrows
<1>2. Cardinality(Upto(d, l, n)) \in Nat /\ Cardinality(Upto(e, l, n)) \in Nat
  BY <1>1, FS_CardinalityType
<1>3. CASE Upto(e, l, n) = {}
  BY <1>2, <1>3, FS_EmptySet
<1>4. CASE Upto(e, l, n) # {}
  <2>1. Upto(e, l, n) \subseteq 1..n
    BY DEF Upto, Retrieval!PlacesIn
  <2>2. PICK j \in Upto(e, l, n) : \A q \in Upto(e, l, n) : q <= j
    BY <1>4, <2>1, HasLatest
  <2>3. j \in Retrieval!PlacesIn(e, l) /\ j <= n
    BY <2>2 DEF Upto
  <2> DEFINE E == {i \in Retrieval!PlacesIn(e, l) : i <= j}
             D == {i \in Retrieval!PlacesIn(d, l) : i < j}
  <2>4. Cardinality(D) >= Cardinality(E)
    <3>1. Retrieval!Cardinality(D) >= Retrieval!Cardinality(E)
      BY <2>3 DEF Retrieval!Outranks
    <3>2. Retrieval!Cardinality(D) = Cardinality(D) /\ Retrieval!Cardinality(E) = Cardinality(E)
      BY DEF Retrieval!Cardinality, Cardinality
    <3> QED BY <3>1, <3>2
  <2>5. E = Upto(e, l, n)
    BY <2>1, <2>2, <2>3 DEF Upto, Retrieval!PlacesIn
  <2>6. D \subseteq Upto(d, l, n)
    BY <2>1, <2>3 DEF Upto, Retrieval!PlacesIn
  <2>7. Cardinality(D) <= Cardinality(Upto(d, l, n)) /\ Cardinality(D) \in Nat
    BY <1>1, <2>6, FS_Subset, FS_CardinalityType
  <2> HIDE DEF D, E
  <2> QED BY <1>2, <2>4, <2>5, <2>7
<1> QED BY <1>2, <1>3, <1>4

LEMMA TimesMonotone ==
    ASSUME NEW a \in Nat, NEW b \in Nat, NEW c \in Nat, b <= a
    PROVE  b * c <= a * c /\ b * c \in Nat /\ a * c \in Nat
OBVIOUS

\* What the first hits of a list add to a document that outranks another is more, by what
\* the next hit may add for each place that it has more.
LEMMA GainsOrdered ==
    ASSUME NEW d, NEW e, NEW l, Len(lists[l]) \in Nat, Retrieval!Outranks(d, e, l)
    PROVE  \A n \in 0..Len(lists[l]) :
              /\ Retrieval!Gains(d, l)[n] \in Nat /\ Retrieval!Gains(e, l)[n] \in Nat
              /\ Retrieval!Gains(d, l)[n] >=
                    Retrieval!Gains(e, l)[n] + Retrieval!Weight(n) *
                       (Cardinality(Upto(d, l, n)) - Cardinality(Upto(e, l, n)))
<1> DEFINE N == Len(lists[l])
           f == Retrieval!Gains(d, l)
           h == Retrieval!Gains(e, l)
           w(n) == Retrieval!Weight(n)
           c(n) == Cardinality(Upto(d, l, n)) - Cardinality(Upto(e, l, n))
           S == {n \in 0..N : f[n] \in Nat /\ h[n] \in Nat /\ f[n] >= h[n] + w(n) * c(n)}
<1>1. 0 \in S
  <2>1. f[0] = 0 /\ h[0] = 0
    BY GainsAre
  <2>2. c(0) = 0
    BY UptoGrows, FS_EmptySet
  <2>3. w(0) \in Nat
    BY WeightsFall
  <2> HIDE DEF f, h, w, c
  <2> QED BY <2>1, <2>2, <2>3
<1>2. ASSUME NEW n \in 0..N, n \in S, n < N PROVE n + 1 \in S
  <2> DEFINE m == n + 1
             x == IF lists[l][m] = d THEN 1 ELSE 0
             y == IF lists[l][m] = e THEN 1 ELSE 0
  <2>1. m \in 1..N /\ m - 1 = n /\ n \in Nat /\ m \in 0..N
    BY <1>2
  <2>2. /\ f[m] = f[n] + (IF lists[l][m] = d THEN w(m) ELSE 0)
        /\ h[m] = h[n] + (IF lists[l][m] = e THEN w(m) ELSE 0)
    <3> HIDE DEF m
    <3> QED BY <2>1, GainsAre
  <2>3. c(n) \in Nat
    BY <1>2, Ahead
  <2>4. c(m) = c(n) + x - y
    <3>1. /\ Cardinality(Upto(d, l, m)) = Cardinality(Upto(d, l, n)) + x
          /\ Cardinality(Upto(e, l, m)) = Cardinality(Upto(e, l, n)) + y
      <4> HIDE DEF m
      <4> QED BY <2>1, UptoGrows
    <3>2. Cardinality(Upto(d, l, n)) \in Nat /\ Cardinality(Upto(e, l, n)) \in Nat
      BY <1>2, Ahead
    <3>3. x \in Nat /\ y \in Nat
      OBVIOUS
    <3> HIDE DEF x, y, m
    <3> QED BY <3>1, <3>2, <3>3
  <2>5. w(m) \in Nat /\ w(n) \in Nat /\ w(m) <= w(n)
    <3>1. n \in Nat /\ m \in Nat
      BY <2>1
    <3> HIDE DEF f, h, c, S, x, y
    <3> QED BY <3>1, WeightsFall
  <2>6. w(m) * c(n) <= w(n) * c(n) /\ w(m) * c(n) \in Nat /\ w(n) * c(n) \in Nat
    <3> HIDE DEF w, c, m
    <3> QED BY <2>3, <2>5, TimesMonotone
  <2>7. f[n] \in Nat /\ h[n] \in Nat /\ f[n] >= h[n] + w(n) * c(n)
    BY <1>2
  <2>8. f[m] \in Nat /\ h[m] \in Nat
    <3> HIDE DEF f, h, w, m
    <3> QED BY <2>2, <2>5, <2>7
  <2>9. f[m] >= h[m] + w(m) * c(m)
    <3>1. CASE lists[l][m] = d /\ lists[l][m] # e
      <4>1. c(m) = c(n) + 1 /\ f[m] = f[n] + w(m) /\ h[m] = h[n]
        <5> HIDE DEF f, h, w, c, m
        <5> QED BY <2>2, <2>3, <2>4, <2>7, <3>1
      <4>2. w(m) * c(m) = w(m) * c(n) + w(m)
        <5> HIDE DEF w, c, m
        <5> QED BY <2>3, <2>5, <4>1
      <4> HIDE DEF f, h, w, c, m
      <4> QED BY <2>5, <2>6, <2>7, <4>1, <4>2
    <3>2. CASE lists[l][m] # d /\ lists[l][m] = e
      <4>1. c(m) = c(n) - 1 /\ f[m] = f[n] /\ h[m] = h[n] + w(m)
        <5> HIDE DEF f, h, w, c, m
        <5> QED BY <2>2, <2>3, <2>4, <2>7, <3>2
      <4>2. w(m) * c(m) = w(m) * c(n) - w(m)
        <5> HIDE DEF w, c, m
        <5> QED BY <2>3, <2>5, <4>1
      <4> HIDE DEF f, h, w, c, m
      <4> QED BY <2>5, <2>6, <2>7, <4>1, <4>2
    <3>3. CASE lists[l][m] = d /\ lists[l][m] = e
      <4>1. c(m) = c(n) /\ f[m] = f[n] + w(m) /\ h[m] = h[n] + w(m)
        <5> HIDE DEF f, h, w, c, m
        <5> QED BY <2>2, <2>3, <2>4, <2>7, <3>3
      <4> HIDE DEF f, h, w, c, m
      <4> QED BY <2>5, <2>6, <2>7, <4>1
    <3>4. CASE lists[l][m] # d /\ lists[l][m] # e
      <4>1. c(m) = c(n) /\ f[m] = f[n] /\ h[m] = h[n]
        <5> HIDE DEF f, h, w, c, m
        <5> QED BY <2>2, <2>3, <2>4, <2>7, <3>4
      <4> HIDE DEF f, h, w, c, m
      <4> QED BY <2>5, <2>6, <2>7, <4>1
    <3> QED BY <3>1, <3>2, <3>3, <3>4
  <2> HIDE DEF f, h, w, c
  <2> QED BY <2>1, <2>8, <2>9
<1>3. \A n \in 0..N : n \in S
  <2> HIDE DEF S
  <2> QED BY <1>1, <1>2, UpTo
<1> QED BY <1>3

LEMMA GainOrdered ==
    ASSUME NEW d, NEW e, NEW l, Len(lists[l]) \in Nat, Retrieval!Outranks(d, e, l)
    PROVE  /\ Retrieval!Gain(d, l) \in Nat /\ Retrieval!Gain(e, l) \in Nat
           /\ Retrieval!Gain(d, l) >= Retrieval!Gain(e, l)
<1> DEFINE N == Len(lists[l])
           f == Retrieval!Gains(d, l)[N]
           h == Retrieval!Gains(e, l)[N]
           w == Retrieval!Weight(N)
           c == Cardinality(Upto(d, l, N)) - Cardinality(Upto(e, l, N))
<1>1. N \in Nat /\ N \in 0..N
  OBVIOUS
<1>2. f \in Nat /\ h \in Nat /\ f >= h + w * c
  BY <1>1, GainsOrdered
<1>3. w \in Nat
  BY <1>1, WeightsFall
<1>4. c \in Nat
  BY <1>1, Ahead
<1>5. w * c \in Nat
  <2> HIDE DEF w, c
  <2> QED BY <1>3, <1>4, TimesMonotone
<1>6. f >= h
  <2> HIDE DEF f, h, w, c
  <2> QED BY <1>2, <1>5
<1> QED BY <1>2, <1>6 DEF Retrieval!Gain


LEMMA PlacesAre ==
    ASSUME NEW d, Len(lists) = 4, \A l \in 1..4 : Len(lists[l]) \in Nat
    PROVE  /\ Retrieval!Places(d) \subseteq Nat \X Nat
           /\ \A l \in 1..4 : \A i \in 1..Len(lists[l]) :
                 lists[l][i] = d => <<l, i>> \in Retrieval!Places(d)
           /\ \A p \in Retrieval!Places(d) :
                 p[1] \in 1..4 /\ p[2] \in Retrieval!PlacesIn(d, p[1])
BY DEF Retrieval!Places, Retrieval!PlacesIn

\* The first place of a document is ahead of all its places.
LEMMA FirstIs ==
    ASSUME NEW d, Len(lists) = 4, \A l \in 1..4 : Len(lists[l]) \in Nat,
           Retrieval!Places(d) # {}
    PROVE  /\ Retrieval!First(d) \in Retrieval!Places(d)
           /\ \A q \in Retrieval!Places(d) :
                 \/ Retrieval!First(d)[1] < q[1]
                 \/ Retrieval!First(d)[1] = q[1] /\ Retrieval!First(d)[2] <= q[2]
<1> DEFINE P == Retrieval!Places(d)
<1>1. P \subseteq Nat \X Nat
  BY PlacesAre
<1>2. PICK l \in {p[1] : p \in P} : \A q \in {p[1] : p \in P} : l <= q
  <2>1. {p[1] : p \in P} \subseteq Nat /\ {p[1] : p \in P} # {}
    BY <1>1
  <2> QED BY <2>1, HasLeast
<1> DEFINE Q == {p \in P : p[1] = l}
<1>3. PICK i \in {p[2] : p \in Q} : \A q \in {p[2] : p \in Q} : i <= q
  <2>1. {p[2] : p \in Q} \subseteq Nat /\ {p[2] : p \in Q} # {}
    BY <1>1, <1>2
  <2> QED BY <2>1, HasLeast
<1>4. <<l, i>> \in P
  BY <1>1, <1>3
<1>5. \A q \in P : <<l, i>>[1] < q[1] \/ (<<l, i>>[1] = q[1] /\ <<l, i>>[2] <= q[2])
  <2> TAKE q \in P
  <2>1. l <= q[1] /\ l \in Nat /\ q[1] \in Nat
    BY <1>1, <1>2
  <2>2. q[1] = l => i <= q[2]
    BY <1>3
  <2> QED BY <2>1, <2>2
<1> HIDE DEF P
<1> QED BY <1>4, <1>5 DEF Retrieval!First, P

\* A document that outranks another in each list is before it and not behind it.
LEMMA OutranksBefore ==
    ASSUME NEW d, NEW e, Len(lists) = 4, \A l \in 1..4 : Len(lists[l]) \in Nat,
           Retrieval!Places(d) # {}, Retrieval!Places(e) # {},
           \A l \in 1..4 : Retrieval!Outranks(d, e, l)
    PROVE  ~Retrieval!Before(e, d)
<1>1. /\ Retrieval!Score(d) \in Nat /\ Retrieval!Score(e) \in Nat
      /\ Retrieval!Score(d) >= Retrieval!Score(e)
  <2>1. \A l \in 1..4 : /\ Retrieval!Gain(d, l) \in Nat /\ Retrieval!Gain(e, l) \in Nat
                        /\ Retrieval!Gain(d, l) >= Retrieval!Gain(e, l)
    BY GainOrdered
  <2>2. /\ Retrieval!Gain(d, 1) >= Retrieval!Gain(e, 1) /\ Retrieval!Gain(d, 1) \in Nat
        /\ Retrieval!Gain(e, 1) \in Nat
    BY <2>1
  <2>3. /\ Retrieval!Gain(d, 2) >= Retrieval!Gain(e, 2) /\ Retrieval!Gain(d, 2) \in Nat
        /\ Retrieval!Gain(e, 2) \in Nat
    BY <2>1
  <2>4. /\ Retrieval!Gain(d, 3) >= Retrieval!Gain(e, 3) /\ Retrieval!Gain(d, 3) \in Nat
        /\ Retrieval!Gain(e, 3) \in Nat
    BY <2>1
  <2>5. /\ Retrieval!Gain(d, 4) >= Retrieval!Gain(e, 4) /\ Retrieval!Gain(d, 4) \in Nat
        /\ Retrieval!Gain(e, 4) \in Nat
    BY <2>1
  <2>6. \A a1, a2, a3, a4, b1, b2, b3, b4 \in Nat :
           a1 >= b1 /\ a2 >= b2 /\ a3 >= b3 /\ a4 >= b4 =>
              /\ a1 + a2 + a3 + a4 \in Nat /\ b1 + b2 + b3 + b4 \in Nat
              /\ a1 + a2 + a3 + a4 >= b1 + b2 + b3 + b4
    OBVIOUS
  <2> QED BY <2>2, <2>3, <2>4, <2>5, <2>6 DEF Retrieval!Score
<1> DEFINE p == Retrieval!First(d)
           q == Retrieval!First(e)
<1>2. p[1] < q[1] \/ (p[1] = q[1] /\ p[2] < q[2])
  <2>1. q \in Retrieval!Places(e) /\ q[1] \in 1..4 /\ q[2] \in Retrieval!PlacesIn(e, q[1])
    BY FirstIs, PlacesAre
  <2> DEFINE E == {i \in Retrieval!PlacesIn(e, q[1]) : i <= q[2]}
             D == {i \in Retrieval!PlacesIn(d, q[1]) : i < q[2]}
  <2>2. Retrieval!Cardinality(D) >= Retrieval!Cardinality(E)
    BY <2>1 DEF Retrieval!Outranks
  <2>3. Cardinality(D) >= Cardinality(E)
    BY <2>2 DEF Retrieval!Cardinality, Cardinality
  <2>4. q[2] \in E
    BY <2>1 DEF Retrieval!PlacesIn
  <2>5. IsFiniteSet(E)
    <3> DEFINE n == Len(lists[q[1]])
    <3>1. E \subseteq 1..n
      BY DEF Retrieval!PlacesIn
    <3>2. n \in Nat
      BY <2>1
    <3>3. IsFiniteSet(1..n)
      <4> HIDE DEF n
      <4> QED BY <3>2, FS_Interval
    <3> QED BY <3>1, <3>3, FS_Subset
  <2>6. D # {}
    <3> HIDE DEF D, E
    <3>1. Cardinality(E) # 0 /\ Cardinality(E) \in Nat
      BY <2>4, <2>5, FS_EmptySet, FS_CardinalityType
    <3>2. D = {} => Cardinality(D) = 0
      BY FS_EmptySet
    <3> QED BY <2>3, <3>1, <3>2
  <2>7. PICK i \in Retrieval!PlacesIn(d, q[1]) : i < q[2]
    BY <2>6
  <2>8. <<q[1], i>> \in Retrieval!Places(d)
    BY <2>1, <2>7, PlacesAre DEF Retrieval!PlacesIn
  <2>9. p[1] < <<q[1], i>>[1] \/ (p[1] = <<q[1], i>>[1] /\ p[2] <= <<q[1], i>>[2])
    BY <2>8, FirstIs
  <2>10. p \in Nat \X Nat /\ q \in Nat \X Nat
    BY FirstIs, PlacesAre
  <2>11. i \in Nat
    BY <2>7 DEF Retrieval!PlacesIn
  <2> HIDE DEF p, q
  <2> QED BY <2>7, <2>9, <2>10, <2>11
<1>3. p \in Nat \X Nat /\ q \in Nat \X Nat
  BY FirstIs, PlacesAre
<1> HIDE DEF p, q
<1>4. ~(q[1] < p[1] \/ (q[1] = p[1] /\ q[2] < p[2]))
  BY <1>2, <1>3
<1> QED BY <1>1, <1>4 DEF Retrieval!Before, p, q

\* A ranking of a finite set has all of its members.
LEMMA RankingHasAll ==
    ASSUME NEW S, IsFiniteSet(S), NEW s \in Retrieval!SetToSeqs(S), NEW d \in S
    PROVE  \E i \in 1..Len(s) : s[i] = d
<1>1. s \in Seq(S) /\ Distinct(s)
  BY RankingIs
<1>2. Len(s) = Cardinality(S)
  <2>1. Retrieval!Cardinality(S) = Cardinality(S)
    BY DEF Retrieval!Cardinality, Cardinality
  <2>2. Cardinality(S) \in Nat
    BY FS_CardinalityType
  <2>3. s \in [1..Cardinality(S) -> S]
    BY <2>1 DEF Retrieval!SetToSeqs
  <2> QED BY <2>2, <2>3
<1> DEFINE T == {s[i] : i \in 1..Len(s)}
           f == [i \in 1..Len(s) |-> s[i]]
<1>3. f \in Bijection(1..Len(s), T)
  BY <1>1 DEF Distinct, Bijection, Injection, Surjection, IsInjective
<1>4. ExistsBijection(1..Len(s), T)
  BY <1>3 DEF ExistsBijection
<1>5. IsFiniteSet(1..Len(s)) /\ Cardinality(1..Len(s)) = Len(s)
  <2>1. Len(s) \in Nat
    BY <1>1
  <2>2. Cardinality(1..Len(s)) = IF 1 > Len(s) THEN 0 ELSE Len(s) - 1 + 1
    BY <2>1, FS_Interval
  <2>3. IsFiniteSet(1..Len(s))
    BY <2>1, FS_Interval
  <2> QED BY <2>1, <2>2, <2>3
<1>6. T \subseteq S
  BY <1>1
<1> HIDE DEF T
<1>7. Cardinality(T) = Cardinality(S)
  BY <1>2, <1>4, <1>5, FS_Bijection
<1>8. T = S
  BY <1>6, <1>7, FS_Subset
<1> QED BY <1>8 DEF T

LEMMA FusionStep ==
    ASSUME lists \in Seq(Seq(Retrieval!Docs)), Len(lists) = source - 1,
           settings.hybrid, ~settings.reranker, Retrieval!Rank,
           NEW d \in Retrieval!Candidates, NEW e \in Retrieval!Candidates, d # e,
           \A l \in 1..4 : Retrieval!Outranks(d, e, l),
           NEW j \in 1..Len(evidence'), evidence'[j] = e
    PROVE  \E i \in 1..(j - 1) : evidence'[i] = d
<1>1. Len(lists) = 4 /\ \A l \in 1..4 : Len(lists[l]) \in Nat
  <2>1. source = 5
    BY DEF Retrieval!Rank
  <2> QED BY <2>1
<1>2. IsFiniteSet(Retrieval!Candidates)
  <2>1. Retrieval!Candidates \subseteq Retrieval!Docs
    BY DEF Retrieval!Candidates
  <2> QED BY <2>1, DocsFinite, FS_Subset
<1>3. PICK s \in Retrieval!Fused : evidence' = Retrieval!Take(s, TopK)
  BY DEF Retrieval!Rank
<1>4. s \in Retrieval!SetToSeqs(Retrieval!Candidates)
  BY <1>3 DEF Retrieval!Fused
<1>5. s \in Seq(Retrieval!Candidates)
  BY <1>2, <1>4, RankingIs
<1>6. /\ Len(evidence') <= Len(s) /\ Len(evidence') \in Nat /\ Len(s) \in Nat
      /\ \A i \in 1..Len(evidence') : evidence'[i] = s[i]
  BY <1>3, <1>5, TakeIs, EvidenceAssumption
<1>7. PICK i \in 1..Len(s) : s[i] = d
  BY <1>2, <1>4, RankingHasAll
<1>8. j \in 1..Len(s) /\ s[j] = e
  BY <1>6
<1>9. ~(j < i)
  <2>1. ~Retrieval!Before(e, d)
    BY <1>1, OutranksBefore DEF Retrieval!Candidates
  <2>2. DOMAIN s = 1..Len(s)
    BY <1>5
  <2>3. j < i => Retrieval!Before(s[j], s[i])
    BY <1>3, <1>7, <1>8, <2>2 DEF Retrieval!Fused
  <2> QED BY <1>7, <1>8, <2>1, <2>3
<1>10. i # j
  BY <1>7, <1>8
<1>11. i \in 1..(j - 1) /\ i \in 1..Len(evidence')
  BY <1>6, <1>7, <1>9, <1>10
<1> QED BY <1>6, <1>7, <1>11

-----------------------------------------------------------------------------
(* The feed of a user                                                       *)

FeedTyped ==
    /\ date \in [FeedNews \cup FeedFilings -> [published : Nat, retrieved : Nat]]
    /\ capped \in Nat \ {0}
    /\ wrows \subseteq FeedNews \cup FeedFilings
    /\ news \subseteq FeedNews /\ filings \subseteq FeedFilings
    /\ wstage # "request" => lasting \subseteq wrows

\* A row that has been there all the time is in the list of its table, or the list is full
\* of rows that are not behind it.
Cut(lasted, list) ==
    \A i \in lasted : i \in list \/ /\ Feed!Cardinality(list) = capped
                                    /\ \A j \in list : ~Feed!Ahead(i, j)

ListsCut ==
    /\ wstage \in {"filings", "merge", "answered"} => Cut(lasting \cap FeedNews, news)
    /\ wstage \in {"merge", "answered"} => Cut(lasting \cap FeedFilings, filings)
    /\ wstage = "answered" => feed \in Feed!FirstOf(news \cup filings, TRUE)

FeedInv == FeedTyped /\ ListsCut

LEMMA FeedInit == Feed!Init => FeedInv
<1> SUFFICES ASSUME Feed!Init PROVE FeedInv
  OBVIOUS
<1> USE EvidenceAssumption DEF Feed!Init
<1>1. date \in [FeedNews \cup FeedFilings -> [published : Nat, retrieved : Nat]]
  <2>1. {d \in [published : 0..LastIssue, retrieved : 1..LastIssue] :
             d.published <= d.retrieved} \subseteq [published : Nat, retrieved : Nat]
    OBVIOUS
  <2> QED BY <2>1 DEF Feed!Items
<1>2. FeedTyped
  BY <1>1 DEF FeedTyped, Feed!Items
<1>3. ListsCut
  BY DEF ListsCut
<1> QED BY <1>2, <1>3 DEF FeedInv

\* What a SELECT returns cuts its table.
LEMMA FirstCuts ==
    ASSUME NEW S, NEW T \in Feed!FirstOf(S, FALSE), NEW L \in SUBSET S
    PROVE  T \subseteq S /\ Cut(L, T)
BY DEF Feed!FirstOf, Feed!Before, Cut

LEMMA FeedStep == FeedInv /\ [Feed!Next]_Feed!vars => FeedInv'
<1> SUFFICES ASSUME FeedInv, [Feed!Next]_Feed!vars PROVE FeedInv'
  OBVIOUS
<1> USE EvidenceAssumption DEF FeedInv, FeedTyped
<1>1. CASE Feed!Request
  <2>1. PICK limit \in Limits : capped' = Feed!Cap(limit)
    BY <1>1 DEF Feed!Request
  <2>2. capped' \in Nat \ {0}
    BY <2>1 DEF Feed!Cap
  <2> QED BY <1>1, <2>2 DEF Feed!Request, ListsCut
<1>2. CASE Feed!SelectNews
  <2>1. /\ wstage = "news" /\ wstage' = "filings"
        /\ news' \in Feed!FirstOf(wrows \cap FeedNews, FALSE)
        /\ UNCHANGED <<date, wrows, capped, filings, feed, lasting, changes>>
    BY <1>2 DEF Feed!SelectNews
  <2>2. lasting \cap FeedNews \in SUBSET (wrows \cap FeedNews)
    BY <2>1
  <2>3. PICK chosen \in Feed!FirstOf(wrows \cap FeedNews, FALSE) : news' = chosen
    BY <2>1
  <2>4. chosen \subseteq FeedNews /\ Cut(lasting \cap FeedNews, chosen)
    <3> DEFINE S == wrows \cap FeedNews
               L == lasting \cap FeedNews
    <3>1. chosen \in Feed!FirstOf(S, FALSE) /\ L \in SUBSET S /\ S \subseteq FeedNews
      BY <2>2
    <3> HIDE DEF S, L
    <3>2. chosen \subseteq S /\ Cut(L, chosen)
      BY ONLY <3>1, FirstCuts
    <3>3. chosen \subseteq FeedNews
      BY <3>1, <3>2
    <3> QED BY <3>2, <3>3 DEF L
  <2>5. Cut(lasting \cap FeedNews, news)'
    BY <2>1, <2>3, <2>4 DEF Cut, Feed!Ahead, Feed!Published
  <2> QED BY <2>1, <2>3, <2>4, <2>5 DEF ListsCut
<1>3. CASE Feed!SelectFilings
  <2>1. /\ wstage = "filings" /\ wstage' = "merge"
        /\ filings' \in Feed!FirstOf(wrows \cap FeedFilings, FALSE)
        /\ UNCHANGED <<date, wrows, capped, news, feed, lasting, changes>>
    BY <1>3 DEF Feed!SelectFilings
  <2>2. lasting \cap FeedFilings \in SUBSET (wrows \cap FeedFilings)
    BY <2>1
  <2>3. PICK chosen \in Feed!FirstOf(wrows \cap FeedFilings, FALSE) : filings' = chosen
    BY <2>1
  <2>4. chosen \subseteq FeedFilings /\ Cut(lasting \cap FeedFilings, chosen)
    <3> DEFINE S == wrows \cap FeedFilings
               L == lasting \cap FeedFilings
    <3>1. chosen \in Feed!FirstOf(S, FALSE) /\ L \in SUBSET S /\ S \subseteq FeedFilings
      BY <2>2
    <3> HIDE DEF S, L
    <3>2. chosen \subseteq S /\ Cut(L, chosen)
      BY ONLY <3>1, FirstCuts
    <3>3. chosen \subseteq FeedFilings
      BY <3>1, <3>2
    <3> QED BY <3>2, <3>3 DEF L
  <2>5. Cut(lasting \cap FeedFilings, filings)'
    BY <2>1, <2>3, <2>4 DEF Cut, Feed!Ahead, Feed!Published
  <2>6. Cut(lasting \cap FeedNews, news)'
    BY <2>1 DEF ListsCut, Cut, Feed!Ahead, Feed!Published
  <2> QED BY <2>1, <2>3, <2>4, <2>5, <2>6 DEF ListsCut
<1>4. CASE Feed!Merge
  <2>1. /\ wstage = "merge" /\ wstage' = "answered"
        /\ feed' \in Feed!FirstOf(news \cup filings, TRUE)
        /\ UNCHANGED <<date, wrows, capped, news, filings, lasting, changes>>
    BY <1>4 DEF Feed!Merge
  <2>2. (feed \in Feed!FirstOf(news \cup filings, TRUE))'
    BY <2>1 DEF Feed!FirstOf, Feed!Before, Feed!Newer, Feed!Ahead, Feed!Shown, Feed!Published
  <2>3. Cut(lasting \cap FeedNews, news)' /\ Cut(lasting \cap FeedFilings, filings)'
    BY <2>1 DEF ListsCut, Cut, Feed!Ahead, Feed!Published
  <2> QED BY <2>1, <2>2, <2>3 DEF ListsCut
<1>5. ASSUME NEW i \in Feed!Items, Feed!Change(i) PROVE FeedInv'
  <2>1. /\ wstage \in {"news", "filings"} /\ lasting' = lasting \ {i}
        /\ wrows \ {i} \subseteq wrows' /\ wrows' \subseteq wrows \cup {i}
        /\ UNCHANGED <<date, wstage, capped, news, filings, feed>>
    BY <1>5 DEF Feed!Change
  <2>2. FeedTyped'
    BY <2>1 DEF Feed!Items
  <2>3. wstage = "filings" => Cut(lasting \cap FeedNews, news)'
    BY <2>1 DEF ListsCut, Cut, Feed!Ahead, Feed!Published
  <2> QED BY <2>1, <2>2, <2>3 DEF ListsCut
<1>6. CASE UNCHANGED Feed!vars
  BY <1>6 DEF Feed!vars, ListsCut, Cut, Feed!FirstOf, Feed!Before, Feed!Newer, Feed!Ahead,
              Feed!Shown, Feed!Published
<1> QED BY <1>1, <1>2, <1>3, <1>4, <1>5, <1>6 DEF Feed!Next

\* A list that is full keeps what the merge cuts no newer than what it shows, although
\* the merge has another order: some row of the list is cut too.
LEMMA FullListCut ==
    ASSUME FeedTyped, NEW full, NEW other, full \subseteq Feed!Items, other \subseteq Feed!Items,
           full \cap other = {}, IsFiniteSet(full), IsFiniteSet(other),
           feed \in Feed!FirstOf(full \cup other, TRUE),
           NEW i \in Feed!Items, i \notin full, i \notin other, Cut({i}, full)
    PROVE  /\ Feed!Cardinality(feed) = capped /\ Feed!Cardinality(full) = capped
           /\ Feed!Published(i) = Feed!Unknown
              \/ \A j \in feed : Feed!Shown(i) <= Feed!Shown(j)
<1> USE DEF FeedTyped, Feed!Items
<1>1. /\ feed \subseteq full \cup other /\ Feed!Cardinality(feed) <= capped
      /\ feed # full \cup other => Feed!Cardinality(feed) = capped
      /\ \A f \in feed, c \in (full \cup other) \ feed : ~Feed!Newer(c, f)
  BY DEF Feed!FirstOf, Feed!Before
<1>2. Feed!Cardinality(full) = capped /\ \A n \in full : ~Feed!Ahead(i, n)
  BY DEF Cut
<1>3. Feed!Cardinality(feed) = Cardinality(feed) /\ Feed!Cardinality(full) = Cardinality(full)
  BY DEF Feed!Cardinality, Cardinality
<1>4. IsFiniteSet(full \cup other)
  BY FS_Union
<1>5. IsFiniteSet(feed)
  BY <1>1, <1>4, FS_Subset
<1>6. Cardinality(feed) \in Nat /\ Cardinality(full) \in Nat
  BY <1>5, FS_CardinalityType
<1>7. full \subseteq feed => Cardinality(full) <= Cardinality(feed)
  BY <1>5, FS_Subset
<1>8. Feed!Cardinality(feed) = capped
  BY <1>1, <1>2, <1>3, <1>6, <1>7
<1>9. ASSUME Feed!Published(i) # Feed!Unknown, NEW j \in feed
      PROVE  Feed!Shown(i) <= Feed!Shown(j)
  <2>1. \A n \in full : Feed!Shown(i) <= Feed!Shown(n)
    BY <1>2, <1>9 DEF Feed!Ahead, Feed!Shown, Feed!Published, Feed!Unknown
  <2>2. CASE j \in full
    BY <2>1, <2>2
  <2>3. CASE j \notin full
    <3>1. PICK n \in full : n \notin feed
      <4>1. full \subseteq feed => full = feed
        BY <1>2, <1>3, <1>5, <1>8, FS_Subset
      <4> QED BY <2>3, <4>1
    <3>2. ~Feed!Newer(n, j)
      BY <1>1, <3>1
    <3>3. Feed!Shown(n) <= Feed!Shown(j)
      BY <1>1, <3>2 DEF Feed!Newer, Feed!Shown, Feed!Published
    <3>4. Feed!Shown(i) <= Feed!Shown(n)
      BY <2>1
    <3>5. Feed!Shown(i) \in Nat /\ Feed!Shown(n) \in Nat /\ Feed!Shown(j) \in Nat
      BY <1>1 DEF Feed!Shown, Feed!Published
    <3> QED BY <3>3, <3>4, <3>5
  <2> QED BY <2>2, <2>3
<1> QED BY <1>2, <1>8, <1>9

LEMMA FeedShows == FeedInv => Feed!FeedShowsNewest
<1> SUFFICES ASSUME FeedInv, wstage = "answered", NEW i \in lasting \ feed
             PROVE  /\ Feed!Cardinality(feed) = capped
                    /\ Feed!CutUndated(i) \/ \A j \in feed : Feed!Shown(i) <= Feed!Shown(j)
  BY DEF Feed!FeedShowsNewest
<1> USE EvidenceAssumption DEF FeedInv, FeedTyped
<1>1. i \in FeedNews \cup FeedFilings /\ feed \in Feed!FirstOf(news \cup filings, TRUE)
  BY DEF ListsCut
<1>2. IsFiniteSet(news) /\ IsFiniteSet(filings)
  BY FS_Subset
<1>3. CASE i \in news \cup filings
  <2>1. /\ Feed!Cardinality(feed) = capped /\ \A j \in feed : ~Feed!Newer(i, j)
        /\ feed \subseteq FeedNews \cup FeedFilings
    BY <1>1, <1>3 DEF Feed!FirstOf, Feed!Before
  <2>2. \A j \in feed : Feed!Shown(i) <= Feed!Shown(j)
    BY <1>1, <2>1 DEF Feed!Newer, Feed!Shown, Feed!Published
  <2> QED BY <2>1, <2>2
<1>4. CASE i \in FeedNews /\ i \notin news
  <2>1. i \notin filings /\ Cut({i}, news)
    BY <1>4 DEF ListsCut, Cut
  <2>2. /\ Feed!Cardinality(feed) = capped /\ Feed!Cardinality(news) = capped
        /\ Feed!Published(i) = Feed!Unknown \/ \A j \in feed : Feed!Shown(i) <= Feed!Shown(j)
    BY <1>1, <1>2, <1>4, <2>1, FullListCut DEF Feed!Items
  <2> QED BY <1>4, <2>2 DEF Feed!CutUndated, Feed!SelectOf
<1>5. CASE i \in FeedFilings /\ i \notin filings
  <2>1. i \notin FeedNews /\ i \notin news /\ Cut({i}, filings)
    BY <1>5 DEF ListsCut, Cut
  <2>2. feed \in Feed!FirstOf(filings \cup news, TRUE)
    <3>1. filings \cup news = news \cup filings
      OBVIOUS
    <3> QED BY <1>1, <3>1
  <2>3. /\ Feed!Cardinality(feed) = capped /\ Feed!Cardinality(filings) = capped
        /\ Feed!Published(i) = Feed!Unknown \/ \A j \in feed : Feed!Shown(i) <= Feed!Shown(j)
    BY <1>2, <1>5, <2>1, <2>2, FullListCut DEF Feed!Items
  <2> QED BY <2>1, <2>3, <1>5 DEF Feed!CutUndated, Feed!SelectOf
<1> QED BY <1>1, <1>3, <1>4, <1>5

LEMMA FeedAlone == AllSpec => (which = "feed" /\ Feed!Spec) \/ []~(which = "feed")
<1>1. AllInit /\ which = "feed" => Feed!Init
  BY DEF AllInit
<1>2. which = "feed" /\ [AllNext]_allvars => (which = "feed")' /\ [Feed!Next]_Feed!vars
  BY DEF AllNext, allvars, wvars, Feed!vars
<1>3. ~(which = "feed") /\ [AllNext]_allvars => (~(which = "feed"))'
  BY DEF AllNext, allvars
<1> QED BY <1>1, <1>2, <1>3, PTL DEF AllSpec, Feed!Spec

LEMMA FeedHolds == AllSpec => [](which = "feed" => Feed!FeedShowsNewest)
<1>1. Feed!Spec => []FeedInv
  BY FeedInit, FeedStep, PTL DEF Feed!Spec
<1> QED BY <1>1, FeedShows, FeedAlone, PTL

-----------------------------------------------------------------------------
(* The text of a table                                                      *)

\* The cells that are in the grid.
Put(p, r, i) == p[1] < r \/ (p[1] = r /\ p[2] < i)

GridTyped ==
    /\ tstage = "split" => table = <<>>
    /\ table \in Tables \cup {<<>>}
    /\ part \in Nat \ {0} /\ item \in Nat \ {0} /\ column \in Nat \ {0}
    /\ DOMAIN grid \subseteq (Nat \ {0}) \X (Nat \ {0})
    /\ \A s \in DOMAIN grid : grid[s] \in Filing!Places /\ Put(grid[s], part, item)

\* However cells overlap, each of them has a slot in the first row that it spans.
HasFirstSlot ==
    \A p \in Filing!Places : Put(p, part, item) =>
        \E s \in DOMAIN grid :
           grid[s] = p /\ s[1] = p[1] /\ (p[1] = part => s[2] < column)

SlotsOf(p) == {u \in DOMAIN grid : grid[u] = p}
Down(p) == p[1]..(p[1] + Filing!Cell(p).rows - 1)

\* Cells that span rows alone do not overlap.
HasItsRows ==
    (\A p \in Filing!Places : Filing!Cell(p).columns = 1) =>
        \A p \in Filing!Places : Put(p, part, item) =>
            \E c \in Nat \ {0} : SlotsOf(p) = Down(p) \X {c}

Serialized ==
    \/ \E h \in Filing!Headers : text = [prefix |-> Filing!Prefix, parts |-> Filing!Parts(h)]
    \/ Filing!Headers = {} /\ text = [prefix |-> Filing!Prefix, parts |-> <<>>]

GridInv ==
    /\ GridTyped /\ HasFirstSlot /\ HasItsRows
    /\ tstage = "split" => grid = <<>> /\ text = Filing!None
    /\ tstage = "done" => part > Len(table) /\ Serialized

CellType == [text : STRING, rows : Nat \ {0}, columns : Nat \ {0}]

LEMMA TablesAre == Tables \subseteq Seq(Seq(CellType)) /\ <<>> \in Seq(Seq(CellType))
BY TextAssumption DEF CellType

LEMMA CellIs ==
    ASSUME GridTyped, NEW p \in Filing!Places
    PROVE  /\ p[1] \in 1..Len(table) /\ p[2] \in 1..Len(table[p[1]])
           /\ p = <<p[1], p[2]>> /\ p[1] \in Nat /\ p[2] \in Nat
           /\ table \in Seq(Seq(CellType)) /\ Filing!Cell(p) \in CellType
<1>1. table \in Seq(Seq(CellType))
  BY TablesAre DEF GridTyped
<1>2. PICK r \in 1..Len(table) : p \in {r} \X (1..Len(table[r]))
  BY DEF Filing!Places
<1>3. p[1] = r /\ p[2] \in 1..Len(table[r]) /\ p = <<p[1], p[2]>>
  BY <1>2
<1>4. r \in Nat /\ table[r] \in Seq(CellType)
  BY <1>1
<1>5. p[2] \in Nat /\ table[r][p[2]] \in CellType
  BY <1>3, <1>4
<1> QED BY <1>1, <1>3, <1>4, <1>5 DEF Filing!Cell

\* When the grid is full, a table without wide cells shows each cell in its rows.
LEMMA SpansShown == GridInv => Filing!GridShowsSpans
<1> SUFFICES ASSUME GridInv, tstage = "done",
                    \A p \in Filing!Places : Filing!Cell(p).columns = 1,
                    NEW p \in Filing!Places
             PROVE  \E s \in DOMAIN grid :
                       {u \in DOMAIN grid : grid[u] = p} =
                          (p[1]..(p[1] + Filing!Cell(p).rows - 1)) \X {s[2]}
  BY DEF Filing!GridShowsSpans
<1>1. GridTyped /\ HasItsRows /\ part > Len(table)
  BY DEF GridInv
<1>2. /\ p[1] \in 1..Len(table) /\ p[1] \in Nat
      /\ table \in Seq(Seq(CellType)) /\ Filing!Cell(p) \in CellType
  BY <1>1, CellIs
<1>3. part \in Nat /\ Len(table) \in Nat
  BY <1>1, <1>2 DEF GridTyped
<1>4. Put(p, part, item)
  BY <1>1, <1>2, <1>3 DEF Put
<1>5. PICK c \in Nat \ {0} : SlotsOf(p) = Down(p) \X {c}
  BY <1>1, <1>4 DEF HasItsRows
<1>6. Filing!Cell(p).rows \in Nat \ {0}
  BY <1>2 DEF CellType
<1>7. <<p[1], c>> \in SlotsOf(p)
  BY <1>2, <1>5, <1>6 DEF Down
<1> QED BY <1>5, <1>7 DEF SlotsOf, Down

\* The grid is empty before the first cell.
LEMMA GridInit == Filing!Init => GridInv
<1> SUFFICES ASSUME Filing!Init PROVE GridInv
  OBVIOUS
<1>1. DOMAIN grid = {} /\ \A p \in Filing!Places : ~Put(p, part, item)
  <2>1. table \in Seq(Seq(CellType))
    BY TablesAre DEF Filing!Init
  <2>2. ASSUME NEW p \in Filing!Places PROVE ~Put(p, part, item)
    <3>1. PICK r \in 1..Len(table) : p \in {r} \X (1..Len(table[r]))
      BY DEF Filing!Places
    <3>2. p[1] = r /\ p[2] \in 1..Len(table[r]) /\ r \in Nat /\ r >= 1
      BY <2>1, <3>1
    <3>3. p[2] \in Nat /\ p[2] >= 1
      BY <2>1, <3>2
    <3> QED BY <3>2, <3>3 DEF Filing!Init, Put
  <2> QED BY <2>2 DEF Filing!Init
<1>2. GridTyped
  BY <1>1 DEF Filing!Init, GridTyped
<1>3. HasFirstSlot /\ HasItsRows
  BY <1>1 DEF HasFirstSlot, HasItsRows
<1> QED BY <1>2, <1>3 DEF GridInv, Filing!Init

\* What is said of the grid stays true while the grid does.
LEMMA GridSame ==
    ASSUME UNCHANGED <<table, grid>>
    PROVE  /\ Filing!Places' = Filing!Places /\ \A p : Filing!Cell(p)' = Filing!Cell(p)
           /\ \A p : SlotsOf(p)' = SlotsOf(p) /\ Down(p)' = Down(p)
           /\ Filing!Headers' = Filing!Headers /\ Filing!Prefix' = Filing!Prefix
           /\ \A h : Filing!Parts(h)' = Filing!Parts(h)
<1>1. Filing!Places' = Filing!Places /\ \A p : Filing!Cell(p)' = Filing!Cell(p)
  BY DEF Filing!Places, Filing!Cell
<1>2. \A p : SlotsOf(p)' = SlotsOf(p) /\ Down(p)' = Down(p)
  BY <1>1 DEF SlotsOf, Down
<1>3. \A s : Filing!TextAt(s)' = Filing!TextAt(s)
  BY DEF Filing!TextAt
<1>4. Filing!Rows' = Filing!Rows /\ \A r : Filing!Written(r)' = Filing!Written(r)
  BY <1>3 DEF Filing!Rows, Filing!Written
<1>5. \A r : Filing!Telling(r)' = Filing!Telling(r)
  BY <1>3, <1>4 DEF Filing!Telling
<1>6. Filing!Headers' = Filing!Headers
  BY <1>4, <1>5 DEF Filing!Headers
<1>7. Filing!Prefix' = Filing!Prefix
  BY <1>3, <1>4 DEF Filing!Prefix
<1>8. \A h : /\ Filing!Labelled(h)' = Filing!Labelled(h)
             /\ Filing!Plain(h)' = Filing!Plain(h)
  BY <1>3 DEF Filing!Labelled, Filing!Plain
<1>9. \A h : Filing!Parts(h)' = Filing!Parts(h)
  BY <1>3, <1>8 DEF Filing!Parts
<1> QED BY <1>1, <1>2, <1>6, <1>7, <1>9

\* No step of a document changes the grid.
LEMMA GridKept ==
    ASSUME GridInv, UNCHANGED <<table, grid, column, text>>,
           part' \in Nat \ {0}, item' \in Nat \ {0},
           \/ table = <<>> /\ grid = <<>>
           \/ UNCHANGED <<part, item>>,
           tstage' = "split" => tstage = "split",
           tstage' = "done" => part' > Len(table) /\ Serialized
    PROVE  GridInv'
<1>1. GridTyped' /\ HasFirstSlot' /\ HasItsRows'
  <2>1. CASE table = <<>> /\ grid = <<>>
    <3>1. Filing!Places = {}
      BY <2>1 DEF Filing!Places
    <3> QED BY <2>1, <3>1, GridSame
            DEF GridInv, GridTyped, HasFirstSlot, HasItsRows
  <2>2. CASE UNCHANGED <<part, item>>
    <3>1. \A p : Put(p, part', item') = Put(p, part, item)
      BY <2>2 DEF Put
    <3>2. GridTyped' /\ HasFirstSlot'
      BY <2>2, <3>1, GridSame DEF GridInv, GridTyped, HasFirstSlot
    <3>3. HasItsRows'
      BY <2>2, <3>1, GridSame DEF GridInv, HasItsRows
    <3> QED BY <3>2, <3>3
  <2> QED BY <2>1, <2>2
<1>2. Serialized => Serialized'
  BY GridSame DEF Serialized
<1> QED BY <1>1, <1>2 DEF GridInv, Filing!None

\* Only PutCell and NextRow move the place up to which the grid is made; the rest of the
\* steps of a document leave the grid alone.
LEMMA GridStep == GridInv /\ [Filing!Next]_Filing!vars => GridInv'
<1> SUFFICES ASSUME GridInv, [Filing!Next]_Filing!vars PROVE GridInv'
  OBVIOUS
<1>0. /\ GridTyped /\ HasFirstSlot /\ HasItsRows
      /\ table \in Seq(Seq(CellType)) /\ Len(table) \in Nat
      /\ part \in Nat \ {0} /\ item \in Nat \ {0} /\ column \in Nat \ {0}
  <2>1. table \in Seq(Seq(CellType))
    BY TablesAre DEF GridInv, GridTyped
  <2> QED BY <2>1 DEF GridInv, GridTyped
<1>1. CASE Filing!PutCell
  <2> DEFINE n == <<part, item>>
             cell == Filing!Cell(n)
  <2>1. PICK c \in {column} \cup {s[2] + 1 : s \in DOMAIN grid} :
           /\ Filing!FreeColumn(c) /\ column' = c + cell.columns
           /\ grid' = [s \in DOMAIN grid \cup Filing!Block(c, cell) |->
                          IF s \in Filing!Block(c, cell) THEN n ELSE grid[s]]
    BY <1>1 DEF Filing!PutCell, Filing!Cell
  <2>2. /\ part <= Len(table) /\ item <= Len(table[part])
        /\ UNCHANGED <<table, text, part, tstage>> /\ item' = item + 1 /\ tstage = "table"
    BY <1>1 DEF Filing!PutCell
  <2>3. n \in Filing!Places /\ cell \in CellType
    <3>1. part \in 1..Len(table) /\ table[part] \in Seq(CellType)
      BY <1>0, <2>2
    <3>2. item \in 1..Len(table[part])
      BY <1>0, <2>2, <3>1
    <3>3. n \in Filing!Places
      BY <3>1, <3>2 DEF Filing!Places
    <3> QED BY <1>0, <3>3, CellIs
  <2> DEFINE B == Filing!Block(c, cell)
             e == part + cell.rows - 1
             f == c + cell.columns - 1
  <2>4. c \in Nat \ {0} /\ column <= c
    <3>1. \A s \in DOMAIN grid : s[2] + 1 \in Nat \ {0}
      BY <1>0 DEF GridTyped
    <3> QED BY <1>0, <2>1, <3>1 DEF Filing!FreeColumn
  <2>5. /\ e \in Nat /\ part <= e /\ f \in Nat /\ c <= f /\ column' = f + 1
        /\ B = (part..e) \X (c..f)
    <3>1. cell.rows \in Nat \ {0} /\ cell.columns \in Nat \ {0}
      BY <2>3 DEF CellType
    <3>2. part \in Nat /\ c \in Nat /\ column' = c + cell.columns
      BY <1>0, <2>1, <2>4
    <3>3. B = (part..e) \X (c..f)
      BY DEF Filing!Block
    <3> HIDE DEF cell, B
    <3> QED BY <3>1, <3>2, <3>3
  <2>6. /\ DOMAIN grid' = DOMAIN grid \cup B
        /\ \A s \in B : grid'[s] = n
        /\ \A s \in DOMAIN grid \ B : grid'[s] = grid[s]
    BY <2>1
  <2>7. /\ Filing!Places' = Filing!Places /\ \A p : Filing!Cell(p)' = Filing!Cell(p)
        /\ \A p : Down(p)' = Down(p)
    <3>1. Filing!Places' = Filing!Places /\ \A p : Filing!Cell(p)' = Filing!Cell(p)
      BY <2>2 DEF Filing!Places, Filing!Cell
    <3> QED BY <3>1 DEF Down
  <2> HIDE DEF n, cell, B, e, f
  <2>8. ASSUME NEW p \in Filing!Places PROVE Put(p, part', item') <=> Put(p, part, item) \/ p = n
    <3>1. p = <<p[1], p[2]>> /\ p[1] \in Nat /\ p[2] \in Nat
      BY <1>0, CellIs
    <3> QED BY <1>0, <2>2, <3>1 DEF Put, n
  <2>9. ~Put(n, part, item) /\ n[1] = part
    BY <1>0 DEF Put, n
  <2>10. GridTyped'
    <3>1. DOMAIN grid' \subseteq (Nat \ {0}) \X (Nat \ {0})
      <4>1. B \subseteq (Nat \ {0}) \X (Nat \ {0})
        BY <1>0, <2>4, <2>5
      <4> QED BY <1>0, <2>6, <4>1 DEF GridTyped
    <3>2. ASSUME NEW s \in DOMAIN grid'
          PROVE  grid'[s] \in Filing!Places /\ Put(grid'[s], part', item')
      BY <1>0, <2>3, <2>6, <2>8 DEF GridTyped
    <3>3. item' \in Nat \ {0} /\ column' \in Nat \ {0}
      BY <1>0, <2>2, <2>5
    <3> QED BY <1>0, <2>2, <2>7, <3>1, <3>2, <3>3 DEF GridTyped
  <2>11. HasFirstSlot'
    <3> SUFFICES ASSUME NEW p \in Filing!Places, Put(p, part', item')
                 PROVE  \E s \in DOMAIN grid' :
                           grid'[s] = p /\ s[1] = p[1] /\ (p[1] = part => s[2] < column')
      BY <2>2, <2>7 DEF HasFirstSlot
    <3>1. CASE p = n
      <4>1. <<part, c>> \in B
        BY <1>0, <2>4, <2>5
      <4>2. <<part, c>>[1] = part /\ <<part, c>>[2] = c /\ c < column'
        BY <2>4, <2>5
      <4> QED BY <2>6, <2>9, <3>1, <4>1, <4>2
    <3>2. CASE Put(p, part, item)
      <4>1. PICK s \in DOMAIN grid :
               grid[s] = p /\ s[1] = p[1] /\ (p[1] = part => s[2] < column)
        BY <1>0, <3>2 DEF HasFirstSlot
      <4>2. s[1] \in Nat /\ s[2] \in Nat
        BY <1>0, <4>1 DEF GridTyped
      <4>3. s \notin B
        <5>1. CASE p[1] < part
          BY <1>0, <2>5, <4>1, <4>2, <5>1
        <5>2. CASE p[1] = part
          BY <1>0, <2>4, <2>5, <4>1, <4>2, <5>2
        <5> QED BY <3>2, <5>1, <5>2 DEF Put
      <4>4. p[1] = part => s[2] < column'
        BY <1>0, <2>4, <2>5, <4>1, <4>2
      <4> QED BY <2>6, <4>1, <4>3, <4>4
    <3> QED BY <2>8, <3>1, <3>2
  <2>12. HasItsRows'
    <3> SUFFICES ASSUME \A p \in Filing!Places : Filing!Cell(p).columns = 1,
                        NEW p \in Filing!Places, Put(p, part', item')
                 PROVE  \E k \in Nat \ {0} : {u \in DOMAIN grid' : grid'[u] = p} = Down(p) \X {k}
      BY <2>7 DEF HasItsRows, SlotsOf
    <3>1. f = c
      BY <2>3, <2>4 DEF f, cell
    <3>2. B \cap DOMAIN grid = {}
      <4> SUFFICES ASSUME NEW s \in B, s \in DOMAIN grid PROVE FALSE
        OBVIOUS
      <4> DEFINE p0 == grid[s]
      <4>1. s[1] \in part..e /\ s[2] = c /\ s = <<s[1], s[2]>>
        BY <2>4, <2>5, <3>1
      <4>2. p0 \in Filing!Places /\ Put(p0, part, item)
        BY <1>0 DEF GridTyped
      <4>3. PICK k \in Nat \ {0} : SlotsOf(p0) = Down(p0) \X {k}
        BY <1>0, <4>2 DEF HasItsRows
      <4>4. s[1] \in Down(p0) /\ k = c
        BY <4>1, <4>3 DEF SlotsOf
      <4>5. p0[1] \in Nat /\ Filing!Cell(p0) \in CellType
        BY <1>0, <4>2, CellIs
      <4>6. p0[1] <= part
        BY <1>0, <4>2, <4>5 DEF Put
      <4>7. part \in Down(p0)
        <5>1. Filing!Cell(p0).rows \in Nat
          BY <4>5 DEF CellType
        <5> HIDE DEF p0
        <5> QED BY <1>0, <2>5, <4>1, <4>4, <4>5, <4>6, <5>1 DEF Down
      <4>8. <<part, c>> \in DOMAIN grid
        BY <4>3, <4>4, <4>7 DEF SlotsOf
      <4> QED BY <2>1, <4>8 DEF Filing!FreeColumn
    <3>3. CASE p = n
      <4>1. {u \in DOMAIN grid' : grid'[u] = p} = B
        BY <1>0, <2>6, <2>9, <3>3 DEF GridTyped
      <4>2. B = Down(p) \X {c}
        <5>1. Down(p) = part..e
          BY <2>9, <3>3 DEF Down, e, cell
        <5>2. c..f = {c}
          BY <2>4, <3>1
        <5> QED BY <2>5, <5>1, <5>2
      <4> QED BY <2>4, <4>1, <4>2
    <3>4. CASE Put(p, part, item)
      <4>1. {u \in DOMAIN grid' : grid'[u] = p} = SlotsOf(p)
        BY <2>6, <2>9, <3>2, <3>4 DEF SlotsOf
      <4> QED BY <1>0, <3>4, <4>1 DEF HasItsRows
    <3> QED BY <2>8, <3>3, <3>4
  <2> QED BY <2>2, <2>10, <2>11, <2>12 DEF GridInv
<1>2. CASE Filing!NextRow
  <2>1. /\ part <= Len(table) /\ item > Len(table[part])
        /\ UNCHANGED <<table, grid, text, tstage>> /\ tstage = "table"
        /\ part' = part + 1 /\ item' = 1 /\ column' = 1
    BY <1>2 DEF Filing!NextRow
  <2>2. ASSUME NEW p \in Filing!Places
        PROVE  (Put(p, part', item') <=> Put(p, part, item)) /\ (Put(p, part, item) => p[1] # part')
    <3>1. p[1] \in Nat /\ p[2] \in 1..Len(table[p[1]]) /\ p[2] \in Nat /\ p[1] \in 1..Len(table)
      BY <1>0, CellIs
    <3>2. Len(table[p[1]]) \in Nat
      BY <1>0, <3>1
    <3> QED BY <1>0, <2>1, <3>1, <3>2 DEF Put
  <2>3. GridTyped'
    <3>1. \A s \in DOMAIN grid : grid[s] \in Filing!Places /\ Put(grid[s], part', item')
      BY <1>0, <2>2 DEF GridTyped
    <3> QED BY <1>0, <2>1, <3>1, GridSame DEF GridTyped
  <2>4. HasFirstSlot'
    BY <1>0, <2>1, <2>2, GridSame DEF HasFirstSlot
  <2>5. HasItsRows'
    <3>1. /\ Filing!Places' = Filing!Places /\ \A p : Filing!Cell(p)' = Filing!Cell(p)
          /\ \A p : SlotsOf(p)' = SlotsOf(p) /\ Down(p)' = Down(p)
      BY <2>1, GridSame
    <3> QED BY <1>0, <2>2, <3>1, Zenon DEF HasItsRows
  <2> QED BY <2>1, <2>3, <2>4, <2>5 DEF GridInv
<1>3. CASE Filing!SerializeTable
  <2>1. /\ UNCHANGED <<table, grid, column, part, item>> /\ tstage' = "done"
        /\ part > Len(table)
    BY <1>3 DEF Filing!SerializeTable
  <2>2. Serialized'
    BY <1>3, <2>1, GridSame DEF Serialized, Filing!SerializeTable
  <2>3. \A p : Put(p, part', item') = Put(p, part, item)
    BY <2>1 DEF Put
  <2>4. GridTyped' /\ HasFirstSlot'
    BY <1>0, <2>1, <2>3, GridSame DEF GridTyped, HasFirstSlot
  <2>5. HasItsRows'
    BY <1>0, <2>1, <2>3, GridSame DEF HasItsRows
  <2> QED BY <2>1, <2>2, <2>4, <2>5 DEF GridInv
<1>4. CASE Filing!EmptySection \/ Filing!ShortSection \/ Filing!AddLine \/ Filing!EndSection
  <2>1. /\ UNCHANGED <<table, grid, column, text, tstage>> /\ tstage = "split"
        /\ part' \in Nat \ {0} /\ item' \in Nat \ {0}
    BY <1>0, <1>4 DEF Filing!EmptySection, Filing!ShortSection, Filing!AddLine,
                      Filing!EndSection, Filing!InSection, Filing!NextSection
  <2>2. table = <<>> /\ grid = <<>>
    BY <2>1 DEF GridInv, GridTyped
  <2> QED BY <2>1, <2>2, GridKept
<1>5. CASE Filing!EndDocument
  <2> USE <1>5 DEF Filing!EndDocument
  <2>1. table = <<>> /\ grid = <<>> /\ text = Filing!None
    BY DEF GridInv, GridTyped
  <2>2. Serialized
    BY <2>1 DEF Serialized, Filing!Headers, Filing!Prefix, Filing!Rows, Filing!None
  <2>3. part > Len(table)
    BY <1>0, <2>1
  <2> QED BY <1>0, <2>1, <2>2, <2>3, GridKept
<1>6. CASE UNCHANGED Filing!vars
  <2>1. /\ UNCHANGED <<table, grid, column, text, part, item, tstage>>
    BY <1>6 DEF Filing!vars
  <2>2. tstage = "done" => part > Len(table) /\ Serialized
    BY DEF GridInv
  <2> QED BY <1>0, <2>1, <2>2, GridKept
<1> QED BY <1>1, <1>2, <1>3, <1>4, <1>5, <1>6 DEF Filing!Next

\* What is in the grid at the end and is not written is in a row of the top, or a header.
LEMMA LossIs == GridInv => Filing!LossExplained
<1> SUFFICES ASSUME GridInv, tstage = "done", NEW t \in Filing!Texts \ Filing!Shown
             PROVE  \E s \in DOMAIN grid :
                       /\ Filing!TextAt(s) = t
                       /\ \/ \A r \in Filing!Rows : r <= s[1] => ~Filing!Telling(r)
                          \/ /\ \A r \in Filing!Rows : r < s[1] => ~Filing!Telling(r)
                             /\ \A u \in DOMAIN grid :
                                   u[2] = s[2] /\ u[1] > s[1] =>
                                      Filing!TextAt(u) \in {t, "blank", "dash"}
  BY DEF Filing!LossExplained
<1>1. GridTyped /\ HasFirstSlot /\ Serialized /\ part > Len(table)
  BY DEF GridInv
<1>2. PICK p \in Filing!Places : Filing!Cell(p).text = t
  BY DEF Filing!Texts
<1>3. t # "blank" /\ t # "dash"
  BY DEF Filing!Texts
<1>4. Put(p, part, item)
  <2>1. p[1] \in 1..Len(table) /\ table \in Seq(Seq(CellType))
    BY <1>1, CellIs
  <2> QED BY <1>1, <2>1 DEF Put, GridTyped
<1>5. PICK s \in DOMAIN grid : grid[s] = p
  BY <1>1, <1>4 DEF HasFirstSlot
<1>6. Filing!TextAt(s) = t
  BY <1>2, <1>5 DEF Filing!TextAt, Filing!Cell
<1>7. /\ Filing!Rows \subseteq Nat
      /\ \A u \in DOMAIN grid : u[1] \in Nat /\ u[1] \in Filing!Rows /\ u = <<u[1], u[2]>>
  BY <1>1 DEF GridTyped, Filing!Rows
<1>8. CASE Filing!Headers = {}
  <2>1. ASSUME NEW r \in Filing!Rows, Filing!Telling(r) PROVE FALSE
    <3> DEFINE S == {q \in Filing!Rows : Filing!Telling(q)}
    <3>1. PICK m \in S : \A q \in S : m <= q
      <4>1. S \subseteq Nat /\ S # {}
        BY <1>7, <2>1
      <4> HIDE DEF S
      <4> QED BY <4>1, HasLeast
    <3> QED BY <1>8, <3>1 DEF Filing!Headers
  <2> QED BY <1>6, <2>1
<1>9. CASE Filing!Headers # {}
  <2>1. PICK h \in Filing!Headers :
           text = [prefix |-> Filing!Prefix, parts |-> Filing!Parts(h)]
    BY <1>1, <1>9 DEF Serialized
  <2>2. /\ h \in Filing!Rows /\ h \in Nat
        /\ \A r \in Filing!Rows : Filing!Telling(r) => h <= r
    BY <1>7 DEF Filing!Headers
  <2>3. ASSUME NEW u \in DOMAIN text.parts
        PROVE  t # text.parts[u].header /\ t # text.parts[u].value
    BY DEF Filing!Shown
  <2>4. ASSUME NEW u \in Filing!Labelled(h)
        PROVE  t # Filing!TextAt(<<h, u[2]>>) /\ t # Filing!TextAt(u)
    <3>1. u \in DOMAIN Filing!Parts(h)
          /\ Filing!Parts(h)[u] = [header |-> Filing!TextAt(<<h, u[2]>>),
                                   value |-> Filing!TextAt(u)]
      BY <2>4 DEF Filing!Parts
    <3> QED BY <2>1, <2>3, <3>1
  <2>5. ASSUME Filing!Labelled(h) = {}, NEW u \in Filing!Plain(h)
        PROVE  t # Filing!TextAt(u)
    <3>1. u \in DOMAIN Filing!Parts(h)
          /\ Filing!Parts(h)[u] = [header |-> "blank", value |-> Filing!TextAt(u)]
      BY <2>5 DEF Filing!Parts
    <3> QED BY <2>1, <2>3, <3>1
  <2>6. ASSUME NEW k \in DOMAIN grid, k[1] = h, Filing!TextAt(k) = t
        PROVE  /\ \A r \in Filing!Rows : r < h => ~Filing!Telling(r)
               /\ \A u \in DOMAIN grid :
                     u[2] = k[2] /\ u[1] > h => Filing!TextAt(u) \in {t, "blank", "dash"}
    <3>1. \A r \in Filing!Rows : r < h => ~Filing!Telling(r)
      BY <1>7, <2>2
    <3>2. ASSUME NEW u \in DOMAIN grid, u[2] = k[2], u[1] > h,
                 Filing!TextAt(u) \notin {t, "blank", "dash"}
          PROVE  FALSE
      <4>1. <<h, u[2]>> = k
        BY <1>7, <2>6, <3>2
      <4>2. u \in Filing!Labelled(h)
        BY <2>6, <3>2, <4>1 DEF Filing!Labelled
      <4> QED BY <2>4, <2>6, <4>1, <4>2
    <3> QED BY <3>1, <3>2
  <2>7. CASE s[1] < h
    BY <1>6, <1>7, <2>2, <2>7
  <2>8. CASE s[1] = h
    BY <1>6, <2>6, <2>8
  <2>9. CASE s[1] > h
    <3>1. Filing!TextAt(<<h, s[2]>>) = t
      <4>1. CASE Filing!Labelled(h) = {}
        <5>1. s \in Filing!Plain(h)
          BY <1>3, <1>6, <1>7, <2>2, <2>9 DEF Filing!Plain
        <5> QED BY <1>6, <2>5, <4>1, <5>1
      <4>2. CASE Filing!Labelled(h) # {}
        BY <1>3, <1>6, <2>4, <2>9 DEF Filing!Labelled
      <4> QED BY <4>1, <4>2
    <3>2. <<h, s[2]>> \in DOMAIN grid
      BY <1>3, <3>1 DEF Filing!TextAt
    <3>3. <<h, s[2]>>[1] = h
      OBVIOUS
    <3> QED BY <2>6, <3>1, <3>2, <3>3
  <2> QED BY <1>7, <2>2, <2>7, <2>8, <2>9
<1> QED BY <1>8, <1>9

-----------------------------------------------------------------------------
(* The chunks of a document                                                 *)

ChunkType == [id : (Nat \ {0}) \X Nat, first : Nat, last : Nat]

SplitTyped ==
    /\ tstage = "table" => document = <<>> /\ chunks = <<>>
    /\ document \in Texted \cup {<<>>}
    /\ part \in Nat \ {0} /\ item \in Nat \ {0} /\ from \in Nat \ {0} /\ number \in Nat
    /\ chunks \in Seq(ChunkType)

\* The current chunk has the lines from..item-1 of its section.
CurrentFits ==
    part <= Len(document) =>
        /\ item <= Len(document[part]) + 1
        /\ item = 1 => from = 1 /\ number = 0
        /\ item > 1 => from < item /\ ~Filing!Fits
        /\ from < item - 1 => document[part][item - 1] - Filing!Start(part, from) <= MaxChars

\* A chunk is made of a section before this one, or of lines before the current chunk.
MadeBefore(k) ==
    k.id[1] < part \/ (k.id[1] = part /\ k.id[2] < number /\ k.last < from)

LineIn(s, line) ==
    \E k \in 1..Len(chunks) :
       chunks[k].id[1] = s /\ line \in chunks[k].first..chunks[k].last

InOrder(j, k) ==
    \/ j.id[1] < k.id[1]
    \/ j.id[1] = k.id[1] /\ j.id[2] < k.id[2] /\ j.last < k.first

RightSize(k) ==
    k.first = k.last \/ Filing!Length(k.id[1], k.first, k.last) <= MaxChars

LinesIn ==
    \A s \in 1..Len(document) : \A line \in 1..Len(document[s]) :
       s < part \/ (s = part /\ line < from) => LineIn(s, line)

ChunksRight ==
    /\ \A j, k \in 1..Len(chunks) : j < k => InOrder(chunks[j], chunks[k])
    /\ \A k \in 1..Len(chunks) : MadeBefore(chunks[k]) /\ RightSize(chunks[k])

ChunkInv ==
    /\ SplitTyped /\ CurrentFits /\ LinesIn /\ ChunksRight
    /\ tstage = "done" => part > Len(document)

LEMMA TextedIs == Texted \subseteq Seq(Seq(Nat)) /\ <<>> \in Seq(Seq(Nat))
BY TextAssumption

\* With no section left, the chunks have all lines.
LEMMA ChunksFromInv == ChunkInv => Filing!ChunksWhole
<1> SUFFICES ASSUME ChunkInv, tstage = "done"
             PROVE Filing!ChunksWhole
  BY DEF Filing!ChunksWhole
<1>1. ASSUME NEW s \in 1..Len(document), NEW line \in 1..Len(document[s])
      PROVE  LineIn(s, line)
   <2>1. document \in Seq(Seq(Nat))
      BY TextAssumption DEF ChunkInv, SplitTyped
   <2>2. s < part
      BY <2>1 DEF ChunkInv, SplitTyped
   <2> QED BY <2>2 DEF ChunkInv, LinesIn
<1> QED BY <1>1
        DEF ChunkInv, ChunksRight, Filing!ChunksWhole, LineIn, InOrder, RightSize

\* There is no chunk before the split.
LEMMA ChunkInit == Filing!Init => ChunkInv
<1> SUFFICES ASSUME Filing!Init PROVE ChunkInv
  OBVIOUS
<1> USE TextAssumption
<1>1. document \in Seq(Seq(Nat))
  <2>1. document \in Texted \/ document = <<>>
    BY DEF Filing!Init
  <2> QED BY <2>1, TextedIs
<1>2. SplitTyped /\ ChunksRight /\ LinesIn
  BY <1>1 DEF Filing!Init, SplitTyped, ChunksRight, LinesIn
<1>3. CurrentFits
  BY <1>1 DEF Filing!Init, CurrentFits
<1> QED BY <1>2, <1>3 DEF ChunkInv, Filing!Init

\* Another chunk of the section: it follows the others and has the lines since they end.
LEMMA ChunkMade ==
    ASSUME ChunkInv, part <= Len(document), NEW low \in Nat, NEW high \in Nat,
           chunks' = Append(chunks, Filing!Chunk(low, high)),
           low = from \/ (low = 0 /\ number = 0),
           low = high \/ Filing!Length(part, low, high) <= MaxChars,
           document' = document,
           \/ part' = part + 1
           \/ part' = part /\ number' = number + 1 /\ from <= high /\ from' = high + 1,
           SplitTyped'
    PROVE  /\ ChunksRight'
           /\ \A s \in 1..Len(document) : \A line \in 1..Len(document[s]) :
                 s < part \/ (s = part /\ line <= high) => LineIn(s, line)'
<1> USE DEF ChunkInv, SplitTyped
<1> DEFINE new == Filing!Chunk(low, high)
<1>1. /\ new \in ChunkType /\ new.id[1] = part /\ new.id[2] = number
      /\ new.first = low /\ new.last = high
  BY DEF ChunkType, Filing!Chunk
<1> HIDE DEF new
<1>2. /\ Len(chunks') = Len(chunks) + 1 /\ Len(chunks) \in Nat
      /\ chunks'[Len(chunks) + 1] = new
      /\ \A k \in 1..Len(chunks) : chunks'[k] = chunks[k]
  BY <1>1 DEF new
<1>3. ASSUME NEW k \in 1..Len(chunks)
      PROVE  InOrder(chunks[k], new) /\ MadeBefore(chunks[k])' /\ RightSize(chunks[k])'
  <2>1. chunks[k] \in ChunkType /\ chunks'[k] = chunks[k]
    BY <1>2
  <2>2. MadeBefore(chunks[k]) /\ RightSize(chunks[k])
    BY DEF ChunksRight
  <2> DEFINE old == chunks[k]
  <2>0. old.id[1] \in Nat /\ old.id[2] \in Nat /\ old.last \in Nat /\ chunks'[k] = old
    BY <2>1 DEF ChunkType
  <2>a. MadeBefore(old)
    BY <2>2
  <2> HIDE DEF old
  <2>b. low = from \/ (low = 0 /\ number = 0)
    OBVIOUS
  <2>c. from \in Nat /\ part \in Nat /\ number \in Nat /\ old.id[2] >= 0
    BY <2>0
  <2>3. InOrder(old, new)
    BY SMTT(30), <1>1, <2>0, <2>a, <2>b, <2>c DEF InOrder, MadeBefore
  <2>4. MadeBefore(chunks[k])'
    <3>1. part \in Nat /\ number \in Nat /\ from \in Nat
      OBVIOUS
    <3>2. \/ old.id[1] < part'
          \/ old.id[1] = part' /\ old.id[2] < number' /\ old.last < from'
      <4>1. CASE part' = part + 1
        BY <2>0, <2>a, <3>1, <4>1 DEF MadeBefore
      <4>2. CASE part' = part /\ number' = number + 1 /\ from <= high /\ from' = high + 1
        <5>1. CASE old.id[1] < part
          BY <4>2, <5>1
        <5>2. CASE old.id[1] = part /\ old.id[2] < number /\ old.last < from
          BY SMTT(30), <2>0, <3>1, <4>2, <5>2
        <5> QED BY <2>a, <5>1, <5>2 DEF MadeBefore
      <4> QED BY <4>1, <4>2
    <3> QED BY <2>0, <3>2 DEF MadeBefore
  <2>5. RightSize(chunks[k])'
    BY <2>1, <2>2 DEF RightSize, Filing!Length, Filing!Start
  <2> QED BY <2>3, <2>4, <2>5 DEF old
<1>4. ASSUME NEW k \in 1..Len(chunks'), k = Len(chunks) + 1
      PROVE  MadeBefore(chunks[k])' /\ RightSize(chunks[k])'
  <2>1. chunks'[k] = new
    BY <1>2, <1>4
  <2>2. MadeBefore(chunks[k])'
    BY <1>1, <2>1 DEF MadeBefore
  <2>3. RightSize(chunks[k])'
    BY <1>1, <2>1 DEF RightSize, Filing!Length, Filing!Start
  <2> QED BY <2>2, <2>3
<1>5. \A k \in 1..Len(chunks') : k \in 1..Len(chunks) \/ k = Len(chunks) + 1
  BY <1>2
<1>6. ChunksRight'
  <2>1. ASSUME NEW j \in 1..Len(chunks'), NEW k \in 1..Len(chunks'), j < k
        PROVE  InOrder(chunks'[j], chunks'[k])
    <3>1. j \in 1..Len(chunks)
      BY <1>2, <2>1
    <3>2. CASE k \in 1..Len(chunks)
      BY <1>2, <2>1, <3>1, <3>2 DEF ChunksRight
    <3>3. CASE k = Len(chunks) + 1
      BY <1>2, <1>3, <3>1, <3>3
    <3> QED BY <1>5, <3>2, <3>3
  <2> QED BY <1>3, <1>4, <1>5, <2>1 DEF ChunksRight, InOrder
<1>7. ASSUME NEW s \in 1..Len(document), NEW line \in 1..Len(document[s]),
             s < part \/ (s = part /\ line <= high)
      PROVE  LineIn(s, line)'
  <2>0. s \in Int /\ line \in Int
    <3>1. document \in Seq(Seq(Nat))
      BY TextAssumption
    <3> QED BY <3>1
  <2>1. CASE s < part \/ (s = part /\ line < from)
    <3>1. PICK k \in 1..Len(chunks) :
             chunks[k].id[1] = s /\ line \in chunks[k].first..chunks[k].last
      BY <2>1 DEF LinesIn, LineIn
    <3> QED BY <1>2, <3>1 DEF LineIn
  <2>2. CASE s = part /\ from <= line /\ line <= high
    <3>1. line \in low..high
      BY <2>0, <2>2
    <3>2. Len(chunks) + 1 \in 1..Len(chunks')
      BY <1>2
    <3> QED BY <1>1, <1>2, <2>2, <3>1, <3>2 DEF LineIn
  <2> QED BY <1>7, <2>0, <2>1, <2>2
<1> QED BY <1>6, <1>7

\* The next section begins without a chunk.
LEMMA SectionBegins ==
    ASSUME ChunkInv, Filing!InSection, Filing!NextSection, document' = document,
           tstage' = tstage, chunks' \in Seq(ChunkType)
    PROVE  SplitTyped' /\ CurrentFits' /\ (tstage' = "done" => part' > Len(document'))
<1>1. /\ SplitTyped /\ tstage = "split" /\ part' = part + 1 /\ part \in Nat
      /\ item' = 1 /\ from' = 1 /\ number' = 0
  BY DEF ChunkInv, SplitTyped, Filing!InSection, Filing!NextSection
<1>2. SplitTyped'
  BY <1>1 DEF SplitTyped
<1>3. CurrentFits'
  <2> SUFFICES ASSUME part' <= Len(document)
               PROVE  1 <= Len(document[part']) + 1
    BY <1>1 DEF CurrentFits
  <2>1. document \in Seq(Seq(Nat))
    BY <1>1, TextedIs DEF SplitTyped
  <2>2. document[part'] \in Seq(Nat)
    BY <1>1, <2>1
  <2> QED BY <2>2
<1> QED BY <1>1, <1>2, <1>3

\* A line goes into the current chunk or closes it; a section that ends leaves no line.
LEMMA ChunkStep == ChunkInv /\ [Filing!Next]_Filing!vars => ChunkInv'
<1> SUFFICES ASSUME ChunkInv, [Filing!Next]_Filing!vars PROVE ChunkInv'
  OBVIOUS
<1>0. /\ SplitTyped /\ CurrentFits /\ LinesIn /\ ChunksRight
      /\ document \in Seq(Seq(Nat)) /\ Len(document) \in Nat
      /\ part \in Nat \ {0} /\ item \in Nat \ {0} /\ from \in Nat \ {0} /\ number \in Nat
  <2>1. document \in Seq(Seq(Nat))
    BY TextedIs DEF ChunkInv, SplitTyped
  <2> QED BY <2>1 DEF ChunkInv, SplitTyped
<1>s. ASSUME part <= Len(document)
      PROVE  document[part] \in Seq(Nat) /\ Len(document[part]) \in Nat
  BY <1>0, <1>s
<1>1. CASE Filing!PutCell
  <2>1. SplitTyped' /\ document = <<>> /\ chunks = <<>>
    BY <1>0, <1>1 DEF SplitTyped, Filing!PutCell
  <2> QED BY <1>0, <1>1, <2>1
          DEF Filing!PutCell, ChunkInv, CurrentFits, LinesIn, ChunksRight
<1>2. CASE Filing!NextRow
  <2>1. SplitTyped' /\ document = <<>> /\ chunks = <<>>
    BY <1>0, <1>2 DEF SplitTyped, Filing!NextRow
  <2> QED BY <1>0, <1>2, <2>1
          DEF Filing!NextRow, ChunkInv, CurrentFits, LinesIn, ChunksRight
<1>3. CASE Filing!SerializeTable
  <2>1. SplitTyped' /\ document = <<>> /\ chunks = <<>>
    BY <1>0, <1>3 DEF SplitTyped, Filing!SerializeTable
  <2> QED BY <1>0, <1>3, <2>1
          DEF Filing!SerializeTable, ChunkInv, CurrentFits, LinesIn, ChunksRight
<1>m. ASSUME NEW low \in Nat, NEW high \in Nat, part <= Len(document)
      PROVE  Append(chunks, Filing!Chunk(low, high)) \in Seq(ChunkType)
  <2>1. chunks \in Seq(ChunkType) /\ part \in Nat \ {0} /\ number \in Nat
    BY <1>0 DEF SplitTyped
  <2>2. Filing!Chunk(low, high) \in ChunkType
    BY <1>m, <2>1 DEF ChunkType, Filing!Chunk
  <2> QED BY <2>1, <2>2
<1>4. CASE Filing!EmptySection
  <2> USE <1>4 DEF Filing!EmptySection, Filing!InSection, Filing!NextSection
  <2>1. Len(document[part]) = 0 /\ item = 1 /\ from = 1 /\ number = 0
    BY <1>0, <1>s DEF CurrentFits
  <2>2. chunks' \in Seq(ChunkType)
    BY <1>0, <1>m DEF SplitTyped
  <2>3. SplitTyped' /\ CurrentFits' /\ (tstage' = "done" => part' > Len(document'))
    BY <2>2, SectionBegins
  <2>4. ASSUME NEW s \in 1..Len(document), NEW line \in 1..Len(document[s]),
               s < part' \/ (s = part' /\ line < from')
        PROVE  s < part
    <3>1. s \in Nat /\ line \in Nat /\ line >= 1 /\ line <= Len(document[s])
      BY <1>0
    <3> QED BY <1>0, <2>1, <2>4, <3>1
  <2>5. CASE part = 1
    <3>1. LinesIn'
      BY <1>0, <2>4, <2>5 DEF LinesIn
    <3>2. ChunksRight'
      <4>1. ASSUME NEW k \in 1..Len(chunks) PROVE MadeBefore(chunks[k])'
        <5>1. chunks[k] \in ChunkType
          BY <1>0 DEF SplitTyped
        <5>2. chunks[k].id[1] \in Nat
          BY <5>1 DEF ChunkType
        <5>3. chunks[k].id[1] <= part
          BY <1>0, <5>2 DEF ChunksRight, MadeBefore
        <5> QED BY <1>0, <2>5, <5>2, <5>3 DEF MadeBefore
      <4> QED BY <1>0, <2>5, <4>1 DEF ChunksRight, RightSize, InOrder, Filing!Length,
                                      Filing!Start
    <3> QED BY <2>3, <3>1, <3>2 DEF ChunkInv
  <2>6. CASE part # 1
    <3>1. /\ ChunksRight'
          /\ \A s \in 1..Len(document) : \A line \in 1..Len(document[s]) :
                s < part => LineIn(s, line)'
      BY <2>1, <2>3, <2>6, ChunkMade
    <3>2. LinesIn'
      BY <2>4, <3>1 DEF LinesIn
    <3> QED BY <2>3, <3>1, <3>2 DEF ChunkInv
  <2> QED BY <2>5, <2>6
<1>5. CASE Filing!ShortSection
  <2> USE <1>5 DEF Filing!ShortSection, Filing!InSection, Filing!NextSection
  <2> DEFINE n == Len(document[part])
  <2>1. n \in Nat /\ item = 1 /\ from = 1 /\ number = 0
    BY <1>0, <1>s DEF CurrentFits
  <2>2. chunks' \in Seq(ChunkType)
    BY <1>0, <1>m, <2>1 DEF SplitTyped
  <2>3. SplitTyped' /\ CurrentFits' /\ (tstage' = "done" => part' > Len(document'))
    BY <2>2, SectionBegins
  <2>4. /\ ChunksRight'
        /\ \A s \in 1..Len(document) : \A line \in 1..Len(document[s]) :
              s < part \/ (s = part /\ line <= n) => LineIn(s, line)'
    BY <2>1, <2>3, ChunkMade DEF Filing!Fits
  <2>5. LinesIn'
    <3>1. ASSUME NEW s \in 1..Len(document), NEW line \in 1..Len(document[s]),
                 s < part' \/ (s = part' /\ line < from')
          PROVE  s < part \/ (s = part /\ line <= n)
      BY <1>0, <3>1
    <3> QED BY <2>4, <3>1 DEF LinesIn
  <2> QED BY <2>3, <2>4, <2>5 DEF ChunkInv
<1>n. ASSUME part <= Len(document)
      PROVE  /\ Filing!Start(part, from) \in Int /\ MaxChars \in Int
             /\ item <= Len(document[part]) => document[part][item] \in Int
             /\ item > 1 => document[part][item - 1] \in Int
  <2>1. MaxChars \in Int
    BY TextAssumption
  <2>2. \A i \in 1..Len(document[part]) : document[part][i] \in Int
    BY <1>s, <1>n
  <2>3. item <= Len(document[part]) + 1 /\ from <= item
    BY <1>0, <1>n DEF CurrentFits
  <2>4. Filing!Start(part, from) \in Int
    BY <1>0, <1>n, <1>s, <2>2, <2>3 DEF Filing!Start
  <2> QED BY <1>0, <1>n, <1>s, <2>1, <2>2, <2>3, <2>4
<1>c. ASSUME part <= Len(document), item > 1
      PROVE  /\ item - 1 \in Nat /\ from <= item - 1
             /\ from = item - 1 \/ Filing!Length(part, from, item - 1) <= MaxChars
  <2>1. from < item
    BY <1>0, <1>c DEF CurrentFits
  <2>2. CASE from < item - 1
    <3>1. document[part][item - 1] - Filing!Start(part, from) <= MaxChars
      BY <1>0, <1>c, <2>2 DEF CurrentFits
    <3> QED BY <1>0, <1>c, <1>n, <2>1, <3>1 DEF Filing!Length
  <2> QED BY <1>0, <1>c, <2>1, <2>2
<1>6. CASE Filing!AddLine
  <2> USE <1>6 DEF Filing!AddLine, Filing!InSection
  <2>1. CASE Filing!Grown > MaxChars /\ from < item
    <3>0. chunks' \in Seq(ChunkType) /\ from' \in Nat \ {0} /\ item' \in Nat \ {0}
      <4>1. part <= Len(document) /\ item > 1 /\ from \in Nat /\ item - 1 \in Nat
        BY <1>0, <2>1
      <4>2. Append(chunks, Filing!Chunk(from, item - 1)) \in Seq(ChunkType)
        BY <1>m, <4>1
      <4>3. /\ chunks' = Append(chunks, Filing!Chunk(from, item - 1))
            /\ from' = item /\ item' = item + 1
        BY <2>1
      <4> HIDE <1>6
      <4> QED BY <1>0, <4>2, <4>3
    <3>1. SplitTyped'
      BY <1>0, <2>1, <3>0 DEF SplitTyped
    <3>2. CurrentFits'
      BY <1>0, <1>s, <2>1 DEF CurrentFits, Filing!Fits, Filing!Length, Filing!Start
    <3>3. /\ ChunksRight'
          /\ \A s \in 1..Len(document) : \A line \in 1..Len(document[s]) :
                s < part \/ (s = part /\ line <= item - 1) => LineIn(s, line)'
      BY SMTT(30), <1>0, <1>c, <2>1, <3>1, ChunkMade
    <3>4. LinesIn'
      <4>1. ASSUME NEW s \in 1..Len(document), NEW line \in 1..Len(document[s]),
                   s < part' \/ (s = part' /\ line < from')
            PROVE  s < part \/ (s = part /\ line <= item - 1)
        BY <1>0, <2>1, <4>1
      <4> QED BY <3>3, <4>1 DEF LinesIn
    <3> QED BY <3>1, <3>2, <3>3, <3>4 DEF ChunkInv
  <2>2. CASE ~(Filing!Grown > MaxChars /\ from < item)
    <3>1. SplitTyped'
      BY <1>0, <2>2 DEF SplitTyped
    <3>2. CurrentFits'
      <4>1. item + 1 <= Len(document[part]) + 1 /\ item + 1 # 1 /\ from < item + 1
        BY SMTT(30), <1>0, <1>s DEF CurrentFits
      <4>2. from < item => document[part][item] - Filing!Start(part, from) <= MaxChars
        BY <1>n, <2>2 DEF Filing!Grown
      <4>3. ~Filing!Fits' /\ Filing!Start(part, from)' = Filing!Start(part, from)
        BY <2>2 DEF Filing!Fits, Filing!Length, Filing!Start
      <4> QED BY <1>0, <1>s, <2>2, <4>1, <4>2, <4>3 DEF CurrentFits
    <3>3. ChunksRight'
      BY <1>0, <2>2 DEF ChunksRight, MadeBefore, RightSize, InOrder, Filing!Length,
                        Filing!Start
    <3>4. LinesIn'
      <4>1. chunks' = chunks /\ from' = from /\ document' = document /\ part' = part
        BY <2>2
      <4>2. LinesIn
        BY <1>0
      <4> HIDE <1>0
      <4> QED BY <4>1, <4>2 DEF LinesIn, LineIn
    <3> QED BY <3>1, <3>2, <3>3, <3>4 DEF ChunkInv
  <2> QED BY <2>1, <2>2
<1>7. CASE Filing!EndSection
  <2> USE <1>7 DEF Filing!EndSection, Filing!InSection, Filing!NextSection
  <2>1. item > 1 /\ item - 1 = Len(document[part])
    BY <1>0, <1>s DEF CurrentFits
  <2>2. chunks' \in Seq(ChunkType)
    BY <1>0, <1>c, <1>m, <2>1 DEF SplitTyped
  <2>3. SplitTyped' /\ CurrentFits' /\ (tstage' = "done" => part' > Len(document'))
    BY <2>2, SectionBegins
  <2>4. /\ ChunksRight'
        /\ \A s \in 1..Len(document) : \A line \in 1..Len(document[s]) :
              s < part \/ (s = part /\ line <= item - 1) => LineIn(s, line)'
    BY <1>0, <1>c, <2>1, <2>3, ChunkMade
  <2>5. LinesIn'
    <3>1. ASSUME NEW s \in 1..Len(document), NEW line \in 1..Len(document[s]),
                 s < part' \/ (s = part' /\ line < from')
          PROVE  s < part \/ (s = part /\ line <= item - 1)
      BY <1>0, <2>1, <3>1
    <3> QED BY <2>4, <3>1 DEF LinesIn
  <2> QED BY <2>3, <2>4, <2>5 DEF ChunkInv
<1>8. CASE Filing!EndDocument
  <2>1. SplitTyped' /\ CurrentFits'
    BY <1>0, <1>8 DEF SplitTyped, Filing!EndDocument, CurrentFits, Filing!Fits, Filing!Length,
                      Filing!Start
  <2>2. ChunksRight'
    BY <1>0, <1>8 DEF Filing!EndDocument, ChunksRight, MadeBefore, RightSize, InOrder,
                      Filing!Length, Filing!Start
  <2>3. LinesIn'
    BY ZenonT(40), <1>0, <1>8 DEF Filing!EndDocument, LinesIn, LineIn
  <2> QED BY <1>8, <2>1, <2>2, <2>3 DEF Filing!EndDocument, ChunkInv
<1>9. CASE UNCHANGED Filing!vars
  <2>1. SplitTyped' /\ CurrentFits'
    BY <1>0, <1>9 DEF SplitTyped, Filing!vars, CurrentFits, Filing!Fits, Filing!Length,
                      Filing!Start
  <2>2. ChunksRight' /\ LinesIn'
    BY <1>0, <1>9 DEF Filing!vars, ChunksRight, LinesIn, LineIn, MadeBefore, RightSize,
                      InOrder, Filing!Length, Filing!Start
  <2> QED BY <1>9, <2>1, <2>2 DEF Filing!vars, ChunkInv
<1> QED BY <1>1, <1>2, <1>3, <1>4, <1>5, <1>6, <1>7, <1>8, <1>9 DEF Filing!Next

\* A behaviour of the composition is one of the texts of filings, or never has any.
LEMMA FilingAlone == AllSpec => (which = "filing" /\ Filing!Spec) \/ []~(which = "filing")
<1>1. AllInit /\ which = "filing" => Filing!Init
  BY DEF AllInit
<1>2. which = "filing" /\ [AllNext]_allvars =>
         (which = "filing")' /\ [Filing!Next]_Filing!vars
  BY DEF AllNext, allvars, tvars, Filing!vars
<1>3. ~(which = "filing") /\ [AllNext]_allvars => (~(which = "filing"))'
  BY DEF AllNext, allvars
<1> QED BY <1>1, <1>2, <1>3, PTL DEF AllSpec, Filing!Spec

LEMMA FilingHolds ==
    AllSpec => [](which = "filing" =>
                     Filing!GridShowsSpans /\ Filing!LossExplained /\ Filing!ChunksWhole)
<1>1. Filing!Spec => []GridInv
  BY GridInit, GridStep, PTL DEF Filing!Spec
<1>2. Filing!Spec => []ChunkInv
  BY ChunkInit, ChunkStep, PTL DEF Filing!Spec
<1> QED BY <1>1, <1>2, SpansShown, LossIs, ChunksFromInv, FilingAlone, PTL

-----------------------------------------------------------------------------
(* The selection of news                                                    *)

\* The articles that are scraped: of those that passed the filters and are not in the table.
Fresh == {i \in queue : found[i].url \notin skip}

SelectionTyped ==
    /\ found \in Searches
    /\ nstage \in {"search", "group", "scrape", "store", "done", "failed"}
    /\ queue \subseteq DOMAIN found
    /\ turn \in Nat \ {0} /\ attempt \in Nat \ {0}
    /\ groups \in Seq(Seq(DOMAIN found) \ {<<>>})

\* Whoever a text was scraped for is still to be stored, or covered by a row.
TextsKept ==
    \A url \in DOMAIN body :
        /\ body[url].by \in DOMAIN found /\ found[body[url].by].url = url /\ url \notin skip
        /\ nstage \in {"scrape", "store"} =>
              body[url].by \in queue \/ Selection!Covered(found[body[url].by])
        /\ nstage = "done" => Selection!Covered(found[body[url].by])

\* The groups before this one have a text, or all their pages were tried.
GroupsTried ==
    /\ \A g \in DOMAIN groups : g < turn =>
          \/ \E k \in DOMAIN groups[g] : found[groups[g][k]].url \in DOMAIN body
          \/ \A k \in DOMAIN groups[g] : groups[g][k] \in tried
    /\ turn \in DOMAIN groups =>
          /\ attempt <= Len(groups[turn])
          /\ \A k \in DOMAIN groups[turn] : k < attempt => groups[turn][k] \in tried

\* A row was there before, or it is of an article that was found earlier than those left.
RowsFound ==
    \A r \in recent :
        r.url \in skip \/ \E j \in DOMAIN found : found[j].url = r.url /\ \A i \in queue : j < i

SelectionInv ==
    /\ SelectionTyped
    /\ nstage \in {"search", "group"} => body = <<>> /\ turn = 1 /\ attempt = 1
    /\ nstage = "search" => groups = <<>>
    /\ nstage = "group" => left \subseteq Fresh
    /\ nstage \in {"group", "scrape"} => groups \in Seq(Seq(Fresh) \ {<<>>})
    /\ nstage \in {"store", "done"} => \A g \in DOMAIN groups : g < turn
    /\ nstage = "done" => queue = {}
    /\ TextsKept /\ GroupsTried
    /\ nstage # "search" =>
        RowsFound /\ Selection!OneRowPerTopic /\ (nfaults = 0 => others \subseteq skip)
    /\ Selection!LostToSharedUrl /\ nfaults \in Nat

Article == [url : Urls, title : STRING, date : Nat, direct : BOOLEAN]

\* What a search finds is a sequence of articles.
LEMMA FoundIs ==
    ASSUME found \in Searches
    PROVE  found \in Seq(Article) /\ DOMAIN found \subseteq Nat
<1>1. found \in Seq(Article)
  BY SearchAssumption DEF Article
<1> QED BY <1>1

\* Two articles are on one topic in either order.
LEMMA SimilarSymmetric ==
    ASSUME NEW a, NEW b, Selection!Similar(a, b)
    PROVE  Selection!Similar(b, a)
<1>1. {a.title, b.title} = {b.title, a.title} /\ {a.date, b.date} = {b.date, a.date}
  OBVIOUS
<1> QED BY <1>1 DEF Selection!Similar

\* A topic that is covered stays covered.
CoveredBy(article, stored) ==
    Selection!HasSimilar(article, stored) \/ article.url \in Selection!UrlsOf(stored)

\* An article that a row covers stays covered while rows are only added or redated.
LEMMA CoveredStays ==
    ASSUME recent \subseteq recent', NEW a, CoveredBy(a, recent)
    PROVE  CoveredBy(a, recent')
BY DEF CoveredBy, Selection!HasSimilar, Selection!UrlsOf

\* Before the search there is nothing to select.
LEMMA SelectionInit == Selection!Init => SelectionInv
<1> SUFFICES ASSUME Selection!Init PROVE SelectionInv
  OBVIOUS
<1> USE DEF Selection!Init
<1>1. SelectionTyped
  BY DEF SelectionTyped
<1>2. TextsKept /\ GroupsTried /\ Selection!LostToSharedUrl
  BY DEF TextsKept, GroupsTried, Selection!LostToSharedUrl
<1> QED BY <1>1, <1>2 DEF SelectionInv

\* A group gets another article that is to be scraped, or there is another group.
LEMMA GroupsGrow ==
    ASSUME NEW S, NEW gs \in Seq(Seq(S) \ {<<>>}), NEW i \in S
    PROVE  Selection!AddToGroups(gs, i) \in Seq(Seq(S) \ {<<>>})
<1> DEFINE G == Seq(S) \ {<<>>}
<1>1. Append(gs, <<i>>) \in Seq(G)
  <2>1. <<i>> \in G
    OBVIOUS
  <2> HIDE DEF G
  <2> QED BY <2>1 DEF G
<1>2. ASSUME NEW m PROVE [gs EXCEPT ![m] = Append(@, i)] \in Seq(G)
  <2>1. ASSUME m \in DOMAIN gs PROVE Append(gs[m], i) \in G
    <3>1. gs[m] \in Seq(S)
      BY <2>1
    <3>2. Append(gs[m], i) \in Seq(S)
      BY <3>1
    <3>3. Append(gs[m], i) # <<>>
      BY <3>1, AppendProperties
    <3> QED BY <3>2, <3>3
  <2> DEFINE new == [gs EXCEPT ![m] = Append(@, i)]
  <2>2. new \in [1..Len(gs) -> G] /\ Len(gs) \in Nat
    <3>1. DOMAIN gs = 1..Len(gs) /\ Len(gs) \in Nat /\ \A g \in DOMAIN gs : gs[g] \in G
      OBVIOUS
    <3>2. ASSUME NEW g \in DOMAIN gs PROVE new[g] \in G
      <4>1. CASE g = m
        BY <2>1, <4>1
      <4>2. CASE g # m
        BY <3>1, <4>2
      <4> QED BY <4>1, <4>2
    <3> HIDE DEF G
    <3> QED BY <3>1, <3>2
  <2> HIDE DEF G, new
  <2>4. new \in Seq(G)
    BY <2>2, SeqDef
  <2> QED BY <2>4 DEF new
<1> QED BY <1>1, <1>2 DEF Selection!AddToGroups

\* What is said of the rows stays true while they do.
LEMMA RowsSame ==
    ASSUME UNCHANGED <<recent, redated, skip>>
    PROVE  /\ \A a : Selection!Covered(a)' = Selection!Covered(a)
           /\ nstage # "search" /\ Selection!OneRowPerTopic => Selection!OneRowPerTopic'
<1>1. \A a : Selection!Covered(a)' = Selection!Covered(a)
  BY DEF Selection!Covered, Selection!HasSimilar, Selection!UrlsOf
<1>2. nstage # "search" /\ Selection!OneRowPerTopic => Selection!OneRowPerTopic'
  BY DEF Selection!OneRowPerTopic
<1> QED BY <1>1, <1>2

\* One step per action of the sync.
LEMMA SelectionStep == SelectionInv /\ [Selection!Next]_Selection!vars => SelectionInv'
<1> SUFFICES ASSUME SelectionInv, [Selection!Next]_Selection!vars PROVE SelectionInv'
  OBVIOUS
<1>0. /\ SelectionTyped /\ TextsKept /\ GroupsTried
      /\ found \in Seq(Article) /\ DOMAIN found \subseteq Nat
      /\ turn \in Nat \ {0} /\ attempt \in Nat \ {0}
      /\ groups \in Seq(Seq(DOMAIN found) \ {<<>>})
      /\ queue \subseteq DOMAIN found
  BY FoundIs DEF SelectionInv, SelectionTyped
<1>g. \A g \in DOMAIN groups : Len(groups[g]) \in Nat \ {0} /\ g \in Nat
  BY <1>0
<1>1. CASE Selection!Select
  <2> USE <1>1 DEF Selection!Select
  <2>1. SelectionTyped'
    BY <1>0 DEF SelectionTyped
  <2>2. body = <<>> /\ groups = <<>> /\ turn = 1 /\ attempt = 1
    BY DEF SelectionInv
  <2>3. TextsKept' /\ GroupsTried'
    BY <2>2 DEF TextsKept, GroupsTried
  <2>4. left' \subseteq Fresh' /\ groups' \in Seq(Seq(Fresh') \ {<<>>})
    BY <2>2 DEF Fresh
  <2>5. \A r \in recent : r.url \in skip'
    BY DEF Selection!UrlsOf
  <2>6. RowsFound' /\ Selection!OneRowPerTopic'
    BY <2>5 DEF RowsFound, Selection!OneRowPerTopic
  <2> QED BY <2>1, <2>2, <2>3, <2>4, <2>6 DEF SelectionInv, Selection!LostToSharedUrl
<1>2. CASE Selection!Group
  <2>1. /\ UNCHANGED <<found, recent, others, skip, turn, attempt, tried, body, queue,
                       redated, nfaults, nstage>>
        /\ nstage = "group"
    BY <1>2 DEF Selection!Group
  <2>2. PICK i \in left : left' = left \ {i} /\ groups' = Selection!AddToGroups(groups, i)
    BY <1>2 DEF Selection!Group
  <2>3. /\ body = <<>> /\ turn = 1 /\ attempt = 1 /\ left \subseteq Fresh
        /\ groups \in Seq(Seq(Fresh) \ {<<>>}) /\ Fresh \subseteq DOMAIN found
        /\ Fresh' = Fresh
    BY <1>0, <2>1 DEF SelectionInv, Fresh
  <2>4. groups' \in Seq(Seq(Fresh) \ {<<>>})
    BY <2>2, <2>3, GroupsGrow
  <2>5. groups' \in Seq(Seq(DOMAIN found) \ {<<>>})
    BY <1>0, <2>2, <2>3, GroupsGrow
  <2>6. SelectionTyped'
    BY <1>0, <2>1, <2>5 DEF SelectionTyped
  <2>7. TextsKept'
    BY <2>1, <2>3 DEF TextsKept
  <2>8. GroupsTried'
    <3>1. \A g \in DOMAIN groups' : Len(groups'[g]) \in Nat \ {0} /\ g \in Nat /\ g >= 1
      BY <2>5
    <3> QED BY <2>1, <2>3, <3>1 DEF GroupsTried
  <2>9. RowsFound' /\ Selection!OneRowPerTopic'
    BY <2>1, RowsSame DEF SelectionInv, RowsFound
  <2> QED BY <2>1, <2>2, <2>3, <2>4, <2>6, <2>7, <2>8, <2>9
          DEF SelectionInv, Selection!LostToSharedUrl
<1>3. CASE Selection!EndGroup
  <2>1. /\ UNCHANGED <<found, recent, others, skip, left, groups, turn, attempt, tried, body,
                       queue, redated, nfaults>>
        /\ nstage = "group" /\ nstage' = "scrape"
    BY <1>3 DEF Selection!EndGroup
  <2>2. SelectionTyped' /\ GroupsTried' /\ Fresh' = Fresh
    BY <1>0, <2>1 DEF SelectionTyped, GroupsTried, Fresh
  <2>3. TextsKept'
    BY <2>1 DEF SelectionInv, TextsKept
  <2>4. RowsFound' /\ Selection!OneRowPerTopic'
    BY <2>1, RowsSame DEF SelectionInv, RowsFound
  <2> QED BY <2>1, <2>2, <2>3, <2>4 DEF SelectionInv, Selection!LostToSharedUrl
<1>4. CASE Selection!Scrape
  <2> DEFINE i == groups[turn][attempt]
  <2>1. /\ UNCHANGED <<found, recent, others, skip, left, groups, queue, redated, nfaults,
                       nstage>>
        /\ nstage = "scrape" /\ turn <= Len(groups) /\ tried' = tried \cup {i}
    BY <1>4 DEF Selection!Scrape
  <2>2. PICK got \in Selection!Pages :
           /\ IF got.usable \/ attempt = Len(groups[turn])
              THEN turn' = turn + 1 /\ attempt' = 1
              ELSE attempt' = attempt + 1 /\ UNCHANGED turn
           /\ body' = IF got.usable THEN Selection!WithText(i, got.date) ELSE body
    BY <1>4 DEF Selection!Scrape
  <2>3. /\ groups \in Seq(Seq(Fresh) \ {<<>>}) /\ Fresh \subseteq DOMAIN found /\ Fresh' = Fresh
    BY <1>0, <2>1 DEF SelectionInv, Fresh
  <2>4. /\ turn \in DOMAIN groups /\ attempt \in DOMAIN groups[turn]
        /\ Len(groups[turn]) \in Nat \ {0} /\ attempt <= Len(groups[turn])
    <3>1. turn \in DOMAIN groups
      BY <1>0, <2>1
    <3>2. groups[turn] \in Seq(DOMAIN found)
      BY <1>0, <3>1
    <3> QED BY <1>0, <1>g, <3>1, <3>2 DEF GroupsTried
  <2>5. i \in Fresh
    <3>1. groups[turn] \in Seq(Fresh)
      BY <2>3, <2>4
    <3> QED BY <2>4, <3>1
  <2> HIDE DEF i
  <2>6. /\ DOMAIN body \subseteq DOMAIN body'
        /\ \A url \in DOMAIN body' :
              \/ url \in DOMAIN body /\ body'[url] = body[url]
              \/ url = found[i].url /\ body'[url].by = i
        /\ got.usable => found[i].url \in DOMAIN body'
    BY <2>2 DEF Selection!WithText
  <2>7. turn' \in Nat \ {0} /\ attempt' \in Nat \ {0}
    BY <1>0, <2>2
  <2>8. SelectionTyped'
    BY <1>0, <2>1, <2>7 DEF SelectionTyped
  <2>9. TextsKept'
    <3>1. i \in DOMAIN found /\ i \in queue /\ found[i].url \notin skip
      BY <2>3, <2>5 DEF Fresh
    <3> SUFFICES ASSUME NEW url \in DOMAIN body'
                 PROVE  /\ body'[url].by \in DOMAIN found /\ found[body'[url].by].url = url
                        /\ url \notin skip
                        /\ body'[url].by \in queue \/ Selection!Covered(found[body'[url].by])
      BY <2>1, RowsSame DEF TextsKept
    <3>2. CASE url \in DOMAIN body /\ body'[url] = body[url]
      BY <1>0, <2>1, <3>2 DEF TextsKept
    <3>3. CASE url = found[i].url /\ body'[url].by = i
      BY <3>1, <3>3
    <3> QED BY <2>6, <3>2, <3>3
  <2>10. GroupsTried'
    <3>1. ASSUME NEW g \in DOMAIN groups, g < turn
          PROVE  \/ \E k \in DOMAIN groups[g] : found[groups[g][k]].url \in DOMAIN body'
                 \/ \A k \in DOMAIN groups[g] : groups[g][k] \in tried'
      BY <1>0, <2>1, <2>6, <3>1 DEF GroupsTried
    <3>2. \A k \in DOMAIN groups[turn] : k \in Nat /\ (k <= attempt => groups[turn][k] \in tried')
      <4>1. groups[turn] \in Seq(DOMAIN found)
        BY <1>0, <2>4
      <4>2. \A k \in DOMAIN groups[turn] : k \in Nat
        BY <4>1
      <4> QED BY <1>0, <2>1, <2>4, <4>2 DEF GroupsTried, i
    <3>3. CASE got.usable \/ attempt = Len(groups[turn])
      <4>1. turn' = turn + 1 /\ attempt' = 1
        BY <2>2, <3>3
      <4>2. \/ \E k \in DOMAIN groups[turn] : found[groups[turn][k]].url \in DOMAIN body'
            \/ \A k \in DOMAIN groups[turn] : groups[turn][k] \in tried'
        <5>1. CASE got.usable
          BY <2>4, <2>6, <5>1 DEF i
        <5>2. CASE attempt = Len(groups[turn])
          <6>1. groups[turn] \in Seq(DOMAIN found)
            BY <1>0, <2>4
          <6>2. \A k \in DOMAIN groups[turn] : k <= attempt
            BY <5>2, <6>1
          <6> QED BY <3>2, <6>2
        <5> QED BY <3>3, <5>1, <5>2
      <4>3. ASSUME NEW g \in DOMAIN groups, g < turn'
            PROVE  \/ \E k \in DOMAIN groups[g] : found[groups[g][k]].url \in DOMAIN body'
                   \/ \A k \in DOMAIN groups[g] : groups[g][k] \in tried'
        <5>1. g < turn \/ g = turn
          BY <1>0, <1>g, <4>1, <4>3
        <5> QED BY <3>1, <4>2, <5>1
      <4>4. turn' \in DOMAIN groups =>
               /\ attempt' <= Len(groups[turn'])
               /\ \A k \in DOMAIN groups[turn'] : k < attempt' => groups[turn'][k] \in tried'
        <5>1. ASSUME NEW g \in DOMAIN groups PROVE \A k \in DOMAIN groups[g] : k \in Nat /\ k >= 1
          <6>1. groups[g] \in Seq(DOMAIN found)
            BY <1>0
          <6> QED BY <6>1
        <5> QED BY <1>g, <4>1, <5>1
      <4> QED BY <2>1, <4>3, <4>4 DEF GroupsTried
    <3>4. CASE ~(got.usable \/ attempt = Len(groups[turn]))
      <4>1. turn' = turn /\ attempt' = attempt + 1
        BY <2>2, <3>4
      <4>2. attempt' <= Len(groups[turn])
        BY <1>0, <2>4, <3>4, <4>1
      <4>3. \A k \in DOMAIN groups[turn] : k < attempt' => groups[turn][k] \in tried'
        BY <1>0, <3>2, <4>1
      <4> QED BY <2>1, <3>1, <4>1, <4>2, <4>3 DEF GroupsTried
    <3> QED BY <3>3, <3>4
  <2>11. RowsFound' /\ Selection!OneRowPerTopic'
    BY <2>1, RowsSame DEF SelectionInv, RowsFound
  <2> QED BY <2>1, <2>3, <2>8, <2>9, <2>10, <2>11 DEF SelectionInv, Selection!LostToSharedUrl
<1>5. CASE Selection!EndScrape
  <2>1. /\ UNCHANGED <<found, recent, others, skip, left, groups, turn, attempt, tried, body,
                       queue, redated, nfaults>>
        /\ nstage = "scrape" /\ nstage' = "store" /\ turn > Len(groups)
    BY <1>5 DEF Selection!EndScrape
  <2>2. SelectionTyped' /\ GroupsTried'
    BY <1>0, <2>1 DEF SelectionTyped, GroupsTried
  <2>3. TextsKept'
    BY <1>0, <2>1, RowsSame DEF TextsKept
  <2>4. RowsFound' /\ Selection!OneRowPerTopic'
    BY <2>1, RowsSame DEF SelectionInv, RowsFound
  <2>5. \A g \in DOMAIN groups : g < turn
    BY <1>0, <2>1
  <2> QED BY <2>1, <2>2, <2>3, <2>4, <2>5 DEF SelectionInv, Selection!LostToSharedUrl
<1>6. CASE Selection!Store
  <2>1. /\ UNCHANGED <<found, others, skip, left, groups, turn, attempt, tried, body, nfaults>>
        /\ nstage = "store"
    BY <1>6 DEF Selection!Store
  <2>2. PICK i \in queue :
          /\ \A j \in queue : i <= j
          /\ queue' = queue \ {i}
          /\ \/ /\ Selection!Ready(found[i]) => Selection!ScrapedFor(found[i]) # found[i]
                /\ UNCHANGED <<recent, redated, nstage>>
             \/ /\ Selection!Ready(found[i])
                /\ found[i].url \notin others \cup Selection!UrlsOf(recent)
                /\ recent' = Selection!WithRow(Selection!RowOf(found[i])) /\ UNCHANGED nstage
                /\ redated' = IF body[found[i].url].date = Selection!NoDate THEN redated
                              ELSE redated \cup {found[i].url}
             \/ /\ Selection!Ready(found[i])
                /\ found[i].url \in others \cup Selection!UrlsOf(recent)
                /\ nstage' = "failed" /\ UNCHANGED <<recent, redated>>
    BY <1>6 DEF Selection!Store
  <2> DEFINE a == found[i]
             row == Selection!RowOf(a)
  <2>3. /\ i \in DOMAIN found /\ i \in Nat /\ queue' \subseteq queue
        /\ \A j \in queue' : i < j /\ j \in Nat
        /\ nstage' \in {"store", "failed"}
    <3>1. \A j \in queue : i <= j /\ j \in Nat /\ i \in Nat
      BY <1>0, <2>2
    <3>2. \A j \in queue' : j \in queue /\ j # i
      BY <2>2
    <3> QED BY <1>0, <2>1, <2>2, <3>1, <3>2
  <2>4. SelectionTyped' /\ GroupsTried'
    BY <1>0, <2>1, <2>3 DEF SelectionTyped, GroupsTried
  <2>5. recent \subseteq recent' /\ redated \subseteq redated'
    BY <2>2 DEF Selection!WithRow
  <2>6. ASSUME nstage' = "store", a.url \in DOMAIN body, body[a.url].by = i
        PROVE  CoveredBy(a, recent')
    <3>1. Selection!ScrapedFor(a) = a /\ a.url \notin skip
      BY <1>0, <2>6 DEF TextsKept, Selection!ScrapedFor
    <3>2. CASE Selection!Ready(a)
      <4>1. recent' = Selection!WithRow(Selection!RowOf(a))
        BY <2>1, <2>2, <2>6, <3>1, <3>2
      <4>2. Selection!RowOf(a) \in recent' /\ Selection!RowOf(a).url = a.url
        BY <4>1 DEF Selection!WithRow, Selection!RowOf
      <4> QED BY <4>2 DEF CoveredBy, Selection!UrlsOf
    <3>3. CASE ~Selection!Ready(a)
      <4>1. CoveredBy(a, recent)
        BY <2>6, <3>1, <3>3 DEF CoveredBy, Selection!Ready
      <4> QED BY <2>5, <4>1, CoveredStays
    <3> QED BY <3>2, <3>3
  <2>7. TextsKept'
    <3>1. ASSUME NEW url \in DOMAIN body, nstage' = "store"
          PROVE  body[url].by \in queue' \/ CoveredBy(found[body[url].by], recent')
      <4>1. CASE body[url].by = i
        <5>1. url = a.url
          BY <1>0, <4>1 DEF TextsKept
        <5>2. CoveredBy(a, recent')
          BY <2>6, <3>1, <4>1, <5>1
        <5> QED BY <4>1, <5>2
      <4>2. CASE body[url].by # i /\ body[url].by \in queue
        BY <2>2, <4>2
      <4>3. CASE CoveredBy(found[body[url].by], recent)
        <5> DEFINE w == found[body[url].by]
        <5>1. CoveredBy(w, recent)
          BY <4>3
        <5> HIDE DEF w
        <5>2. CoveredBy(w, recent')
          BY <2>5, <5>1, CoveredStays
        <5> QED BY <5>2 DEF w
      <4> QED BY <1>0, <2>1, <4>1, <4>2, <4>3 DEF TextsKept, CoveredBy, Selection!Covered
    <3> QED BY <1>0, <2>1, <2>3, <3>1 DEF TextsKept, CoveredBy, Selection!Covered
  <2>8. RowsFound'
    <3> SUFFICES ASSUME NEW r \in recent', r.url \notin skip
                 PROVE  \E j \in DOMAIN found : found[j].url = r.url /\ \A k \in queue' : j < k
      BY <2>1 DEF RowsFound
    <3>1. CASE r \in recent
      BY <2>1, <2>3, <3>1 DEF SelectionInv, RowsFound
    <3>2. CASE r \notin recent
      <4>1. r = Selection!RowOf(a)
        BY <2>2, <3>2 DEF Selection!WithRow
      <4>2. r.url = a.url
        BY <4>1 DEF Selection!RowOf
      <4> QED BY <2>3, <4>2
    <3> QED BY <3>1, <3>2
  <2>9. Selection!OneRowPerTopic'
    <3>1. Selection!OneRowPerTopic
      BY <2>1 DEF SelectionInv
    <3>2. CASE recent' = recent
      BY <2>1, <2>5, <3>1, <3>2 DEF Selection!OneRowPerTopic
    <3>3. CASE recent' # recent
      <4>1. /\ Selection!Ready(a) /\ recent' = recent \cup {row}
            /\ redated' = IF body[a.url].date = Selection!NoDate THEN redated
                          ELSE redated \cup {a.url}
        BY <2>2, <3>3 DEF Selection!WithRow
      <4>2. row.url = a.url /\ row.title = a.title
        BY DEF Selection!RowOf
      <4>3. ASSUME NEW b \in recent, Selection!Similar(row, b)
            PROVE  row.url \in redated'
        <5>1. CASE body[a.url].date = Selection!NoDate
          <6>1. row.date = a.date
            BY <5>1 DEF Selection!RowOf
          <6>2. Selection!Similar(a, b)
            BY <4>2, <4>3, <6>1 DEF Selection!Similar
          <6> QED BY <4>1, <6>2 DEF Selection!Ready, Selection!HasSimilar
        <5>2. CASE body[a.url].date # Selection!NoDate
          BY <4>1, <4>2, <5>2
        <5> QED BY <5>1, <5>2
      <4> HIDE DEF a, row
      <4>4. ASSUME NEW b \in recent', NEW c \in recent', b # c, Selection!Similar(b, c),
                   ~({b.url, c.url} \subseteq skip)
            PROVE  {b.url, c.url} \cap redated' # {}
        <5>1. CASE b \in recent /\ c \in recent
          <6>1. {b.url, c.url} \cap redated # {}
            BY <2>1, <3>1, <4>4, <5>1 DEF Selection!OneRowPerTopic
          <6> QED BY <2>5, <6>1
        <5>2. CASE b = row /\ c \in recent
          BY <4>3, <4>4, <5>2
        <5>3. CASE c = row /\ b \in recent
          <6>1. Selection!Similar(c, b)
            BY <4>4, SimilarSymmetric
          <6>2. row.url \in redated'
            BY <4>3, <5>3, <6>1
          <6> QED BY <5>3, <6>2
        <5> QED BY <4>1, <4>4, <5>1, <5>2, <5>3
      <4> QED BY <2>1, <4>4 DEF Selection!OneRowPerTopic
    <3> QED BY <3>2, <3>3
  <2>10. Selection!LostToSharedUrl'
    <3> SUFFICES ASSUME nstage' = "failed", nfaults = 0
                 PROVE  \E k, j \in DOMAIN found : k # j /\ found[k].url = found[j].url
      <4>1. nfaults \in Nat
        BY DEF SelectionInv
      <4> QED BY <2>1, <4>1 DEF Selection!LostToSharedUrl
    <3>1. Selection!Ready(a) /\ a.url \in others \cup Selection!UrlsOf(recent)
      BY <2>1, <2>2
    <3>2. others \subseteq skip /\ RowsFound
      BY <2>1 DEF SelectionInv
    <3>3. PICK r \in recent : r.url = a.url /\ r.url \notin skip
      BY <3>1, <3>2 DEF Selection!Ready, Selection!UrlsOf
    <3>4. PICK j \in DOMAIN found : found[j].url = r.url /\ \A k \in queue : j < k
      BY <3>2, <3>3 DEF RowsFound
    <3>5. j # i
      BY <2>3, <3>4
    <3> QED BY <2>3, <3>3, <3>4, <3>5
  <2> QED BY <2>1, <2>3, <2>4, <2>7, <2>8, <2>9, <2>10 DEF SelectionInv
<1>7. CASE Selection!EndStore
  <2>1. /\ UNCHANGED <<found, recent, others, skip, left, groups, turn, attempt, tried, body,
                       queue, redated, nfaults>>
        /\ nstage = "store" /\ nstage' = "done" /\ queue = {}
    BY <1>7 DEF Selection!EndStore
  <2>2. SelectionTyped' /\ GroupsTried'
    BY <1>0, <2>1 DEF SelectionTyped, GroupsTried
  <2>3. TextsKept'
    BY <1>0, <2>1, RowsSame DEF TextsKept
  <2>4. RowsFound' /\ Selection!OneRowPerTopic'
    BY <2>1, RowsSame DEF SelectionInv, RowsFound
  <2> QED BY <2>1, <2>2, <2>3, <2>4 DEF SelectionInv, Selection!LostToSharedUrl
<1>8. CASE \E url \in Urls : Selection!StoredForOther(url)
  <2>1. /\ UNCHANGED <<found, recent, skip, left, groups, turn, attempt, tried, body,
                       queue, redated, nstage>>
        /\ nstage \in {"group", "scrape", "store"} /\ nfaults' = nfaults + 1
    BY <1>8 DEF Selection!StoredForOther
  <2>2. SelectionTyped' /\ GroupsTried' /\ Fresh' = Fresh
    BY <1>0, <2>1 DEF SelectionTyped, GroupsTried, Fresh
  <2>3. TextsKept'
    BY <1>0, <2>1, RowsSame DEF TextsKept
  <2>4. RowsFound' /\ Selection!OneRowPerTopic'
    BY <2>1, RowsSame DEF SelectionInv, RowsFound
  <2>5. nfaults' \in Nat /\ nfaults' # 0
    BY <2>1 DEF SelectionInv
  <2> QED BY <2>1, <2>2, <2>3, <2>4, <2>5 DEF SelectionInv, Selection!LostToSharedUrl
<1>9. CASE UNCHANGED Selection!vars
  <2>1. UNCHANGED <<found, recent, others, skip, left, groups, turn, attempt, tried, body,
                    queue, redated, nfaults, nstage>>
    BY <1>9 DEF Selection!vars
  <2>2. SelectionTyped' /\ GroupsTried' /\ Fresh' = Fresh
    BY <1>0, <2>1 DEF SelectionTyped, GroupsTried, Fresh
  <2>3. TextsKept'
    BY <1>0, <2>1, RowsSame DEF TextsKept
  <2>4. nstage # "search" => RowsFound' /\ Selection!OneRowPerTopic'
    BY <2>1, RowsSame DEF SelectionInv, RowsFound
  <2> QED BY <2>1, <2>2, <2>3, <2>4 DEF SelectionInv, Selection!LostToSharedUrl
<1> QED BY <1>1, <1>2, <1>3, <1>4, <1>5, <1>6, <1>7, <1>8, <1>9 DEF Selection!Next

\* The invariant says of a sync that has ended what its properties ask.
LEMMA SelectionShows ==
    SelectionInv => /\ Selection!OneRowPerTopic /\ Selection!UsableKept
                    /\ Selection!TopicsTried /\ Selection!LostToSharedUrl
<1> SUFFICES ASSUME SelectionInv
             PROVE  /\ Selection!OneRowPerTopic /\ Selection!UsableKept
                    /\ Selection!TopicsTried /\ Selection!LostToSharedUrl
  OBVIOUS
<1>1. Selection!OneRowPerTopic
  BY DEF SelectionInv, Selection!OneRowPerTopic
<1>2. Selection!UsableKept
  BY DEF SelectionInv, TextsKept, Selection!UsableKept
<1>3. Selection!TopicsTried
  <2> SUFFICES ASSUME nstage = "done", NEW g \in DOMAIN groups,
                      ~\A k \in DOMAIN groups[g] : groups[g][k] \in tried
               PROVE  \E k \in DOMAIN groups[g] :
                         LET i == groups[g][k]
                         IN Selection!Covered(found[i])
                               \/ (found[i].url \in DOMAIN body /\ body[found[i].url].by # i)
    BY DEF Selection!TopicsTried
  <2>1. PICK k \in DOMAIN groups[g] : found[groups[g][k]].url \in DOMAIN body
    BY DEF SelectionInv, GroupsTried
  <2> DEFINE i == groups[g][k]
  <2>2. Selection!Covered(found[body[found[i].url].by])
    BY <2>1 DEF SelectionInv, TextsKept
  <2>3. body[found[i].url].by = i => Selection!Covered(found[i])
    BY <2>2
  <2> QED BY <2>1, <2>3
<1> QED BY <1>1, <1>2, <1>3 DEF SelectionInv

\* A behaviour of the composition is one of the selection of news, or never selects.
LEMMA SelectionAlone ==
    AllSpec => (which = "selection" /\ Selection!Spec) \/ []~(which = "selection")
<1>1. AllInit /\ which = "selection" => Selection!Init
  BY DEF AllInit
<1>2. which = "selection" /\ [AllNext]_allvars =>
         (which = "selection")' /\ [Selection!Next]_Selection!vars
  BY DEF AllNext, allvars, nvars, Selection!vars
<1>3. ~(which = "selection") /\ [AllNext]_allvars => (~(which = "selection"))'
  BY DEF AllNext, allvars
<1> QED BY <1>1, <1>2, <1>3, PTL DEF AllSpec, Selection!Spec

LEMMA SelectionHolds ==
    AllSpec => [](which = "selection" =>
                     /\ Selection!OneRowPerTopic /\ Selection!UsableKept
                     /\ Selection!TopicsTried /\ Selection!LostToSharedUrl)
<1>1. Selection!Spec => []SelectionInv
  BY SelectionInit, SelectionStep, PTL DEF Selection!Spec
<1> QED BY <1>1, SelectionShows, SelectionAlone, PTL

-----------------------------------------------------------------------------
(* The composition                                                          *)

\* Unless a sync of prices and one of financial statements have run at the same time, the
\* PER and PBR of a row are not computed from another quarter's income; and once all syncs
\* have ended without an error, the latest row is valued at the close stored, or has no
\* ratio (update_latest_valuation).  The quote of the day that a reader gets is no older
\* than it may be plus the time of a fetch, and is older than one that was answered before
\* only after overlapping fetches or errors (get_latest_quote).
THEOREM NumbersTimely == AllSpec => []NumbersOfTheirTime
BY RatiosHold, QuoteHolds, PTL DEF NumbersOfTheirTime

\* However many filings come in while list_filings turns its pages, sync_filings_for_ticker
\* stores every one that there was when it began, and half of the map of company codes is in
\* the file only while a process writes it or after one died doing so; the feed of a user
\* leaves out nothing newer than what it shows, though its two lists were cut in another
\* order than they are merged in (get_watchlist_feed).
THEOREM ListsAreComplete == AllSpec => []ListsComplete
BY ListingHolds, FeedHolds, PTL DEF ListsComplete

\* EvidenceSound: the fused answer of search_symbol_evidence names no document twice and no
\* more than it was asked for, and none that had no row since the search began, though
\* Chroma's vectors outlive their rows; once save_evidence has gone through it, each one
\* is on record unless its row was removed first, and a reference on record has its row.
THEOREM EvidenceIsSound == AllSpec => []EvidenceSound
<1>1. Retrieval!Spec => []RetrievalInv
  BY RetrievalInit, RetrievalStep, PTL DEF Retrieval!Spec
<1> QED BY <1>1, RetrievalSound, RetrievalAlone, PTL DEF EvidenceSound

\* Whatever the four rankings are, and however many chunks of a document they name, a
\* document that outranks another in each of them comes before it in what the search
\* returns, ties included (_fuse_rankings: the sum of 1 / (rrf_k + rank), sorted by score,
\* then by insertion).
THEOREM FusionKeepsRankings == AllSpec => RankFusion
<1>1. RetrievalInv =>
        [Retrieval!Rank /\ settings.hybrid /\ ~settings.reranker =>
            \A d, e \in Retrieval!Candidates :
               d # e /\ (\A l \in 1..4 : Retrieval!Outranks(d, e, l))
                  => \A j \in 1..Len(evidence') : evidence'[j] = e =>
                        \E i \in 1..(j - 1) : evidence'[i] = d]_Retrieval!vars
  BY FusionStep DEF RetrievalInv, RetrievalTyped
<1>2. ~(which = "retrieval") /\ [AllNext]_allvars => UNCHANGED Retrieval!vars
  BY DEF AllNext, allvars, rvars, Retrieval!vars
<1>3. Retrieval!Spec => []RetrievalInv
  BY RetrievalInit, RetrievalStep, PTL DEF Retrieval!Spec
<1> QED BY <1>1, <1>2, <1>3, RetrievalAlone, PTL
           DEF AllSpec, RankFusion, Retrieval!FusionRespectsLists

\* However the cells of a table span rows, each is in every row that it spans, and whatever
\* they span a value is lost only in the leading rows that have a single one or in the
\* heading of a column that says nothing else (_expand_table_to_grid, _serialize_grid);
\* whatever the lines of a section, each is in one chunk, in order, and no chunk of several
\* lines is longer than it may be (_split_text).  However many articles are alike, one row
\* is kept of each topic unless pages date themselves; a text that was scraped is stored or
\* its topic has a row, a topic without one had all its pages tried, and a sync fails only
\* on an address that came into the table after it had looked (sync_news_for_ticker).
THEOREM TextsAreWellChosen == AllSpec => []TextsWellChosen
BY FilingHolds, SelectionHolds, PTL DEF TextsWellChosen
=============================================================================
