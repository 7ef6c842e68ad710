-------------------------- MODULE EvidenceAnalysis --------------------------
(***************************************************************************)
(* The analysis of one document (domain/evidence_analysis.py): a baseline  *)
(* when it is indexed, from keyword rules and a classifier, and, if a gate *)
(* lets it through, a second one by the worker, who asks a language model   *)
(* (Qwen) as well and stores its result over the baseline.                  *)
(*                                                                         *)
(* A text is what the rules see in it: which rules match, how many keywords *)
(* of each sign, whether it is mostly a table.  An optional value is a set  *)
(* of at most one element.                                                  *)
(***************************************************************************)
EXTENDS Integers, Sequences

CONSTANTS
    MaxHits,    \* bound on the keywords of one sign found in a document
    MinImpact,  \* analysis_news_qwen_min_impact
    Impacts     \* the impact scores that the model may name

ASSUME AnalysisAssumption ==
    /\ MaxHits \in Nat /\ MinImpact \in Nat
    /\ Impacts \subseteq Int

VALID_SENTIMENTS == {"positive", "negative", "neutral", "mixed"}

\* The rules that decide alone, in the order apply tries them: four on the title
\* and, third from the end, one on the body.
RuleOrder == <<"hardNegative", "hardPositive", "mixedEvent", "critical", "admin">>
Rules == {RuleOrder[i] : i \in 1..Len(RuleOrder)}
TitleRules == Rules \ {"critical"}

\* What a summary or a list of key points is: nothing, prose, or cells of a table, each
\* of which passes the noise filter and several of which look like a dump.
Texts == {"none", "prose", "cells"}

Documents == [kind : {"news", "filing"},
              rules : SUBSET Rules,
              earnings : BOOLEAN,       \* a table, and a title about earnings
              pos : 0..MaxHits, neg : 0..MaxHits,
              extract : {"prose", "cells"}, points : Texts]

\* What the model says and _parse_json makes of it; points and the direction of the
\* words in them after the grounding of the numbers and the noise filter.
Answers == [sentiment : VALID_SENTIMENTS \cup {"other"},
            impact : {{}} \cup {{i} : i \in Impacts},
            points : Texts, direction : {"up", "down", "unclear"}, summary : Texts]

VARIABLES
    doc,        \* the document
    hf,         \* what the classifier says of it: a sentiment, or none if it fails
    stage,      \* fetched, baseline, queued or done
    baseline,   \* the verdict that the sync stored
    result,     \* what is stored now
    again,      \* what the classifier said to the worker
    asked       \* whether the worker asked the model

vars == <<doc, hf, stage, baseline, result, again, asked>>

Verdict(sentiment, impact) == [sentiment |-> sentiment, impact |-> impact]
Clamp(low, high, n) == IF n < low THEN low ELSE IF n > high THEN high ELSE n
Neutral == Verdict("neutral", 0)
NoResult == [verdict |-> Neutral, repaired |-> FALSE, summary |-> "none", points |-> "none"]

-----------------------------------------------------------------------------
(* InvestmentImpactRuleEngine                                               *)

Strong(hits) == IF hits >= 2 THEN 2 ELSE 1

OfRule(rule, d) ==
    CASE rule = "hardNegative" -> Verdict("negative", -Strong(d.neg))
      [] rule = "hardPositive" -> Verdict("positive", Strong(d.pos))
      [] rule = "mixedEvent"   -> Verdict("mixed", 1)
      [] rule = "critical"     -> Verdict("negative", -2)
      [] rule = "admin"        -> Neutral

\* The first rule that matches; the body's critical phrase yields to an event title.
Deciding(d) == RuleOrder[CHOOSE i \in 1..Len(RuleOrder) :
                            /\ RuleOrder[i] \in d.rules
                            /\ \A j \in 1..(i - 1) : RuleOrder[j] \notin d.rules]

\* The model's impact counts if its sign agrees with the sentiment.
Usable(sentiment, i) == CASE sentiment = "positive" -> i > 0
                          [] sentiment = "negative" -> i < 0
                          [] OTHER -> TRUE

DefaultImpact(sentiment) == CASE sentiment = "positive" -> 1
                              [] sentiment = "negative" -> -1
                              [] OTHER -> 0

\* A bug to compare with: the model's impact whatever its sign.
BaseImpactOfModel(sentiment, impact) ==
    IF impact # {} THEN Clamp(-2, 2, CHOOSE i \in impact : TRUE) ELSE DefaultImpact(sentiment)

BaseImpact(sentiment, impact) ==
    IF \E i \in impact : Usable(sentiment, i)
    THEN Clamp(-2, 2, CHOOSE i \in impact : Usable(sentiment, i))
    ELSE DefaultImpact(sentiment)

Leaning(d) == CASE d.pos > d.neg -> 1 [] d.neg > d.pos -> -1 [] OTHER -> 0

\* Keywords of both signs, of one sign, and of none.
OfKeywords(d, base, impact) ==
    CASE d.pos > 0 /\ d.neg > 0 -> Verdict("mixed", Clamp(-1, 1, impact + Leaning(d)))
      [] d.pos > 0 /\ d.neg = 0 -> IF base = "negative" THEN Verdict("mixed", 0)
                                   ELSE Verdict("positive", Strong(d.pos))
      [] d.pos = 0 /\ d.neg > 0 -> IF base = "positive" THEN Verdict("mixed", 0)
                                   ELSE Verdict("negative", -Strong(d.neg))

Apply(d, sentiment, impact) ==
    LET base == IF sentiment \in VALID_SENTIMENTS THEN sentiment ELSE "neutral"
        amount == BaseImpact(base, impact)
    IN IF d.rules # {} THEN OfRule(Deciding(d), d)
       ELSE IF d.pos > 0 \/ d.neg > 0 THEN OfKeywords(d, base, amount)
       ELSE IF sentiment \in VALID_SENTIMENTS THEN Verdict(base, amount)
       ELSE Neutral

-----------------------------------------------------------------------------
(* _analyze_text_impl                                                       *)

Mismatch(v) == \/ v.sentiment = "positive" /\ v.impact < 0
               \/ v.sentiment = "negative" /\ v.impact > 0

\* The harness: a verdict whose parts disagree, a summary that is a dump of a table.
Stored(v, summary, points) ==
    [verdict |-> IF Mismatch(v) THEN Neutral ELSE v,
     repaired |-> Mismatch(v),
     summary |-> IF summary = "cells" THEN "title" ELSE summary,
     points |-> IF summary = "cells" THEN "none" ELSE points]

\* _consistency_guard: a sentiment against the direction of all its evidence.
Contradicts(answer) == \/ answer.sentiment = "negative" /\ answer.direction = "up"
                       \/ answer.sentiment = "positive" /\ answer.direction = "down"

\* A bug to compare with: news take the model's sentiment too.
SentimentOfModel(d, label, answer) ==
    IF answer.sentiment \in VALID_SENTIMENTS THEN answer.sentiment ELSE label

\* Only a filing takes its sentiment and impact from the model.
Sentiment(d, label, answer) ==
    IF d.kind = "news" \/ answer.sentiment \notin VALID_SENTIMENTS THEN label
    ELSE IF Contradicts(answer) THEN "mixed"
    ELSE answer.sentiment

Impact(d, answer) ==
    IF d.kind = "news" THEN {}
    ELSE IF Contradicts(answer) THEN {0 : i \in answer.impact}
    ELSE {Clamp(-2, 2, i) : i \in answer.impact}

\* The summary of a filing is put together from its points.
Summary(d, answer, points) ==
    CASE d.kind = "filing" /\ points # "none"                           -> points
      [] (d.kind = "news" \/ points = "none") /\ answer.summary # "none" -> answer.summary
      [] (d.kind = "news" \/ points = "none") /\ answer.summary = "none" -> d.extract

Analysis(d, label, answer) ==
    LET points == IF answer.points = "none" THEN d.points ELSE answer.points
    IN Stored(Apply(d, Sentiment(d, label, answer), Impact(d, answer)),
              Summary(d, answer, points), points)

\* Without the model; label is "none" if the classifier failed.
PlainAnalysis(d, label) == Stored(Apply(d, label, {}), d.extract, d.points)

filing_needs_qwen(d) == d.rules \cap TitleRules = {} /\ d.earnings

Abs(n) == IF n < 0 THEN -n ELSE n

news_needs_qwen(verdict) == verdict.sentiment # "neutral" \/ Abs(verdict.impact) >= MinImpact

\* A bug to compare with: the gate of the filings for all documents.
GateOfFilings(d, label) == filing_needs_qwen(d)

\* The gate of the worker, which for news looks at the classifier alone.
Gate(d, label) == IF d.kind = "filing" THEN filing_needs_qwen(d)
                  ELSE label \notin {"none", "neutral"}

-----------------------------------------------------------------------------
Labels == {"positive", "negative", "neutral", "none"}

\* What the classifier says of the text, now and later; it is none if it fails.
Init ==
    /\ doc \in Documents /\ hf \in Labels
    /\ stage = "fetched" /\ baseline = Neutral /\ result = NoResult
    /\ again = "none" /\ asked = FALSE

\* analyze_news_row, analyze_filing_row
Baseline ==
    /\ stage = "fetched"
    /\ result' = PlainAnalysis(doc, hf)
    /\ baseline' = result'.verdict
    /\ stage' = "baseline"
    /\ UNCHANGED <<doc, hf, again, asked>>

\* _maybe_enrich
MaybeEnrich ==
    /\ stage = "baseline"
    /\ stage' = IF \/ doc.kind = "filing" /\ filing_needs_qwen(doc)
                   \/ doc.kind = "news" /\ news_needs_qwen(baseline)
                THEN "queued" ELSE "done"
    /\ UNCHANGED <<doc, hf, baseline, result, again, asked>>

\* enrich_news_row, enrich_filing_row: the text and its label are the same, but the
\* classifier may fail; an answer that cannot be parsed leaves the baseline's parts.
Enrich ==
    /\ stage = "queued"
    /\ again' \in {hf, "none"}
    /\ asked' = Gate(doc, again')
    /\ \/ asked' /\ \E answer \in Answers : result' = Analysis(doc, again', answer)
       \/ result' = PlainAnalysis(doc, again')
    /\ stage' = "done"
    /\ UNCHANGED <<doc, hf, baseline>>

Next == Baseline \/ MaybeEnrich \/ Enrich

Spec == Init /\ [][Next]_vars

-----------------------------------------------------------------------------
(* Properties                                                               *)

TypeOK ==
    /\ doc \in Documents /\ hf \in Labels /\ again \in Labels /\ asked \in BOOLEAN
    /\ stage \in {"fetched", "baseline", "queued", "done"}
    /\ baseline \in [sentiment : VALID_SENTIMENTS, impact : -2..2]
    /\ result.verdict \in [sentiment : VALID_SENTIMENTS, impact : -2..2]

\* Whatever the rules, the classifier and the model say, the verdict's sentiment and
\* impact agree before the harness looks at them: it never has to repair one.
HarnessNeverRepairs == ~result.repaired

\* A rule that decides alone decides alone: neither the classifier's label, nor its
\* failure, nor the model changes the verdict of such a document.
RuleDecidesAlone ==
    stage # "fetched" /\ doc.rules # {} => result.verdict = OfRule(Deciding(doc), doc)

\* The verdict on a news is the classifier's and the rules': as long as the
\* classifier answers, what the model says of it changes the text and no verdict.
NewsVerdictKept ==
    stage = "done" /\ doc.kind = "news" /\ again = hf
        => result.verdict = baseline

\* What the language model may not overrule: the rules, and the verdict on a news.
ModelCannotOverrule == RuleDecidesAlone /\ NewsVerdictKept

\* A job whose document the model is not asked about is a news that its rules or
\* keywords made interesting, while the classifier is neutral or has failed.
JobWithoutQuestion ==
    [][Enrich /\ ~asked' => doc.kind = "news" /\ again' \in {"neutral", "none"}
          /\ (hf \in {"neutral", "none"} => doc.rules # {} \/ doc.pos + doc.neg > 0)]_vars
=============================================================================
