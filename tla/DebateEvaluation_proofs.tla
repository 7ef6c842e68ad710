------------------------ MODULE DebateEvaluation_proofs ------------------------
(***************************************************************************)
(* The properties of DebateEvaluation, for any number of sessions, golden    *)
(* cases, grades and faults.                                                *)
(***************************************************************************)
EXTENDS DebateEvaluation, TLAPS

\* Grades are not below zero, and a golden case is not a session of the service.
Constants == Numbers \subseteq Nat /\ Golden \cap Debates = {}

Typed == TypeOK /\ faults \in Nat

SummaryMetrics == {"faithfulness", "answer_relevancy"}

\* A grade that a task is about to save is missing only with an error.
Explained ==
    \A t \in Tasks :
        /\ pc[t] \in SummaryMetrics =>
               \A m \in SummaryMetrics : result[t][m] = None => error[t] # "none"
        /\ pc[t] = "precision" => (result[t]["precision"] = None => error[t] # "none")

\* The two grades of a summary are missing together.
Together ==
    \A t \in Tasks : result[t]["faithfulness"] = None <=> result[t]["answer_relevancy"] = None

\* What a background task has saved when it has reached a place.
SavedAt(kind, place) ==
    IF kind = "summary"
    THEN IF place = "ended" THEN SummaryMetrics
         ELSE IF place = "answer_relevancy" THEN {"faithfulness"} ELSE {}
    ELSE IF place = "ended" THEN {"precision"} ELSE {}

Places ==
    \A d \in Debates :
        /\ pc[<<"summary", d>>] \in {"idle", "summary", "faithfulness", "answer_relevancy", "ended"}
        /\ pc[<<"evidence", d>>] \in {"idle", "evidence", "precision", "ended"}

\* The tasks of a debate are scheduled when it is completed, and together.
Scheduling ==
    \A d \in Debates :
        /\ status[d] = "completed" => pc[<<"evidence", d>>] # "idle"
        /\ pc[<<"evidence", d>>] = "idle" => pc[<<"summary", d>>] = "idle"
        /\ pc[<<"evidence", d>>] # "idle" =>
               (pc[<<"summary", d>>] = "idle" <=> (end[d].cut \/ end[d].fallback))

Saved ==
    faults = 0 =>
        \A d \in Debates : status[d] # "deleted" =>
            \A kind \in {"summary", "evidence"} :
                RowsBy(<<kind, d>>) = SavedAt(kind, pc[<<kind, d>>])

Named == {r[1] : r \in results}
Single == \A r, q \in results : r[1] = q[1] => r = q

\* How far the script is: each case is under way, left, or has its verdict.
Cases ==
    /\ Single
    /\ pc[Script] = "idle" => results = {} /\ left = {} /\ report = "none"
    /\ pc[Script] \notin {"idle", "ended"} =>
           /\ report = "none" /\ case \notin left
           /\ \/ case \in Golden /\ Named = Golden \ (left \cup {case})
              \/ case \in Debates /\ left = {} /\ results = {}
    /\ pc[Script] = "ended" =>
           \/ results = {} /\ report = "none"
           \/ case \in Golden /\ Named = Golden
           \/ case \in Debates /\ Named = {case}

-----------------------------------------------------------------------------
(* Tasks                                                                    *)

\* The script is no background task, and tasks are told apart by kind and session.
LEMMA TasksDiffer ==
    /\ Script \in Tasks /\ Script \notin Background
    /\ \A t \in Background : t \in Tasks /\ t[1] \in {"summary", "evidence"} /\ t[2] \in Debates
                             /\ t = <<t[1], t[2]>>
    /\ \A d \in Debates : <<"summary", d>> \in Background /\ <<"evidence", d>> \in Background
    /\ \A d \in Debates : <<"summary", d>> # Script /\ <<"evidence", d>> # Script
BY DEF Script, Tasks, Background

\* A grade that was asked for without an error is not missing.
LEMMA GradesPresent ==
    ASSUME Constants
    PROVE  None \notin Grades
BY DEF Constants, Grades, None, NaN

\* The variables of the evaluation keep their types.
LEMMA TypedStep ==
    ASSUME Typed, [Next]_vars
    PROVE  Typed'
<1> USE DEF Typed, TypeOK
<1>1. ASSUME NEW d \in Debates, Conclude(d) PROVE Typed'
  <2>1. \A t \in Scheduled(d) : t[1] \in {"summary", "evidence"}
    BY DEF Scheduled
  <2> QED BY <1>1, <2>1 DEF Conclude, script
<1>2. ASSUME NEW d \in Debates, Delete(d) PROVE Typed'
  BY <1>2 DEF Delete, script
<1>3. ASSUME NEW t \in Tasks, ScoreSummary(t) PROVE Typed'
  <2>1. pc' \in [Tasks -> {"idle", "summary", "faithfulness", "answer_relevancy",
                           "evidence", "precision", "verdict", "ended"}]
    BY <1>3 DEF ScoreSummary, Save, Goto
  <2>2. error' \in [Tasks -> {"none", "missing", "raised"}]
    BY <1>3 DEF ScoreSummary, Grade, Outcomes
  <2>3. result' \in [Tasks -> [Metrics -> Numbers \cup {NaN, None}]]
    BY <1>3 DEF ScoreSummary, Grade, Grades, Metrics
  <2> QED BY <1>3, <2>1, <2>2, <2>3 DEF ScoreSummary, script
<1>4. ASSUME NEW t \in Tasks, ScoreEvidence(t) PROVE Typed'
  <2>1. pc' \in [Tasks -> {"idle", "summary", "faithfulness", "answer_relevancy",
                           "evidence", "precision", "verdict", "ended"}]
    BY <1>4 DEF ScoreEvidence, Save, Goto
  <2>2. error' \in [Tasks -> {"none", "missing", "raised"}]
    BY <1>4 DEF ScoreEvidence, Grade, Outcomes
  <2>3. result' \in [Tasks -> [Metrics -> Numbers \cup {NaN, None}]]
    BY <1>4 DEF ScoreEvidence, Grade, Grades, Metrics
  <2> QED BY <1>4, <2>1, <2>2, <2>3 DEF ScoreEvidence, script
<1>5. ASSUME NEW t \in Tasks, SaveScore(t) PROVE Typed'
  <2>1. pc' \in [Tasks -> {"idle", "summary", "faithfulness", "answer_relevancy",
                           "evidence", "precision", "verdict", "ended"}]
    BY <1>5 DEF SaveScore, AfterSave, Goto, Metrics
  <2> QED BY <1>5, <2>1 DEF SaveScore, script
<1>6. CASE RunSession
  BY <1>6, TasksDiffer DEF RunSession, Goto
<1>7. CASE RunGolden
  BY <1>7, TasksDiffer DEF RunGolden, Goto
<1>8. CASE GiveVerdict
  <2>1. result' \in [Tasks -> [Metrics -> Numbers \cup {NaN, None}]]
    BY <1>8 DEF GiveVerdict, Ungraded
  <2> QED BY <1>8, <2>1, TasksDiffer DEF GiveVerdict, Goto
<1>9. CASE WriteReport
  BY <1>9 DEF WriteReport
<1>10. CASE Die
  BY <1>10 DEF Die
<1>11. CASE UNCHANGED vars
  BY <1>11 DEF vars
<1> QED BY <1>1, <1>2, <1>3, <1>4, <1>5, <1>6, <1>7, <1>8, <1>9, <1>10, <1>11 DEF Next

-----------------------------------------------------------------------------
(* Grades and errors                                                        *)

GradesOK == Explained /\ MissingGradeExplained /\ Together

\* A task takes its grades and its error from one evaluation, and a row takes both from the
\* task: neither is ever replaced before it is saved.
LEMMA GradesStep ==
    ASSUME Constants, Typed, GradesOK, [Next]_vars
    PROVE  GradesOK'
<1> USE DEF GradesOK
<1>1. ASSUME NEW d \in Debates, Conclude(d) PROVE GradesOK'
  <2>1. Explained'
    BY <1>1 DEF Conclude, Explained, Scheduled, SummaryMetrics
  <2> QED BY <1>1, <2>1 DEF Conclude, MissingGradeExplained, Together
<1>2. ASSUME NEW d \in Debates, Delete(d) PROVE GradesOK'
  BY <1>2 DEF Delete, Explained, MissingGradeExplained, Together
<1>3. ASSUME NEW t \in Tasks, ScoreSummary(t) PROVE GradesOK'
  <2>1. PICK why \in {"none", "missing", "raised"} : Grade(t, SummaryMetrics, why)
    BY <1>3 DEF ScoreSummary, Outcomes, SummaryMetrics
  <2>2. PICK g \in [SummaryMetrics -> IF why = "none" THEN Grades ELSE {None}] :
            result' = [result EXCEPT ![t] = [m \in Metrics |->
                          IF m \in SummaryMetrics THEN g[m] ELSE result[t][m]]]
    BY <2>1 DEF Grade
  <2>3. error' = [error EXCEPT ![t] = why]
    BY <2>1 DEF Grade
  <2>4. \A m \in SummaryMetrics : result'[t][m] = g[m]
    BY <2>2 DEF Typed, TypeOK, SummaryMetrics, Metrics
  <2>5. \A m \in SummaryMetrics : g[m] = None <=> why # "none"
    BY <2>2, GradesPresent DEF SummaryMetrics
  <2>6. error'[t] = why
    BY <2>3 DEF Typed, TypeOK
  <2>7. \A u \in Tasks \ {t} : result'[u] = result[u] /\ error'[u] = error[u] /\ pc'[u] = pc[u]
    BY <1>3, <2>2, <2>3 DEF ScoreSummary, Save, Goto, Typed, TypeOK
  <2>8. pc'[t] # "precision"
    BY <1>3 DEF ScoreSummary, Save, Goto, Typed, TypeOK
  <2>9. Explained'
    BY <2>4, <2>5, <2>6, <2>7, <2>8 DEF Explained
  <2>10. Together'
    BY <2>4, <2>5, <2>7 DEF Together, SummaryMetrics
  <2> QED BY <1>3, <2>9, <2>10 DEF ScoreSummary, MissingGradeExplained
<1>4. ASSUME NEW t \in Tasks, ScoreEvidence(t) PROVE GradesOK'
  <2>1. PICK why \in {"none", "missing", "raised"} : Grade(t, {"precision"}, why)
    BY <1>4 DEF ScoreEvidence, Outcomes
  <2>2. PICK g \in [{"precision"} -> IF why = "none" THEN Grades ELSE {None}] :
            result' = [result EXCEPT ![t] = [m \in Metrics |->
                          IF m \in {"precision"} THEN g[m] ELSE result[t][m]]]
    BY <2>1 DEF Grade
  <2>3. error' = [error EXCEPT ![t] = why]
    BY <2>1 DEF Grade
  <2>4. /\ result'[t]["precision"] = g["precision"]
        /\ \A m \in SummaryMetrics : result'[t][m] = result[t][m]
    BY <2>2 DEF Typed, TypeOK, SummaryMetrics, Metrics
  <2>5. g["precision"] = None <=> why # "none"
    BY <2>2, GradesPresent
  <2>6. error'[t] = why
    BY <2>3 DEF Typed, TypeOK
  <2>7. \A u \in Tasks \ {t} : result'[u] = result[u] /\ error'[u] = error[u] /\ pc'[u] = pc[u]
    BY <1>4, <2>2, <2>3 DEF ScoreEvidence, Save, Goto, Typed, TypeOK
  <2>8. pc'[t] \notin SummaryMetrics
    BY <1>4 DEF ScoreEvidence, Save, Goto, Typed, TypeOK, SummaryMetrics
  <2>9. Explained'
    BY <2>4, <2>5, <2>6, <2>7, <2>8 DEF Explained
  <2>10. Together'
    BY <2>4, <2>7 DEF Together, SummaryMetrics
  <2> QED BY <1>4, <2>9, <2>10 DEF ScoreEvidence, MissingGradeExplained
<1>5. ASSUME NEW t \in Tasks, SaveScore(t) PROVE GradesOK'
  <2>1. /\ pc[t] \in Metrics /\ pc' = [pc EXCEPT ![t] = AfterSave(t)]
        /\ UNCHANGED <<result, error>>
    BY <1>5 DEF SaveScore, Goto
  <2>2. AfterSave(t) # "precision" /\ AfterSave(t) # "faithfulness"
    BY DEF AfterSave
  <2>3. AfterSave(t) = "answer_relevancy" => pc[t] = "faithfulness"
    BY DEF AfterSave
  <2>4. Explained'
    BY <2>1, <2>2, <2>3 DEF Explained, SummaryMetrics, Typed, TypeOK
  <2>5. Row(t, pc[t]).score = None <=> Row(t, pc[t]).error # "none"
    BY <2>1 DEF Row, ErrorWith, Explained, Metrics, SummaryMetrics
  <2>6. rows' \subseteq rows \cup {Row(t, pc[t])}
    BY <1>5 DEF SaveScore
  <2> QED BY <2>1, <2>4, <2>5, <2>6 DEF MissingGradeExplained, Together
<1>6. CASE RunSession
  BY <1>6, TasksDiffer DEF RunSession, Goto, Explained, MissingGradeExplained, Together,
                           SummaryMetrics, Typed, TypeOK
<1>7. CASE RunGolden
  BY <1>7, TasksDiffer DEF RunGolden, Goto, Explained, MissingGradeExplained, Together,
                           SummaryMetrics, Typed, TypeOK
<1>8. CASE GiveVerdict
  <2>1. pc'[Script] \in {"ended", "summary"} /\ \A u \in Tasks \ {Script} : pc'[u] = pc[u]
    BY <1>8, TasksDiffer DEF GiveVerdict, Goto, Typed, TypeOK
  <2>2. \A u \in Tasks \ {Script} : result'[u] = result[u]
    BY <1>8 DEF GiveVerdict, Typed, TypeOK
  <2>3. result'[Script] = Ungraded
    BY <1>8, TasksDiffer DEF GiveVerdict, Typed, TypeOK
  <2>4. Explained'
    BY <1>8, <2>1, <2>2 DEF GiveVerdict, Explained, SummaryMetrics
  <2>5. Together'
    BY <2>2, <2>3 DEF Together, Ungraded, Metrics
  <2> QED BY <1>8, <2>4, <2>5 DEF GiveVerdict, MissingGradeExplained
<1>9. CASE WriteReport
  BY <1>9 DEF WriteReport, Explained, MissingGradeExplained, Together
<1>10. CASE Die
  BY <1>10 DEF Die, Explained, MissingGradeExplained, Together, SummaryMetrics
<1>11. CASE UNCHANGED vars
  BY <1>11 DEF vars, Explained, MissingGradeExplained, Together
<1> QED BY <1>1, <1>2, <1>3, <1>4, <1>5, <1>6, <1>7, <1>8, <1>9, <1>10, <1>11 DEF Next

\* A row is added of a session on record only, and a deletion takes the rows along.
LEMMA SessionStep ==
    ASSUME Typed, ScoresHaveSession, [Next]_vars
    PROVE  ScoresHaveSession'
<1> USE DEF Typed, TypeOK, ScoresHaveSession
<1>1. ASSUME NEW d \in Debates, Conclude(d) PROVE ScoresHaveSession'
  BY <1>1 DEF Conclude
<1>2. ASSUME NEW d \in Debates, Delete(d) PROVE ScoresHaveSession'
  BY <1>2 DEF Delete
<1>3. ASSUME NEW t \in Tasks, SaveScore(t) PROVE ScoresHaveSession'
  BY <1>3 DEF SaveScore, OnRecord, Row
<1>4. CASE UNCHANGED <<status, rows>>
  BY <1>4
<1>5. \A t \in Tasks : ScoreSummary(t) \/ ScoreEvidence(t) => UNCHANGED <<status, rows>>
  BY DEF ScoreSummary, ScoreEvidence
<1>6. RunSession \/ RunGolden \/ GiveVerdict \/ WriteReport \/ Die \/ UNCHANGED vars
      => UNCHANGED <<status, rows>>
  BY DEF RunSession, RunGolden, GiveVerdict, WriteReport, Die, vars
<1> QED BY <1>1, <1>2, <1>3, <1>4, <1>5, <1>6 DEF Next

-----------------------------------------------------------------------------
(* Completeness                                                             *)

Progress == Places /\ Scheduling /\ Saved

\* A row adds its metric to what its task has saved, and to no other task.
LEMMA RowsOfTasks ==
    ASSUME NEW t \in Tasks, rows' = rows \cup {Row(t, pc[t])}
    PROVE  \A kind \in {"summary", "evidence"}, d \in Debates :
               RowsBy(<<kind, d>>)' = IF t = <<kind, d>> THEN RowsBy(<<kind, d>>) \cup {pc[t]}
                                                        ELSE RowsBy(<<kind, d>>)
<1> SUFFICES ASSUME NEW kind \in {"summary", "evidence"}, NEW d \in Debates
             PROVE  RowsBy(<<kind, d>>)' = IF t = <<kind, d>>
                                           THEN RowsBy(<<kind, d>>) \cup {pc[t]}
                                           ELSE RowsBy(<<kind, d>>)
  OBVIOUS
<1> DEFINE new == Row(t, pc[t])
<1>1. new.session = Session(t) /\ new.by = t[1] /\ new.type = pc[t]
  BY DEF Row
<1>2. t = <<kind, d>> => new.session = d /\ new.by = kind
  BY <1>1 DEF Session, Script
<1>3. t # <<kind, d>> => ~(new.session = d /\ new.by = kind)
  <2>1. CASE t = Script
    BY <2>1, <1>1 DEF Script
  <2>2. CASE t # Script
    BY <2>2, <1>1 DEF Session, Tasks, Background
  <2> QED BY <2>1, <2>2
<1>4. RowsBy(<<kind, d>>)' = {r.type : r \in {q \in rows \cup {new} : q.session = d /\ q.by = kind}}
  BY DEF RowsBy
<1>5. RowsBy(<<kind, d>>) = {r.type : r \in {q \in rows : q.session = d /\ q.by = kind}}
  BY DEF RowsBy
<1> HIDE DEF new
<1>6. CASE t = <<kind, d>>
  BY <1>6, <1>1, <1>2, <1>4, <1>5
<1>7. CASE t # <<kind, d>>
  BY <1>7, <1>3, <1>4, <1>5
<1> QED BY <1>6, <1>7

\* Without a fault a background task saves what it should, in order.
LEMMA ProgressStep ==
    ASSUME Typed, Progress, [Next]_vars
    PROVE  Progress'
<1> USE DEF Progress, Typed, TypeOK
<1>1. ASSUME NEW d \in Debates, Conclude(d) PROVE Progress'
  <2>1. \A c \in Debates, kind \in {"summary", "evidence"} :
            pc'[<<kind, c>>] = IF <<kind, c>> \in Scheduled(d) THEN kind ELSE pc[<<kind, c>>]
    BY <1>1, TasksDiffer DEF Conclude
  <2>2. \A c \in Debates, kind \in {"summary", "evidence"} :
            <<kind, c>> \in Scheduled(d) <=>
                c = d /\ (kind = "evidence" \/ ~(end[d].cut \/ end[d].fallback))
    BY DEF Scheduled
  <2>3. pc[<<"evidence", d>>] = "idle" /\ pc[<<"summary", d>>] = "idle"
    BY <1>1 DEF Conclude, Scheduling
  <2>4. Places'
    BY <2>1 DEF Places
  <2>5. Scheduling'
    <3>1. pc'[<<"evidence", d>>] # "idle"
      BY <2>1, <2>2
    <3>2. pc'[<<"summary", d>>] = "idle" <=> (end[d].cut \/ end[d].fallback)
      BY <2>1, <2>2, <2>3
    <3>3. \A c \in Debates \ {d} : /\ pc'[<<"evidence", c>>] = pc[<<"evidence", c>>]
                                  /\ pc'[<<"summary", c>>] = pc[<<"summary", c>>]
      BY <2>1, <2>2
    <3>4. end' = end /\ \A c \in Debates \ {d} : status'[c] = status[c]
      BY <1>1 DEF Conclude
    <3>5. SUFFICES ASSUME NEW c \in Debates
                   PROVE  /\ status'[c] = "completed" => pc'[<<"evidence", c>>] # "idle"
                          /\ pc'[<<"evidence", c>>] = "idle" => pc'[<<"summary", c>>] = "idle"
                          /\ pc'[<<"evidence", c>>] # "idle" =>
                                 (pc'[<<"summary", c>>] = "idle" <=> (end'[c].cut \/ end'[c].fallback))
      BY Zenon DEF Scheduling
    <3>6. CASE c = d
      BY <3>1, <3>2, <3>4, <3>6, Zenon
    <3>7. CASE c # d
      BY <3>3, <3>4, <3>7, Zenon DEF Scheduling
    <3> QED BY <3>6, <3>7
  <2>6. \A c \in Debates : status'[c] # "deleted" => status[c] # "deleted"
    BY <1>1 DEF Conclude
  <2>7. \A task : RowsBy(task)' = RowsBy(task)
    BY <1>1 DEF Conclude, RowsBy
  <2>8. \A c \in Debates, kind \in {"summary", "evidence"} :
            SavedAt(kind, pc'[<<kind, c>>]) = SavedAt(kind, pc[<<kind, c>>])
    BY <2>1, <2>2, <2>3 DEF SavedAt
  <2>9. Saved'
    BY <1>1, <2>6, <2>7, <2>8 DEF Saved, Conclude
  <2> QED BY <2>4, <2>5, <2>9
<1>2. ASSUME NEW d \in Debates, Delete(d) PROVE Progress'
  <2>1. \A c \in Debates, kind \in {"summary", "evidence"} :
            c # d => RowsBy(<<kind, c>>)' = RowsBy(<<kind, c>>)
    BY <1>2 DEF Delete, RowsBy
  <2>2. Places' /\ Scheduling'
    BY <1>2 DEF Delete, Places, Scheduling
  <2>3. Saved'
    BY <1>2, <2>1 DEF Delete, Saved
  <2> QED BY <2>2, <2>3
<1>3. ASSUME NEW t \in Tasks, ScoreSummary(t) PROVE Progress'
  <2>1. /\ pc[t] = "summary" /\ UNCHANGED <<status, end, rows, faults>>
        /\ pc' = [pc EXCEPT ![t] = IF t = Script /\ dry THEN "evidence" ELSE "faithfulness"]
    BY <1>3 DEF ScoreSummary, Save, Goto
  <2>2. \A d \in Debates : t # <<"evidence", d>> /\ t # <<"summary", d>> =>
            pc'[<<"evidence", d>>] = pc[<<"evidence", d>>] /\ pc'[<<"summary", d>>] = pc[<<"summary", d>>]
    BY <2>1, TasksDiffer
  <2>3. \A d \in Debates : t # <<"evidence", d>>
    BY <2>1 DEF Places
  <2>4. \A d \in Debates : t = <<"summary", d>> =>
            pc'[<<"summary", d>>] = "faithfulness" /\ pc'[<<"evidence", d>>] = pc[<<"evidence", d>>]
    BY <2>1, TasksDiffer DEF Script
  <2>5. Places' /\ Scheduling'
    BY <2>1, <2>2, <2>3, <2>4 DEF Places, Scheduling
  <2>6. \A task : RowsBy(task)' = RowsBy(task)
    BY <2>1 DEF RowsBy
  <2>7. \A d \in Debates, kind \in {"summary", "evidence"} :
            SavedAt(kind, pc'[<<kind, d>>]) = SavedAt(kind, pc[<<kind, d>>])
    <3>1. \A d \in Debates, kind \in {"summary", "evidence"} :
              \/ pc'[<<kind, d>>] = pc[<<kind, d>>]
              \/ kind = "summary" /\ pc[<<kind, d>>] = "summary" /\ pc'[<<kind, d>>] = "faithfulness"
      BY <2>1, <2>2, <2>3, <2>4
    <3> QED BY <3>1 DEF SavedAt
  <2>8. Saved'
    BY <2>1, <2>6, <2>7 DEF Saved
  <2> QED BY <2>5, <2>8
<1>4. ASSUME NEW t \in Tasks, ScoreEvidence(t) PROVE Progress'
  <2>1. /\ pc[t] = "evidence" /\ UNCHANGED <<status, end, rows, faults>>
        /\ pc' = [pc EXCEPT ![t] = IF t = Script /\ dry THEN "verdict" ELSE "precision"]
    BY <1>4 DEF ScoreEvidence, Save, Goto
  <2>2. \A d \in Debates : t # <<"evidence", d>> /\ t # <<"summary", d>> =>
            pc'[<<"evidence", d>>] = pc[<<"evidence", d>>] /\ pc'[<<"summary", d>>] = pc[<<"summary", d>>]
    BY <2>1, TasksDiffer
  <2>3. \A d \in Debates : t # <<"summary", d>>
    BY <2>1 DEF Places
  <2>4. \A d \in Debates : t = <<"evidence", d>> =>
            pc'[<<"evidence", d>>] = "precision" /\ pc'[<<"summary", d>>] = pc[<<"summary", d>>]
    BY <2>1, TasksDiffer DEF Script
  <2>5. Places' /\ Scheduling'
    BY <2>1, <2>2, <2>3, <2>4 DEF Places, Scheduling
  <2>6. \A task : RowsBy(task)' = RowsBy(task)
    BY <2>1 DEF RowsBy
  <2>7. \A d \in Debates, kind \in {"summary", "evidence"} :
            SavedAt(kind, pc'[<<kind, d>>]) = SavedAt(kind, pc[<<kind, d>>])
    <3>1. \A d \in Debates, kind \in {"summary", "evidence"} :
              \/ pc'[<<kind, d>>] = pc[<<kind, d>>]
              \/ kind = "evidence" /\ pc[<<kind, d>>] = "evidence" /\ pc'[<<kind, d>>] = "precision"
      BY <2>1, <2>2, <2>3, <2>4
    <3> QED BY <3>1 DEF SavedAt
  <2>8. Saved'
    BY <2>1, <2>6, <2>7 DEF Saved
  <2> QED BY <2>5, <2>8
<1>5. ASSUME NEW t \in Tasks, SaveScore(t) PROVE Progress'
  <2>1. /\ pc[t] \in Metrics /\ UNCHANGED <<status, end>>
        /\ pc' = [pc EXCEPT ![t] = AfterSave(t)]
    BY <1>5 DEF SaveScore, Goto
  <2>2. \A d \in Debates, kind \in {"summary", "evidence"} :
            pc'[<<kind, d>>] = IF t = <<kind, d>> THEN AfterSave(t) ELSE pc[<<kind, d>>]
    BY <2>1, TasksDiffer
  <2>3. \A d \in Debates : t = <<"summary", d>> =>
            /\ pc[t] \in SummaryMetrics
            /\ AfterSave(t) = IF pc[t] = "faithfulness" THEN "answer_relevancy" ELSE "ended"
    <3>1. \A d \in Debates : t = <<"summary", d>> => t # Script
      BY TasksDiffer
    <3> QED BY <2>1, <3>1 DEF Places, Metrics, SummaryMetrics, AfterSave
  <2>4. \A d \in Debates : t = <<"evidence", d>> =>
            pc[t] = "precision" /\ AfterSave(t) = "ended"
    <3>1. \A d \in Debates : t = <<"evidence", d>> => t # Script
      BY TasksDiffer
    <3> QED BY <2>1, <3>1 DEF Places, Metrics, AfterSave
  <2>5. Places' /\ Scheduling'
    BY <2>1, <2>2, <2>3, <2>4 DEF Places, Scheduling, SummaryMetrics
  <2>6. SUFFICES ASSUME faults' = 0, NEW d \in Debates, status[d] # "deleted",
                        NEW kind \in {"summary", "evidence"}
                 PROVE  RowsBy(<<kind, d>>)' = SavedAt(kind, pc'[<<kind, d>>])
    BY <2>1, <2>5 DEF Saved
  <2>7. faults = 0 /\ (\/ OnRecord(Session(t)) /\ rows' = rows \cup {Row(t, pc[t])}
                       \/ ~OnRecord(Session(t)) /\ rows' = rows)
    <3>1. faults' # faults + 1
      BY <2>6
    <3>2. \/ OnRecord(Session(t)) /\ rows' = rows \cup {Row(t, pc[t])} /\ faults' = faults
          \/ ~OnRecord(Session(t)) /\ rows' = rows /\ faults' = faults
      BY <1>5, <3>1, Zenon DEF SaveScore
    <3>3. faults = 0
      BY <2>6, <3>2
    <3> QED BY <3>2, <3>3, Zenon
  <2>8. RowsBy(<<kind, d>>) = SavedAt(kind, pc[<<kind, d>>])
    BY <2>6, <2>7 DEF Saved
  <2>9. CASE t = <<kind, d>>
    <3>1. Session(t) = d
      BY <2>9 DEF Session, Script
    <3>2. rows' = rows \cup {Row(t, pc[t])}
      BY <2>6, <2>7, <3>1 DEF OnRecord
    <3>3. RowsBy(<<kind, d>>)' = RowsBy(<<kind, d>>) \cup {pc[t]}
      BY <2>9, <3>2, RowsOfTasks
    <3>4. SavedAt(kind, AfterSave(t)) = SavedAt(kind, pc[t]) \cup {pc[t]}
      BY <2>3, <2>4, <2>9 DEF SavedAt, SummaryMetrics
    <3> QED BY <2>2, <2>8, <2>9, <3>3, <3>4
  <2>10. CASE t # <<kind, d>>
    <3>1. RowsBy(<<kind, d>>)' = RowsBy(<<kind, d>>)
      <4>1. CASE rows' = rows \cup {Row(t, pc[t])}
        BY <2>10, <4>1, RowsOfTasks
      <4>2. CASE UNCHANGED rows
        BY <4>2 DEF RowsBy
      <4> QED BY <2>7, <4>1, <4>2
    <3> QED BY <2>2, <2>8, <2>10, <3>1
  <2> QED BY <2>9, <2>10
<1>6. CASE RunSession \/ RunGolden \/ GiveVerdict
  <2>1. /\ UNCHANGED <<status, end, rows, faults>>
        /\ \E place : pc' = [pc EXCEPT ![Script] = place]
    BY <1>6 DEF RunSession, RunGolden, GiveVerdict, Goto
  <2>2. \A d \in Debates, kind \in {"summary", "evidence"} : pc'[<<kind, d>>] = pc[<<kind, d>>]
    BY <2>1, TasksDiffer DEF Script
  <2>3. Places' /\ Scheduling'
    BY <2>1, <2>2 DEF Places, Scheduling
  <2>4. \A task : RowsBy(task)' = RowsBy(task)
    BY <2>1 DEF RowsBy
  <2>5. Saved'
    BY <2>1, <2>2, <2>4 DEF Saved
  <2> QED BY <2>3, <2>5
<1>7. CASE WriteReport \/ UNCHANGED vars
  <2>1. UNCHANGED <<status, end, pc, rows, faults>>
    BY <1>7 DEF WriteReport, vars
  <2> QED BY <2>1 DEF Places, Scheduling, Saved, RowsBy
<1>8. CASE Die
  <2>1. /\ faults' = faults + 1 /\ UNCHANGED <<status, end>>
        /\ \A t \in Tasks : pc'[t] = pc[t] \/ (pc[t] # "idle" /\ pc'[t] = "ended")
    BY <1>8 DEF Die
  <2>2. \A d \in Debates, kind \in {"summary", "evidence"} :
            pc'[<<kind, d>>] = pc[<<kind, d>>]
            \/ (pc[<<kind, d>>] # "idle" /\ pc'[<<kind, d>>] = "ended")
    BY <2>1, TasksDiffer
  <2>3. Places' /\ Scheduling'
    BY <2>1, <2>2 DEF Places, Scheduling
  <2>4. Saved'
    BY <2>1 DEF Saved
  <2> QED BY <2>3, <2>4
<1> QED BY <1>1, <1>2, <1>3, <1>4, <1>5, <1>6, <1>7, <1>8 DEF Next

-----------------------------------------------------------------------------
(* The verdicts of the script                                               *)

\* A step of a background task leaves the script where it is; one of the script itself
\* does not end it before its verdict.
LEMMA ScriptMoves ==
    ASSUME Typed, NEW t \in Tasks, ScoreSummary(t) \/ ScoreEvidence(t) \/ SaveScore(t)
    PROVE  /\ UNCHANGED script
           /\ \/ pc'[Script] = pc[Script]
              \/ pc[Script] \notin {"idle", "ended"} /\ pc'[Script] \notin {"idle", "ended"}
<1> USE DEF Typed, TypeOK
<1>1. UNCHANGED script
  BY DEF ScoreSummary, ScoreEvidence, SaveScore
<1>2. pc[t] \notin {"idle", "ended"}
  BY DEF ScoreSummary, ScoreEvidence, SaveScore, Metrics
<1>3. \E place : pc' = [pc EXCEPT ![t] = place] /\ (t = Script => place \notin {"idle", "ended"})
  BY DEF ScoreSummary, ScoreEvidence, SaveScore, Save, Goto, AfterSave
<1> QED BY <1>1, <1>2, <1>3, TasksDiffer

\* Each case gets one verdict: it leaves the cases left when it begins.
LEMMA CasesStep ==
    ASSUME Typed, Cases, [Next]_vars
    PROVE  Cases'
<1> USE DEF Typed, TypeOK
<1>1. ASSUME UNCHANGED <<case, left, results, report>>,
             \/ pc'[Script] = pc[Script]
             \/ pc[Script] \notin {"idle", "ended"} /\ pc'[Script] \notin {"idle", "ended"}
      PROVE  Cases'
  BY <1>1 DEF Cases, Single, Named
<1>2. ASSUME NEW d \in Debates, Conclude(d) \/ Delete(d) PROVE Cases'
  <2>1. UNCHANGED script /\ pc'[Script] = pc[Script]
    BY <1>2, TasksDiffer DEF Conclude, Delete, Scheduled, Script
  <2> QED BY <1>1, <2>1 DEF script
<1>3. ASSUME NEW t \in Tasks, ScoreSummary(t) \/ ScoreEvidence(t) \/ SaveScore(t) PROVE Cases'
  BY <1>1, <1>3, ScriptMoves DEF script
<1>4. CASE RunSession
  <2>1. /\ pc[Script] = "idle" /\ case' \in Debates /\ UNCHANGED <<left, report>>
        /\ \/ pc'[Script] = "summary" /\ results' = results
           \/ pc'[Script] = "ended" /\ results' = {<<case', "SKIP">>}
    BY <1>4, TasksDiffer DEF RunSession, Goto
  <2>2. results = {} /\ left = {} /\ report = "none"
    BY <2>1 DEF Cases
  <2>3. CASE pc'[Script] = "summary" /\ results' = results
    BY <2>1, <2>2, <2>3 DEF Cases, Single, Named
  <2>4. CASE pc'[Script] = "ended" /\ results' = {<<case', "SKIP">>}
    <3>1. Named' = {case'} /\ Single'
      BY <2>4 DEF Named, Single
    <3> QED BY <2>1, <2>4, <3>1 DEF Cases
  <2> QED BY <2>1, <2>3, <2>4
<1>5. CASE RunGolden
  <2>1. /\ pc[Script] = "idle" /\ pc'[Script] = "summary" /\ UNCHANGED <<results, report>>
        /\ case' \in Golden /\ left' = Golden \ {case'}
    BY <1>5, TasksDiffer DEF RunGolden, Goto
  <2>2. results = {} /\ report = "none"
    BY <2>1 DEF Cases
  <2>3. Named' = {} /\ Single'
    BY <2>1, <2>2 DEF Named, Single
  <2>4. Named' = Golden \ (left' \cup {case'}) /\ case' \notin left'
    BY <2>1, <2>3
  <2> QED BY <2>1, <2>2, <2>3, <2>4 DEF Cases
<1>6. CASE GiveVerdict
  <2>1. /\ pc[Script] = "verdict" /\ results' = results \cup {<<case, Verdict>>} /\ report' = report
        /\ \/ left = {} /\ pc'[Script] = "ended" /\ UNCHANGED <<case, left>>
           \/ /\ left # {} /\ pc'[Script] = "summary"
              /\ case' \in left /\ left' = left \ {case'}
    BY <1>6, TasksDiffer DEF GiveVerdict, Goto
  <2>2. /\ report = "none" /\ case \notin left
        /\ \/ case \in Golden /\ Named = Golden \ (left \cup {case})
           \/ case \in Debates /\ left = {} /\ results = {}
    BY <2>1 DEF Cases
  <2>3. Named' = Named \cup {case}
    <3> DEFINE new == <<case, Verdict>>
    <3>1. results' = results \cup {new} /\ new[1] = case
      BY <2>1
    <3> HIDE DEF new
    <3> QED BY <3>1 DEF Named
  <2>4. case \notin Named
    BY <2>2 DEF Named
  <2>5. Single'
    BY <2>1, <2>4 DEF Single, Named, Cases
  <2>6. CASE left = {}
    <3>1. \/ case \in Golden /\ Named' = Golden
          \/ case \in Debates /\ Named' = {case}
      <4>1. results = {} => Named = {}
        BY DEF Named
      <4> QED BY <2>2, <2>3, <2>6, <4>1
    <3> QED BY <2>1, <2>5, <2>6, <3>1 DEF Cases
  <2>7. CASE left # {}
    <3>1. case \in Golden /\ Named' = Golden \ left
      BY <2>2, <2>3, <2>7
    <3>2. case' \in Golden /\ case' \notin left' /\ Named' = Golden \ (left' \cup {case'})
      BY <2>1, <2>7, <3>1
    <3> QED BY <2>1, <2>2, <2>5, <2>7, <3>2 DEF Cases
  <2> QED BY <2>6, <2>7
<1>7. CASE WriteReport
  BY <1>7 DEF WriteReport, Cases, Single, Named
<1>8. CASE Die
  <2>1. PICK some \in {Background, {Script}} :
            /\ \E t \in some : pc[t] \notin {"idle", "ended"}
            /\ pc' = [t \in Tasks |-> IF t \in some /\ pc[t] # "idle" THEN "ended" ELSE pc[t]]
            /\ results' = IF Script \in some THEN {} ELSE results
    BY <1>8 DEF Die
  <2>2. UNCHANGED <<case, left, report>>
    BY <1>8 DEF Die
  <2>3. CASE some = Background
    BY <1>1, <2>1, <2>2, <2>3, TasksDiffer
  <2>4. CASE some = {Script}
    BY <2>1, <2>2, <2>4, TasksDiffer DEF Cases, Single, Named
  <2> QED BY <2>3, <2>4
<1>9. CASE UNCHANGED vars
  BY <1>9, <1>1 DEF vars
<1> QED BY <1>2, <1>3, <1>4, <1>5, <1>6, <1>7, <1>8, <1>9 DEF Next

-----------------------------------------------------------------------------
(* Theorems                                                                 *)

IInv == Typed /\ GradesOK /\ ScoresHaveSession /\ Progress /\ Cases

LEMMA InitIInv ==
    ASSUME Init
    PROVE  IInv
<1>1. Typed
  BY TasksDiffer DEF Init, Typed, TypeOK, Ungraded
<1>2. GradesOK
  BY DEF Init, GradesOK, Explained, MissingGradeExplained, Together, Ungraded, Metrics,
         SummaryMetrics
<1>3. Progress
  <2>1. Places /\ Scheduling
    BY TasksDiffer DEF Init, Places, Scheduling
  <2>2. \A task : RowsBy(task) = {}
    BY DEF Init, RowsBy
  <2>3. Saved
    BY <2>2, TasksDiffer DEF Init, Saved, SavedAt
  <2> QED BY <2>1, <2>3 DEF Progress
<1>4. Cases
  BY TasksDiffer DEF Init, Cases, Single, Named
<1> QED BY <1>1, <1>2, <1>3, <1>4 DEF Init, IInv, ScoresHaveSession

LEMMA StepIInv ==
    ASSUME Constants, IInv, [Next]_vars
    PROVE  IInv'
BY TypedStep, GradesStep, SessionStep, ProgressStep, CasesStep DEF IInv

LEMMA Invariance ==
    ASSUME Constants
    PROVE  Spec => []IInv
<1>1. Init => IInv
  BY InitIInv
<1>2. IInv /\ [Next]_vars => IInv'
  BY StepIInv
<1> QED BY <1>1, <1>2, PTL DEF Spec

\* The variables of the evaluation keep their types.
THEOREM EvaluationTypeCorrect ==
    ASSUME Constants
    PROVE  Spec => []TypeOK
<1>1. IInv => TypeOK
  BY DEF IInv, Typed
<1> QED BY <1>1, Invariance, PTL

\* A stored row has no grade exactly if it has an error, for any grades and faults.
THEOREM GradesExplained ==
    ASSUME Constants
    PROVE  Spec => []MissingGradeExplained
<1>1. IInv => MissingGradeExplained
  BY DEF IInv, GradesOK
<1> QED BY <1>1, Invariance, PTL

\* Without a fault the scores of a completed debate are complete once its tasks are over.
THEOREM CompleteScores ==
    ASSUME Constants
    PROVE  Spec => []ScoresComplete
<1>1. ASSUME IInv, NEW d \in Debates, status[d] = "completed", faults = 0,
             \A kind \in {"summary", "evidence"} : pc[<<kind, d>>] \in {"idle", "ended"}
      PROVE  /\ RowsBy(<<"evidence", d>>) = {"precision"}
             /\ RowsBy(<<"summary", d>>) = IF end[d].cut \/ end[d].fallback THEN {}
                                           ELSE {"faithfulness", "answer_relevancy"}
  <2>1. pc[<<"evidence", d>>] = "ended"
    BY <1>1 DEF IInv, Progress, Scheduling
  <2>2. pc[<<"summary", d>>] = "idle" <=> (end[d].cut \/ end[d].fallback)
    BY <1>1, <2>1 DEF IInv, Progress, Scheduling
  <2>3. \A kind \in {"summary", "evidence"} :
            RowsBy(<<kind, d>>) = SavedAt(kind, pc[<<kind, d>>])
    BY <1>1 DEF IInv, Progress, Saved
  <2>4. RowsBy(<<"evidence", d>>) = {"precision"}
    BY <2>1, <2>3 DEF SavedAt
  <2>5. RowsBy(<<"summary", d>>) = IF pc[<<"summary", d>>] = "idle" THEN {} ELSE SummaryMetrics
    BY <1>1, <2>3 DEF SavedAt
  <2> QED BY <2>2, <2>4, <2>5 DEF SummaryMetrics
<1>2. IInv => ScoresComplete
  BY <1>1 DEF ScoresComplete
<1> QED BY <1>2, Invariance, PTL

\* No score is left of a deleted session, and none is stored of a golden case.
THEOREM ScoresOnRecord ==
    ASSUME Constants
    PROVE  Spec => []ScoresHaveSession
<1>1. IInv => ScoresHaveSession
  BY DEF IInv
<1> QED BY <1>1, Invariance, PTL

\* A golden case passes only with a faithfulness and a relevancy that reach their minimum.
THEOREM PassesAreScored ==
    ASSUME Constants
    PROVE  Spec => []PassWasScored
<1>1. ASSUME IInv, case \in Golden, Verdict = "PASS"
      PROVE  /\ result[Script]["faithfulness"] >= Minimum["faithfulness"]
             /\ result[Script]["answer_relevancy"] >= Minimum["answer_relevancy"]
             /\ result[Script]["precision"] # NaN
  <2>1. Passes
    BY <1>1 DEF Verdict
  <2>2. result[Script]["faithfulness"] # None
    BY <2>1 DEF Passes, Unknown
  <2>3. result[Script]["answer_relevancy"] # None
    BY <1>1, <2>2, TasksDiffer DEF IInv, GradesOK, Together
  <2> QED BY <2>1, <2>3 DEF Passes, Unknown, Reaches, Minimum, None, NaN
<1>2. IInv => PassWasScored
  BY <1>1 DEF PassWasScored
<1> QED BY <1>2, Invariance, PTL

\* A report has one verdict on each of its cases.
THEOREM ReportsAreWhole ==
    ASSUME Constants
    PROVE  Spec => []ReportIsWhole
<1>1. ASSUME IInv, report # "none"
      PROVE  /\ Named = IF case \in Golden THEN Golden ELSE {case}
             /\ Single
  BY <1>1, TasksDiffer DEF IInv, Cases, Constants
<1>2. IInv => ReportIsWhole
  BY <1>1 DEF ReportIsWhole, Named, Single
<1> QED BY <1>2, Invariance, PTL
=============================================================================
