--------------------------- MODULE DebateEvaluation ---------------------------
(***************************************************************************)
(* The scoring of debates after they are over (domain/debate_evaluation.py, *)
(* the end of moderator_node.py, run_ragas_eval.py).                        *)
(*                                                                         *)
(* The last node of a debate schedules two background tasks.  Each has      *)
(* RAGAS score a text and inserts its rows, and swallows every error on the *)
(* way.  A developer's script scores a stored session once more, or the     *)
(* golden cases, which it passes or fails against minimal scores.           *)
(***************************************************************************)
EXTENDS Integers, FiniteSets

CONSTANTS Debates,    \* sessions of the service
          Golden,     \* the golden cases: sessions that are in no table
          Numbers,    \* the grades that RAGAS may give
          MaxFaults   \* bound on failed inserts and deaths of a process

VARIABLES
    status,     \* debate_session: running, completed or deleted
    end,        \* how a debate ended, and which of its texts are not empty
    pc,         \* the place that a task has reached
    result,     \* the grades of a task so far
    error,      \* and the error of its last evaluation, if any
    rows,       \* debate_eval_result
    case,       \* what the script scores: a session, a case, or none
    dry,        \* whether the script was started with --dry-run
    left,       \* the golden cases that the script has still to run
    results,    \* the verdicts of the script
    report,     \* the file that it writes at its end
    faults

vars == <<status, end, pc, result, error, rows, case, dry, left, results, report, faults>>
script == <<case, dry, left, results, report>>

\* RAGAS marks a metric that fails with NaN, which is below every number; None is no
\* grade at all.
NaN == -1
None == -2
Metrics == {"faithfulness", "answer_relevancy", "precision"}
Ungraded == [m \in Metrics |-> None]

Background == {"summary", "evidence"} \X Debates
Script == <<"script", "script">>
Tasks == Background \cup {Script}
Session(t) == IF t = Script THEN case ELSE t[2]

Ends == [cut : BOOLEAN, fallback : BOOLEAN,
         summary : BOOLEAN, published : BOOLEAN, excerpts : BOOLEAN]

Init ==
    /\ status = [d \in Debates |-> "running"]
    /\ end \in [Debates -> Ends]
    /\ pc = [t \in Tasks |-> "idle"]
    /\ result = [t \in Tasks |-> Ungraded] /\ error = [t \in Tasks |-> "none"]
    /\ rows = {} /\ faults = 0
    /\ case = "none" /\ dry = FALSE /\ left = {} /\ results = {} /\ report = "none"

TypeOK ==
    /\ status \in [Debates -> {"running", "completed", "deleted"}]
    /\ pc \in [Tasks -> {"idle", "summary", "faithfulness", "answer_relevancy",
                         "evidence", "precision", "verdict", "ended"}]
    /\ result \in [Tasks -> [Metrics -> Numbers \cup {NaN, None}]]
    /\ error \in [Tasks -> {"none", "missing", "raised"}]
    /\ case \in Debates \cup Golden \cup {"none"} /\ left \subseteq Golden

Goto(t, place) == pc' = [pc EXCEPT ![t] = place]

-----------------------------------------------------------------------------
(* The end of a debate                                                      *)

\* The tasks that moderator_summary schedules: a debate that was cut short, or whose
\* summary the model did not write, has no summary worth scoring.
Scheduled(d) == IF end[d].cut \/ end[d].fallback
                THEN {<<"evidence", d>>}
                ELSE {<<"summary", d>>, <<"evidence", d>>}

\* The row of the session is completed before the tasks exist; if it has been deleted
\* since the debate saved its summary, nothing is updated and they are scheduled as well.
Conclude(d) ==
    /\ pc[<<"evidence", d>>] = "idle"
    /\ status' = [status EXCEPT ![d] = IF @ = "running" THEN "completed" ELSE @]
    /\ pc' = [t \in Tasks |-> IF t \in Scheduled(d) THEN t[1] ELSE pc[t]]
    /\ UNCHANGED <<end, result, error, rows, script, faults>>

\* DELETE of the session takes its scores along.
Delete(d) ==
    /\ status[d] # "deleted" /\ status' = [status EXCEPT ![d] = "deleted"]
    /\ rows' = {r \in rows : r.session # d}
    /\ UNCHANGED <<end, pc, result, error, script, faults>>

-----------------------------------------------------------------------------
(* One evaluation, in a thread of the executor                              *)

\* The texts that a task has.  Of a stored session the script has the published summary,
\* not the one written for the evaluation, and no evidence.
HasSummary(t) == \/ Session(t) \in Golden
                 \/ IF t = Script THEN end[case].published ELSE end[t[2]].summary
HasExcerpts(t) == Session(t) \in Golden \/ (t # Script /\ end[Session(t)].excerpts)

\* What RAGAS makes of a metric: a model that answers late or nonsense is not an error.
Grades == Numbers \cup {NaN}

Grade(t, metrics, why) ==
    /\ error' = [error EXCEPT ![t] = why]
    /\ \E g \in [metrics -> IF why = "none" THEN Grades ELSE {None}] :
           result' = [result EXCEPT ![t] = [m \in Metrics |->
                          IF m \in metrics THEN g[m] ELSE @[m]]]

\* Without texts there is nothing to ask; else RAGAS answers, or raises.
Outcomes(present) == IF present THEN {"none", "raised"} ELSE {"missing"}

\* Where a task goes with its grades: a dry run saves nothing.
Save(t, first, unsaved) == Goto(t, IF t = Script /\ dry THEN unsaved ELSE first)

ScoreSummary(t) ==
    /\ pc[t] = "summary"
    /\ \E why \in Outcomes(HasSummary(t)) :
           Grade(t, {"faithfulness", "answer_relevancy"}, why)
    /\ Save(t, "faithfulness", "evidence")
    /\ UNCHANGED <<status, end, rows, script, faults>>

ScoreEvidence(t) ==
    /\ pc[t] = "evidence"
    /\ \E why \in Outcomes(HasExcerpts(t)) : Grade(t, {"precision"}, why)
    /\ Save(t, "precision", "verdict")
    /\ UNCHANGED <<status, end, rows, script, faults>>

\* The error goes with a grade only where there is none.
ErrorWith(t, m) == IF result[t][m] = None THEN error[t] ELSE "none"

Row(t, m) == [session |-> Session(t), by |-> t[1], type |-> m,
              score |-> result[t][m], error |-> ErrorWith(t, m)]

\* The foreign key refuses a score of a session that is not in debate_session.
OnRecord(s) == s \in Debates /\ status[s] # "deleted"

\* A bug to compare with: the task returns once it has saved a grade.
AfterFirstSave(t) == IF t = Script THEN "evidence" ELSE "ended"

AfterSave(t) ==
    IF pc[t] = "faithfulness" THEN "answer_relevancy"
    ELSE IF t # Script THEN "ended"
    ELSE IF pc[t] = "precision" THEN "verdict" ELSE "evidence"

\* _save_eval_result: whatever becomes of the INSERT, the task goes on.
SaveScore(t) ==
    /\ pc[t] \in Metrics
    /\ \/ OnRecord(Session(t)) /\ rows' = rows \cup {Row(t, pc[t])} /\ UNCHANGED faults
       \/ ~OnRecord(Session(t)) /\ UNCHANGED <<rows, faults>>
       \/ faults < MaxFaults /\ faults' = faults + 1 /\ UNCHANGED rows
    /\ Goto(t, AfterSave(t))
    /\ UNCHANGED <<status, end, result, error, script>>

-----------------------------------------------------------------------------
(* run_ragas_eval.py                                                        *)

\* A session with its statements, its summary and its row is scored; any other is not.
RunSession ==
    /\ pc[Script] = "idle" /\ dry' \in BOOLEAN /\ case' \in Debates
    /\ IF status[case'] = "completed"
       THEN Goto(Script, "summary") /\ UNCHANGED results
       ELSE Goto(Script, "ended") /\ results' = {<<case', "SKIP">>}
    /\ UNCHANGED <<status, end, result, error, rows, left, report, faults>>

RunGolden ==
    /\ pc[Script] = "idle" /\ dry' \in BOOLEAN /\ case' \in Golden
    /\ left' = Golden \ {case'} /\ Goto(Script, "summary")
    /\ UNCHANGED <<status, end, result, error, rows, results, report, faults>>

\* The least grades of a golden case.
Minimum == [faithfulness |-> 2, answer_relevancy |-> 1, precision |-> 0]

Reaches(m) == result[Script][m] >= Minimum[m]
Unknown(m) == result[Script][m] = None

\* An answer relevancy or a precision that could not be had is let pass.
Passes == /\ ~Unknown("faithfulness") /\ Reaches("faithfulness")
          /\ \A m \in {"answer_relevancy", "precision"} : Unknown(m) \/ Reaches(m)

Verdict == IF case \in Debates THEN "DONE" ELSE IF Passes THEN "PASS" ELSE "FAIL"

\* The next case, or the end.
GiveVerdict ==
    /\ pc[Script] = "verdict" /\ results' = results \cup {<<case, Verdict>>}
    /\ result' = [result EXCEPT ![Script] = Ungraded]
    /\ IF left = {} THEN Goto(Script, "ended") /\ UNCHANGED <<case, left>>
       ELSE /\ Goto(Script, "summary")
            /\ case' \in left /\ left' = left \ {case'}
    /\ UNCHANGED <<status, end, error, rows, dry, report, faults>>

\* The report is written when all is done, or, of a dry run, shown.
WriteReport ==
    /\ pc[Script] = "ended" /\ report = "none" /\ results # {}
    /\ report' = IF dry THEN "shown" ELSE "written"
    /\ UNCHANGED <<status, end, pc, result, error, rows, case, dry, left, results, faults>>

-----------------------------------------------------------------------------
\* A process dies: the tasks of the service are forgotten, or the script is.
Die ==
    /\ faults < MaxFaults /\ faults' = faults + 1
    /\ \E some \in {Background, {Script}} :
           /\ \E t \in some : pc[t] \notin {"idle", "ended"}
           /\ pc' = [t \in Tasks |-> IF t \in some /\ pc[t] # "idle" THEN "ended" ELSE pc[t]]
           /\ results' = IF Script \in some THEN {} ELSE results
    /\ UNCHANGED <<status, end, result, error, rows, case, dry, left, report>>

Next ==
    \/ \E d \in Debates : Conclude(d) \/ Delete(d)
    \/ \E t \in Tasks : ScoreSummary(t) \/ ScoreEvidence(t) \/ SaveScore(t)
    \/ RunSession \/ RunGolden \/ GiveVerdict \/ WriteReport \/ Die

Spec == Init /\ [][Next]_vars

-----------------------------------------------------------------------------
(* Properties                                                               *)

\* A row without a grade tells why, and no other row does: a metric that failed inside
\* RAGAS is stored as the grade NaN, without an error.
MissingGradeExplained ==
    \A r \in rows : (r.score = None) <=> (r.error # "none")

RowsBy(task) == {r.type : r \in {q \in rows : q.session = task[2] /\ q.by = task[1]}}

\* Once the background tasks of a debate are over, its scores are complete: those of the
\* summary unless the debate was cut or the summary a fallback, and that of the evidence.
\* Only a fault, or the deletion of the session, takes one of them.
ScoresComplete ==
    \A d \in Debates :
        /\ status[d] = "completed" /\ faults = 0
        /\ \A kind \in {"summary", "evidence"} : pc[<<kind, d>>] \in {"idle", "ended"}
        => /\ RowsBy(<<"evidence", d>>) = {"precision"}
           /\ RowsBy(<<"summary", d>>) = IF end[d].cut \/ end[d].fallback THEN {}
                                         ELSE {"faithfulness", "answer_relevancy"}

\* A session that has been deleted has no scores left, though a task may still be scoring
\* it; and no score of a golden case is ever on record: its verdict is in the report only.
ScoresHaveSession == \A r \in rows : r.session \in Debates /\ status[r.session] # "deleted"

\* A golden case passes only with a faithfulness and a relevancy that reach their minimum;
\* its evidence may not have been scored at all.
PassWasScored ==
    pc[Script] = "verdict" /\ case \in Golden /\ Verdict = "PASS" =>
        /\ result[Script]["faithfulness"] >= Minimum["faithfulness"]
        /\ result[Script]["answer_relevancy"] >= Minimum["answer_relevancy"]
        /\ result[Script]["precision"] # NaN

\* A report has one verdict on each case, whatever failed on the way.
ReportIsWhole ==
    report # "none" =>
        /\ {r[1] : r \in results} = IF case \in Golden THEN Golden ELSE {case}
        /\ \A r, q \in results : r[1] = q[1] => r = q
=============================================================================
