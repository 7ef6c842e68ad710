------------------------------- MODULE Services -------------------------------
(***************************************************************************)
(* The caches of a symbol and the services around the debates, together.    *)
(* They share no state; a behaviour is one of a single component, which the  *)
(* initial state chooses, and the others stay parked.                       *)
(***************************************************************************)
EXTENDS WatchlistCache

CONSTANTS
    Calls, CallRequests, FallbackModel, CallFaults,     \* of ModelCall
    Publishers, Deleters, NotionFaults,                 \* of NotionPublish
    PoolRequests, PoolFaults,                           \* of ConnectionPool
    Debates, SessionGrades,                             \* of DebateEvaluation, on sessions
    GoldenCases, CaseGrades,                            \* and of the golden cases
    EvaluationFaults

\* A row that nobody has locked names no request; grades are not below zero.
ASSUME ServicesAssumption ==
    /\ IsFiniteSet(Calls) /\ CallFaults \in Nat
    /\ NoTask \notin Publishers \cup Deleters
    /\ IsFiniteSet(PoolRequests) /\ PoolFaults \in Nat
    /\ SessionGrades \subseteq Nat /\ CaseGrades \subseteq Nat /\ EvaluationFaults \in Nat

VARIABLES
    which,
    kind, request, provider, cacheOn, cache, cpc, attempt, sent, answer, route, daily, cost,
    cfaults,
    status, stored, nlock, npc, cut, mine, latePages, pages, lost, told, nfaults,
    pool, open, opc, got, raced, ofaults,
    debate, end, epc, result, error, scores, case, dry, left, results, report, efaults

cvars == <<kind, request, provider, cacheOn, cache, cpc, attempt, sent, answer, route,
           daily, cost, cfaults>>
nvars == <<status, stored, nlock, npc, cut, mine, latePages, pages, lost, told, nfaults>>
ovars == <<pool, open, opc, got, raced, ofaults>>
evars == <<debate, end, epc, result, error, scores, case, dry, left, results, report,
           efaults>>

Call == INSTANCE ModelCall
    WITH Callers <- Calls, Requests <- CallRequests, MaxFaults <- CallFaults,
         pc <- cpc, faults <- cfaults

Notion == INSTANCE NotionPublish
    WITH MaxFaults <- NotionFaults, lock <- nlock, pc <- npc, late <- latePages,
         answer <- told, faults <- nfaults

Pool == INSTANCE ConnectionPool
    WITH Requests <- PoolRequests, MaxFaults <- PoolFaults, pc <- opc, faults <- ofaults

\* The sessions and the script on one of them; then the script on the golden cases.
Evaluation == INSTANCE DebateEvaluation
    WITH Golden <- {}, Numbers <- SessionGrades, MaxFaults <- EvaluationFaults,
         status <- debate, pc <- epc, rows <- scores, faults <- efaults

Regression == INSTANCE DebateEvaluation
    WITH Debates <- {}, Golden <- GoldenCases, Numbers <- CaseGrades,
         MaxFaults <- EvaluationFaults,
         status <- debate, pc <- epc, rows <- scores, faults <- efaults

\* A parked component has no state of its own; the caches of the symbol stay empty.
Parked == "parked"

ParkCall ==
    /\ kind = Parked /\ request = Parked /\ provider = Parked /\ cacheOn = Parked
    /\ cache = Parked /\ cpc = Parked /\ attempt = Parked /\ sent = Parked
    /\ answer = Parked /\ route = Parked /\ daily = Parked /\ cost = Parked
    /\ cfaults = Parked

ParkNotion ==
    /\ status = Parked /\ stored = Parked /\ nlock = Parked /\ npc = Parked /\ cut = Parked
    /\ mine = Parked /\ latePages = Parked /\ pages = Parked /\ lost = Parked
    /\ told = Parked /\ nfaults = Parked

ParkPool ==
    /\ pool = Parked /\ open = Parked /\ opc = Parked /\ got = Parked /\ raced = Parked
    /\ ofaults = Parked

ParkEvaluation ==
    /\ debate = Parked /\ end = Parked /\ epc = Parked /\ result = Parked /\ error = Parked
    /\ scores = Parked /\ case = Parked /\ dry = Parked /\ left = Parked
    /\ results = Parked /\ report = Parked /\ efaults = Parked

AllInit ==
    /\ which \in {"caches", "call", "notion", "pool", "evaluation", "regression"}
    /\ Init
    /\ IF which = "call" THEN Call!Init ELSE ParkCall
    /\ IF which = "notion" THEN Notion!Init ELSE ParkNotion
    /\ IF which = "pool" THEN Pool!Init ELSE ParkPool
    /\ CASE which = "evaluation" -> Evaluation!Init
         [] which = "regression" -> Regression!Init
         [] OTHER -> ParkEvaluation

AllNext ==
    \/ which = "caches" /\ Next /\ UNCHANGED <<which, cvars, nvars, ovars, evars>>
    \/ which = "call" /\ Call!Next /\ UNCHANGED <<which, vars, nvars, ovars, evars>>
    \/ which = "notion" /\ Notion!Next /\ UNCHANGED <<which, vars, cvars, ovars, evars>>
    \/ which = "pool" /\ Pool!Next /\ UNCHANGED <<which, vars, cvars, nvars, evars>>
    \/ which = "evaluation" /\ Evaluation!Next
       /\ UNCHANGED <<which, vars, cvars, nvars, ovars>>
    \/ which = "regression" /\ Regression!Next
       /\ UNCHANGED <<which, vars, cvars, nvars, ovars>>

allvars == <<which, vars, cvars, nvars, ovars, evars>>

AllSpec == AllInit /\ [][AllNext]_allvars

-----------------------------------------------------------------------------
(* The properties of the components                                         *)

\* A caller of a model gets an answer to its own messages, from the model of its role or,
\* after all its attempts, from the fallback; it does not give up before; and the tokens
\* of each answer that the cache did not have are counted once.
CallsAnswered ==
    which = "call" =>
        Call!AnswerMatchesRequest /\ Call!GivesUpLate /\ Call!UsageIsCachedCalls

\* All publishers of a session tell the page that is stored, and any other page at Notion
\* is one whose id a fault has lost.
PagesAccounted == which = "notion" => Notion!OnePagePerSession

\* The scores of a debate are complete once its background tasks are over, a row without
\* a grade tells why, no score outlives its session, and the verdicts on the golden cases
\* rest on grades; a pool for such inserts that nobody can close comes from first requests
\* that raced.
BackgroundAccounted ==
    /\ which = "evaluation" =>
           /\ Evaluation!MissingGradeExplained /\ Evaluation!ScoresComplete
           /\ Evaluation!ScoresHaveSession /\ Evaluation!ReportIsWhole
    /\ which = "regression" =>
           /\ Regression!PassWasScored /\ Regression!ReportIsWhole
           /\ Regression!ScoresHaveSession
    /\ which = "pool" => Pool!LeakedPoolsWereRaces
=============================================================================
