---------------------------- MODULE DebateGraph ----------------------------
(***************************************************************************)
(* The turn-taking state machine of one debate: the LangGraph built by     *)
(* src/app/agents/debate_graph.py and the nodes it runs.                   *)
(*                                                                         *)
(* One action is one superstep of the graph: it runs the node named by     *)
(* `node`, applies the node's patch to the graph state with the reducers   *)
(* of agents/state.py, and follows the outgoing edge.  What a language     *)
(* model answers is a free choice; the text of a statement is left out.    *)
(***************************************************************************)
EXTENDS Naturals, Sequences, FiniteSets

CONSTANTS
    NumTopics,       \* _NUM_TOPICS, topics of the agenda
    EndThreshold,    \* interventions against one agent that end the debate
    RecursionLimit   \* supersteps LangGraph allows before it raises

ASSUME NumTopicsAssumption == NumTopics \in Nat \ {0}
ASSUME EndThresholdAssumption == EndThreshold \in Nat \ {0}
ASSUME RecursionLimitAssumption ==
    RecursionLimit \in Nat /\ 8 * NumTopics + 4 <= RecursionLimit

Agents == {"bull", "bear"}
Finals == {"judge_agent", "moderator_summary"}
Nodes == {"data_agent", "moderator_pre", "bull_agent", "bear_agent",
          "moderator_check"} \union Finals
Stopped == {"END", "raised", "overrun"}
Rounds == {"claim", "rebuttal", "counter_rebuttal", "summary"}

VARIABLES
    node,           \* the node that runs next, or how the graph stopped
    decision,       \* decision_agent of the request: "moderator" or "judge"
    topic,          \* current_topic_index
    turn,           \* current_turn
    order,          \* round_order
    flag,           \* moderator_flag
    count,          \* bull_hallucination_count and bear_hallucination_count
    total,          \* hallucination_count
    endedBy,        \* debate_ended_by, "nobody" for the empty string
    statements,     \* the graph's statements, operator.add reducer
    corrections,    \* bull_corrections and bear_corrections, operator.add:
                    \* the round_order of each statement corrected
    steps           \* supersteps taken

talk == <<topic, turn, order, flag>>
strikes == <<count, total, endedBy>>
record == <<statements, corrections>>
vars == <<node, decision, talk, strikes, record, steps>>

Statement == [agent_role : Agents \union {"moderator"}, round : Rounds,
              round_order : Nat \ {0}, topic_index : Nat]

-----------------------------------------------------------------------------
(* Routing.                                                                *)

FinalNode == IF decision = "judge" THEN "judge_agent" ELSE "moderator_summary"

\* The routing that the comment of _router states, "intervention: the agent that
\* has just spoken speaks again"; the code does not do that.
RouterBackToSpeaker(f, tp, tn) ==
    IF f = "end" \/ tp >= NumTopics THEN FinalNode
    ELSE IF (f = "intervene") # (tn \in {2, 4}) THEN "bear_agent" ELSE "bull_agent"

\* The number of topics compared one too late.
RouterOneTopicMore(f, tp, tn) ==
    IF f = "end" \/ tp > NumTopics THEN FinalNode
    ELSE IF tn \in {2, 4} THEN "bear_agent" ELSE "bull_agent"

\* _router: both the intervene branch and the ordinary branch pick the agent
\* of the turn, which the speaking node has already advanced.
Router(f, tp, tn) ==
    IF f = "end" \/ tp >= NumTopics THEN FinalNode
    ELSE IF tn \in {2, 4} THEN "bear_agent" ELSE "bull_agent"

-----------------------------------------------------------------------------
(* A patch reaches the state through the operator.add reducers.            *)

NoFixes == [a \in Agents |-> {}]

Patch(new, fixes) ==
    /\ statements' = statements \o new
    /\ corrections' = [a \in Agents |-> corrections[a] \union fixes[a]]

Superstep(n) ==
    /\ node = n
    /\ steps < RecursionLimit
    /\ steps' = steps + 1
    /\ UNCHANGED decision

-----------------------------------------------------------------------------
\* _build_initial_state; the request chooses who decides.
Init ==
    /\ node = "data_agent"
    /\ decision \in {"moderator", "judge"}
    /\ topic = 0 /\ turn = 1 /\ order = 0 /\ flag = "ok"
    /\ count = [a \in Agents |-> 0] /\ total = 0 /\ endedBy = "nobody"
    /\ statements = <<>> /\ corrections = NoFixes
    /\ steps = 0

\* data_agent_node fills the contexts, which this model leaves out.
DataAgent ==
    /\ Superstep("data_agent")
    /\ node' = "moderator_pre"
    /\ UNCHANGED <<talk, strikes, record>>

\* moderator_pre_node resets the round control and the total count, not the
\* counts per agent.  A failed call still yields the default agenda.
ModeratorPre ==
    /\ Superstep("moderator_pre")
    /\ topic' = 0 /\ turn' = 1 /\ order' = 0 /\ flag' = "ok" /\ total' = 0
    /\ node' = "bull_agent"
    /\ UNCHANGED <<count, endedBy, record>>

RoundName(tn) ==
    IF tn = 1 THEN "claim" ELSE IF tn = 2 THEN "rebuttal" ELSE "counter_rebuttal"

\* The statement a speaking node returns.  A model call that fails after its
\* retries becomes a statement carrying the error, never an exception.
Speak(a, rnd) ==
    /\ order' = order + 1
    /\ Patch(<<[agent_role |-> a, round |-> rnd, round_order |-> order + 1,
                topic_index |-> topic]>>, NoFixes)
    /\ node' = "moderator_check"
    /\ UNCHANGED <<flag, strikes>>

\* A bull that always hands over to the bear's first rebuttal.
BullAgentRepeatsTurn2 ==
    /\ Superstep("bull_agent")
    /\ Speak("bull", RoundName(turn))
    /\ turn' = 2
    /\ UNCHANGED topic

\* A closing rebuttal that keeps the topic.
BearAgentKeepsTopic ==
    /\ Superstep("bear_agent")
    /\ Speak("bear", RoundName(turn))
    /\ turn' = IF turn = 2 THEN 3 ELSE 1
    /\ UNCHANGED topic

BullAgent ==
    /\ Superstep("bull_agent")
    /\ Speak("bull", RoundName(turn))
    /\ turn' = IF turn = 1 THEN 2 ELSE 4
    /\ UNCHANGED topic

BearAgent ==
    /\ Superstep("bear_agent")
    /\ Speak("bear", RoundName(turn))
    /\ IF turn = 2 THEN turn' = 3 /\ UNCHANGED topic
                   ELSE turn' = 1 /\ topic' = topic + 1

-----------------------------------------------------------------------------
(* moderator_check_node.  The last statement is never the moderator's own  *)
(* here: the node runs right after a speaking node.                        *)

Last == statements[Len(statements)]

\* The correction addressed to the agent whose turn comes next.
CorrectsNextAgent == IF turn \in {2, 4} THEN "bear" ELSE "bull"

CorrectedAgent == Last.agent_role

\* An intervention published without advancing round_order.
OrderAfterCheckStale == order

OrderAfterCheck == order + 1

\* A tally kept for the pair instead of for the agent.
StrikesSharedByBoth(a) == total + 1

StrikesOf(a) == count[a] + 1

\* The verdict is "ok", or the model call failed.
CheckOk ==
    /\ Superstep("moderator_check")
    /\ flag' = "ok"
    /\ node' = Router("ok", topic, turn)
    /\ UNCHANGED <<topic, turn, order, strikes, record>>

\* The verdict is "hallucination": the moderator intervenes, and ends the
\* debate at the agent's third time.
CheckHallucination ==
    /\ Superstep("moderator_check")
    /\ LET a == CorrectedAgent
           ends == StrikesOf(a) >= EndThreshold
       IN  /\ count' = [count EXCEPT ![a] = @ + 1]
           /\ total' = total + 1
           /\ flag' = IF ends THEN "end" ELSE "intervene"
           /\ endedBy' = IF ends THEN a ELSE endedBy
           /\ order' = OrderAfterCheck
           /\ Patch(<<[agent_role |-> "moderator", round |-> Last.round,
                       round_order |-> order + 1,
                       topic_index |-> Last.topic_index]>>,
                    [NoFixes EXCEPT ![a] = {Last.round_order}])
           /\ node' = Router(flag', topic, turn)
    /\ UNCHANGED <<topic, turn>>

-----------------------------------------------------------------------------
\* judge_agent_node: a failed call falls back to a mixed verdict.
JudgeAgent ==
    /\ Superstep("judge_agent")
    /\ node' = "moderator_summary"
    /\ UNCHANGED <<talk, strikes, record>>

\* moderator_summary_node.  Its database writes are module DebateRuntime's;
\* here it contributes the summary statement, without moving round_order.  The
\* statement carries no topic; 0 stands for that.
ModeratorSummary ==
    /\ Superstep("moderator_summary")
    /\ Patch(<<[agent_role |-> "moderator", round |-> "summary",
                round_order |-> order + 1, topic_index |-> 0]>>, NoFixes)
    /\ node' = "END"
    /\ UNCHANGED <<talk, strikes>>

\* A node raises (the two that touch the database can), the deadline of
\* _astream_with_config passes, or LangGraph raises GraphRecursionError instead
\* of taking one superstep too many.
Raise ==
    /\ node \in Nodes
    /\ node' = IF steps < RecursionLimit THEN "raised" ELSE "overrun"
    /\ UNCHANGED <<decision, talk, strikes, record, steps>>

Run ==
    \/ DataAgent \/ ModeratorPre \/ BullAgent \/ BearAgent
    \/ CheckOk \/ CheckHallucination
    \/ JudgeAgent \/ ModeratorSummary

Next == Run \/ Raise

Spec == Init /\ [][Next]_vars

\* A graph that can run its next node runs it, and one at its limit raises:
\* LangGraph's loop is driven by the service until the stream stops, and each
\* wait is bounded by the deadline.
FairSpec == Spec /\ WF_vars(Run \/ (steps = RecursionLimit /\ Raise))

-----------------------------------------------------------------------------
(* Properties.                                                             *)

Strikes == 0 .. EndThreshold

\* The variables have their types.
TypeOK ==
    /\ node \in Nodes \union Stopped
    /\ decision \in {"moderator", "judge"}
    /\ topic \in 0 .. NumTopics
    /\ turn \in 1 .. 4
    /\ order \in Nat
    /\ flag \in {"ok", "intervene", "end"}
    /\ count \in [Agents -> Strikes]
    /\ total \in Nat
    /\ endedBy \in Agents \union {"nobody"}
    /\ statements \in Seq(Statement)
    /\ corrections \in [Agents -> SUBSET Nat]
    /\ steps \in 0 .. RecursionLimit

\* The number of statements of bull and bear, without the moderator's, among the first i.
SpeechesUpTo(i) == Cardinality({k \in 1 .. i : statements[k].agent_role # "moderator"})

\* The round_order values of a debate are 1, 2, 3, ... without a gap or a
\* repeat, interventions and summary included: saving them one by one never
\* meets the unique constraint uq_statement_order of agent_statement.
RoundOrdersConsecutive ==
    /\ Len(statements) = order + (IF node = "END" THEN 1 ELSE 0)
    /\ \A i \in 1 .. Len(statements) : statements[i].round_order = i

\* Whatever the moderator interjects, the debate proper is bull, bear, bull,
\* bear on the first topic, the same on the second, and so on: no agent speaks
\* twice in a row, no topic is skipped or reopened, no rebuttal is lost.
FourTurnsPerTopic ==
    \A i \in 1 .. Len(statements) :
        LET j == SpeechesUpTo(i)
        IN  statements[i].agent_role # "moderator" =>
                /\ statements[i].topic_index = (j - 1) \div 4
                /\ statements[i].agent_role = (IF j % 2 = 1 THEN "bull" ELSE "bear")
                /\ statements[i].round = RoundName(((j - 1) % 4) + 1)

\* A debate nobody ended early has all four turns on every topic before the
\* judge or the summary comes.
NoTopicLeftOut ==
    node \in Finals \union {"END"} /\ endedBy = "nobody" =>
        SpeechesUpTo(Len(statements)) = 4 * NumTopics

\* A debate is cut exactly when one agent has been corrected EndThreshold
\* times, by that agent's own count, and nobody speaks after the cut.
CutOnlyAtThreshold ==
    /\ (endedBy = "nobody") <=> (flag # "end")
    /\ \A a \in Agents : (count[a] >= EndThreshold) <=> (endedBy = a)
    /\ endedBy # "nobody" => node \in Finals \union Stopped

\* The counts and the correction lists agree with the transcript: each of an
\* agent's strikes is one intervention directly after one of its statements,
\* and the correction list names just those statements.
StrikesMatchTranscript ==
    \A a \in Agents :
        LET struck == {i \in 1 .. (Len(statements) - 1) :
                          /\ statements[i].agent_role = a
                          /\ statements[i + 1].agent_role = "moderator"
                          /\ statements[i + 1].round # "summary"}
        IN  corrections[a] = struck /\ count[a] = Cardinality(struck)

\* A running graph always has a superstep left under LangGraph's recursion
\* limit: GraphRecursionError cannot cut a debate short.
WithinRecursionLimit == node \in Nodes => steps < RecursionLimit

\* Every debate comes to its summary, or something outside the graph cuts it
\* off; the graph itself neither stops halfway nor runs on to its limit.
Concludes == <>(node \in {"END", "raised"})

=============================================================================
