------------------------- MODULE DebateGraph_proofs -------------------------
(***************************************************************************)
(* Proofs about DebateGraph, for every number of topics, every threshold    *)
(* and every recursion limit the assumptions allow.                         *)
(***************************************************************************)
EXTENDS DebateGraph, FiniteSetTheorems, TLAPS

\* Appending one element to a sequence.
LEMMA AppendOne ==
    ASSUME NEW S, NEW s \in Seq(S), NEW e \in S
    PROVE  /\ s \o <<e>> \in Seq(S)
           /\ Len(s \o <<e>>) = Len(s) + 1
           /\ \A i \in 1 .. Len(s) : (s \o <<e>>)[i] = s[i]
           /\ (s \o <<e>>)[Len(s) + 1] = e
  OBVIOUS

-----------------------------------------------------------------------------
(* The inductive invariant.                                                *)

\* The types that hold step by step, without the bounds of TypeOK.
Typed ==
    /\ node \in Nodes \union Stopped
    /\ decision \in {"moderator", "judge"}
    /\ topic \in 0 .. NumTopics
    /\ turn \in 1 .. 4
    /\ order \in Nat
    /\ flag \in {"ok", "intervene", "end"}
    /\ count \in [Agents -> Nat]
    /\ total \in Nat
    /\ endedBy \in Agents \union {"nobody"}
    /\ statements \in Seq(Statement)
    /\ corrections \in [Agents -> SUBSET Nat]
    /\ steps \in Nat

\* Supersteps up to the speech of the current turn.
Elapsed == 8 * topic + 2 * turn

\* Where the debate stands at each node: the superstep count is a function of
\* topic and turn, and the node speaks whose turn it is.
Control ==
    /\ node = "data_agent" => steps = 0 /\ order = 0
    /\ node = "moderator_pre" => steps = 1 /\ order = 0
    /\ node = "bull_agent" => turn \in {1, 3} /\ topic < NumTopics /\ steps = Elapsed
    /\ node = "bear_agent" => turn \in {2, 4} /\ topic < NumTopics /\ steps = Elapsed
    /\ node = "moderator_check" =>
           /\ steps + 1 = Elapsed
           /\ topic = NumTopics => turn = 1
           /\ order > 0
           /\ Last.agent_role \in Agents
    /\ node = "judge_agent" => steps <= 8 * NumTopics + 2
    /\ node = "moderator_summary" => steps <= 8 * NumTopics + 3
    /\ steps <= 8 * NumTopics + 4

\* No tally passes the threshold, and the one that reaches it ends the debate.
Cut == CutOnlyAtThreshold /\ \A a \in Agents : count[a] <= EndThreshold

IInv == Typed /\ Control /\ RoundOrdersConsecutive /\ Cut

USE NumTopicsAssumption, EndThresholdAssumption, RecursionLimitAssumption

\* The last speech of the last topic bounds the supersteps.
LEMMA TurnBound ==
    ASSUME NEW tp \in 0 .. NumTopics, NEW tn \in 1 .. 4, NEW st \in Nat,
           st + 1 = 8 * tp + 2 * tn, tp = NumTopics => tn = 1
    PROVE  st <= 8 * NumTopics + 1
  OBVIOUS

LEMMA InitIInv == Init => IInv
  <1> SUFFICES ASSUME Init PROVE IInv
    OBVIOUS
  <1>1. Typed
    BY DEF Init, Typed, Nodes, Agents, NoFixes
  <1>2. Control
    BY DEF Init, Control
  <1>3. RoundOrdersConsecutive
    BY DEF Init, RoundOrdersConsecutive
  <1>4. Cut
    BY DEF Init, Cut, CutOnlyAtThreshold, Agents
  <1> QED
    BY <1>1, <1>2, <1>3, <1>4 DEF IInv

\* A speech keeps the invariant's parts about the transcript and the types.
LEMMA SpeakIInv ==
    ASSUME IInv, NEW a \in Agents, node \in {"bull_agent", "bear_agent"},
           Superstep(node), Speak(a, RoundName(turn)),
           topic' \in 0 .. NumTopics, turn' \in 1 .. 4,
           steps' + 1 = 8 * topic' + 2 * turn',
           topic' = NumTopics => turn' = 1
    PROVE  IInv'
  <1> DEFINE e == [agent_role |-> a, round |-> RoundName(turn), round_order |-> order + 1,
                   topic_index |-> topic]
  <1>1. e \in Statement
    BY DEF IInv, Typed, Statement, RoundName, Rounds
  <1>2. statements' = statements \o <<e>> /\ order' = order + 1 /\ node' = "moderator_check"
    BY DEF Speak, Patch
  <1>3. /\ statements' \in Seq(Statement)
        /\ Len(statements') = Len(statements) + 1
        /\ \A i \in 1 .. Len(statements) : statements'[i] = statements[i]
        /\ statements'[Len(statements) + 1] = e
    BY <1>1, <1>2, AppendOne DEF IInv, Typed
  <1>4. Len(statements) = order /\ Len(statements) \in Nat
    BY DEF IInv, Typed, RoundOrdersConsecutive
  <1>5. RoundOrdersConsecutive'
    <2>1. Len(statements') = order'
      BY <1>2, <1>3, <1>4
    <2>2. \A i \in 1 .. Len(statements) : statements'[i].round_order = i
      BY <1>3, <1>4 DEF IInv, RoundOrdersConsecutive
    <2>3. \A i \in 1 .. Len(statements') :
             i \in 1 .. Len(statements) \/ i = Len(statements) + 1
      BY <1>3, <1>4
    <2>4. statements'[Len(statements) + 1].round_order = Len(statements) + 1
      BY <1>3, <1>4
    <2>5. \A i \in 1 .. Len(statements') : statements'[i].round_order = i
      <3> HIDE DEF e
      <3> QED
        BY <2>2, <2>3, <2>4
    <2> QED
      BY <1>2, <2>1, <2>5 DEF RoundOrdersConsecutive
  <1>6. corrections' \in [Agents -> SUBSET Nat]
    BY DEF IInv, Typed, Speak, Patch, NoFixes
  <1>7. Typed'
    BY <1>2, <1>3, <1>6 DEF IInv, Typed, Speak, Superstep, strikes, Nodes
  <1>8. Control'
    <2>1. steps' + 1 = Elapsed'
      BY DEF Elapsed
    <2>2. order' > 0
      BY <1>2, <1>4
    <2>3. Last'.agent_role \in Agents
      BY <1>3 DEF Last
    <2>4. steps' <= 8 * NumTopics + 4
      BY <1>7, TurnBound DEF Typed
    <2> QED
      BY <1>2, <2>1, <2>2, <2>3, <2>4 DEF Control
  <1>9. Cut'
    BY <1>2 DEF IInv, Cut, CutOnlyAtThreshold, Speak, strikes, Finals, Stopped
  <1> QED
    BY <1>5, <1>7, <1>8, <1>9 DEF IInv

\* Where the router sends a debate whose turn is well-formed.
LEMMA RouterChoice ==
    ASSUME NEW f, NEW tp \in 0 .. NumTopics, NEW tn \in 1 .. 4
    PROVE  LET n == Router(f, tp, tn) IN
           /\ n \in Finals \union {"bull_agent", "bear_agent"}
           /\ n \in Finals <=> (f = "end" \/ tp = NumTopics)
           /\ n = "bull_agent" => tn \in {1, 3}
           /\ n = "bear_agent" => tn \in {2, 4}
  BY DEF Router, FinalNode, Finals

\* The edge out of the moderator's check keeps Control, whatever the verdict.
LEMMA CheckControl ==
    ASSUME IInv, node = "moderator_check", steps' = steps + 1,
           NEW f, node' = Router(f, topic, turn), UNCHANGED <<topic, turn>>
    PROVE  Control' /\ node' \in Nodes /\ (f = "end" => node' \in Finals)
  <1>1. /\ topic \in 0 .. NumTopics /\ turn \in 1 .. 4 /\ steps \in Nat
        /\ topic' = topic /\ turn' = turn
        /\ steps + 1 = Elapsed
        /\ topic = NumTopics => turn = 1
    BY DEF IInv, Typed, Control
  <1>2. steps <= 8 * NumTopics + 1
    BY <1>1, TurnBound DEF Elapsed
  <1>3. /\ node' \in Finals \union {"bull_agent", "bear_agent"}
        /\ node' \in Finals <=> (f = "end" \/ topic = NumTopics)
        /\ node' = "bull_agent" => turn \in {1, 3}
        /\ node' = "bear_agent" => turn \in {2, 4}
    BY <1>1, RouterChoice
  <1>4. steps' = Elapsed'
    BY <1>1 DEF Elapsed
  <1>5. steps' <= 8 * NumTopics + 2
    BY <1>1, <1>2
  <1>6. node' \in {"bull_agent", "bear_agent"} => topic' < NumTopics
    BY <1>1, <1>3 DEF Finals
  <1> QED
    BY <1>1, <1>3, <1>4, <1>5, <1>6 DEF Control, Finals, Nodes

\* An intervention adds one statement and one strike, and keeps the rest.
LEMMA HallucinationIInv ==
    ASSUME IInv, CheckHallucination
    PROVE  IInv'
  <1> DEFINE a == CorrectedAgent
             e == [agent_role |-> "moderator", round |-> Last.round,
                   round_order |-> order + 1, topic_index |-> Last.topic_index]
             fixes == [NoFixes EXCEPT ![a] = {Last.round_order}]
  <1>1. /\ node = "moderator_check" /\ steps' = steps + 1 /\ decision' = decision
        /\ count' = [count EXCEPT ![a] = @ + 1]
        /\ total' = total + 1
        /\ flag' = IF count[a] + 1 >= EndThreshold THEN "end" ELSE "intervene"
        /\ endedBy' = IF count[a] + 1 >= EndThreshold THEN a ELSE endedBy
        /\ order' = order + 1
        /\ Patch(<<e>>, fixes)
        /\ node' = Router(flag', topic, turn)
        /\ topic' = topic /\ turn' = turn
    BY DEF CheckHallucination, Superstep, StrikesOf, OrderAfterCheck
  <1>2. Len(statements) = order /\ order \in Nat /\ order > 0
    BY <1>1 DEF IInv, Typed, RoundOrdersConsecutive, Control
  <1>3. Last \in Statement /\ a \in Agents
    BY <1>1, <1>2 DEF IInv, Typed, Control, Last, CorrectedAgent
  <1>4. e \in Statement
    BY <1>2, <1>3 DEF Statement
  <1>5. fixes \in [Agents -> SUBSET Nat]
    BY <1>3 DEF NoFixes, Statement
  <1>6. /\ statements' \in Seq(Statement)
        /\ Len(statements') = Len(statements) + 1
        /\ \A i \in 1 .. Len(statements) : statements'[i] = statements[i]
        /\ statements'[Len(statements) + 1] = e
    BY <1>1, <1>4, AppendOne DEF IInv, Typed, Patch
  <1>7. Control' /\ node' \in Nodes /\ (flag' = "end" => node' \in Finals)
    BY <1>1, CheckControl
  <1>8. RoundOrdersConsecutive'
    <2>1. Len(statements') = order' /\ node' # "END"
      BY <1>1, <1>2, <1>6, <1>7 DEF Nodes, Finals
    <2>2. \A i \in 1 .. Len(statements) : statements'[i].round_order = i
      BY <1>2, <1>6 DEF IInv, RoundOrdersConsecutive
    <2>3. \A i \in 1 .. Len(statements') :
             i \in 1 .. Len(statements) \/ i = Len(statements) + 1
      BY <1>2, <1>6
    <2>4. statements'[Len(statements) + 1].round_order = Len(statements) + 1
      BY <1>2, <1>6
    <2> QED
      BY <2>1, <2>2, <2>3, <2>4 DEF RoundOrdersConsecutive
  <1>9. Typed'
    <2>1. corrections' \in [Agents -> SUBSET Nat]
      BY <1>1, <1>5 DEF IInv, Typed, Patch
    <2>2. count' \in [Agents -> Nat]
      BY <1>1, <1>3 DEF IInv, Typed
    <2>3. flag' \in {"ok", "intervene", "end"} /\ endedBy' \in Agents \union {"nobody"}
      BY <1>1, <1>3 DEF IInv, Typed
    <2> QED
      BY <1>1, <1>2, <1>6, <1>7, <2>1, <2>2, <2>3 DEF IInv, Typed
  <1>10. Cut'
    <2>1. endedBy = "nobody" /\ flag # "end"
      BY <1>1 DEF IInv, Cut, CutOnlyAtThreshold, Finals, Stopped
    <2>2. \A b \in Agents : count[b] \in Nat /\ count[b] < EndThreshold
      BY <2>1 DEF IInv, Cut, CutOnlyAtThreshold, Typed, Agents
    <2>3. /\ count'[a] = count[a] + 1
          /\ \A b \in Agents : b # a => count'[b] = count[b]
      BY <1>1, <1>3 DEF IInv, Typed
    <2>4. CASE count[a] + 1 >= EndThreshold
      <3>1. flag' = "end" /\ endedBy' = a /\ node' \in Finals
        BY <1>1, <1>7, <2>4
      <3>2. \A b \in Agents : (count'[b] >= EndThreshold) <=> (b = a)
        BY <1>3, <2>2, <2>3, <2>4
      <3>3. \A b \in Agents : count'[b] <= EndThreshold
        BY <1>3, <2>2, <2>3
      <3> QED
        BY <1>3, <3>1, <3>2, <3>3 DEF Cut, CutOnlyAtThreshold, Agents
    <2>5. CASE ~ (count[a] + 1 >= EndThreshold)
      <3>1. flag' = "intervene" /\ endedBy' = "nobody"
        BY <1>1, <2>1, <2>5
      <3>2. \A b \in Agents : count'[b] < EndThreshold /\ count'[b] \in Nat
        BY <1>3, <2>2, <2>3, <2>5
      <3> QED
        BY <3>1, <3>2 DEF Cut, CutOnlyAtThreshold, Agents
    <2> QED
      BY <2>4, <2>5
  <1> QED
    BY <1>7, <1>8, <1>9, <1>10 DEF IInv

\* The node that summarises adds the last statement and moves no counter.
LEMMA SummaryIInv ==
    ASSUME IInv, ModeratorSummary
    PROVE  IInv'
  <1> DEFINE e == [agent_role |-> "moderator", round |-> "summary",
                   round_order |-> order + 1, topic_index |-> 0]
  <1>1. /\ node = "moderator_summary" /\ node' = "END"
        /\ steps' = steps + 1 /\ decision' = decision
        /\ Patch(<<e>>, NoFixes)
        /\ UNCHANGED <<topic, turn, order, flag, count, total, endedBy>>
    BY DEF ModeratorSummary, Superstep, talk, strikes
  <1>2. Len(statements) = order /\ order \in Nat
    BY <1>1 DEF IInv, Typed, RoundOrdersConsecutive
  <1>3. e \in Statement
    BY <1>2 DEF Statement, Rounds
  <1>4. /\ statements' \in Seq(Statement)
        /\ Len(statements') = Len(statements) + 1
        /\ \A i \in 1 .. Len(statements) : statements'[i] = statements[i]
        /\ statements'[Len(statements) + 1] = e
    BY <1>1, <1>3, AppendOne DEF IInv, Typed, Patch
  <1>5. RoundOrdersConsecutive'
    <2>1. Len(statements') = order' + 1
      BY <1>1, <1>2, <1>4
    <2>2. \A i \in 1 .. Len(statements) : statements'[i].round_order = i
      BY <1>2, <1>4 DEF IInv, RoundOrdersConsecutive
    <2>3. \A i \in 1 .. Len(statements') :
             i \in 1 .. Len(statements) \/ i = Len(statements) + 1
      BY <1>2, <1>4
    <2>4. statements'[Len(statements) + 1].round_order = Len(statements) + 1
      BY <1>2, <1>4
    <2> QED
      BY <1>1, <2>1, <2>2, <2>3, <2>4 DEF RoundOrdersConsecutive
  <1>6. Typed'
    <2>1. corrections' \in [Agents -> SUBSET Nat]
      BY <1>1 DEF IInv, Typed, Patch, NoFixes
    <2> QED
      BY <1>1, <1>4, <2>1 DEF IInv, Typed, Stopped
  <1>7. Control'
    BY <1>1 DEF IInv, Control, Typed
  <1>8. Cut'
    BY <1>1 DEF IInv, Cut, CutOnlyAtThreshold, Stopped
  <1> QED
    BY <1>5, <1>6, <1>7, <1>8 DEF IInv

LEMMA NextIInv == IInv /\ [Next]_vars => IInv'
  <1> SUFFICES ASSUME IInv, [Next]_vars PROVE IInv'
    OBVIOUS
  <1> USE DEF Superstep, record, strikes, talk
  <1>1. CASE DataAgent
    <2>1. Typed' /\ Control'
      BY <1>1 DEF DataAgent, IInv, Typed, Control, Nodes
    <2>2. RoundOrdersConsecutive' /\ Cut'
      BY <1>1 DEF DataAgent, IInv, RoundOrdersConsecutive, Cut, CutOnlyAtThreshold, Finals, Stopped
    <2> QED
      BY <2>1, <2>2 DEF IInv
  <1>2. CASE ModeratorPre
    <2>1. Typed'
      BY <1>2 DEF ModeratorPre, IInv, Typed, Nodes
    <2>2. Control'
      BY <1>2 DEF ModeratorPre, IInv, Control, Elapsed
    <2>3. RoundOrdersConsecutive'
      BY <1>2 DEF ModeratorPre, IInv, RoundOrdersConsecutive, Control
    <2>4. Cut'
      BY <1>2 DEF ModeratorPre, IInv, Cut, CutOnlyAtThreshold, Finals, Stopped
    <2> QED
      BY <2>1, <2>2, <2>3, <2>4 DEF IInv
  <1>3. CASE BullAgent
    <2>1. node = "bull_agent" /\ turn \in {1, 3} /\ topic \in Nat /\ topic < NumTopics
          /\ steps = 8 * topic + 2 * turn
      BY <1>3 DEF BullAgent, IInv, Control, Typed, Elapsed
    <2>2. /\ topic' = topic /\ turn' = turn + 1 /\ steps' = steps + 1
          /\ Speak("bull", RoundName(turn))
      BY <1>3, <2>1 DEF BullAgent
    <2>3. /\ topic' \in 0 .. NumTopics /\ turn' \in 1 .. 4
          /\ topic' = NumTopics => turn' = 1
          /\ steps' + 1 = 8 * topic' + 2 * turn'
      BY <2>1, <2>2
    <2> QED
      BY <1>3, <2>1, <2>2, <2>3, SpeakIInv DEF BullAgent, Agents
  <1>4. CASE BearAgent
    <2>1. node = "bear_agent" /\ turn \in {2, 4} /\ topic \in Nat /\ topic < NumTopics
          /\ steps = 8 * topic + 2 * turn
      BY <1>4 DEF BearAgent, IInv, Control, Typed, Elapsed
    <2>2. /\ IF turn = 2 THEN topic' = topic /\ turn' = 3
                         ELSE topic' = topic + 1 /\ turn' = 1
          /\ steps' = steps + 1
          /\ Speak("bear", RoundName(turn))
      BY <1>4 DEF BearAgent
    <2>3. /\ topic' \in 0 .. NumTopics /\ turn' \in 1 .. 4
          /\ topic' = NumTopics => turn' = 1
          /\ steps' + 1 = 8 * topic' + 2 * turn'
      BY <2>1, <2>2
    <2> QED
      BY <1>4, <2>1, <2>2, <2>3, SpeakIInv DEF BearAgent, Agents
  <1>5. CASE CheckOk
    <2>1. node = "moderator_check" /\ node' = Router("ok", topic, turn)
          /\ UNCHANGED <<topic, turn>> /\ steps' = steps + 1
      BY <1>5 DEF CheckOk
    <2>2. Control' /\ node' \in Nodes
      BY <2>1, CheckControl
    <2>3. Typed'
      BY <1>5, <2>2 DEF CheckOk, IInv, Typed
    <2>4. RoundOrdersConsecutive'
      BY <1>5, <2>2 DEF CheckOk, IInv, RoundOrdersConsecutive, Nodes, Finals
    <2>5. Cut'
      BY <1>5 DEF CheckOk, IInv, Cut, CutOnlyAtThreshold, Finals, Stopped
    <2> QED
      BY <2>2, <2>3, <2>4, <2>5 DEF IInv
  <1>6. CASE CheckHallucination
    BY <1>6, HallucinationIInv
  <1>7. CASE JudgeAgent
    <2>1. Typed' /\ Control'
      BY <1>7 DEF JudgeAgent, IInv, Typed, Control, Nodes, Finals
    <2>2. RoundOrdersConsecutive' /\ Cut'
      BY <1>7 DEF JudgeAgent, IInv, RoundOrdersConsecutive, Cut, CutOnlyAtThreshold, Finals
    <2> QED
      BY <2>1, <2>2 DEF IInv
  <1>8. CASE ModeratorSummary
    BY <1>8, SummaryIInv
  <1>9. CASE Raise
    <2>1. node' \in {"raised", "overrun"} /\ node \in Nodes
          /\ UNCHANGED <<decision, topic, turn, order, flag, count, total, endedBy,
                        statements, corrections, steps>>
      BY <1>9 DEF Raise
    <2>2. Typed' /\ Control'
      BY <2>1 DEF IInv, Typed, Control, Stopped
    <2>3. RoundOrdersConsecutive'
      BY <2>1 DEF IInv, RoundOrdersConsecutive, Nodes, Finals
    <2>4. Cut'
      BY <2>1 DEF IInv, Cut, CutOnlyAtThreshold, Stopped
    <2> QED
      BY <2>2, <2>3, <2>4 DEF IInv
  <1>10. CASE UNCHANGED vars
    BY <1>10 DEF vars, IInv, Typed, Control, RoundOrdersConsecutive, Cut, CutOnlyAtThreshold,
                 Elapsed, Last
  <1> QED
    BY <1>1, <1>2, <1>3, <1>4, <1>5, <1>6, <1>7, <1>8, <1>9, <1>10 DEF Next, Run

-----------------------------------------------------------------------------
\* The strengthened invariant holds in every state of every debate.
THEOREM InductiveInvariant == Spec => []IInv
  BY InitIInv, NextIInv, PTL DEF Spec

\* The variables have their types and bounds: in particular no topic past the
\* agenda, no tally past the threshold, no superstep past the limit.
THEOREM TypeCorrect == Spec => []TypeOK
  <1>1. IInv => TypeOK
    BY DEF IInv, Typed, Control, Cut, TypeOK, Strikes
  <1> QED
    BY <1>1, InductiveInvariant, PTL

\* The round_order values of a debate are 1, 2, 3, ...: the rows saved one by
\* one never meet the unique constraint uq_statement_order.
THEOREM RoundOrders == Spec => []RoundOrdersConsecutive
  <1>1. IInv => RoundOrdersConsecutive
    BY DEF IInv
  <1> QED
    BY <1>1, InductiveInvariant, PTL

\* A debate is cut exactly when one agent's own tally reaches the threshold.
THEOREM CutAtThreshold == Spec => []CutOnlyAtThreshold
  <1>1. IInv => CutOnlyAtThreshold
    BY DEF IInv, Cut
  <1> QED
    BY <1>1, InductiveInvariant, PTL

\* GraphRecursionError never cuts a debate short, as long as the limit is at
\* least eight supersteps a topic and four more.
THEOREM RecursionLimitSuffices == Spec => []WithinRecursionLimit
  <1>1. IInv => WithinRecursionLimit
    <2> SUFFICES ASSUME IInv, node \in Nodes PROVE steps < RecursionLimit
      BY DEF WithinRecursionLimit
    <2>1. steps \in Nat /\ topic \in 0 .. NumTopics /\ turn \in 1 .. 4
      BY DEF IInv, Typed
    <2>2. CASE node \in {"data_agent", "moderator_pre", "judge_agent", "moderator_summary"}
      BY <2>1, <2>2 DEF IInv, Control
    <2>3. CASE node \in {"bull_agent", "bear_agent"}
      <3>1. topic < NumTopics /\ steps = 8 * topic + 2 * turn
        BY <2>3 DEF IInv, Control, Elapsed
      <3> QED
        BY <2>1, <3>1
    <2>4. CASE node = "moderator_check"
      <3>1. steps + 1 = 8 * topic + 2 * turn /\ (topic = NumTopics => turn = 1)
        BY <2>4 DEF IInv, Control, Elapsed
      <3> QED
        BY <2>1, <3>1, TurnBound
    <2> QED
      BY <2>2, <2>3, <2>4 DEF Nodes, Finals
  <1> QED
    BY <1>1, InductiveInvariant, PTL

-----------------------------------------------------------------------------
(* Strikes and the transcript.                                             *)

\* The statements of an agent in a transcript that an intervention follows.
Struck(s, a) == {i \in 1 .. (Len(s) - 1) :
                    /\ s[i].agent_role = a
                    /\ s[i + 1].agent_role = "moderator"
                    /\ s[i + 1].round # "summary"}

\* The statement under check is a speech, not a summary.
Spoken == node = "moderator_check" => Last.round # "summary"

SInv == IInv /\ Spoken /\ StrikesMatchTranscript

\* A statement more strikes the one before it, if at all.
LEMMA StruckAppend ==
    ASSUME NEW s \in Seq(Statement), NEW e \in Statement, NEW a
    PROVE  /\ IsFiniteSet(Struck(s, a)) /\ Len(s) \notin Struck(s, a)
           /\ Struck(s \o <<e>>, a) =
                  Struck(s, a) \cup
                      {i \in {Len(s)} : i # 0 /\ s[i].agent_role = a
                                       /\ e.agent_role = "moderator" /\ e.round # "summary"}
  <1> DEFINE t == s \o <<e>>
             n == Len(s)
  <1>1. n \in Nat /\ Len(t) = n + 1 /\ (\A i \in 1 .. n : t[i] = s[i]) /\ t[n + 1] = e
    BY AppendOne
  <1> HIDE DEF t
  <1>2. Struck(t, a) = {i \in 1 .. n : /\ t[i].agent_role = a
                                       /\ t[i + 1].agent_role = "moderator"
                                       /\ t[i + 1].round # "summary"}
    BY <1>1 DEF Struck
  <1>3. \A i \in 1 .. n : /\ t[i] = s[i]
                          /\ i # n => t[i + 1] = s[i + 1]
                          /\ i = n => t[i + 1] = e
    BY <1>1
  <1>4. \A i \in 1 .. n : i \in Struck(t, a) <=>
            \/ i # n /\ i \in Struck(s, a)
            \/ i = n /\ s[n].agent_role = a /\ e.agent_role = "moderator" /\ e.round # "summary"
    <2> SUFFICES ASSUME NEW i \in 1 .. n
                 PROVE  i \in Struck(t, a) <=>
                            \/ i # n /\ i \in Struck(s, a)
                            \/ i = n /\ s[n].agent_role = a /\ e.agent_role = "moderator"
                               /\ e.round # "summary"
      OBVIOUS
    <2>1. CASE i = n
      BY <1>2, <1>3, <2>1
    <2>2. CASE i # n
      <3>1. i \in 1 .. (n - 1)
        BY <1>1, <2>2
      <3> QED
        BY <1>2, <1>3, <2>2, <3>1 DEF Struck
    <2> QED
      BY <2>1, <2>2
  <1>5. n \notin Struck(s, a) /\ Struck(s, a) \subseteq 1 .. n /\ Struck(t, a) \subseteq 1 .. n
    BY <1>1, <1>2 DEF Struck
  <1>6. IsFiniteSet(Struck(s, a))
    <2>1. IsFiniteSet(1 .. n)
      BY <1>1, FS_Interval
    <2> QED
      BY <1>5, <2>1, FS_Subset
  <1>7. Struck(t, a) =
            Struck(s, a) \cup
                {i \in {n} : i # 0 /\ s[i].agent_role = a
                            /\ e.agent_role = "moderator" /\ e.round # "summary"}
    BY <1>1, <1>4, <1>5
  <1> QED
    BY <1>5, <1>6, <1>7 DEF t

\* A statement that is no intervention strikes nobody.
LEMMA NoStrike ==
    ASSUME SInv, NEW e \in Statement, Patch(<<e>>, NoFixes), count' = count,
           e.agent_role # "moderator" \/ e.round = "summary"
    PROVE  StrikesMatchTranscript'
  <1>1. statements \in Seq(Statement) /\ corrections \in [Agents -> SUBSET Nat]
    BY DEF SInv, IInv, Typed
  <1>2. statements' = statements \o <<e>>
    BY DEF Patch
  <1>3. \A a \in Agents : corrections'[a] = corrections[a]
    BY <1>1 DEF Patch, NoFixes
  <1>4. ASSUME NEW a \in Agents PROVE Struck(statements', a) = Struck(statements, a)
    <2>1. Struck(statements \o <<e>>, a) =
              Struck(statements, a) \cup
                  {i \in {Len(statements)} : i # 0 /\ statements[i].agent_role = a
                                  /\ e.agent_role = "moderator" /\ e.round # "summary"}
      BY <1>1, StruckAppend
    <2> QED
      BY <1>2, <2>1
  <1>5. \A a \in Agents : corrections[a] = Struck(statements, a)
                          /\ count[a] = Cardinality(Struck(statements, a))
    BY DEF SInv, StrikesMatchTranscript, Struck
  <1>6. \A a \in Agents : corrections'[a] = Struck(statements', a)
                          /\ count'[a] = Cardinality(Struck(statements', a))
    BY <1>3, <1>4, <1>5
  <1> QED
    BY <1>6 DEF StrikesMatchTranscript, Struck

\* An intervention strikes the statement before it, which is the one it corrects.
LEMMA OneStrike ==
    ASSUME SInv, CheckHallucination
    PROVE  StrikesMatchTranscript'
  <1> DEFINE b == CorrectedAgent
             e == [agent_role |-> "moderator", round |-> Last.round,
                   round_order |-> order + 1, topic_index |-> Last.topic_index]
             n == Len(statements)
  <1>1. /\ node = "moderator_check"
        /\ count' = [count EXCEPT ![b] = @ + 1]
        /\ Patch(<<e>>, [NoFixes EXCEPT ![b] = {Last.round_order}])
    BY DEF CheckHallucination, Superstep, StrikesOf
  <1>2. /\ statements \in Seq(Statement) /\ corrections \in [Agents -> SUBSET Nat]
        /\ count \in [Agents -> Nat] /\ order \in Nat
    BY DEF SInv, IInv, Typed
  <1>3. n = order /\ n > 0 /\ n \in Nat
    BY <1>1, <1>2 DEF SInv, IInv, RoundOrdersConsecutive, Control
  <1>4. Last = statements[n] /\ Last \in Statement /\ b = Last.agent_role /\ b \in Agents
    BY <1>1, <1>2, <1>3 DEF SInv, IInv, Control, Last, CorrectedAgent
  <1>5. Last.round_order = n /\ Last.round # "summary"
    BY <1>1, <1>3, <1>4 DEF SInv, Spoken, IInv, RoundOrdersConsecutive
  <1>6. e \in Statement /\ e.agent_role = "moderator" /\ e.round # "summary"
    BY <1>2, <1>4, <1>5 DEF Statement
  <1>7. statements' = statements \o <<e>>
    BY <1>1 DEF Patch
  <1>8. \A a \in Agents : corrections'[a] = IF a = b THEN corrections[a] \cup {n} ELSE corrections[a]
    BY <1>1, <1>2, <1>4, <1>5 DEF Patch, NoFixes
  <1>9. \A a \in Agents : count'[a] = IF a = b THEN count[a] + 1 ELSE count[a]
    BY <1>1, <1>2, <1>4
  <1>10. \A a \in Agents : corrections[a] = Struck(statements, a)
                           /\ count[a] = Cardinality(Struck(statements, a))
    BY DEF SInv, StrikesMatchTranscript, Struck
  <1> HIDE DEF e, n, b
  <1>11. ASSUME NEW a \in Agents
         PROVE  corrections'[a] = Struck(statements', a)
                /\ count'[a] = Cardinality(Struck(statements', a))
    <2>1. /\ IsFiniteSet(Struck(statements, a)) /\ n \notin Struck(statements, a)
          /\ Struck(statements', a) =
                 Struck(statements, a) \cup
                     {i \in {n} : i # 0 /\ statements[i].agent_role = a
                                 /\ e.agent_role = "moderator" /\ e.round # "summary"}
      BY <1>2, <1>6, <1>7, StruckAppend DEF n
    <2>2. CASE a = b
      <3>1. Struck(statements', a) = Struck(statements, a) \cup {n}
        BY <1>3, <1>4, <1>6, <2>1, <2>2
      <3>2. Cardinality(Struck(statements', a)) = Cardinality(Struck(statements, a)) + 1
        BY <2>1, <3>1, FS_AddElement
      <3> QED
        BY <1>8, <1>9, <1>10, <2>2, <3>1, <3>2
    <2>3. CASE a # b
      <3>1. Struck(statements', a) = Struck(statements, a)
        BY <1>4, <2>1, <2>3
      <3> QED
        BY <1>8, <1>9, <1>10, <2>3, <3>1
    <2> QED
      BY <2>2, <2>3
  <1> QED
    BY <1>11 DEF StrikesMatchTranscript, Struck

LEMMA NextSInv == SInv /\ [Next]_vars => SInv'
  <1> SUFFICES ASSUME SInv, [Next]_vars PROVE SInv'
    OBVIOUS
  <1>1. IInv'
    BY NextIInv DEF SInv
  <1>2. ASSUME UNCHANGED <<statements, corrections, count>>, node' # "moderator_check"
        PROVE  SInv'
    BY <1>1, <1>2 DEF SInv, Spoken, StrikesMatchTranscript
  <1>3. ASSUME NEW a \in Agents, Speak(a, RoundName(turn)) PROVE SInv'
    <2> DEFINE e == [agent_role |-> a, round |-> RoundName(turn), round_order |-> order + 1,
                     topic_index |-> topic]
    <2>1. Patch(<<e>>, NoFixes) /\ count' = count
      BY <1>3 DEF Speak, strikes
    <2>2. e \in Statement /\ e.agent_role # "moderator" /\ e.round # "summary"
      BY DEF SInv, IInv, Typed, Statement, RoundName, Rounds, Agents
    <2>3. StrikesMatchTranscript'
      BY <2>1, <2>2, NoStrike
    <2>4. statements \in Seq(Statement) /\ statements' = statements \o <<e>>
      BY <2>1 DEF Patch, SInv, IInv, Typed
    <2>5. Last' = e
      BY <2>2, <2>4, AppendOne DEF Last
    <2> HIDE DEF e
    <2>6. Spoken'
      BY <2>2, <2>5 DEF Spoken
    <2> QED
      BY <1>1, <2>3, <2>6 DEF SInv
  <1>4. CASE DataAgent \/ ModeratorPre \/ JudgeAgent
    BY <1>2, <1>4 DEF DataAgent, ModeratorPre, JudgeAgent, record, strikes
  <1>5. CASE BullAgent
    BY <1>3, <1>5 DEF BullAgent, Agents
  <1>6. CASE BearAgent
    BY <1>3, <1>6 DEF BearAgent, Agents
  <1>7. CASE CheckOk
    <2>1. UNCHANGED <<statements, corrections, count>> /\ node' # "moderator_check"
      BY <1>7 DEF CheckOk, Router, FinalNode, record, strikes
    <2> QED
      BY <1>2, <2>1
  <1>8. CASE CheckHallucination
    <2>1. node' # "moderator_check"
      BY <1>8 DEF CheckHallucination, Router, FinalNode
    <2> QED
      BY <1>1, <1>8, <2>1, OneStrike DEF SInv, Spoken
  <1>9. CASE ModeratorSummary
    <2> DEFINE e == [agent_role |-> "moderator", round |-> "summary",
                     round_order |-> order + 1, topic_index |-> 0]
    <2>1. Patch(<<e>>, NoFixes) /\ count' = count /\ node' = "END"
      BY <1>9 DEF ModeratorSummary, strikes
    <2>2. e \in Statement /\ e.round = "summary"
      BY DEF SInv, IInv, Typed, Statement, Rounds
    <2>3. StrikesMatchTranscript'
      BY <2>1, <2>2, NoStrike
    <2> QED
      BY <1>1, <2>1, <2>3 DEF SInv, Spoken
  <1>10. CASE Raise
    BY <1>2, <1>10 DEF Raise, record, strikes
  <1>11. CASE UNCHANGED vars
    BY <1>1, <1>11 DEF vars, record, strikes, SInv, Spoken, Last, StrikesMatchTranscript
  <1> QED
    BY <1>4, <1>5, <1>6, <1>7, <1>8, <1>9, <1>10, <1>11 DEF Next, Run

\* Tallies and corrections agree with the transcript: each strike of an agent is one
\* intervention right after a statement of that agent, which it corrects.
THEOREM StrikesFollowTranscript == Spec => []StrikesMatchTranscript
  <1>1. Init => SInv
    <2> SUFFICES ASSUME Init PROVE SInv
      OBVIOUS
    <2>1. statements = <<>> /\ Spoken
      BY DEF Init, Spoken
    <2>2. \A a : Struck(statements, a) = {}
      BY <2>1 DEF Struck
    <2>3. \A a \in Agents : corrections[a] = {} /\ count[a] = 0
      BY DEF Init, NoFixes
    <2>4. StrikesMatchTranscript
      BY <2>2, <2>3, FS_EmptySet DEF StrikesMatchTranscript, Struck
    <2> QED
      BY <2>1, <2>4, InitIInv DEF SInv
  <1>2. SInv => StrikesMatchTranscript
    BY DEF SInv
  <1> QED
    BY <1>1, <1>2, NextSInv, PTL DEF Spec

-----------------------------------------------------------------------------
(* The order of the speeches.                                              *)

\* The speeches among the first i statements of a transcript.
Speeches(s, i) == {k \in 1 .. i : s[k].agent_role # "moderator"}

\* What the topic, the agent and the round of the j-th speech should be.
InTurn(e, j) ==
    /\ e.topic_index = (j - 1) \div 4
    /\ e.agent_role = (IF j % 2 = 1 THEN "bull" ELSE "bear")
    /\ e.round = RoundName(((j - 1) % 4) + 1)

\* The turn counts the speeches.
Counted == Cardinality(Speeches(statements, Len(statements))) = 4 * topic + turn - 1

InOrder ==
    \A i \in 1 .. Len(statements) :
        statements[i].agent_role # "moderator" =>
            InTurn(statements[i], Cardinality(Speeches(statements, i)))

\* A debate that nobody cut comes to its end after the last topic.
AfterAll == node \in Finals \union {"END"} /\ endedBy = "nobody" => topic = NumTopics /\ turn = 1

TInv == IInv /\ Counted /\ InOrder /\ AfterAll

\* A statement more is one speech more, unless the moderator made it.
LEMMA SpeechesAppend ==
    ASSUME NEW s \in Seq(Statement), NEW e \in Statement
    PROVE  /\ \A i \in 1 .. Len(s) : Speeches(s \o <<e>>, i) = Speeches(s, i)
           /\ Cardinality(Speeches(s, Len(s))) \in Nat
           /\ Cardinality(Speeches(s \o <<e>>, Len(s) + 1)) =
                  IF e.agent_role = "moderator" THEN Cardinality(Speeches(s, Len(s)))
                                                ELSE Cardinality(Speeches(s, Len(s))) + 1
  <1> DEFINE t == s \o <<e>>
             n == Len(s)
  <1>1. n \in Nat /\ (\A i \in 1 .. n : t[i] = s[i]) /\ t[n + 1] = e
    BY AppendOne
  <1> HIDE DEF t
  <1>2. \A i \in 1 .. n : Speeches(t, i) = Speeches(s, i)
    BY <1>1 DEF Speeches
  <1>3. IsFiniteSet(Speeches(s, n)) /\ n + 1 \notin Speeches(s, n)
    <2>1. IsFiniteSet(1 .. n)
      BY <1>1, FS_Interval
    <2>2. Speeches(s, n) \subseteq 1 .. n
      BY DEF Speeches
    <2>3. n + 1 \notin 1 .. n
      BY <1>1
    <2> QED
      BY <2>1, <2>2, <2>3, FS_Subset
  <1>4. Cardinality(Speeches(s, n)) \in Nat
    BY <1>3, FS_CardinalityType
  <1>5. Speeches(t, n + 1) = IF e.agent_role = "moderator" THEN Speeches(s, n)
                                                           ELSE Speeches(s, n) \cup {n + 1}
    <2>1. \A k \in 1 .. (n + 1) : k \in 1 .. n \/ k = n + 1
      BY <1>1
    <2>2. \A k \in 1 .. n : k \in 1 .. (n + 1)
      BY <1>1
    <2>3. n + 1 \in 1 .. (n + 1)
      BY <1>1
    <2> QED
      BY <1>1, <2>1, <2>2, <2>3 DEF Speeches
  <1>6. Cardinality(Speeches(t, n + 1)) =
            IF e.agent_role = "moderator" THEN Cardinality(Speeches(s, n))
                                          ELSE Cardinality(Speeches(s, n)) + 1
    BY <1>3, <1>5, FS_AddElement
  <1> QED
    BY <1>2, <1>4, <1>6 DEF t

\* A statement of the moderator moves neither the count nor the order of the speeches.
LEMMA ModeratorTurns ==
    ASSUME TInv, NEW e \in Statement, e.agent_role = "moderator",
           statements' = statements \o <<e>>, UNCHANGED <<topic, turn>>
    PROVE  Counted' /\ InOrder'
  <1> DEFINE n == Len(statements)
  <1>1. statements \in Seq(Statement)
    BY DEF TInv, IInv, Typed
  <1>2. /\ n \in Nat /\ Len(statements') = n + 1
        /\ (\A i \in 1 .. n : statements'[i] = statements[i]) /\ statements'[n + 1] = e
    BY <1>1, AppendOne
  <1>3. /\ \A i \in 1 .. n : Speeches(statements', i) = Speeches(statements, i)
        /\ Cardinality(Speeches(statements', n + 1)) = Cardinality(Speeches(statements, n))
    BY <1>1, SpeechesAppend
  <1>4. Counted'
    BY <1>2, <1>3 DEF TInv, Counted
  <1>5. \A i \in 1 .. (n + 1) : i \in 1 .. n \/ i = n + 1
    BY <1>2
  <1>6. InOrder'
    BY <1>2, <1>3, <1>5 DEF TInv, InOrder
  <1> QED
    BY <1>4, <1>6

\* The place of the speech of a turn.
LEMMA TurnOfSpeech ==
    ASSUME NEW tp \in Nat, NEW tn \in 1 .. 4, NEW j \in Nat, j = 4 * tp + tn
    PROVE  (j - 1) \div 4 = tp /\ ((j - 1) % 4) + 1 = tn /\ (j % 2 = 1 <=> tn \in {1, 3})
  OBVIOUS

\* A speech is the one whose turn it is.
LEMMA SpeakTurns ==
    ASSUME TInv, NEW a \in Agents, Speak(a, RoundName(turn)),
           a = "bull" <=> turn \in {1, 3},
           \/ topic' = topic /\ turn' = turn + 1
           \/ turn = 4 /\ topic' = topic + 1 /\ turn' = 1
    PROVE  Counted' /\ InOrder'
  <1> DEFINE n == Len(statements)
             e == [agent_role |-> a, round |-> RoundName(turn), round_order |-> order + 1,
                   topic_index |-> topic]
             j == Cardinality(Speeches(statements, n)) + 1
  <1>1. /\ statements \in Seq(Statement) /\ e \in Statement /\ a # "moderator"
        /\ topic \in Nat /\ turn \in 1 .. 4
    BY DEF TInv, IInv, Typed, Statement, RoundName, Rounds, Agents
  <1>2. statements' = statements \o <<e>>
    BY DEF Speak, Patch
  <1>3. /\ n \in Nat /\ Len(statements') = n + 1
        /\ (\A i \in 1 .. n : statements'[i] = statements[i]) /\ statements'[n + 1] = e
    BY <1>1, <1>2, AppendOne
  <1>4. /\ \A i \in 1 .. n : Speeches(statements', i) = Speeches(statements, i)
        /\ Cardinality(Speeches(statements', n + 1)) = j /\ j \in Nat
    BY <1>1, <1>2, SpeechesAppend
  <1>5. j = 4 * topic + turn
    BY <1>1, <1>4 DEF TInv, Counted
  <1>6. (j - 1) \div 4 = topic /\ ((j - 1) % 4) + 1 = turn /\ (j % 2 = 1 <=> turn \in {1, 3})
    <2>1. j \in Nat /\ topic \in Nat /\ turn \in 1 .. 4 /\ j = 4 * topic + turn
      BY <1>1, <1>4, <1>5
    <2> HIDE DEF j
    <2>2. ASSUME NEW tp \in Nat, NEW tn \in 1 .. 4, j = 4 * tp + tn
          PROVE  (j - 1) \div 4 = tp /\ ((j - 1) % 4) + 1 = tn /\ (j % 2 = 1 <=> tn \in {1, 3})
      BY <2>1, <2>2, TurnOfSpeech
    <2> QED
      BY <2>1, <2>2
  <1>7. InTurn(e, j)
    <2>1. a = IF j % 2 = 1 THEN "bull" ELSE "bear"
      BY <1>6 DEF Agents
    <2> QED
      BY <1>6, <2>1 DEF InTurn
  <1>8. Counted'
    BY <1>1, <1>3, <1>4, <1>5 DEF Counted
  <1> HIDE DEF e, j, n
  <1>9. \A i \in 1 .. (n + 1) : i \in 1 .. n \/ i = n + 1
    BY <1>3
  <1>10. \A i \in 1 .. n : statements[i].agent_role # "moderator" =>
             InTurn(statements[i], Cardinality(Speeches(statements, i)))
    BY DEF TInv, InOrder, n
  <1>11. InOrder'
    BY <1>3, <1>4, <1>7, <1>9, <1>10 DEF InOrder
  <1> QED
    BY <1>8, <1>11

LEMMA NextTInv == TInv /\ [Next]_vars => TInv'
  <1> SUFFICES ASSUME TInv, [Next]_vars PROVE TInv'
    OBVIOUS
  <1>1. IInv'
    BY NextIInv DEF TInv
  <1>2. ASSUME UNCHANGED <<statements, topic, turn>> PROVE Counted' /\ InOrder'
    BY <1>2 DEF TInv, Counted, InOrder
  <1>3. CASE DataAgent
    BY <1>1, <1>2, <1>3 DEF DataAgent, TInv, AfterAll, record, talk, Finals
  <1>4. CASE ModeratorPre
    <2>1. statements' = statements /\ topic' = 0 /\ turn' = 1 /\ node' = "bull_agent"
          /\ node = "moderator_pre"
      BY <1>4 DEF ModeratorPre, Superstep, record
    <2>2. Len(statements) = 0
      BY <2>1 DEF TInv, IInv, Control, RoundOrdersConsecutive
    <2>3. Len(statements') = 0 /\ Speeches(statements', 0) = {} /\ Cardinality({}) = 0
      BY <2>1, <2>2, FS_EmptySet DEF Speeches
    <2>4. Counted'
      <3>1. Cardinality(Speeches(statements', Len(statements'))) = 0
        BY <2>3
      <3>2. 4 * topic' + turn' - 1 = 0
        BY <2>1
      <3> QED
        BY <3>1, <3>2 DEF Counted
    <2>5. InOrder'
      BY <2>3 DEF InOrder
    <2> QED
      BY <1>1, <2>1, <2>4, <2>5 DEF TInv, AfterAll, Finals
  <1>5. CASE BullAgent
    <2>1. turn \in {1, 3} /\ topic' = topic /\ turn' = turn + 1 /\ Speak("bull", RoundName(turn))
      BY <1>5 DEF BullAgent, Superstep, TInv, IInv, Control
    <2>2. Counted' /\ InOrder'
      BY <2>1, SpeakTurns DEF Agents
    <2> QED
      BY <1>1, <2>1, <2>2 DEF TInv, AfterAll, Speak, Finals
  <1>6. CASE BearAgent
    <2>1. /\ turn \in {2, 4} /\ Speak("bear", RoundName(turn))
          /\ \/ topic' = topic /\ turn' = turn + 1
             \/ turn = 4 /\ topic' = topic + 1 /\ turn' = 1
      BY <1>6 DEF BearAgent, Superstep, TInv, IInv, Control
    <2>2. Counted' /\ InOrder'
      BY <2>1, SpeakTurns DEF Agents
    <2> QED
      BY <1>1, <2>1, <2>2 DEF TInv, AfterAll, Speak, Finals
  <1>7. CASE CheckOk
    <2>1. /\ node = "moderator_check" /\ node' = Router("ok", topic, turn)
          /\ UNCHANGED <<statements, topic, turn, endedBy>>
      BY <1>7 DEF CheckOk, Superstep, record, strikes
    <2>2. topic \in 0 .. NumTopics /\ turn \in 1 .. 4 /\ (topic = NumTopics => turn = 1)
      BY <2>1 DEF TInv, IInv, Typed, Control
    <2>3. node' # "END" /\ (node' \in Finals => topic = NumTopics)
      BY <2>1, <2>2, RouterChoice DEF Finals
    <2> QED
      BY <1>1, <1>2, <2>1, <2>2, <2>3 DEF TInv, AfterAll
  <1>8. CASE CheckHallucination
    <2>1. /\ node = "moderator_check" /\ node' = Router(flag', topic, turn)
          /\ UNCHANGED <<topic, turn>>
          /\ flag' = "end" => endedBy' = CorrectedAgent
      BY <1>8 DEF CheckHallucination, Superstep
    <2>2. /\ topic \in 0 .. NumTopics /\ turn \in 1 .. 4 /\ (topic = NumTopics => turn = 1)
          /\ order \in Nat /\ order > 0 /\ Len(statements) = order
          /\ statements \in Seq(Statement) /\ Last.agent_role \in Agents
      BY <2>1 DEF TInv, IInv, Typed, Control, RoundOrdersConsecutive
    <2>3. node' # "END" /\ (node' \in Finals => topic = NumTopics \/ flag' = "end")
      BY <2>1, <2>2, RouterChoice DEF Finals
    <2>4. AfterAll'
      BY <2>1, <2>2, <2>3 DEF AfterAll, CorrectedAgent, Agents
    <2> DEFINE e == [agent_role |-> "moderator", round |-> Last.round,
                     round_order |-> order + 1, topic_index |-> Last.topic_index]
    <2>5. statements' = statements \o <<e>>
      BY <1>8 DEF CheckHallucination, Patch
    <2>6. Last \in Statement
      BY <2>2 DEF Last
    <2>7. e \in Statement /\ e.agent_role = "moderator"
      BY <2>2, <2>6 DEF Statement
    <2> HIDE DEF e
    <2>8. Counted' /\ InOrder'
      BY <2>1, <2>5, <2>7, ModeratorTurns
    <2> QED
      BY <1>1, <2>4, <2>8 DEF TInv
  <1>9. CASE JudgeAgent
    <2>1. node = "judge_agent" /\ UNCHANGED <<statements, topic, turn, endedBy>>
      BY <1>9 DEF JudgeAgent, Superstep, record, talk, strikes
    <2> QED
      BY <1>1, <1>2, <2>1 DEF TInv, AfterAll, Finals
  <1>10. CASE ModeratorSummary
    <2> DEFINE e == [agent_role |-> "moderator", round |-> "summary",
                     round_order |-> order + 1, topic_index |-> 0]
    <2>1. /\ node = "moderator_summary" /\ statements' = statements \o <<e>>
          /\ UNCHANGED <<topic, turn, endedBy>>
      BY <1>10 DEF ModeratorSummary, Superstep, Patch, talk, strikes
    <2>2. e \in Statement /\ e.agent_role = "moderator"
      BY DEF TInv, IInv, Typed, Statement, Rounds
    <2> HIDE DEF e
    <2>3. Counted' /\ InOrder'
      BY <2>1, <2>2, ModeratorTurns
    <2> QED
      BY <1>1, <2>1, <2>3 DEF TInv, AfterAll, Finals
  <1>11. CASE Raise
    <2>1. node' \in {"raised", "overrun"} /\ UNCHANGED <<statements, topic, turn>>
      BY <1>11 DEF Raise, record, talk
    <2> QED
      BY <1>1, <1>2, <2>1 DEF TInv, AfterAll, Finals
  <1>12. CASE UNCHANGED vars
    BY <1>1, <1>2, <1>12 DEF vars, record, talk, strikes, TInv, AfterAll
  <1> QED
    BY <1>3, <1>4, <1>5, <1>6, <1>7, <1>8, <1>9, <1>10, <1>11, <1>12 DEF Next, Run

LEMMA InvariantTInv == Spec => []TInv
  <1>1. Init => TInv
    <2> SUFFICES ASSUME Init PROVE TInv
      OBVIOUS
    <2>1. Len(statements) = 0 /\ topic = 0 /\ turn = 1 /\ node = "data_agent"
      BY DEF Init
    <2>2. Speeches(statements, 0) = {}
      BY DEF Speeches
    <2>3. Counted /\ InOrder
      BY <2>1, <2>2, FS_EmptySet DEF Counted, InOrder
    <2> QED
      BY <2>1, <2>3, InitIInv DEF TInv, AfterAll, Finals
  <1> QED
    BY <1>1, NextTInv, PTL DEF Spec

\* Bull, bear, bull, bear on the first topic, the same on the second, and so on, whatever
\* the moderator interjects, for any number of topics.
THEOREM TurnsInOrder == Spec => []FourTurnsPerTopic
  <1>1. TInv => FourTurnsPerTopic
    BY DEF TInv, InOrder, InTurn, Speeches, FourTurnsPerTopic, SpeechesUpTo
  <1> QED
    BY <1>1, InvariantTInv, PTL

\* Unless an agent's third strike cuts it, a debate has four speeches on each topic before
\* the judge or the summary comes.
THEOREM NothingLeftOut == Spec => []NoTopicLeftOut
  <1>1. TInv => NoTopicLeftOut
    <2> SUFFICES ASSUME TInv, node \in Finals \union {"END"}, endedBy = "nobody"
                 PROVE  SpeechesUpTo(Len(statements)) = 4 * NumTopics
      BY DEF NoTopicLeftOut
    <2>1. topic = NumTopics /\ turn = 1
      BY DEF TInv, AfterAll
    <2>2. SpeechesUpTo(Len(statements)) = Cardinality(Speeches(statements, Len(statements)))
      BY DEF SpeechesUpTo, Speeches
    <2> QED
      BY <2>1, <2>2 DEF TInv, Counted
  <1> QED
    BY <1>1, InvariantTInv, PTL

=============================================================================
