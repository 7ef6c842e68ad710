---------------------------- MODULE NotionPublish ----------------------------
(***************************************************************************)
(* Publishing a debate to Notion (api/debate.py, publish_debate_to_notion and *)
(* delete_debate; integrations/notion_mcp.py).                             *)
(*                                                                         *)
(* A publisher locks the row of its session, has Notion create a page, and  *)
(* commits the page's id.  Notion takes no part in the transaction.         *)
(***************************************************************************)
EXTENDS Naturals, FiniteSets

CONSTANTS
    Publishers,     \* publish requests
    Deleters,       \* delete requests
    NoTask,
    MaxFaults

Tasks == Publishers \cup Deleters
Ended == {"published", "deleted", "not_found", "conflict", "failed", "lost"}

VARIABLES
    status,     \* of the session: running, completed; deleted
    stored,     \* its notion_page_id
    lock,       \* the task whose transaction has the row locked
    pc,         \* start, create, reply, commit, or how the request has ended
    cut,        \* tasks whose connection to the database is gone
    mine,       \* the page created for a request
    late,       \* requests that gave up and whose page Notion may still create
    pages,      \* the number of pages at Notion
    lost,       \* history: pages whose id a fault has kept from being stored
    answer,     \* the page a client was told
    faults

vars == <<status, stored, lock, pc, cut, mine, late, pages, lost, answer, faults>>

NoPage == 0
Pages == 0..Cardinality(Publishers)

TypeOK ==
    /\ status \in {"running", "completed", "deleted"} /\ stored \in Pages
    /\ lock \in Tasks \cup {NoTask} /\ cut \subseteq Tasks
    /\ pc \in [Tasks -> {"start", "create", "reply", "commit"} \cup Ended]
    /\ mine \in [Publishers -> Pages] /\ answer \in [Publishers -> Pages]
    /\ late \subseteq Publishers /\ pages \in Pages /\ lost \subseteq Pages

Init ==
    /\ status = "running" /\ stored = NoPage /\ lock = NoTask /\ cut = {}
    /\ pc = [t \in Tasks |-> "start"] /\ mine = [t \in Publishers |-> NoPage]
    /\ answer = [t \in Publishers |-> NoPage]
    /\ late = {} /\ pages = 0 /\ lost = {} /\ faults = 0

Goto(t, label) == pc' = [pc EXCEPT ![t] = label]
Fault == faults < MaxFaults /\ faults' = faults + 1
Unlock(t) == lock' = IF lock = t THEN NoTask ELSE lock
Tell(t, page) == answer' = [answer EXCEPT ![t] = page]

\* The debate completes; its summary is stored by then (DebateRuntime).
Complete ==
    /\ status = "running" /\ status' = "completed"
    /\ UNCHANGED <<stored, lock, pc, cut, mine, late, pages, lost, answer, faults>>

-----------------------------------------------------------------------------
(* publish_debate_to_notion                                                 *)

\* A bug to compare with: SELECT without FOR UPDATE.
LocksNothing(t) == UNCHANGED lock

Locks(t) == lock = NoTask /\ lock' = t

\* What the locked row says decides; an answer without a page ends the transaction.
Select(t) ==
    /\ pc[t] = "start" /\ lock = NoTask
    /\ \/ status = "deleted" /\ Goto(t, "not_found") /\ UNCHANGED <<lock, answer>>
       \/ status = "running" /\ Goto(t, "conflict") /\ UNCHANGED <<lock, answer>>
       \/ /\ status = "completed" /\ stored # NoPage
          /\ Goto(t, "published") /\ Tell(t, stored) /\ UNCHANGED lock
       \/ /\ status = "completed" /\ stored = NoPage
          /\ Goto(t, "create") /\ Locks(t) /\ UNCHANGED answer
    /\ UNCHANGED <<status, stored, cut, mine, late, pages, lost, faults>>

\* Notion creates the page.
Create(t) ==
    /\ pc[t] = "create" /\ Goto(t, "reply")
    /\ pages' = pages + 1 /\ mine' = [mine EXCEPT ![t] = pages + 1]
    /\ UNCHANGED <<status, stored, lock, cut, late, lost, answer, faults>>

Reply(t) ==
    /\ pc[t] = "reply" /\ Goto(t, "commit")
    /\ UNCHANGED <<status, stored, lock, cut, mine, late, pages, lost, answer, faults>>

\* NotionMcpError: not configured, refused, timed out before or after the page was
\* created, or no id in the answer; an error of another kind ends the request as well.
GiveUp(t) ==
    /\ pc[t] \in {"create", "reply"} /\ Fault
    /\ Goto(t, "failed") /\ Unlock(t) /\ lost' = lost \cup ({mine[t]} \ {NoPage})
    /\ late' = IF pc[t] = "create" THEN late \cup {t} ELSE late
    /\ UNCHANGED <<status, stored, cut, mine, pages, answer>>

\* The request to Notion outlives the one that gave it up.
CreateLate(t) ==
    /\ t \in late /\ late' = late \ {t}
    /\ pages' = pages + 1 /\ lost' = lost \cup {pages + 1}
    /\ UNCHANGED <<status, stored, lock, pc, cut, mine, answer, faults>>

Commit(t) ==
    /\ pc[t] = "commit"
    /\ \/ /\ t \notin cut /\ stored' = mine[t] /\ Goto(t, "published") /\ Tell(t, mine[t])
          /\ UNCHANGED <<lost, faults>>
       \/ /\ IF t \in cut THEN UNCHANGED faults ELSE Fault
          /\ Goto(t, "failed") /\ lost' = lost \cup {mine[t]} /\ UNCHANGED <<stored, answer>>
    /\ Unlock(t)
    /\ UNCHANGED <<status, cut, mine, late, pages>>

\* The connection is lost during the minutes that Notion takes: PostgreSQL releases the
\* row, and the request finds out when it commits.
Disconnect(t) ==
    /\ pc[t] \in {"create", "reply", "commit"} /\ t \notin cut /\ Fault
    /\ cut' = cut \cup {t} /\ Unlock(t)
    /\ UNCHANGED <<status, stored, pc, mine, late, pages, lost, answer>>

\* The process dies.
Crash(t) ==
    /\ pc[t] \in {"create", "reply", "commit"} /\ Fault
    /\ Goto(t, "lost") /\ Unlock(t) /\ lost' = lost \cup ({mine[t]} \ {NoPage})
    /\ late' = IF pc[t] = "create" THEN late \cup {t} ELSE late
    /\ UNCHANGED <<status, stored, cut, mine, pages, answer>>

-----------------------------------------------------------------------------
(* delete_debate                                                            *)

\* The DELETE waits for the lock of the row; the page at Notion stays.
Delete(t) ==
    /\ pc[t] = "start" /\ lock = NoTask
    /\ IF status = "deleted" THEN Goto(t, "not_found") /\ UNCHANGED <<status, stored>>
       ELSE Goto(t, "deleted") /\ status' = "deleted" /\ stored' = NoPage
    /\ UNCHANGED <<lock, cut, mine, late, pages, lost, answer, faults>>

Next ==
    \/ Complete
    \/ \E t \in Publishers : \/ Select(t) \/ Create(t) \/ Reply(t) \/ GiveUp(t)
                             \/ CreateLate(t) \/ Commit(t) \/ Disconnect(t) \/ Crash(t)
    \/ \E t \in Deleters : Delete(t)

Spec == Init /\ [][Next]_vars

-----------------------------------------------------------------------------
(* Properties                                                               *)

\* However many requests publish a session, each page at Notion is the one its row has,
\* or a request's that is still running, or its id was lost to a fault, or its session
\* was deleted; and all requests that were told a page were told the one stored.
OnePagePerSession ==
    status # "deleted" =>
        /\ \A p \in 1..pages :
              \/ p = stored \/ p \in lost
              \/ \E t \in Publishers : mine[t] = p /\ pc[t] \in {"reply", "commit"}
        /\ \A t \in Publishers : pc[t] = "published" => answer[t] = stored
=============================================================================
