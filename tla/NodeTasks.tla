------------------------------ MODULE NodeTasks ------------------------------
(***************************************************************************)
(* The pull-based dispatch of work to fleet nodes (src/nodes/dispatch.go)  *)
(* and the agent loop that polls for the work, executes it and reports it  *)
(* (src/agent/reporter over src/agent/transport).  The nodes themselves    *)
(* are seen through NodeView, which NodeRegistry implements.               *)
(*                                                                         *)
(* Timestamps are replaced by what the code asks of them: whether the      *)
(* backoff of a task is over (next_attempt_at) and whether the deadline of *)
(* its current attempt has passed (deadline_at).                           *)
(***************************************************************************)
EXTENDS NodeView, Naturals, Sequences

CONSTANTS
  Tasks,           \* identifiers newID() can return to Dispatch
  Reqs,            \* agent requests the panel can be serving at once
  MaxTaskAttempts, \* largest delivery budget a dispatch may ask for
  MaxClaimBatch,   \* tasks one poll may claim
  MaxTasksPerPoll, \* tasks of one answer an agent accepts
  NoReq            \* the agent is not waiting for an answer

ASSUME TasksAssumption ==
  /\ MaxTaskAttempts \in Nat \ {0}
  /\ MaxClaimBatch \in Nat
  /\ MaxTasksPerPoll \in Nat
  /\ NoReq \notin Reqs
  /\ Nodes # {}

VARIABLES
  task,     \* node_tasks
  req,      \* requests being served, each with the Identity it authenticated
  agent,    \* the reporter loop of every node
  runs      \* the attempts of a task its agent executed, in order (history)

queueVars == <<task, req, agent, runs>>
vars == <<view, credential, drain, removal, task, req, agent, runs>>

Terminal == {"succeeded", "failed", "cancelled"}
TaskStates == {"none", "checked", "queued", "dispatched"} \cup Terminal

AnyNode == CHOOSE n \in Nodes : TRUE
NoTask == [state |-> "none", node |-> AnyNode, attempts |-> 0, max |-> 1,
           ready |-> FALSE, late |-> FALSE]
IdleReq == [kind |-> "idle", node |-> AnyNode, identity |-> "removed",
            claimed |-> <<>>, success |-> FALSE]
IdleAgent == [wait |-> NoReq, batch |-> <<>>, outcome |-> "none"]

Init ==
  /\ ViewInit
  /\ task = [t \in Tasks |-> NoTask]
  /\ req = [r \in Reqs |-> IdleReq]
  /\ agent = [n \in Nodes |-> IdleAgent]
  /\ runs = [t \in Tasks |-> <<>>]

-----------------------------------------------------------------------------
(* Dispatch: the node is checked on one read, the row is inserted later.    *)

DispatchCheck(t, n) ==
  /\ task[t].state = "none"
  /\ view[n] = "open"
  /\ \E budget \in 1..MaxTaskAttempts :
       task' = [task EXCEPT ![t] = [NoTask EXCEPT !.state = "checked",
                                                  !.node = n, !.max = budget]]
  /\ UNCHANGED <<viewVars, req, agent, runs>>

DispatchInsert(t) ==
  /\ task[t].state = "checked"
  /\ task' = [task EXCEPT ![t] = [@ EXCEPT !.state = "queued", !.ready = TRUE]]
  /\ UNCHANGED <<viewVars, req, agent, runs>>

\* Mutant: one attempt too many.
failAttemptOffByOne(t) ==
  IF task[t].attempts <= task[t].max
    THEN [task EXCEPT ![t] = [@ EXCEPT !.state = "queued", !.ready = FALSE,
                                       !.late = FALSE]]
    ELSE [task EXCEPT ![t] = [@ EXCEPT !.state = "failed", !.late = FALSE]]

\* Back to the queue with a backoff while the budget lasts, else failed.
failAttempt(t) ==
  IF task[t].attempts < task[t].max
    THEN [task EXCEPT ![t] = [@ EXCEPT !.state = "queued", !.ready = FALSE,
                                       !.late = FALSE]]
    ELSE [task EXCEPT ![t] = [@ EXCEPT !.state = "failed", !.late = FALSE]]

\* Mutant: the reaper only looks at tasks it can requeue.
ReapTaskRetryable(t) ==
  /\ task[t].state = "dispatched"
  /\ task[t].late
  /\ task[t].attempts < task[t].max
  /\ task' = failAttempt(t)
  /\ UNCHANGED <<viewVars, req, agent, runs>>

\* One task of a ReapTasks pass.
ReapTask(t) ==
  /\ task[t].state = "dispatched"
  /\ task[t].late
  /\ task' = failAttempt(t)
  /\ UNCHANGED <<viewVars, req, agent, runs>>

CancelTask(t) ==
  /\ task[t].state \in {"queued", "dispatched"}
  /\ task' = [task EXCEPT ![t] = [@ EXCEPT !.state = "cancelled", !.late = FALSE]]
  /\ UNCHANGED <<viewVars, req, agent, runs>>

\* One UPDATE over every queued row of the node.
cancelQueued(n) ==
  [t \in Tasks |-> IF task[t].node = n /\ task[t].state = "queued"
                     THEN [task[t] EXCEPT !.state = "cancelled"]
                     ELSE task[t]]

DrainCancelQueued(n) ==
  /\ DrainCancel(n)
  /\ task' = cancelQueued(n)
  /\ UNCHANGED <<req, agent, runs>>

RemoveCancelQueued(n) ==
  /\ RemoveCancel(n)
  /\ task' = cancelQueued(n)
  /\ UNCHANGED <<req, agent, runs>>

-----------------------------------------------------------------------------
(* The agent: one loop, one client call at a time.  Authenticate runs when  *)
(* the request arrives; its Identity carries the node row it read.          *)

Send(n, r, kind, entries, ok) ==
  /\ agent[n].wait = NoReq
  /\ req[r].kind = "idle"
  /\ credential[n]
  /\ view[n] # "removed"
  /\ req' = [req EXCEPT ![r] = [kind |-> kind, node |-> n, identity |-> view[n],
                                claimed |-> entries, success |-> ok]]
  /\ agent' = [agent EXCEPT ![n].wait = r]
  /\ UNCHANGED <<viewVars, task, runs>>

AgentPoll(n, r) == agent[n].batch = <<>> /\ Send(n, r, "poll", <<>>, FALSE)

\* Executor.Execute on the head of the batch; a refusal counts as a failure.
AgentExecute(n, ok) ==
  /\ agent[n].batch # <<>>
  /\ agent[n].outcome = "none"
  /\ agent' = [agent EXCEPT ![n].outcome = IF ok THEN "ok" ELSE "error"]
  /\ runs' = [runs EXCEPT ![Head(agent[n].batch).task] =
                             Append(@, Head(agent[n].batch).attempt)]
  /\ UNCHANGED <<viewVars, task, req>>

\* Mutant: the result is reported before the task is executed.
AgentReportEarly(n, r) ==
  /\ agent[n].batch # <<>>
  /\ Send(n, r, "report", <<Head(agent[n].batch)>>, agent[n].outcome # "error")

\* ReportTaskResult, and its retries when no answer came.
AgentReport(n, r) ==
  /\ agent[n].batch # <<>>
  /\ agent[n].outcome # "none"
  /\ Send(n, r, "report", <<Head(agent[n].batch)>>, agent[n].outcome = "ok")

\* The client's timeout: the panel may still be working on the request.
AgentGiveUp(n) ==
  /\ agent[n].wait # NoReq
  /\ agent' = [agent EXCEPT ![n].wait = NoReq]
  /\ UNCHANGED <<viewVars, task, req, runs>>

\* RunTasks returns the error of a report, or the agent restarts: what is
\* left of the batch is forgotten.
AgentAbandon(n) ==
  /\ agent[n] # IdleAgent
  /\ agent' = [agent EXCEPT ![n] = IdleAgent]
  /\ UNCHANGED <<viewVars, task, req, runs>>

\* The answer reaches the agent only if it still waits for it.
Answer(r, reply) ==
  /\ req' = [req EXCEPT ![r] = IdleReq]
  /\ agent' = [n \in Nodes |-> IF agent[n].wait = r THEN reply ELSE agent[n]]

\* Claim: the state check uses the Identity, the UPDATE the current row.
ClaimTask(r, t) ==
  /\ req[r].kind = "poll"
  /\ req[r].identity \notin {"removed", "drained"}
  /\ task[t].node = req[r].node
  /\ task[t].state = "queued"
  /\ task[t].ready
  /\ Len(req[r].claimed) < MaxClaimBatch
  /\ \A i \in 1..Len(req[r].claimed) : req[r].claimed[i].task # t
  /\ task' = [task EXCEPT ![t] = [@ EXCEPT !.state = "dispatched",
                                          !.attempts = task[t].attempts + 1]]
  /\ req' = [req EXCEPT ![r].claimed =
                Append(@, [task |-> t, attempt |-> task[t].attempts + 1])]
  /\ UNCHANGED <<viewVars, agent, runs>>

\* RunTasks drops what it was handed beyond MaxTasksPerPoll.
Accepted(entries) ==
  IF Len(entries) > MaxTasksPerPoll THEN SubSeq(entries, 1, MaxTasksPerPoll)
                                    ELSE entries

PollReturn(r) ==
  /\ req[r].kind = "poll"
  /\ Answer(r, [IdleAgent EXCEPT !.batch = Accepted(req[r].claimed)])
  /\ UNCHANGED <<viewVars, task, runs>>

\* Mutant: a report is accepted whatever became of the task.
ReportAcceptAny(r) ==
  LET t == Head(req[r].claimed).task IN
  /\ req[r].kind = "report"
  /\ task' = IF req[r].success
               THEN [task EXCEPT ![t] = [@ EXCEPT !.state = "succeeded", !.late = FALSE]]
               ELSE failAttempt(t)
  /\ Answer(r, [IdleAgent EXCEPT !.batch = Tail(agent[req[r].node].batch)])
  /\ UNCHANGED <<viewVars, runs>>

\* Mutant: the agent does not move on to the next task of its batch.
ReportAcceptRepeat(r) ==
  LET t == Head(req[r].claimed).task IN
  /\ req[r].kind = "report"
  /\ task[t].state = "dispatched"
  /\ task' = IF req[r].success
               THEN [task EXCEPT ![t] = [@ EXCEPT !.state = "succeeded", !.late = FALSE]]
               ELSE failAttempt(t)
  /\ Answer(r, [IdleAgent EXCEPT !.batch = agent[req[r].node].batch])
  /\ UNCHANGED <<viewVars, runs>>

\* Report on a task that is dispatched, whichever attempt that is.
ReportAccept(r) ==
  LET t == Head(req[r].claimed).task IN
  /\ req[r].kind = "report"
  /\ task[t].state = "dispatched"
  /\ task' = IF req[r].success
               THEN [task EXCEPT ![t] = [@ EXCEPT !.state = "succeeded", !.late = FALSE]]
               ELSE failAttempt(t)
  /\ Answer(r, [IdleAgent EXCEPT !.batch = Tail(agent[req[r].node].batch)])
  /\ UNCHANGED <<viewVars, runs>>

\* ErrTaskNotClaimed: the agent drops the rest of its batch.
ReportRefuse(r) ==
  /\ req[r].kind = "report"
  /\ task[Head(req[r].claimed).task].state # "dispatched"
  /\ Answer(r, IdleAgent)
  /\ UNCHANGED <<viewVars, task, runs>>

-----------------------------------------------------------------------------
(* The passage of time.                                                     *)

BackoffOver(t) ==
  /\ task[t].state = "queued"
  /\ ~task[t].ready
  /\ task' = [task EXCEPT ![t].ready = TRUE]
  /\ UNCHANGED <<viewVars, req, agent, runs>>

DeadlinePassed(t) ==
  /\ task[t].state = "dispatched"
  /\ ~task[t].late
  /\ task' = [task EXCEPT ![t].late = TRUE]
  /\ UNCHANGED <<viewVars, req, agent, runs>>

-----------------------------------------------------------------------------
TaskStep(t) ==
  \/ \E n \in Nodes : DispatchCheck(t, n)
  \/ DispatchInsert(t)
  \/ ReapTask(t)
  \/ CancelTask(t)
  \/ BackoffOver(t)
  \/ DeadlinePassed(t)

AgentStep(n) ==
  \/ \E r \in Reqs : AgentPoll(n, r)
  \/ \E r \in Reqs : AgentReport(n, r)
  \/ \E ok \in BOOLEAN : AgentExecute(n, ok)
  \/ AgentGiveUp(n)
  \/ AgentAbandon(n)

RequestStep(r) ==
  \/ \E t \in Tasks : ClaimTask(r, t)
  \/ PollReturn(r)
  \/ ReportAccept(r)
  \/ ReportRefuse(r)

NodeStep(n) ==
  \/ ViewOnlyStep(n) /\ UNCHANGED queueVars
  \/ DrainCancelQueued(n)
  \/ RemoveCancelQueued(n)

Next ==
  \/ \E t \in Tasks : TaskStep(t)
  \/ \E n \in Nodes : AgentStep(n)
  \/ \E r \in Reqs : RequestStep(r)
  \/ \E n \in Nodes : NodeStep(n)

Spec == Init /\ [][Next]_vars

\* The reaper is a recurring scheduler task and clocks advance; agents and
\* operators owe nothing.
ReaperFairness ==
  \A t \in Tasks : WF_vars(ReapTask(t)) /\ WF_vars(DeadlinePassed(t))

LiveSpec == Spec /\ ReaperFairness

-----------------------------------------------------------------------------
(* Properties.                                                              *)

Entries == [task : Tasks, attempt : 1..MaxTaskAttempts]
TaskRows == [state : TaskStates, node : Nodes, attempts : 0..MaxTaskAttempts,
             max : 1..MaxTaskAttempts, ready : BOOLEAN, late : BOOLEAN]
Requests == [kind : {"idle", "poll", "report"}, node : Nodes,
             identity : {"open", "closed", "drained", "removed"},
             claimed : Seq(Entries), success : BOOLEAN]
Agents == [wait : Reqs \cup {NoReq}, batch : Seq(Entries),
           outcome : {"none", "ok", "error"}]

\* Type correctness of the task rows, the requests being served and the
\* agent loops; no attempt number exceeds the largest budget.
TypeOK ==
  /\ ViewTypeOK
  /\ task \in [Tasks -> TaskRows]
  /\ req \in [Reqs -> Requests]
  /\ agent \in [Nodes -> Agents]
  /\ runs \in [Tasks -> Seq(1..MaxTaskAttempts)]

\* The delivery budget is kept whatever mix of reports, reaping, claims and
\* cancellations a task goes through: a waiting task always has an attempt
\* left, a claimed one used at least one and at most max, and a task is only
\* failed once the budget is spent (Claim, failAttempt).
AttemptBudget ==
  \A t \in Tasks :
    /\ task[t].state \in {"checked", "queued"} => task[t].attempts < task[t].max
    /\ task[t].state = "dispatched" => task[t].attempts \in 1..task[t].max
    /\ task[t].state = "failed" => task[t].attempts = task[t].max

\* However often polls and reports are lost, retried or answered late, an
\* agent executes an attempt at most once, in the order of the claims, and
\* never one the panel did not hand out (Claim, RunTasks, ReportTaskResult).
AttemptsRunInOrder ==
  \A t \in Tasks :
    /\ \A i, j \in 1..Len(runs[t]) : i < j => runs[t][i] < runs[t][j]
    /\ \A i \in 1..Len(runs[t]) : runs[t][i] <= task[t].attempts

\* A task is recorded as succeeded only if its agent really executed it.
SucceededWasRun ==
  \A t \in Tasks : task[t].state = "succeeded" => runs[t] # <<>>

\* A finished task is never reopened, re-failed or cancelled by a late report,
\* the reaper, a drain or an operator (Task.Terminal, Report, CancelTask).
TerminalIsFinal ==
  [][\A t \in Tasks : task[t].state \in Terminal => task'[t] = task[t]]_vars

\* ReapTasks "is how a node that accepted work and then vanished stops holding
\* it forever": a claimed task does not stay claimed.
NotHeldForever ==
  \A t \in Tasks : task[t].state = "dispatched" ~> task[t].state # "dispatched"

\* StateDrained: a drained node "receives no new dispatches".
DrainedReceivesNoDispatch ==
  [][\A t \in Tasks : DispatchInsert(t) => view[task[t].node] # "drained"]_vars

\* Drain leaves claimed tasks alone: "the reaper handles them if they never
\* report", so a claimed task of a node that stays drained comes to an end.
DrainedWorkEnds ==
  \A t \in Tasks :
    []((task[t].state = "dispatched" /\ [](view[task[t].node] = "drained"))
         => <>(task[t].state \in Terminal))
==============================================================================
