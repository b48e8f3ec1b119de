--------------------------- MODULE NodeTasksProofs ---------------------------
(***************************************************************************)
(* For every number of nodes, tasks, concurrent requests and every attempt *)
(* budget: the task queue is well typed, keeps its delivery budget,        *)
(* records success only for work an agent executed, and has the attempts   *)
(* of a task executed in order, each at most once.  And every step of the  *)
(* registry of nodes is a step of the view that the queue is built on,     *)
(* whose sweep leaves withdrawn nodes alone.                               *)
(***************************************************************************)
EXTENDS NodeTasks, FleetPart, TLAPS

\* The agent waits for a request of its own node that is still being served,
\* and what it reports is the head of its batch, which it has executed.
AgentLink ==
  /\ \A n \in Nodes : agent[n].wait # NoReq =>
       /\ req[agent[n].wait].node = n
       /\ req[agent[n].wait].kind = "report" => agent[n].batch # <<>>
       /\ req[agent[n].wait].kind # "idle"
  /\ \A n \in Nodes : agent[n].outcome # "none" =>
       /\ agent[n].batch # <<>>
       /\ runs[Head(agent[n].batch).task] # <<>>
  /\ \A r \in Reqs : req[r].kind = "report" =>
       /\ req[r].claimed # <<>>
       /\ runs[Head(req[r].claimed).task] # <<>>

IInv == TypeOK /\ AttemptBudget /\ SucceededWasRun /\ AgentLink

\* The empty rows the tables start from are well typed.
LEMMA EmptyRowsTyped ==
  /\ AnyNode \in Nodes
  /\ NoTask \in TaskRows
  /\ IdleReq \in Requests
  /\ IdleAgent \in Agents
<1>1. AnyNode \in Nodes
  BY TasksAssumption DEF AnyNode
<1>2. NoTask \in TaskRows
  BY <1>1, TasksAssumption DEF NoTask, TaskRows, TaskStates
<1>3. IdleReq \in Requests
  BY <1>1 DEF IdleReq, Requests
<1>4. IdleAgent \in Agents
  BY DEF IdleAgent, Agents
<1>5. QED
  BY <1>1, <1>2, <1>3, <1>4

\* The inductive invariant holds of an empty queue.
LEMMA InitIInv == Init => IInv
<1> SUFFICES ASSUME Init PROVE IInv
  OBVIOUS
<1> USE EmptyRowsTyped DEF Init
<1>1. TypeOK
  BY DEF TypeOK, ViewTypeOK, ViewInit
<1>2. AttemptBudget /\ SucceededWasRun
  BY DEF AttemptBudget, SucceededWasRun, NoTask
<1>3. AgentLink
  BY DEF AgentLink, IdleReq, IdleAgent
<1>4. QED
  BY <1>1, <1>2, <1>3 DEF IInv

\* No step of the registry leaves the types of the view.
LEMMA ViewStepTyped ==
  ASSUME ViewTypeOK, NEW n \in Nodes,
         ViewOnlyStep(n) \/ DrainCancel(n) \/ RemoveCancel(n)
  PROVE  ViewTypeOK'
<1>1. CASE \E v \in {"open", "closed", "drained"} : Reclassify(n, v)
  BY <1>1 DEF Reclassify, ViewTypeOK
<1>2. CASE Rejoin(n) \/ RevokeCredentials(n)
  BY Zenon, <1>2 DEF Rejoin, RevokeCredentials, ViewTypeOK
<1>3. CASE DrainStart(n) \/ DrainCordon(n) \/ DrainFinish(n) \/ DrainFail(n)
           \/ DrainCancel(n)
  BY <1>3 DEF DrainStart, DrainCordon, DrainFinish, DrainFail, DrainCancel, ViewTypeOK
<1>4. CASE RemoveStart(n) \/ RemoveRevoke(n) \/ RemoveFinish(n) \/ RemoveFail(n)
           \/ RemoveCancel(n)
  BY Zenon, <1>4 DEF RemoveStart, RemoveRevoke, RemoveFinish, RemoveFail, RemoveCancel, ViewTypeOK
<1>5. QED
  BY <1>1, <1>2, <1>3, <1>4 DEF ViewOnlyStep

\* A task that fails an attempt stays well typed and within its budget.
LEMMA FailAttemptSafe ==
  ASSUME TypeOK, AttemptBudget, SucceededWasRun, NEW t \in Tasks,
         task[t].state = "dispatched", task' = failAttempt(t), UNCHANGED runs
  PROVE  task' \in [Tasks -> TaskRows] /\ AttemptBudget' /\ SucceededWasRun'
<1> USE DEF TypeOK, failAttempt, TaskRows, TaskStates, Terminal
<1>1. task' \in [Tasks -> TaskRows]
  <2>1. CASE task[t].attempts < task[t].max
    BY Zenon, <2>1
  <2>2. CASE ~(task[t].attempts < task[t].max)
    BY Zenon, <2>2
  <2>3. QED
    BY <2>1, <2>2
<1>2. AttemptBudget'
  BY TasksAssumption DEF AttemptBudget
<1>3. SucceededWasRun'
  BY DEF SucceededWasRun
<1>4. QED
  BY <1>1, <1>2, <1>3

\* Appending never gives the empty sequence.
LEMMA AppendNonEmpty ==
  ASSUME NEW S, NEW s \in Seq(S), NEW x \in S
  PROVE  Append(s, x) # <<>>
<1>1. Len(Append(s, x)) = Len(s) + 1 /\ Len(s) \in Nat
  OBVIOUS
<1>2. Len(<<>>) = 0
  OBVIOUS
<1>3. Len(Append(s, x)) # Len(<<>>)
  BY <1>1, <1>2
<1>4. QED
  BY Zenon, <1>3

\* A request that reports only what was executed keeps the invariant.
LEMMA SendSafe ==
  ASSUME IInv, NEW n \in Nodes, NEW r \in Reqs, NEW kind \in {"poll", "report"},
         NEW entries \in Seq(Entries), NEW ok \in BOOLEAN,
         Send(n, r, kind, entries, ok),
         kind = "report" => /\ agent[n].batch # <<>>
                            /\ entries # <<>>
                            /\ runs[Head(entries).task] # <<>>
  PROVE  IInv'
<1> USE DEF IInv, Send, viewVars
<1>1. req' \in [Reqs -> Requests] /\ agent' \in [Nodes -> Agents]
  <2>1. [kind |-> kind, node |-> n, identity |-> view[n], claimed |-> entries,
         success |-> ok] \in Requests
    BY DEF TypeOK, ViewTypeOK, Requests
  <2>2. [agent[n] EXCEPT !.wait = r] \in Agents
    BY Zenon DEF TypeOK, Agents
  <2>3. QED
    BY <2>1, <2>2 DEF TypeOK
<1>2. TypeOK'
  BY <1>1 DEF TypeOK, ViewTypeOK
<1>3. AttemptBudget' /\ SucceededWasRun'
  BY DEF AttemptBudget, SucceededWasRun
<1>4. AgentLink'
  <2>1. ASSUME NEW m \in Nodes, agent'[m].wait # NoReq
        PROVE  /\ req'[agent'[m].wait].node = m
               /\ req'[agent'[m].wait].kind = "report" => agent'[m].batch # <<>>
               /\ req'[agent'[m].wait].kind # "idle"
    <3>1. CASE m = n
      BY <3>1 DEF TypeOK, Agents
    <3>2. CASE m # n
      BY <2>1, <3>2 DEF TypeOK, Agents, AgentLink
    <3>3. QED
      BY <3>1, <3>2
  <2>2. ASSUME NEW m \in Nodes, agent'[m].outcome # "none"
        PROVE  /\ agent'[m].batch # <<>>
               /\ runs'[Head(agent'[m].batch).task] # <<>>
    BY <2>2 DEF TypeOK, Agents, AgentLink
  <2>3. ASSUME NEW q \in Reqs, req'[q].kind = "report"
        PROVE  /\ req'[q].claimed # <<>>
               /\ runs'[Head(req'[q].claimed).task] # <<>>
    BY <2>3 DEF TypeOK, Requests, AgentLink
  <2>4. QED
    BY <2>1, <2>2, <2>3 DEF AgentLink
<1>5. QED
  BY <1>2, <1>3, <1>4

\* Answering a request frees it and the agents that waited for it.
LEMMA AnswerSafe ==
  ASSUME TypeOK, AgentLink, NEW r \in Reqs, NEW reply, Answer(r, reply),
         UNCHANGED runs,
         \A n \in Nodes : agent[n].wait = r =>
           reply \in Agents /\ reply.wait = NoReq /\ reply.outcome = "none"
  PROVE  req' \in [Reqs -> Requests] /\ agent' \in [Nodes -> Agents] /\ AgentLink'
<1> USE DEF Answer
<1>1. req' \in [Reqs -> Requests] /\ agent' \in [Nodes -> Agents]
  BY EmptyRowsTyped DEF TypeOK
<1>2. AgentLink'
  <2>1. ASSUME NEW m \in Nodes, agent'[m].wait # NoReq
        PROVE  agent'[m] = agent[m] /\ req'[agent[m].wait] = req[agent[m].wait]
    BY <2>1 DEF TypeOK, Agents
  <2>2. ASSUME NEW m \in Nodes, agent'[m].outcome # "none"
        PROVE  agent'[m] = agent[m]
    BY <2>2 DEF TypeOK
  <2>3. ASSUME NEW q \in Reqs, req'[q].kind = "report"
        PROVE  req'[q] = req[q]
    BY <2>3 DEF TypeOK, IdleReq
  <2>4. QED
    BY <2>1, <2>2, <2>3 DEF AgentLink
<1>3. QED
  BY <1>1, <1>2

\* A step that only rewrites task rows keeps the rest of the invariant.
LEMMA TaskOnlySafe ==
  ASSUME IInv, UNCHANGED <<viewVars, req, agent, runs>>,
         task' \in [Tasks -> TaskRows], AttemptBudget', SucceededWasRun'
  PROVE  IInv'
<1>1. TypeOK'
  BY DEF IInv, TypeOK, ViewTypeOK, viewVars
<1>2. AgentLink'
  BY DEF IInv, AgentLink
<1>3. QED
  BY <1>1, <1>2 DEF IInv

\* Dispatch, the reaper, operators and clocks.
LEMMA TaskStepSafe ==
  ASSUME IInv, NEW t \in Tasks, TaskStep(t)
  PROVE  IInv'
<1> USE DEF IInv
<1>1. ASSUME NEW n \in Nodes, DispatchCheck(t, n) PROVE IInv'
  <2>1. PICK budget \in 1..MaxTaskAttempts :
          task' = [task EXCEPT ![t] = [NoTask EXCEPT !.state = "checked",
                                                     !.node = n, !.max = budget]]
    BY Zenon, <1>1 DEF DispatchCheck
  <2>2. [NoTask EXCEPT !.state = "checked", !.node = n, !.max = budget] \in TaskRows
    BY Zenon, EmptyRowsTyped DEF TaskRows, TaskStates
  <2>3. task' \in [Tasks -> TaskRows]
    BY <2>1, <2>2 DEF TypeOK
  <2>4. AttemptBudget' /\ SucceededWasRun'
    BY <1>1, <2>1 DEF DispatchCheck, AttemptBudget, SucceededWasRun, TypeOK, NoTask
  <2>5. QED
    BY <1>1, <2>3, <2>4, TaskOnlySafe DEF DispatchCheck
<1>2. CASE DispatchInsert(t)
  <2>1. task' \in [Tasks -> TaskRows]
    BY Zenon, <1>2 DEF DispatchInsert, TypeOK, TaskRows, TaskStates
  <2>2. AttemptBudget' /\ SucceededWasRun'
    BY <1>2 DEF DispatchInsert, AttemptBudget, SucceededWasRun, TypeOK, TaskRows
  <2>3. QED
    BY <1>2, <2>1, <2>2, TaskOnlySafe DEF DispatchInsert
<1>3. CASE ReapTask(t)
  BY <1>3, FailAttemptSafe, TaskOnlySafe DEF ReapTask
<1>4. CASE CancelTask(t)
  <2>1. task' \in [Tasks -> TaskRows]
    BY Zenon, <1>4 DEF CancelTask, TypeOK, TaskRows, TaskStates, Terminal
  <2>2. AttemptBudget' /\ SucceededWasRun'
    BY <1>4 DEF CancelTask, AttemptBudget, SucceededWasRun, TypeOK, TaskRows
  <2>3. QED
    BY <1>4, <2>1, <2>2, TaskOnlySafe DEF CancelTask
<1>5. CASE BackoffOver(t)
  <2>1. task' \in [Tasks -> TaskRows]
    BY Zenon, <1>5 DEF BackoffOver, TypeOK, TaskRows
  <2>2. AttemptBudget' /\ SucceededWasRun'
    BY <1>5 DEF BackoffOver, AttemptBudget, SucceededWasRun, TypeOK, TaskRows
  <2>3. QED
    BY <1>5, <2>1, <2>2, TaskOnlySafe DEF BackoffOver
<1>6. CASE DeadlinePassed(t)
  <2>1. task' \in [Tasks -> TaskRows]
    BY Zenon, <1>6 DEF DeadlinePassed, TypeOK, TaskRows
  <2>2. AttemptBudget' /\ SucceededWasRun'
    BY <1>6 DEF DeadlinePassed, AttemptBudget, SucceededWasRun, TypeOK, TaskRows
  <2>3. QED
    BY <1>6, <2>1, <2>2, TaskOnlySafe DEF DeadlinePassed
<1>7. QED
  BY <1>1, <1>2, <1>3, <1>4, <1>5, <1>6 DEF TaskStep

\* The reporter loop.
LEMMA AgentStepSafe ==
  ASSUME IInv, NEW n \in Nodes, AgentStep(n)
  PROVE  IInv'
<1> USE DEF IInv
<1>1. ASSUME NEW r \in Reqs, AgentPoll(n, r) PROVE IInv'
  <2>1. <<>> \in Seq(Entries)
    OBVIOUS
  <2>2. QED
    BY Zenon, <1>1, <2>1, SendSafe DEF AgentPoll
<1>2. ASSUME NEW r \in Reqs, AgentReport(n, r) PROVE IInv'
  <2>1. /\ agent[n].batch \in Seq(Entries)
        /\ agent[n].batch # <<>>
        /\ runs[Head(agent[n].batch).task] # <<>>
    BY <1>2 DEF AgentReport, TypeOK, Agents, AgentLink
  <2>2. Head(agent[n].batch) \in Entries
    BY <2>1
  <2>3. /\ <<Head(agent[n].batch)>> \in Seq(Entries)
        /\ <<Head(agent[n].batch)>> # <<>>
        /\ Head(<<Head(agent[n].batch)>>) = Head(agent[n].batch)
    BY <2>2
  <2>4. QED
    BY Zenon, <1>2, <2>1, <2>3, SendSafe DEF AgentReport
<1>3. ASSUME NEW ok \in BOOLEAN, AgentExecute(n, ok) PROVE IInv'
  <2> DEFINE e == Head(agent[n].batch)
  <2>1. e \in Entries
    BY <1>3 DEF AgentExecute, TypeOK, Agents
  <2>2. runs' \in [Tasks -> Seq(1..MaxTaskAttempts)]
    BY <1>3, <2>1 DEF AgentExecute, TypeOK, Entries
  <2>3. runs'[e.task] # <<>>
    <3>1. runs[e.task] \in Seq(1..MaxTaskAttempts) /\ e.attempt \in 1..MaxTaskAttempts
      BY <2>1 DEF TypeOK, Entries
    <3>2. runs'[e.task] = Append(runs[e.task], e.attempt)
      BY <1>3, <2>1 DEF AgentExecute, TypeOK, Entries
    <3>3. QED
      BY Zenon, <3>1, <3>2, AppendNonEmpty
  <2>4. \A t \in Tasks : runs[t] # <<>> => runs'[t] # <<>>
    BY <1>3, <2>3 DEF AgentExecute, TypeOK
  <2>5. agent' \in [Nodes -> Agents]
    BY Zenon, <1>3 DEF AgentExecute, TypeOK, Agents
  <2>6. TypeOK'
    BY <1>3, <2>2, <2>5 DEF AgentExecute, TypeOK, ViewTypeOK, viewVars
  <2>7. AttemptBudget' /\ SucceededWasRun'
    BY <1>3, <2>4 DEF AgentExecute, AttemptBudget, SucceededWasRun
  <2>8. AgentLink'
    <3>1. ASSUME NEW m \in Nodes
          PROVE  agent'[m].wait = agent[m].wait /\ agent'[m].batch = agent[m].batch
      BY <1>3 DEF AgentExecute, TypeOK, Agents
    <3>2. ASSUME NEW m \in Nodes, agent'[m].outcome # "none"
          PROVE  /\ agent'[m].batch # <<>>
                 /\ runs'[Head(agent'[m].batch).task] # <<>>
      <4>1. CASE m = n
        BY <1>3, <2>3, <3>1, <4>1 DEF AgentExecute
      <4>2. CASE m # n
        <5>1. agent'[m] = agent[m]
          BY <1>3, <4>2 DEF AgentExecute, TypeOK
        <5>2. agent[m].batch # <<>> /\ runs[Head(agent[m].batch).task] # <<>>
          BY <3>2, <5>1 DEF AgentLink
        <5>3. Head(agent[m].batch) \in Entries
          BY <5>2 DEF TypeOK, Agents
        <5>4. QED
          BY <2>4, <5>1, <5>2, <5>3 DEF Entries
      <4>3. QED
        BY <4>1, <4>2
    <3>3. ASSUME NEW q \in Reqs, req[q].kind = "report"
          PROVE  /\ req[q].claimed # <<>>
                 /\ runs'[Head(req[q].claimed).task] # <<>>
      <4>1. req[q].claimed # <<>> /\ runs[Head(req[q].claimed).task] # <<>>
        BY <3>3 DEF AgentLink
      <4>2. Head(req[q].claimed) \in Entries
        BY <4>1 DEF TypeOK, Requests
      <4>3. QED
        BY <2>4, <4>1, <4>2 DEF Entries
    <3>4. QED
      BY Zenon, <1>3, <3>1, <3>2, <3>3 DEF AgentExecute, AgentLink
  <2>9. QED
    BY <2>6, <2>7, <2>8
<1>4. CASE AgentGiveUp(n) \/ AgentAbandon(n)
  <2>0. PICK a \in Agents :
          /\ agent' = [agent EXCEPT ![n] = a]
          /\ a.wait = NoReq
          /\ a = IdleAgent \/ (a.batch = agent[n].batch /\ a.outcome = agent[n].outcome)
    <3>1. CASE AgentGiveUp(n)
      <4>1. [agent[n] EXCEPT !.wait = NoReq] \in Agents
        BY Zenon DEF TypeOK, Agents
      <4>2. QED
        BY Zenon, <3>1, <4>1 DEF AgentGiveUp, TypeOK, Agents
    <3>2. CASE AgentAbandon(n)
      BY Zenon, <3>2, EmptyRowsTyped DEF AgentAbandon, IdleAgent
    <3>3. QED
      BY <1>4, <3>1, <3>2
  <2>1. agent' \in [Nodes -> Agents]
    BY <2>0 DEF TypeOK
  <2>2. TypeOK'
    BY <1>4, <2>1 DEF AgentGiveUp, AgentAbandon, TypeOK, ViewTypeOK, viewVars
  <2>3. AttemptBudget' /\ SucceededWasRun'
    BY <1>4 DEF AgentGiveUp, AgentAbandon, AttemptBudget, SucceededWasRun
  <2>4. AgentLink'
    <3>1. UNCHANGED <<req, runs>>
      BY <1>4 DEF AgentGiveUp, AgentAbandon
    <3>2. QED
      BY <2>0, <3>1 DEF IdleAgent, TypeOK, AgentLink
  <2>5. QED
    BY <2>2, <2>3, <2>4
<1>5. QED
  BY <1>1, <1>2, <1>3, <1>4 DEF AgentStep

\* The panel's side of a poll or a report.
LEMMA RequestStepSafe ==
  ASSUME IInv, NEW r \in Reqs, RequestStep(r)
  PROVE  IInv'
<1> USE DEF IInv
<1>1. ASSUME NEW t \in Tasks, ClaimTask(r, t) PROVE IInv'
  <2> DEFINE e == [task |-> t, attempt |-> task[t].attempts + 1]
  <2>1. task[t].attempts + 1 \in 1..MaxTaskAttempts
    BY <1>1, TasksAssumption DEF ClaimTask, TypeOK, TaskRows, AttemptBudget
  <2>2. e \in Entries
    BY <2>1 DEF Entries
  <2>3. [task[t] EXCEPT !.state = "dispatched",
                         !.attempts = task[t].attempts + 1] \in TaskRows
    <3>1. \A row \in TaskRows, a \in 0..MaxTaskAttempts :
            [row EXCEPT !.state = "dispatched", !.attempts = a] \in TaskRows
      BY Zenon DEF TaskRows, TaskStates
    <3>2. task[t] \in TaskRows /\ task[t].attempts + 1 \in 0..MaxTaskAttempts
      BY <2>1 DEF TypeOK
    <3>3. QED
      BY Zenon, <3>1, <3>2
  <2>4. task' \in [Tasks -> TaskRows]
    BY <1>1, <2>3 DEF ClaimTask, TypeOK
  <2>5. req' \in [Reqs -> Requests]
    <3>1. Append(req[r].claimed, e) \in Seq(Entries)
      BY <2>2 DEF TypeOK, Requests
    <3>2. [req[r] EXCEPT !.claimed = Append(req[r].claimed, e)] \in Requests
      BY Zenon, <3>1 DEF TypeOK, Requests
    <3>3. QED
      BY <1>1, <3>2 DEF ClaimTask, TypeOK
  <2>6. TypeOK'
    BY <1>1, <2>4, <2>5 DEF ClaimTask, TypeOK, ViewTypeOK, viewVars
  <2>7. AttemptBudget' /\ SucceededWasRun'
    BY <1>1 DEF ClaimTask, AttemptBudget, SucceededWasRun, TypeOK, TaskRows
  <2>8. AgentLink'
    <3>1. ASSUME NEW q \in Reqs
          PROVE  /\ req'[q].kind = req[q].kind
                 /\ req'[q].node = req[q].node
                 /\ req[q].kind = "report" => req'[q] = req[q]
      BY <1>1 DEF ClaimTask, TypeOK, Requests
    <3>2. QED
      BY <1>1, <3>1 DEF ClaimTask, AgentLink, TypeOK, Agents
  <2>9. QED
    BY <2>6, <2>7, <2>8
<1>2. CASE PollReturn(r)
  <2>0. Accepted(req[r].claimed) \in Seq(Entries)
    <3>1. req[r].claimed \in Seq(Entries)
      BY DEF TypeOK, Requests
    <3>2. QED
      BY <3>1, TasksAssumption DEF Accepted
  <2>1. [IdleAgent EXCEPT !.batch = Accepted(req[r].claimed)] \in Agents
    BY <2>0, EmptyRowsTyped DEF Agents
  <2>2. req' \in [Reqs -> Requests] /\ agent' \in [Nodes -> Agents] /\ AgentLink'
    BY <1>2, <2>1, AnswerSafe DEF PollReturn, IdleAgent
  <2>3. TypeOK'
    BY <1>2, <2>2 DEF PollReturn, TypeOK, ViewTypeOK, viewVars
  <2>4. AttemptBudget' /\ SucceededWasRun'
    BY <1>2 DEF PollReturn, AttemptBudget, SucceededWasRun
  <2>5. QED
    BY <2>2, <2>3, <2>4
<1>3. CASE ReportAccept(r)
  <2> DEFINE t == Head(req[r].claimed).task
             reply == [IdleAgent EXCEPT !.batch = Tail(agent[req[r].node].batch)]
  <2>1. req[r].claimed # <<>> /\ runs[t] # <<>>
    BY <1>3 DEF ReportAccept, AgentLink
  <2>2. t \in Tasks
    <3>1. Head(req[r].claimed) \in Entries
      BY <2>1 DEF TypeOK, Requests
    <3>2. QED
      BY <3>1 DEF Entries
  <2>3. ASSUME NEW n \in Nodes, agent[n].wait = r
        PROVE  reply \in Agents /\ reply.wait = NoReq /\ reply.outcome = "none"
    <3>1. req[r].node = n /\ agent[n].batch # <<>>
      BY <1>3, <2>3, TasksAssumption DEF ReportAccept, AgentLink
    <3>2. Tail(agent[n].batch) \in Seq(Entries)
      BY <3>1 DEF TypeOK, Agents
    <3>3. QED
      BY Zenon, <3>1, <3>2, EmptyRowsTyped DEF Agents, IdleAgent
  <2>4. Answer(r, reply) /\ UNCHANGED runs
    BY <1>3 DEF ReportAccept
  <2>5. req' \in [Reqs -> Requests] /\ agent' \in [Nodes -> Agents] /\ AgentLink'
    <3> HIDE DEF reply
    <3>1. QED
      BY <2>3, <2>4, AnswerSafe
  <2>6. task' \in [Tasks -> TaskRows] /\ AttemptBudget' /\ SucceededWasRun'
    <3>1. task[t].state = "dispatched"
      BY <1>3 DEF ReportAccept
    <3>2. CASE req[r].success
      <4>1. task' = [task EXCEPT ![t] = [@ EXCEPT !.state = "succeeded", !.late = FALSE]]
        BY <1>3, <3>2 DEF ReportAccept
      <4> HIDE DEF t
      <4>2. task' \in [Tasks -> TaskRows]
        BY Zenon, <2>2, <4>1 DEF TypeOK, TaskRows, TaskStates, Terminal
      <4>3. AttemptBudget' /\ SucceededWasRun'
        BY <2>1, <2>2, <2>4, <3>1, <4>1
           DEF AttemptBudget, SucceededWasRun, TypeOK, TaskRows
      <4>4. QED
        BY <4>2, <4>3
    <3>3. CASE ~req[r].success
      <4>1. task' = failAttempt(t)
        BY <1>3, <3>3 DEF ReportAccept
      <4> HIDE DEF t
      <4>2. QED
        BY <2>2, <2>4, <3>1, <4>1, FailAttemptSafe
    <3>4. QED
      BY <3>2, <3>3
  <2>7. TypeOK'
    BY <1>3, <2>5, <2>6 DEF ReportAccept, TypeOK, ViewTypeOK, viewVars
  <2>8. QED
    BY <2>5, <2>6, <2>7
<1>4. CASE ReportRefuse(r)
  <2>1. req' \in [Reqs -> Requests] /\ agent' \in [Nodes -> Agents] /\ AgentLink'
    BY <1>4, EmptyRowsTyped, AnswerSafe DEF ReportRefuse, IdleAgent
  <2>2. TypeOK'
    BY <1>4, <2>1 DEF ReportRefuse, TypeOK, ViewTypeOK, viewVars
  <2>3. AttemptBudget' /\ SucceededWasRun'
    BY <1>4 DEF ReportRefuse, AttemptBudget, SucceededWasRun
  <2>4. QED
    BY <2>1, <2>2, <2>3
<1>5. QED
  BY <1>1, <1>2, <1>3, <1>4 DEF RequestStep

\* The registry, and the queued work a drain or a removal withdraws.
LEMMA NodeStepSafe ==
  ASSUME IInv, NEW n \in Nodes, NodeStep(n)
  PROVE  IInv'
<1> USE DEF IInv
<1>1. CASE ViewOnlyStep(n) /\ UNCHANGED queueVars
  <2>1. ViewTypeOK'
    BY <1>1, ViewStepTyped DEF TypeOK
  <2>2. QED
    BY <1>1, <2>1
       DEF queueVars, TypeOK, AttemptBudget, SucceededWasRun, AgentLink
<1>2. CASE DrainCancelQueued(n) \/ RemoveCancelQueued(n)
  <2>1. ViewTypeOK'
    BY <1>2, ViewStepTyped DEF TypeOK, DrainCancelQueued, RemoveCancelQueued
  <2>2. task' = cancelQueued(n) /\ UNCHANGED <<req, agent, runs>>
    BY <1>2 DEF DrainCancelQueued, RemoveCancelQueued
  <2>3. task' \in [Tasks -> TaskRows]
    <3>1. ASSUME NEW t \in Tasks PROVE cancelQueued(n)[t] \in TaskRows
      <4>1. task[t] \in TaskRows
        BY DEF TypeOK
      <4>2. [task[t] EXCEPT !.state = "cancelled"] \in TaskRows
        BY <4>1 DEF TaskRows, TaskStates, Terminal
      <4> QED BY <4>1, <4>2 DEF cancelQueued
    <3> QED BY <2>2, <3>1 DEF cancelQueued
  <2>4. AttemptBudget' /\ SucceededWasRun'
    BY <2>2 DEF cancelQueued, AttemptBudget, SucceededWasRun, TypeOK, TaskRows
  <2>5. AgentLink'
    BY <2>2 DEF AgentLink
  <2>6. QED
    BY <2>1, <2>2, <2>3, <2>4, <2>5 DEF TypeOK
<1>3. QED
  BY <1>1, <1>2 DEF NodeStep

\* The invariant is inductive.
LEMMA NextIInv == IInv /\ [Next]_vars => IInv'
<1> SUFFICES ASSUME IInv, [Next]_vars PROVE IInv'
  OBVIOUS
<1>1. CASE Next
  BY <1>1, TaskStepSafe, AgentStepSafe, RequestStepSafe, NodeStepSafe DEF Next
<1>2. CASE UNCHANGED vars
  BY <1>2 DEF vars, IInv, TypeOK, ViewTypeOK, AttemptBudget, SucceededWasRun, AgentLink
<1>3. QED
  BY <1>1, <1>2

\* The rows, requests and agents keep their types, and no attempt number
\* ever exceeds the largest budget.
THEOREM TypeCorrect == Spec => []TypeOK
<1>1. IInv => TypeOK
  BY DEF IInv
<1>2. QED
  BY <1>1, InitIInv, NextIInv, PTL DEF Spec

\* Claim and failAttempt keep the delivery budget of every task.
THEOREM BudgetKept == Spec => []AttemptBudget
<1>1. IInv => AttemptBudget
  BY DEF IInv
<1>2. QED
  BY <1>1, InitIInv, NextIInv, PTL DEF Spec

\* A task is recorded as succeeded only after its agent executed it.
THEOREM SuccessWasExecuted == Spec => []SucceededWasRun
<1>1. IInv => SucceededWasRun
  BY DEF IInv
<1>2. QED
  BY <1>1, InitIInv, NextIInv, PTL DEF Spec

\* One step never changes a row that has reached a terminal state.
LEMMA TerminalRowKept ==
  ASSUME TypeOK, [Next]_vars, NEW t \in Tasks, task[t].state \in Terminal
  PROVE  task'[t] = task[t]
<1> USE DEF TypeOK, Terminal
<1>1. ASSUME NEW u \in Tasks, TaskStep(u) PROVE task'[t] = task[t]
  BY Zenon, <1>1 DEF TaskStep, DispatchCheck, DispatchInsert, ReapTask, CancelTask,
              failAttempt, BackoffOver, DeadlinePassed
<1>2. ASSUME NEW n \in Nodes, AgentStep(n) PROVE task'[t] = task[t]
  BY Zenon, <1>2 DEF AgentStep, AgentPoll, AgentReport, AgentExecute, AgentGiveUp,
              AgentAbandon, Send
<1>3. ASSUME NEW r \in Reqs, RequestStep(r) PROVE task'[t] = task[t]
  <2>1. ASSUME NEW u \in Tasks, ClaimTask(r, u) PROVE task'[t] = task[t]
    BY <2>1 DEF ClaimTask
  <2>2. CASE PollReturn(r) \/ ReportRefuse(r)
    BY <2>2 DEF PollReturn, ReportRefuse
  <2>3. CASE ReportAccept(r)
    BY <2>3 DEF ReportAccept, failAttempt
  <2>4. QED
    BY <1>3, <2>1, <2>2, <2>3 DEF RequestStep
<1>4. ASSUME NEW n \in Nodes, NodeStep(n) PROVE task'[t] = task[t]
  BY <1>4 DEF NodeStep, queueVars, DrainCancelQueued, RemoveCancelQueued, cancelQueued
<1>5. CASE UNCHANGED vars
  BY <1>5 DEF vars
<1>6. QED
  BY <1>1, <1>2, <1>3, <1>4, <1>5 DEF Next

\* A finished task is never reopened, whatever report, reaping, cancellation
\* or drain comes late.
THEOREM TerminalStays == Spec => TerminalIsFinal
<1>1. TypeOK /\ [Next]_vars
        => [\A t \in Tasks : task[t].state \in Terminal => task'[t] = task[t]]_vars
  BY TerminalRowKept
<1>2. QED
  BY <1>1, TypeCorrect, PTL DEF Spec, TerminalIsFinal
-----------------------------------------------------------------------------
(* The order of the attempts.  Entries that may still be executed are those  *)
(* of a batch, but for a head that was, and those of a poll its agent still   *)
(* waits for; an agent has one or the other.                                  *)

\* The entries s are attempts handed out for different tasks of node n.
Held(s, n, rows) ==
  /\ \A i \in 1..Len(s) : /\ rows[s[i].task].node = n
                          /\ s[i].attempt <= rows[s[i].task].attempts
  /\ \A i, j \in 1..Len(s) : i # j => s[i].task # s[j].task

\* The entries of s from first on are later than all that was executed.
Unrun(s, first, log) ==
  \A i \in 1..Len(s) : i >= first =>
    \A k \in 1..Len(log[s[i].task]) : log[s[i].task][k] < s[i].attempt

FirstUnrun(n) == IF agent[n].outcome = "none" THEN 1 ELSE 2

Untouched(rows) == \A t \in Tasks : rows[t].state = "none" => rows[t].attempts = 0

OrderLink ==
  /\ Untouched(task)
  /\ \A r \in Reqs : req[r].kind = "poll" => Held(req[r].claimed, req[r].node, task)
  /\ \A n \in Nodes : /\ Held(agent[n].batch, n, task)
                      /\ Unrun(agent[n].batch, FirstUnrun(n), runs)
  /\ \A n \in Nodes : agent[n].wait # NoReq /\ req[agent[n].wait].kind = "poll" =>
       /\ agent[n].batch = <<>>
       /\ Unrun(req[agent[n].wait].claimed, 1, runs)

OrderInv == AttemptsRunInOrder /\ OrderLink

\* No attempt is taken back, and a task that was handed out keeps its node.
Grows ==
  \A t \in Tasks : /\ task'[t].attempts >= task[t].attempts
                   /\ task[t].attempts > 0 => task'[t].node = task[t].node

\* An element of a sequence over S is in S.
LEMMA ElementTyped ==
  ASSUME NEW S, NEW s \in Seq(S), NEW i \in 1..Len(s)
  PROVE  s[i] \in S
OBVIOUS

\* What an append leaves and adds.
LEMMA AppendIndexed ==
  ASSUME NEW S, NEW s \in Seq(S), NEW x \in S
  PROVE  /\ Len(s) \in Nat /\ Len(Append(s, x)) = Len(s) + 1
         /\ Append(s, x)[Len(s) + 1] = x
         /\ \A k \in 1..Len(s) : Append(s, x)[k] = s[k]
         /\ \A k \in 1..Len(Append(s, x)) : k \in 1..Len(s) \/ k = Len(s) + 1
<1>1. Len(s) \in Nat /\ Len(Append(s, x)) = Len(s) + 1
  OBVIOUS
<1>2. \A k \in 1..Len(s) : Append(s, x)[k] = s[k]
  OBVIOUS
<1>3. Append(s, x)[Len(s) + 1] = x
  OBVIOUS
<1>4. \A k \in 1..Len(Append(s, x)) : k \in 1..Len(s) \/ k = Len(s) + 1
  BY <1>1
<1>5. QED
  BY <1>1, <1>2, <1>3, <1>4

\* Appending a later attempt to attempts in order leaves them in order.
LEMMA AppendSorted ==
  ASSUME NEW N \in Nat, NEW s \in Seq(1..N), NEW x \in 1..N,
         \A k \in 1..Len(s) : s[k] < x,
         \A j, k \in 1..Len(s) : j < k => s[j] < s[k]
  PROVE  \A j, k \in 1..Len(Append(s, x)) : j < k => Append(s, x)[j] < Append(s, x)[k]
<1> SUFFICES ASSUME NEW j \in 1..Len(Append(s, x)), NEW k \in 1..Len(Append(s, x)), j < k
             PROVE  Append(s, x)[j] < Append(s, x)[k]
  BY Zenon
<1>1. j \in 1..Len(s) /\ Append(s, x)[j] = s[j]
  BY AppendIndexed
<1>2. CASE k \in 1..Len(s)
  BY <1>1, <1>2, AppendIndexed
<1>3. CASE k = Len(s) + 1
  BY <1>1, <1>3, AppendIndexed
<1>4. QED
  BY <1>2, <1>3, AppendIndexed

\* What is held stays held while the table grows.
LEMMA HeldKept ==
  ASSUME TypeOK, TypeOK', Grows, NEW s \in Seq(Entries), NEW n \in Nodes, Held(s, n, task)
  PROVE  Held(s, n, task')
<1>1. ASSUME NEW i \in 1..Len(s)
      PROVE  task'[s[i].task].node = n /\ s[i].attempt <= task'[s[i].task].attempts
  <2>1. s[i] \in Entries
    OBVIOUS
  <2>2. s[i].task \in Tasks /\ s[i].attempt \in Nat /\ s[i].attempt > 0
    BY <2>1, TasksAssumption DEF Entries
  <2>3. task[s[i].task].attempts \in Nat /\ task'[s[i].task].attempts \in Nat
    BY <2>2, TasksAssumption DEF TypeOK, TaskRows
  <2>4. task[s[i].task].node = n /\ s[i].attempt <= task[s[i].task].attempts
    BY DEF Held
  <2>5. QED
    BY <2>2, <2>3, <2>4 DEF Grows
<1>2. QED
  BY <1>1 DEF Held

\* The part of the executed attempts in the order while the table grows.
LEMMA OrderKept ==
  ASSUME TypeOK, TypeOK', Grows, AttemptsRunInOrder, UNCHANGED runs
  PROVE  AttemptsRunInOrder'
<1>1. ASSUME NEW t \in Tasks, NEW i \in 1..Len(runs[t])
      PROVE  runs[t][i] <= task'[t].attempts
  <2>1. runs[t] \in Seq(1..MaxTaskAttempts)
    BY DEF TypeOK
  <2>2. runs[t][i] \in 1..MaxTaskAttempts
    BY Zenon, <2>1, ElementTyped
  <2>3. task[t].attempts \in Nat /\ task'[t].attempts \in Nat
    BY TasksAssumption DEF TypeOK, TaskRows
  <2>4. runs[t][i] <= task[t].attempts /\ task[t].attempts <= task'[t].attempts
    BY <2>3 DEF AttemptsRunInOrder, Grows
  <2>5. QED
    BY <2>2, <2>3, <2>4, TasksAssumption
<1>2. QED
  BY <1>1 DEF AttemptsRunInOrder

\* A step that only rewrites task rows keeps the order.
LEMMA RowsOrder ==
  ASSUME TypeOK, TypeOK', OrderInv, Grows, Untouched(task'), UNCHANGED <<req, agent, runs>>
  PROVE  OrderInv'
<1>1. AttemptsRunInOrder'
  BY OrderKept DEF OrderInv
<1>2. ASSUME NEW r \in Reqs, req[r].kind = "poll"
      PROVE  Held(req[r].claimed, req[r].node, task')
  <2>1. req[r].claimed \in Seq(Entries) /\ req[r].node \in Nodes
    BY DEF TypeOK, Requests
  <2>2. QED
    BY <1>2, <2>1, HeldKept DEF OrderInv, OrderLink
<1>3. ASSUME NEW n \in Nodes PROVE Held(agent[n].batch, n, task')
  <2>1. agent[n].batch \in Seq(Entries)
    BY DEF TypeOK, Agents
  <2>2. QED
    BY <2>1, HeldKept DEF OrderInv, OrderLink
<1>4. QED
  BY <1>1, <1>2, <1>3 DEF OrderInv, OrderLink, FirstUnrun

\* A failed attempt is not taken back.
LEMMA FailAttemptGrows ==
  ASSUME TypeOK, Untouched(task), NEW t \in Tasks, task' = failAttempt(t)
  PROVE  Grows /\ Untouched(task')
BY TasksAssumption DEF TypeOK, TaskRows, TaskStates, Terminal, failAttempt, Grows, Untouched

\* Dispatch, the reaper, operators and clocks take no attempt back.
LEMMA TaskStepOrder ==
  ASSUME IInv, IInv', OrderInv, NEW t \in Tasks, TaskStep(t)
  PROVE  OrderInv'
<1> USE TasksAssumption DEF IInv
<1>1. Untouched(task)
  BY DEF OrderInv, OrderLink
<1>2. Grows /\ Untouched(task') /\ UNCHANGED <<req, agent, runs>>
  <2> USE DEF TypeOK, TaskRows, Grows, Untouched
  <2>1. ASSUME NEW n \in Nodes, DispatchCheck(t, n)
        PROVE  Grows /\ Untouched(task') /\ UNCHANGED <<req, agent, runs>>
    BY <1>1, <2>1 DEF DispatchCheck, NoTask
  <2>2. CASE DispatchInsert(t)
    BY <1>1, <2>2 DEF DispatchInsert
  <2>3. CASE ReapTask(t)
    BY <1>1, <2>3, FailAttemptGrows DEF ReapTask
  <2>4. CASE CancelTask(t)
    BY <1>1, <2>4 DEF CancelTask
  <2>5. CASE BackoffOver(t)
    BY <1>1, <2>5 DEF BackoffOver
  <2>6. CASE DeadlinePassed(t)
    BY <1>1, <2>6 DEF DeadlinePassed
  <2>7. QED
    BY <2>1, <2>2, <2>3, <2>4, <2>5, <2>6 DEF TaskStep
<1>3. QED
  BY <1>2, RowsOrder

\* The registry, and the queued work a drain or a removal withdraws.
LEMMA NodeStepOrder ==
  ASSUME IInv, IInv', OrderInv, NEW n \in Nodes, NodeStep(n)
  PROVE  OrderInv'
<1> USE TasksAssumption DEF IInv
<1>1. Untouched(task)
  BY DEF OrderInv, OrderLink
<1>2. Grows /\ Untouched(task') /\ UNCHANGED <<req, agent, runs>>
  <2>1. CASE UNCHANGED queueVars
    BY <1>1, <2>1 DEF queueVars, TypeOK, TaskRows, Grows, Untouched
  <2>2. CASE task' = cancelQueued(n) /\ UNCHANGED <<req, agent, runs>>
    BY <1>1, <2>2 DEF cancelQueued, TypeOK, TaskRows, Grows, Untouched
  <2>3. QED
    BY <2>1, <2>2 DEF NodeStep, DrainCancelQueued, RemoveCancelQueued
<1>3. QED
  BY <1>2, RowsOrder

\* No entries are held by anyone.
LEMMA NothingHeld ==
  ASSUME NEW n, NEW rows, NEW first, NEW log
  PROVE  Held(<<>>, n, rows) /\ Unrun(<<>>, first, log)
BY DEF Held, Unrun

\* What is left of a batch without its head is held, and none of it was run.
LEMMA TailHeld ==
  ASSUME NEW s \in Seq(Entries), s # <<>>, NEW n, NEW rows, NEW log, NEW first \in {1, 2},
         Held(s, n, rows), Unrun(s, first, log)
  PROVE  Held(Tail(s), n, rows) /\ Unrun(Tail(s), 1, log)
<1>1. Len(Tail(s)) = Len(s) - 1 /\ Len(s) \in Nat /\ Len(s) > 0
  OBVIOUS
<1>2. ASSUME NEW i \in 1..Len(Tail(s))
      PROVE  i + 1 \in 1..Len(s) /\ i + 1 >= first /\ Tail(s)[i] = s[i + 1]
  BY <1>1
<1>3. Held(Tail(s), n, rows)
  BY <1>1, <1>2 DEF Held
<1>4. Unrun(Tail(s), 1, log)
  BY <1>2 DEF Unrun
<1>5. QED
  BY <1>3, <1>4

\* So is the part of an answer that RunTasks accepts.
LEMMA AcceptedHeld ==
  ASSUME NEW s \in Seq(Entries), NEW n, NEW rows, NEW log,
         Held(s, n, rows), Unrun(s, 1, log)
  PROVE  Held(Accepted(s), n, rows) /\ Unrun(Accepted(s), 1, log)
<1>1. CASE Len(s) > MaxTasksPerPoll
  <2>1. Accepted(s) = SubSeq(s, 1, MaxTasksPerPoll)
    BY Zenon, <1>1 DEF Accepted
  <2>2. Len(Accepted(s)) = MaxTasksPerPoll /\ Len(s) \in Nat
    BY <1>1, <2>1, TasksAssumption
  <2>3. ASSUME NEW i \in 1..Len(Accepted(s))
        PROVE  i \in 1..Len(s) /\ Accepted(s)[i] = s[i]
    BY <1>1, <2>1, <2>2, TasksAssumption
  <2>4. QED
    BY Zenon, <2>3 DEF Held, Unrun
<1>2. CASE ~(Len(s) > MaxTasksPerPoll)
  BY <1>2 DEF Accepted
<1>3. QED
  BY <1>1, <1>2

\* So is an answer with one more task, one of the node that it does not hold.
LEMMA AppendHeld ==
  ASSUME NEW s \in Seq(Entries), NEW e \in Entries, NEW n, NEW rows,
         Held(s, n, rows), rows[e.task].node = n, e.attempt <= rows[e.task].attempts,
         \A i \in 1..Len(s) : s[i].task # e.task
  PROVE  Held(Append(s, e), n, rows)
BY AppendIndexed DEF Held

\* The new entry is later than all that was run, if its attempt is.
LEMMA AppendUnrun ==
  ASSUME NEW s \in Seq(Entries), NEW e \in Entries, NEW log, Unrun(s, 1, log),
         \A k \in 1..Len(log[e.task]) : log[e.task][k] < e.attempt
  PROVE  Unrun(Append(s, e), 1, log)
BY AppendIndexed DEF Unrun

\* A poll starts with nothing claimed, and only when the batch is done.
LEMMA SendOrder ==
  ASSUME IInv, IInv', OrderInv, NEW n \in Nodes, NEW r \in Reqs,
         NEW kind \in {"poll", "report"}, NEW entries \in Seq(Entries), NEW ok \in BOOLEAN,
         Send(n, r, kind, entries, ok),
         kind = "poll" => agent[n].batch = <<>> /\ entries = <<>>
  PROVE  OrderInv'
<1> USE DEF IInv, Send
<1>0. req'[r].kind = kind /\ req'[r].claimed = entries
  BY DEF TypeOK
<1>1. AttemptsRunInOrder' /\ Untouched(task')
  BY DEF OrderInv, OrderLink, AttemptsRunInOrder
<1>2. ASSUME NEW q \in Reqs, req'[q].kind = "poll"
      PROVE  Held(req'[q].claimed, req'[q].node, task')
  <2>1. CASE q = r
    BY <1>0, <1>2, <2>1, NothingHeld
  <2>2. CASE q # r
    BY <1>2, <2>2 DEF TypeOK, OrderInv, OrderLink
  <2>3. QED
    BY <2>1, <2>2
<1>3. ASSUME NEW m \in Nodes
      PROVE  agent'[m].batch = agent[m].batch /\ agent'[m].outcome = agent[m].outcome
  BY DEF TypeOK, Agents
<1>4. ASSUME NEW m \in Nodes, agent'[m].wait # NoReq, req'[agent'[m].wait].kind = "poll"
      PROVE  agent'[m].batch = <<>> /\ Unrun(req'[agent'[m].wait].claimed, 1, runs')
  <2>1. CASE m = n
    <3>1. agent'[m].wait = r
      BY <2>1 DEF TypeOK, Agents
    <3>2. QED
      BY <1>0, <1>3, <1>4, <2>1, <3>1, NothingHeld
  <2>2. CASE m # n
    <3>1. agent'[m] = agent[m] /\ agent[m].wait \in Reqs
      BY <1>4, <2>2 DEF TypeOK, Agents
    <3>2. agent[m].wait # r
      BY <1>4, <3>1 DEF AgentLink
    <3>3. req'[agent[m].wait] = req[agent[m].wait]
      BY <3>1, <3>2 DEF TypeOK
    <3>4. QED
      BY Zenon, <1>4, <3>1, <3>3 DEF OrderInv, OrderLink
  <2>3. QED
    BY <2>1, <2>2
<1>5. QED
  BY <1>1, <1>2, <1>3, <1>4 DEF OrderInv, OrderLink, FirstUnrun

\* Executing the head of a batch adds an attempt that is later than all before
\* it, and no other agent or poll has an entry of that task.
LEMMA ExecuteOrder ==
  ASSUME IInv, IInv', OrderInv, NEW n \in Nodes, NEW ok \in BOOLEAN, AgentExecute(n, ok)
  PROVE  OrderInv'
<1> USE DEF IInv
<1> DEFINE b == agent[n].batch
           t == b[1].task
           a == b[1].attempt
<1>1. b \in Seq(Entries) /\ b # <<>> /\ Head(b) = b[1] /\ 1 \in 1..Len(b)
  BY DEF AgentExecute, TypeOK, Agents
<1>2. b[1] \in Entries
  BY <1>1, ElementTyped
<1>3. t \in Tasks /\ a \in 1..MaxTaskAttempts /\ a \in Nat
  BY <1>2 DEF Entries
<1>4. runs[t] \in Seq(1..MaxTaskAttempts)
  BY <1>3 DEF TypeOK
<1>5. runs'[t] = Append(runs[t], a) /\ (\A u \in Tasks : u # t => runs'[u] = runs[u])
  BY Zenon, <1>1, <1>3 DEF AgentExecute, TypeOK
<1>6. Held(b, n, task) /\ Unrun(b, 1, runs)
  BY DEF AgentExecute, OrderInv, OrderLink, FirstUnrun
<1>7. UNCHANGED <<task, req>>
  BY DEF AgentExecute
<1>8. ASSUME NEW m \in Nodes
      PROVE  /\ agent'[m].batch = agent[m].batch /\ agent'[m].wait = agent[m].wait
             /\ agent'[m].outcome = IF m = n THEN IF ok THEN "ok" ELSE "error"
                                             ELSE agent[m].outcome
  BY DEF AgentExecute, TypeOK, Agents
<1>9. AttemptsRunInOrder'
  <2>1. \A k \in 1..Len(runs[t]) : runs[t][k] < a
    BY <1>1, <1>6 DEF Unrun
  <2>2. a <= task[t].attempts
    BY <1>1, <1>6 DEF Held
  <2>3. \A k \in 1..Len(runs[t]) : runs[t][k] <= task[t].attempts
    BY <1>3 DEF OrderInv, AttemptsRunInOrder
  <2>4. \A j, k \in 1..Len(runs[t]) : j < k => runs[t][j] < runs[t][k]
    BY <1>3 DEF OrderInv, AttemptsRunInOrder
  <2> HIDE DEF b, t, a
  <2>5. \A k \in 1..Len(runs'[t]) : runs'[t][k] <= task'[t].attempts
    BY <1>3, <1>4, <1>5, <1>7, <2>2, <2>3, AppendIndexed
  <2>6. \A j, k \in 1..Len(runs'[t]) : j < k => runs'[t][j] < runs'[t][k]
    BY <1>3, <1>4, <1>5, <2>1, <2>4, AppendSorted, TasksAssumption
  <2>7. QED
    BY Zenon, <1>5, <1>7, <2>5, <2>6 DEF OrderInv, AttemptsRunInOrder
<1>10. ASSUME NEW s \in Seq(Entries), NEW m \in Nodes, Held(s, m, task), m # n,
              NEW first, Unrun(s, first, runs)
       PROVE  Unrun(s, first, runs')
  <2>1. ASSUME NEW i \in 1..Len(s) PROVE runs'[s[i].task] = runs[s[i].task]
    <3>0. s[i] \in Entries
      BY ElementTyped
    <3>1. s[i].task \in Tasks
      BY <3>0 DEF Entries
    <3>2. s[i].task # t
      BY <1>1, <1>6, <1>10 DEF Held
    <3>3. QED
      BY Zenon, <1>5, <3>1, <3>2
  <2>2. QED
    BY <1>10, <2>1 DEF Unrun
<1>11. Unrun(b, 2, runs')
  <2>1. ASSUME NEW i \in 1..Len(b), i >= 2 PROVE runs'[b[i].task] = runs[b[i].task]
    <3>0. b[i] \in Entries
      BY <1>1, ElementTyped
    <3>1. b[i].task \in Tasks
      BY <3>0 DEF Entries
    <3>2. b[i].task # t
      BY <1>1, <1>6, <2>1 DEF Held
    <3>3. QED
      BY Zenon, <1>5, <3>1, <3>2
  <2>2. QED
    BY <1>6, <2>1 DEF Unrun
<1>12. ASSUME NEW m \in Nodes PROVE Unrun(agent'[m].batch, FirstUnrun(m)', runs')
  <2>1. CASE m = n
    BY <1>8, <1>11, <2>1 DEF FirstUnrun
  <2>2. CASE m # n
    <3>1. agent[m].batch \in Seq(Entries) /\ FirstUnrun(m)' = FirstUnrun(m)
      BY <1>8, <2>2 DEF TypeOK, Agents, FirstUnrun
    <3>2. QED
      BY <1>8, <1>10, <2>2, <3>1 DEF OrderInv, OrderLink
  <2>3. QED
    BY <2>1, <2>2
<1>13. ASSUME NEW m \in Nodes, agent[m].wait # NoReq, req[agent[m].wait].kind = "poll"
       PROVE  agent[m].batch = <<>> /\ Unrun(req[agent[m].wait].claimed, 1, runs')
  <2>1. /\ agent[m].batch = <<>> /\ Unrun(req[agent[m].wait].claimed, 1, runs)
        /\ agent[m].wait \in Reqs
    BY <1>13 DEF OrderInv, OrderLink, TypeOK, Agents
  <2>2. m # n
    BY <1>1, <2>1
  <2>3. Held(req[agent[m].wait].claimed, m, task) /\ req[agent[m].wait].claimed \in Seq(Entries)
    BY <1>13, <2>1 DEF OrderInv, OrderLink, AgentLink, TypeOK, Requests
  <2>4. QED
    BY <1>10, <2>1, <2>2, <2>3
<1>14. QED
  BY <1>7, <1>8, <1>9, <1>12, <1>13 DEF OrderInv, OrderLink

\* The reporter loop executes in order.
LEMMA AgentStepOrder ==
  ASSUME IInv, IInv', OrderInv, NEW n \in Nodes, AgentStep(n)
  PROVE  OrderInv'
<1>1. ASSUME NEW r \in Reqs, AgentPoll(n, r) PROVE OrderInv'
  <2>1. <<>> \in Seq(Entries)
    OBVIOUS
  <2>2. QED
    BY Zenon, <1>1, <2>1, SendOrder DEF AgentPoll
<1>2. ASSUME NEW r \in Reqs, AgentReport(n, r) PROVE OrderInv'
  <2>1. agent[n].batch \in Seq(Entries) /\ agent[n].batch # <<>>
    BY <1>2 DEF AgentReport, IInv, TypeOK, Agents
  <2>2. <<Head(agent[n].batch)>> \in Seq(Entries)
    BY <2>1
  <2>3. QED
    BY Zenon, <1>2, <2>2, SendOrder DEF AgentReport
<1>3. ASSUME NEW ok \in BOOLEAN, AgentExecute(n, ok) PROVE OrderInv'
  BY <1>3, ExecuteOrder
<1>4. CASE AgentGiveUp(n) \/ AgentAbandon(n)
  <2>1. UNCHANGED <<task, req, runs>>
    BY <1>4 DEF AgentGiveUp, AgentAbandon
  <2>2. ASSUME NEW m \in Nodes
        PROVE  \/ agent'[m] = agent[m]
               \/ /\ agent'[m].wait = NoReq
                  /\ \/ agent'[m].batch = <<>>
                     \/ agent'[m].batch = agent[m].batch /\ agent'[m].outcome = agent[m].outcome
    BY <1>4 DEF AgentGiveUp, AgentAbandon, IdleAgent, IInv, TypeOK, Agents
  <2>3. ASSUME NEW m \in Nodes
        PROVE  Held(agent'[m].batch, m, task) /\ Unrun(agent'[m].batch, FirstUnrun(m)', runs)
    <3>1. CASE agent'[m].batch = <<>>
      BY <3>1, NothingHeld
    <3>2. CASE agent'[m].batch = agent[m].batch /\ agent'[m].outcome = agent[m].outcome
      BY <3>2 DEF OrderInv, OrderLink, FirstUnrun
    <3>3. QED
      BY <2>2, <3>1, <3>2
  <2>4. QED
    BY <2>1, <2>2, <2>3 DEF OrderInv, OrderLink, AttemptsRunInOrder
<1>5. QED
  BY <1>1, <1>2, <1>3, <1>4 DEF AgentStep

\* An answer that holds only attempts that were not run keeps the order.
LEMMA AnswerOrder ==
  ASSUME IInv, IInv', OrderInv, NEW r \in Reqs, NEW reply, Answer(r, reply),
         Grows, Untouched(task'), UNCHANGED runs,
         \A n \in Nodes : agent[n].wait = r =>
           /\ reply.wait = NoReq /\ reply.outcome = "none"
           /\ reply.batch \in Seq(Entries)
           /\ Held(reply.batch, n, task) /\ Unrun(reply.batch, 1, runs)
  PROVE  OrderInv'
<1> USE DEF IInv, Answer
<1>1. AttemptsRunInOrder'
  BY OrderKept DEF OrderInv
<1>2. ASSUME NEW q \in Reqs, req'[q].kind = "poll"
      PROVE  Held(req'[q].claimed, req'[q].node, task')
  <2>1. req'[q] = req[q] /\ req[q].claimed \in Seq(Entries) /\ req[q].node \in Nodes
    BY <1>2 DEF TypeOK, Requests, IdleReq
  <2>2. QED
    BY <1>2, <2>1, HeldKept DEF OrderInv, OrderLink
<1>3. ASSUME NEW n \in Nodes
      PROVE  Held(agent'[n].batch, n, task') /\ Unrun(agent'[n].batch, FirstUnrun(n)', runs')
  <2>1. CASE agent[n].wait = r
    <3>1. agent'[n] = reply
      BY <2>1
    <3>2. QED
      BY <2>1, <3>1, HeldKept DEF FirstUnrun
  <2>2. CASE agent[n].wait # r
    <3>1. agent'[n] = agent[n] /\ agent[n].batch \in Seq(Entries)
      BY <2>2 DEF TypeOK, Agents
    <3>2. QED
      BY <3>1, HeldKept DEF FirstUnrun, OrderInv, OrderLink
  <2>3. QED
    BY <2>1, <2>2
<1>4. ASSUME NEW n \in Nodes, agent'[n].wait # NoReq, req'[agent'[n].wait].kind = "poll"
      PROVE  agent'[n].batch = <<>> /\ Unrun(req'[agent'[n].wait].claimed, 1, runs')
  <2>1. agent'[n] = agent[n] /\ agent[n].wait \in Reqs /\ agent[n].wait # r
    BY <1>4 DEF TypeOK, Agents
  <2>2. req'[agent[n].wait] = req[agent[n].wait]
    BY <2>1 DEF TypeOK
  <2>3. QED
    BY <1>4, <2>1, <2>2 DEF OrderInv, OrderLink
<1>5. QED
  BY <1>1, <1>2, <1>3, <1>4 DEF OrderInv, OrderLink

\* A claim hands out the next attempt, which was not run.
LEMMA ClaimOrder ==
  ASSUME IInv, IInv', OrderInv, NEW r \in Reqs, NEW t \in Tasks, ClaimTask(r, t)
  PROVE  OrderInv'
<1> USE DEF IInv
<1> DEFINE e == [task |-> t, attempt |-> task[t].attempts + 1]
<1>1. task[t].attempts \in Nat /\ task[t].attempts + 1 \in 1..MaxTaskAttempts
  BY TasksAssumption DEF ClaimTask, TypeOK, TaskRows, AttemptBudget
<1>2. e \in Entries /\ e.task = t /\ e.attempt = task[t].attempts + 1
  BY <1>1 DEF Entries
<1>3. UNCHANGED <<agent, runs>>
  BY DEF ClaimTask
<1>4. /\ task'[t].attempts = task[t].attempts + 1 /\ task'[t].node = task[t].node
      /\ task'[t].state = "dispatched"
      /\ \A u \in Tasks : u # t => task'[u] = task[u]
  BY DEF ClaimTask, TypeOK, TaskRows
<1>5. Grows /\ Untouched(task')
  <2>1. \A u \in Tasks : task[u].attempts \in Nat
    BY TasksAssumption DEF TypeOK, TaskRows
  <2>2. Grows
    BY <1>1, <1>4, <2>1 DEF Grows
  <2>3. Untouched(task')
    BY <1>4 DEF Untouched, OrderInv, OrderLink
  <2>4. QED
    BY <2>2, <2>3
<1>6. /\ req[r].kind = "poll" /\ req[r].node = task[t].node
      /\ req'[r].kind = "poll" /\ req'[r].node = req[r].node
      /\ req'[r].claimed = Append(req[r].claimed, e)
      /\ \A q \in Reqs : q # r => req'[q] = req[q]
  BY DEF ClaimTask, TypeOK, Requests
<1>7. req[r].claimed \in Seq(Entries) /\ req[r].node \in Nodes
  BY DEF TypeOK, Requests
<1>8. AttemptsRunInOrder'
  BY <1>3, <1>5, OrderKept DEF OrderInv
<1>9. ASSUME NEW q \in Reqs, req'[q].kind = "poll"
      PROVE  Held(req'[q].claimed, req'[q].node, task')
  <2>1. CASE q = r
    <3>1. Held(req[r].claimed, req[r].node, task')
      BY <1>5, <1>6, <1>7, HeldKept DEF OrderInv, OrderLink
    <3>2. \A i \in 1..Len(req[r].claimed) : req[r].claimed[i].task # e.task
      BY DEF ClaimTask
    <3>3. task'[e.task].node = req[r].node /\ e.attempt <= task'[e.task].attempts
      BY <1>1, <1>2, <1>4, <1>6
    <3> HIDE DEF e
    <3>4. QED
      BY Zenon, <1>2, <1>6, <1>7, <2>1, <3>1, <3>2, <3>3, AppendHeld
  <2>2. CASE q # r
    <3>1. req'[q] = req[q] /\ req[q].claimed \in Seq(Entries) /\ req[q].node \in Nodes
      BY Zenon, <1>6, <2>2 DEF TypeOK, Requests
    <3>2. QED
      BY <1>5, <1>9, <3>1, HeldKept DEF OrderInv, OrderLink
  <2>3. QED
    BY <2>1, <2>2
<1>10. ASSUME NEW n \in Nodes PROVE Held(agent[n].batch, n, task')
  <2>1. agent[n].batch \in Seq(Entries)
    BY DEF TypeOK, Agents
  <2>2. QED
    BY Zenon, <1>5, <2>1, HeldKept DEF OrderInv, OrderLink
<1>11. ASSUME NEW n \in Nodes, agent[n].wait # NoReq, req'[agent[n].wait].kind = "poll"
       PROVE  agent[n].batch = <<>> /\ Unrun(req'[agent[n].wait].claimed, 1, runs)
  <2>1. agent[n].wait \in Reqs
    BY <1>11 DEF TypeOK, Agents
  <2>2. req[agent[n].wait].kind = "poll"
    BY <1>6, <1>11, <2>1
  <2>3. agent[n].batch = <<>> /\ Unrun(req[agent[n].wait].claimed, 1, runs)
    BY <1>11, <2>2 DEF OrderInv, OrderLink
  <2>4. CASE agent[n].wait = r
    <3>1. runs[t] \in Seq(1..MaxTaskAttempts)
      BY DEF TypeOK
    <3>2. ASSUME NEW k \in 1..Len(runs[t]) PROVE runs[t][k] < task[t].attempts + 1
      <4>1. runs[t][k] \in 1..MaxTaskAttempts
        BY Zenon, <3>1, ElementTyped
      <4>2. runs[t][k] <= task[t].attempts
        BY DEF OrderInv, AttemptsRunInOrder
      <4>3. QED
        BY <1>1, <4>1, <4>2
    <3> HIDE DEF e
    <3>3. \A k \in 1..Len(runs[e.task]) : runs[e.task][k] < e.attempt
      BY <1>2, <3>2
    <3>4. QED
      BY Zenon, <1>2, <1>6, <1>7, <2>3, <2>4, <3>3, AppendUnrun
  <2>5. CASE agent[n].wait # r
    BY <1>6, <2>1, <2>3, <2>5
  <2>6. QED
    BY <2>4, <2>5
<1>12. QED
  BY <1>3, <1>5, <1>8, <1>9, <1>10, <1>11 DEF OrderInv, OrderLink, FirstUnrun

\* The panel's side of a poll or a report keeps the order.
LEMMA RequestStepOrder ==
  ASSUME IInv, IInv', OrderInv, NEW r \in Reqs, RequestStep(r)
  PROVE  OrderInv'
<1> USE DEF IInv
<1>1. Untouched(task)
  BY DEF OrderInv, OrderLink
<1>2. ASSUME UNCHANGED task PROVE Grows /\ Untouched(task')
  BY <1>1, <1>2, TasksAssumption DEF Grows, TypeOK, TaskRows
<1>3. <<>> \in Seq(Entries)
  OBVIOUS
<1>4. ASSUME NEW t \in Tasks, ClaimTask(r, t) PROVE OrderInv'
  BY <1>4, ClaimOrder
<1>5. CASE PollReturn(r)
  <2> DEFINE reply == [IdleAgent EXCEPT !.batch = Accepted(req[r].claimed)]
  <2>1. Accepted(req[r].claimed) \in Seq(Entries) /\ req[r].claimed \in Seq(Entries)
    BY TasksAssumption DEF Accepted, TypeOK, Requests
  <2>2. reply.wait = NoReq /\ reply.outcome = "none" /\ reply.batch = Accepted(req[r].claimed)
    BY DEF IdleAgent
  <2>3. ASSUME NEW n \in Nodes, agent[n].wait = r
        PROVE  Held(Accepted(req[r].claimed), n, task) /\ Unrun(Accepted(req[r].claimed), 1, runs)
    <3>1. Held(req[r].claimed, n, task) /\ Unrun(req[r].claimed, 1, runs)
      BY <1>5, <2>3, TasksAssumption DEF PollReturn, OrderInv, OrderLink, AgentLink
    <3>2. QED
      BY <2>1, <3>1, AcceptedHeld
  <2>4. Answer(r, reply) /\ UNCHANGED <<task, runs>>
    BY <1>5 DEF PollReturn
  <2> HIDE DEF reply
  <2>5. QED
    BY <1>2, <2>1, <2>2, <2>3, <2>4, AnswerOrder
<1>6. CASE ReportAccept(r)
  <2> DEFINE t == Head(req[r].claimed).task
             reply == [IdleAgent EXCEPT !.batch = Tail(agent[req[r].node].batch)]
  <2>1. ASSUME NEW n \in Nodes, agent[n].wait = r
        PROVE  /\ reply.batch \in Seq(Entries)
               /\ Held(reply.batch, n, task) /\ Unrun(reply.batch, 1, runs)
    <3>1. req[r].node = n /\ agent[n].batch # <<>> /\ agent[n].batch \in Seq(Entries)
      BY <1>6, <2>1, TasksAssumption DEF ReportAccept, AgentLink, TypeOK, Agents
    <3>2. reply.batch = Tail(agent[n].batch)
      BY <3>1 DEF IdleAgent
    <3>3. /\ Held(agent[n].batch, n, task) /\ Unrun(agent[n].batch, FirstUnrun(n), runs)
          /\ FirstUnrun(n) \in {1, 2}
      BY DEF OrderInv, OrderLink, FirstUnrun
    <3> HIDE DEF reply
    <3>4. Tail(agent[n].batch) \in Seq(Entries)
      BY <3>1
    <3>5. QED
      BY <3>1, <3>2, <3>3, <3>4, TailHeld
  <2>2. reply.wait = NoReq /\ reply.outcome = "none"
    BY DEF IdleAgent
  <2>3. Answer(r, reply) /\ UNCHANGED runs
    BY <1>6 DEF ReportAccept
  <2>4. Grows /\ Untouched(task')
    <3>1. t \in Tasks
      <4>1. req[r].claimed # <<>> /\ req[r].claimed \in Seq(Entries)
        BY <1>6 DEF ReportAccept, AgentLink, TypeOK, Requests
      <4>2. Head(req[r].claimed) \in Entries
        BY <4>1
      <4>3. QED
        BY <4>2 DEF Entries
    <3>2. CASE req[r].success
      <4>1. task' = [task EXCEPT ![t] = [@ EXCEPT !.state = "succeeded", !.late = FALSE]]
        BY <1>6, <3>2 DEF ReportAccept
      <4> HIDE DEF t
      <4>2. QED
        BY <1>1, <3>1, <4>1, TasksAssumption DEF Grows, Untouched, TypeOK, TaskRows
    <3>3. CASE ~req[r].success
      <4>1. task' = failAttempt(t)
        BY <1>6, <3>3 DEF ReportAccept
      <4> HIDE DEF t
      <4>2. QED
        BY <1>1, <3>1, <4>1, FailAttemptGrows
    <3>4. QED
      BY <3>2, <3>3
  <2> HIDE DEF reply
  <2>5. QED
    BY <2>1, <2>2, <2>3, <2>4, AnswerOrder
<1>7. CASE ReportRefuse(r)
  <2>1. IdleAgent.wait = NoReq /\ IdleAgent.outcome = "none" /\ IdleAgent.batch = <<>>
    BY DEF IdleAgent
  <2>2. Answer(r, IdleAgent) /\ UNCHANGED <<task, runs>>
    BY <1>7 DEF ReportRefuse
  <2>3. QED
    BY Zenon, <1>2, <1>3, <2>1, <2>2, NothingHeld, AnswerOrder
<1>8. QED
  BY <1>4, <1>5, <1>6, <1>7 DEF RequestStep

\* The order is kept by every step.
LEMMA NextOrder == IInv /\ IInv' /\ OrderInv /\ [Next]_vars => OrderInv'
<1> SUFFICES ASSUME IInv, IInv', OrderInv, [Next]_vars PROVE OrderInv'
  OBVIOUS
<1>1. CASE Next
  BY <1>1, TaskStepOrder, AgentStepOrder, RequestStepOrder, NodeStepOrder DEF Next
<1>2. CASE UNCHANGED vars
  BY <1>2 DEF vars, OrderInv, OrderLink, AttemptsRunInOrder, FirstUnrun
<1>3. QED
  BY <1>1, <1>2

\* Nothing is handed out at first.
LEMMA InitOrder == Init => OrderInv
<1> SUFFICES ASSUME Init PROVE OrderInv
  OBVIOUS
<1>1. AttemptsRunInOrder
  BY DEF Init, AttemptsRunInOrder
<1>2. QED
  BY Zenon, <1>1, NothingHeld
     DEF Init, OrderInv, OrderLink, Untouched, NoTask, IdleReq, IdleAgent

\* An agent executes the attempts of a task in the order in which they were
\* handed out, each at most once and none that was not handed out, however many
\* polls and reports are lost, repeated or answered late.
THEOREM ExecutedInOrder == Spec => []AttemptsRunInOrder
<1>1. OrderInv => AttemptsRunInOrder
  BY DEF OrderInv
<1>2. QED
  BY <1>1, InitIInv, NextIInv, InitOrder, NextOrder, PTL DEF Spec

-----------------------------------------------------------------------------
(* The registry of nodes.                                                     *)

NodeRows == [state : R!NodeStates, cordoned : BOOLEAN, maintenance : BOOLEAN,
             silence : {"fresh", "degraded", "offline"}]
ContactRows == [pc : {"seen", "online"}, node : Fleet, state : R!NodeStates,
                maintenance : BOOLEAN]

\* ViewOf a row.
Seen(row) ==
  IF row.state \in {"drained", "removed"} THEN row.state
  ELSE IF /\ ~row.cordoned /\ ~row.maintenance
          /\ row.state \in {"enrolled", "online", "degraded"}
       THEN "open" ELSE "closed"

viewed == [n \in Fleet |-> R!ViewOf(n)]

LEMMA ViewOfRow ==
  ASSUME R!TypeOK, NEW n \in Fleet
  PROVE  /\ R!ViewOf(n) = Seen(node[n])
         /\ node[n] \in NodeRows /\ Seen(node[n]) \in {"open", "closed", "drained", "removed"}
         /\ Seen(node[n]) = "removed" <=> node[n].state = "removed"
         /\ Seen(node[n]) = "drained" <=> node[n].state = "drained"
<1>1. node[n] \in NodeRows
  BY DEF R!TypeOK, NodeRows
<1>2. QED
  BY <1>1 DEF R!ViewOf, R!Schedulable, Seen, NodeRows

\* What the table of transitions allows.
LEMMA Allowed ==
  ASSUME NEW from \in R!NodeStates, NEW to, R!CanTransition(from, to)
  PROVE  /\ from # "removed" /\ to \in R!NodeStates
         /\ to = "drained" => from # "drained"
         /\ from = "drained" => to \notin {"degraded", "offline"}
BY DEF R!NodeStates, R!CanTransition, R!allowedTransitions

\* A row of the table is written.
LEMMA NodeWritten ==
  ASSUME R!TypeOK, NEW n \in Fleet, NEW row \in NodeRows, node' = [node EXCEPT ![n] = row]
  PROVE  /\ node' \in [Fleet -> NodeRows]
         /\ viewed' = [viewed EXCEPT ![n] = Seen(row)]
<1>1. node \in [Fleet -> NodeRows]
  BY DEF R!TypeOK, NodeRows
<1>2. /\ node' \in [Fleet -> NodeRows]
      /\ \A m \in Fleet : node'[m] = IF m = n THEN row ELSE node[m]
  BY <1>1
<1>3. ASSUME NEW m \in Fleet
      PROVE  R!ViewOf(m)' = IF m = n THEN Seen(row) ELSE R!ViewOf(m)
  <2>1. R!ViewOf(m)' = Seen(node'[m])
    BY <1>2 DEF R!ViewOf, R!Schedulable, Seen, NodeRows
  <2>2. QED
    BY <1>2, <2>1, ViewOfRow
<1>4. QED
  BY Zenon, <1>2, <1>3 DEF viewed

\* A row is written, and the node does not come or go.
LEMMA RowStep ==
  ASSUME R!TypeOK, NEW n \in Fleet, NEW row \in NodeRows, node' = [node EXCEPT ![n] = row],
         UNCHANGED <<access, draining, removing>>,
         Seen(row) = Seen(node[n]) \/ (node[n].state # "removed" /\ row.state # "removed")
  PROVE  R!ViewStep
<1>0. /\ viewed' = [viewed EXCEPT ![n] = Seen(row)] /\ viewed[n] = Seen(node[n])
      /\ Seen(row) \in {"open", "closed", "drained", "removed"}
      /\ Seen(row) = "removed" => row.state = "removed"
      /\ viewed[n] \in {"open", "closed", "drained", "removed"}
      /\ viewed[n] = "removed" => node[n].state = "removed"
  BY Zenon, NodeWritten, ViewOfRow DEF viewed, Seen, NodeRows, R!NodeStates
<1>1. CASE Seen(row) = Seen(node[n])
  <2>1. viewed' = viewed
    BY Zenon, <1>0, <1>1 DEF viewed
  <2>2. QED
    BY <2>1 DEF R!ViewStep, R!View!viewVars, viewed
<1>2. CASE Seen(row) # Seen(node[n])
  <2>1. R!View!Reclassify(n, Seen(row))
    BY <1>0, <1>2 DEF R!View!Reclassify, viewed
  <2>2. Seen(row) \in {"open", "closed", "drained"}
    BY <1>0, <1>2
  <2>3. R!View!ViewOnlyStep(n)
    BY <2>1, <2>2 DEF R!View!ViewOnlyStep
  <2>4. QED
    BY <2>3 DEF R!ViewStep, R!View!ViewNext
<1>3. QED
  BY <1>1, <1>2

\* A step that leaves the table, the credentials, drains and removals alone.
LEMMA QuietStep ==
  ASSUME UNCHANGED <<node, access, draining, removing>>
  PROVE  R!ViewStep
BY DEF R!ViewStep, R!View!viewVars, R!ViewOf, R!Schedulable

\* A contact that is under way has a node.
LEMMA ContactInHand ==
  ASSUME R!TypeOK, NEW c \in Contacts, contact[c].pc # "idle"
  PROVE  contact[c] \in ContactRows /\ contact[c].node \in Fleet
<1>1. contact[c] \in {R!NoContact} \cup ContactRows
  BY DEF R!TypeOK, ContactRows
<1>2. R!NoContact.pc = "idle"
  BY DEF R!NoContact
<1>3. contact[c] \in ContactRows
  BY <1>1, <1>2
<1>4. QED
  BY <1>3 DEF ContactRows

LEMMA ContactingStep ==
  ASSUME R!TypeOK, NEW c \in Contacts, R!Contacting(c)
  PROVE  R!TypeOK' /\ R!ViewStep
<1>0. /\ node \in [Fleet -> NodeRows]
      /\ contact \in [Contacts -> {R!NoContact} \cup ContactRows]
  BY DEF R!TypeOK, NodeRows, ContactRows
<1>1. ASSUME NEW n \in Fleet, R!Authenticate(c, n) PROVE R!TypeOK' /\ R!ViewStep
  <2>1. node[n].state \in R!NodeStates /\ node[n].maintenance \in BOOLEAN
    BY <1>0 DEF NodeRows
  <2>2. [pc |-> "seen", node |-> n, state |-> node[n].state, maintenance |-> node[n].maintenance]
          \in ContactRows
    BY <2>1 DEF ContactRows
  <2>3. contact' \in [Contacts -> {R!NoContact} \cup ContactRows]
    BY <1>0, <1>1, <2>2 DEF R!Authenticate
  <2>4. UNCHANGED <<node, access, draining, removing, sweep, token>>
    BY <1>1 DEF R!Authenticate
  <2>5. QED
    BY <2>3, <2>4, QuietStep DEF R!TypeOK, ContactRows
<1>2. ASSUME NEW n \in Fleet, NEW row \in NodeRows, node' = [node EXCEPT ![n] = row],
             contact' \in [Contacts -> {R!NoContact} \cup ContactRows],
             UNCHANGED <<access, draining, removing, sweep, token>>
      PROVE  R!TypeOK'
  <2>1. node' \in [Fleet -> NodeRows]
    BY Zenon, <1>2, NodeWritten
  <2>2. QED
    BY <1>2, <2>1 DEF R!TypeOK, NodeRows, ContactRows
<1>3. CASE R!ContactSeen(c)
  <2> DEFINE n == contact[c].node
             row == [node[n] EXCEPT !.silence = "fresh"]
  <2>1. n \in Fleet /\ contact[c] \in ContactRows
    BY <1>3, ContactInHand DEF R!ContactSeen
  <2>2. row \in NodeRows /\ Seen(row) = Seen(node[n])
    BY <1>0, <2>1 DEF NodeRows, Seen
  <2>3. [contact[c] EXCEPT !.pc = "online"] \in ContactRows
    BY <2>1 DEF ContactRows
  <2>4. contact' \in [Contacts -> {R!NoContact} \cup ContactRows]
    <3>1. PICK r \in {R!NoContact, [contact[c] EXCEPT !.pc = "online"]} :
            contact' = [contact EXCEPT ![c] = r]
      BY Zenon, <1>3 DEF R!ContactSeen
    <3>2. r \in {R!NoContact} \cup ContactRows
      BY <2>3
    <3>3. QED
      BY <1>0, <3>1, <3>2
  <2>5. node' = [node EXCEPT ![n] = row] /\ UNCHANGED <<access, draining, removing, sweep, token>>
    BY <1>3 DEF R!ContactSeen
  <2> HIDE DEF n, row
  <2>6. QED
    BY Zenon, <1>2, <2>1, <2>2, <2>4, <2>5, RowStep
<1>4. CASE R!ContactOnline(c)
  <2> DEFINE n == contact[c].node
             row == [node[n] EXCEPT !.state = "online"]
  <2>1. n \in Fleet
    BY <1>4, ContactInHand DEF R!ContactOnline
  <2>2. contact' \in [Contacts -> {R!NoContact} \cup ContactRows]
        /\ UNCHANGED <<access, draining, removing, sweep, token>>
    BY <1>0, <1>4 DEF R!ContactOnline
  <2>3. CASE R!CanTransition(node[n].state, "online")
    <3>1. node[n] \in NodeRows /\ node[n].state # "removed"
      BY <1>0, <2>1, <2>3, Allowed DEF NodeRows
    <3>2. row \in NodeRows /\ row.state = "online"
      BY <3>1 DEF NodeRows, R!NodeStates
    <3>3. node' = [node EXCEPT ![n] = row]
      BY <1>4, <2>3 DEF R!ContactOnline
    <3> HIDE DEF n, row
    <3>4. QED
      BY Zenon, <1>2, <2>1, <2>2, <3>1, <3>2, <3>3, RowStep
  <2>4. CASE ~R!CanTransition(node[n].state, "online")
    <3>1. node' = node
      BY <1>4, <2>4 DEF R!ContactOnline
    <3>2. QED
      BY <2>2, <3>1, QuietStep DEF R!TypeOK, ContactRows
  <2>5. QED
    BY <2>3, <2>4
<1>5. CASE R!ContactFail(c)
  <2>1. /\ contact' \in [Contacts -> {R!NoContact} \cup ContactRows]
        /\ UNCHANGED <<node, access, draining, removing, sweep, token>>
    BY <1>0, <1>5 DEF R!ContactFail
  <2>2. QED
    BY <2>1, QuietStep DEF R!TypeOK, ContactRows
<1>6. QED
  BY <1>1, <1>3, <1>4, <1>5 DEF R!Contacting

\* A call of the operator that writes a row, and may go on with a drain or a
\* removal, keeps the types.
LEMMA RowTyped ==
  ASSUME R!TypeOK, NEW n \in Fleet, NEW row \in NodeRows, node' = [node EXCEPT ![n] = row],
         access' \in [Fleet -> BOOLEAN], token' \in [Fleet -> BOOLEAN],
         draining' \in [Fleet -> {"idle", "cordon", "cancel", "finish"}],
         removing' \in [Fleet -> {"idle", "revoke", "cancel", "finish"}],
         sweep' \in [Fleet -> {"none", "degraded", "offline"}], UNCHANGED contact
  PROVE  R!TypeOK'
<1>1. node' \in [Fleet -> NodeRows]
  BY Zenon, NodeWritten
<1>2. QED
  BY <1>1 DEF R!TypeOK, NodeRows

LEMMA OperatingStep ==
  ASSUME R!TypeOK, NEW n \in Fleet, R!Operating(n)
  PROVE  R!TypeOK' /\ R!ViewStep
<1>0. /\ node \in [Fleet -> NodeRows] /\ node[n] \in NodeRows /\ node[n].state \in R!NodeStates
      /\ access \in [Fleet -> BOOLEAN] /\ token \in [Fleet -> BOOLEAN]
      /\ draining \in [Fleet -> {"idle", "cordon", "cancel", "finish"}]
      /\ removing \in [Fleet -> {"idle", "revoke", "cancel", "finish"}]
      /\ sweep \in [Fleet -> {"none", "degraded", "offline"}]
  BY DEF R!TypeOK, NodeRows
<1>1. ASSUME R!View!ViewOnlyStep(n) \/ R!View!DrainCancel(n) \/ R!View!RemoveCancel(n)
      PROVE  R!ViewStep
  BY <1>1 DEF R!ViewStep, R!View!ViewNext
<1>2. ASSUME UNCHANGED node PROVE UNCHANGED viewed
  BY <1>2 DEF viewed, R!ViewOf, R!Schedulable
<1>3. viewed[n] = Seen(node[n]) /\ viewed \in [Fleet -> {"open", "closed", "drained", "removed"}]
  BY ViewOfRow DEF viewed
<1>4. /\ viewed[n] = "removed" <=> node[n].state = "removed"
      /\ viewed[n] = "drained" <=> node[n].state = "drained"
      /\ viewed[n] \in {"open", "closed", "drained", "removed"}
  BY <1>3, ViewOfRow
<1>5. ASSUME NEW c \in BOOLEAN, NEW m \in BOOLEAN, R!setFlags(n, c, m) PROVE R!TypeOK' /\ R!ViewStep
  <2> DEFINE row == [node[n] EXCEPT !.cordoned = c, !.maintenance = m]
  <2>1. row \in NodeRows /\ row.state = node[n].state
    BY Zenon, <1>0 DEF NodeRows
  <2>2. /\ node' = [node EXCEPT ![n] = row] /\ node[n].state # "removed"
        /\ UNCHANGED <<access, contact, draining, removing, sweep, token>>
    BY Zenon, <1>5 DEF R!setFlags
  <2> HIDE DEF row
  <2>3. QED
    BY Zenon, <1>0, <2>1, <2>2, RowStep, RowTyped
<1>6. ASSUME NEW to \in R!NodeStates, R!Transition(n, to) PROVE R!TypeOK' /\ R!ViewStep
  <2> DEFINE row == [node[n] EXCEPT !.state = to]
  <2>1. row \in NodeRows /\ row.state = to
    BY Zenon, <1>0 DEF NodeRows
  <2>2. /\ node' = [node EXCEPT ![n] = row] /\ to # "removed" /\ node[n].state # "removed"
        /\ UNCHANGED <<access, contact, draining, removing, sweep, token>>
    BY <1>0, <1>6, Allowed DEF R!Transition
  <2> HIDE DEF row
  <2>3. QED
    BY Zenon, <1>0, <2>1, <2>2, RowStep, RowTyped
<1>7. CASE R!Rekey(n)
  <2>1. R!TypeOK'
    BY <1>7 DEF R!Rekey, R!TypeOK
  <2>2. QED
    BY <1>7, <2>1, QuietStep DEF R!Rekey
<1>8. CASE R!Rejoin(n)
  <2> DEFINE row == [node[n] EXCEPT !.state = "enrolled", !.silence = "fresh"]
  <2>1. row \in NodeRows /\ row.state = "enrolled"
    BY Zenon, <1>0 DEF NodeRows, R!NodeStates
  <2>2. /\ node' = [node EXCEPT ![n] = row] /\ node[n].state # "removed"
        /\ access' = [access EXCEPT ![n] = TRUE] /\ token' = [token EXCEPT ![n] = FALSE]
        /\ UNCHANGED <<contact, draining, removing, sweep>>
    BY Zenon, <1>0, <1>8, Allowed DEF R!Rejoin
  <2> HIDE DEF row
  <2>3. R!TypeOK'
    BY Zenon, <1>0, <2>1, <2>2, RowTyped
  <2>4. viewed' = [viewed EXCEPT ![n] = Seen(row)]
    BY Zenon, <2>1, <2>2, NodeWritten
  <2>5. Seen(row) \in {"open", "closed"}
    BY <2>1 DEF Seen
  <2>6. R!View!Rejoin(n)
    BY Zenon, <1>4, <2>2, <2>4, <2>5 DEF R!View!Rejoin, viewed
  <2>7. QED
    BY <1>1, <2>3, <2>6 DEF R!View!ViewOnlyStep
<1>9. CASE R!RevokeCredentials(n)
  <2>1. R!TypeOK'
    BY <1>9 DEF R!RevokeCredentials, R!TypeOK
  <2>2. R!View!RevokeCredentials(n)
    BY <1>2, <1>9 DEF R!RevokeCredentials, R!View!RevokeCredentials, viewed
  <2>3. QED
    BY <1>1, <2>1, <2>2 DEF R!View!ViewOnlyStep
<1>10. CASE R!DrainStart(n)
  <2>1. R!TypeOK'
    BY <1>10 DEF R!DrainStart, R!TypeOK
  <2>2. viewed[n] \in {"open", "closed"}
    BY <1>0, <1>4, <1>10, Allowed DEF R!DrainStart
  <2>3. R!View!DrainStart(n)
    BY <1>2, <1>10, <2>2 DEF R!DrainStart, R!View!DrainStart, viewed
  <2>4. QED
    BY <1>1, <2>1, <2>3 DEF R!View!ViewOnlyStep
<1>11. CASE R!DrainCordon(n)
  <2> DEFINE row == [node[n] EXCEPT !.cordoned = TRUE]
  <2>1. /\ row \in NodeRows
        /\ Seen(row) = IF Seen(node[n]) = "open" THEN "closed" ELSE Seen(node[n])
    BY Zenon, <1>0 DEF NodeRows, Seen
  <2>2. /\ node' = [node EXCEPT ![n] = row] /\ draining' = [draining EXCEPT ![n] = "cancel"]
        /\ UNCHANGED <<access, contact, removing, sweep, token>>
        /\ draining[n] = "cordon" /\ node[n].state # "removed"
    BY <1>11 DEF R!DrainCordon
  <2> HIDE DEF row
  <2>3. R!TypeOK'
    BY Zenon, <1>0, <2>1, <2>2, RowTyped
  <2>4. viewed' = [viewed EXCEPT ![n] = IF viewed[n] = "open" THEN "closed" ELSE viewed[n]]
    BY Zenon, <1>3, <2>1, <2>2, NodeWritten
  <2>5. R!View!DrainCordon(n)
    BY <1>4, <2>2, <2>4 DEF R!View!DrainCordon, viewed
  <2>6. QED
    BY <1>1, <2>3, <2>5 DEF R!View!ViewOnlyStep
<1>12. CASE R!DrainCancel(n)
  <2>1. R!TypeOK'
    BY <1>12 DEF R!DrainCancel, R!TypeOK
  <2>2. R!View!DrainCancel(n)
    BY <1>2, <1>12 DEF R!DrainCancel, R!View!DrainCancel, viewed
  <2>3. QED
    BY <1>1, <2>1, <2>2
<1>13. CASE R!DrainFinish(n)
  <2> DEFINE row == [node[n] EXCEPT !.state = "drained"]
  <2>1. row \in NodeRows /\ Seen(row) = "drained"
    BY <1>0 DEF NodeRows, R!NodeStates, Seen
  <2>2. /\ node' = [node EXCEPT ![n] = row] /\ draining' = [draining EXCEPT ![n] = "idle"]
        /\ UNCHANGED <<access, contact, removing, sweep, token>>
        /\ draining[n] = "finish" /\ node[n].state \notin {"drained", "removed"}
    BY <1>0, <1>13, Allowed DEF R!DrainFinish
  <2> HIDE DEF row
  <2>3. R!TypeOK'
    BY Zenon, <1>0, <2>1, <2>2, RowTyped
  <2>4. viewed' = [viewed EXCEPT ![n] = "drained"]
    BY Zenon, <2>1, <2>2, NodeWritten
  <2>5. R!View!DrainFinish(n)
    BY <1>4, <2>2, <2>4 DEF R!View!DrainFinish, viewed
  <2>6. QED
    BY <1>1, <2>3, <2>5 DEF R!View!ViewOnlyStep
<1>14. CASE R!DrainFail(n)
  <2>1. R!TypeOK'
    BY <1>14 DEF R!DrainFail, R!TypeOK
  <2>2. R!View!DrainFail(n)
    BY <1>2, <1>14 DEF R!DrainFail, R!View!DrainFail, viewed
  <2>3. QED
    BY <1>1, <2>1, <2>2 DEF R!View!ViewOnlyStep
<1>15. CASE R!RemoveStart(n)
  <2>1. R!TypeOK'
    BY <1>15 DEF R!RemoveStart, R!TypeOK
  <2>2. R!View!RemoveStart(n)
    BY <1>0, <1>2, <1>4, <1>15, Allowed DEF R!RemoveStart, R!View!RemoveStart, viewed
  <2>3. QED
    BY <1>1, <2>1, <2>2 DEF R!View!ViewOnlyStep
<1>16. CASE R!RemoveRevoke(n)
  <2>1. R!TypeOK'
    BY <1>16 DEF R!RemoveRevoke, R!TypeOK
  <2>2. R!View!RemoveRevoke(n)
    BY <1>2, <1>16 DEF R!RemoveRevoke, R!View!RemoveRevoke, viewed
  <2>3. QED
    BY <1>1, <2>1, <2>2 DEF R!View!ViewOnlyStep
<1>17. CASE R!RemoveCancel(n)
  <2>1. R!TypeOK'
    BY <1>17 DEF R!RemoveCancel, R!TypeOK
  <2>2. R!View!RemoveCancel(n)
    BY <1>2, <1>17 DEF R!RemoveCancel, R!View!RemoveCancel, viewed
  <2>3. QED
    BY <1>1, <2>1, <2>2
<1>18. CASE R!RemoveFinish(n)
  <2> DEFINE row == [node[n] EXCEPT !.state = "removed"]
  <2>1. row \in NodeRows /\ Seen(row) = "removed"
    BY <1>0 DEF NodeRows, R!NodeStates, Seen
  <2>2. /\ node' = [node EXCEPT ![n] = row] /\ removing' = [removing EXCEPT ![n] = "idle"]
        /\ UNCHANGED <<access, contact, draining, sweep, token>>
        /\ removing[n] = "finish" /\ node[n].state # "removed"
    BY <1>0, <1>18, Allowed DEF R!RemoveFinish
  <2> HIDE DEF row
  <2>3. R!TypeOK'
    BY Zenon, <1>0, <2>1, <2>2, RowTyped
  <2>4. viewed' = [viewed EXCEPT ![n] = "removed"]
    BY Zenon, <2>1, <2>2, NodeWritten
  <2>5. R!View!RemoveFinish(n)
    BY <1>4, <2>2, <2>4 DEF R!View!RemoveFinish, viewed
  <2>6. QED
    BY <1>1, <2>3, <2>5 DEF R!View!ViewOnlyStep
<1>19. CASE R!RemoveFail(n)
  <2>1. R!TypeOK'
    BY <1>19 DEF R!RemoveFail, R!TypeOK
  <2>2. R!View!RemoveFail(n)
    BY <1>2, <1>19 DEF R!RemoveFail, R!View!RemoveFail, viewed
  <2>3. QED
    BY <1>1, <2>1, <2>2 DEF R!View!ViewOnlyStep
<1>20. QED
  BY <1>5, <1>6, <1>7, <1>8, <1>9, <1>10, <1>11, <1>12, <1>13, <1>14, <1>15, <1>16, <1>17,
     <1>18, <1>19 DEF R!Operating

\* A pass of the sweep, and time.
LEMMA SweepingStep ==
  ASSUME R!TypeOK, R!SweepList \/ \E n \in Fleet : R!SweepApply(n) \/ R!Silence(n)
  PROVE  R!TypeOK' /\ R!ViewStep
<1>0. /\ node \in [Fleet -> NodeRows]
      /\ sweep \in [Fleet -> {"none", "degraded", "offline"}]
      /\ access \in [Fleet -> BOOLEAN] /\ token \in [Fleet -> BOOLEAN]
      /\ draining \in [Fleet -> {"idle", "cordon", "cancel", "finish"}]
      /\ removing \in [Fleet -> {"idle", "revoke", "cancel", "finish"}]
  BY DEF R!TypeOK, NodeRows
<1>1. CASE R!SweepList
  <2>1. \A n \in Fleet : R!SweepWant(n) \in {"none", "degraded", "offline"}
    BY Zenon, <1>0 DEF R!SweepWant, NodeRows
  <2>2. sweep' \in [Fleet -> {"none", "degraded", "offline"}]
        /\ UNCHANGED <<node, access, contact, draining, removing, token>>
    BY <1>1, <2>1 DEF R!SweepList
  <2>3. QED
    BY <2>2, QuietStep DEF R!TypeOK
<1>2. ASSUME NEW n \in Fleet, R!SweepApply(n) PROVE R!TypeOK' /\ R!ViewStep
  <2>0. /\ node[n] \in NodeRows /\ node[n].state \in R!NodeStates
        /\ UNCHANGED <<access, contact, draining, removing, token>>
        /\ sweep[n] \in {"degraded", "offline"}
    BY <1>0, <1>2 DEF NodeRows, R!SweepApply
  <2>1. CASE R!CanTransition(node[n].state, sweep[n])
    <3> DEFINE row == [node[n] EXCEPT !.state = sweep[n]]
    <3>1. row \in NodeRows /\ row.state # "removed" /\ node[n].state # "removed"
      BY <2>0, <2>1, Allowed DEF NodeRows, R!NodeStates
    <3>2. node' = [node EXCEPT ![n] = row] /\ sweep' = [sweep EXCEPT ![n] = "none"]
      BY <1>2, <2>1 DEF R!SweepApply
    <3> HIDE DEF row
    <3>3. QED
      BY Zenon, <1>0, <2>0, <3>1, <3>2, RowStep, RowTyped
  <2>2. CASE ~R!CanTransition(node[n].state, sweep[n])
    <3>1. sweep' = [m \in Fleet |-> "none"] /\ node' = node
      BY <1>2, <2>2 DEF R!SweepApply
    <3>2. QED
      BY <2>0, <3>1, QuietStep DEF R!TypeOK
  <2>3. QED
    BY <2>1, <2>2
<1>3. ASSUME NEW n \in Fleet, R!Silence(n) PROVE R!TypeOK' /\ R!ViewStep
  <2>1. PICK silence \in {"degraded", "offline"} :
          node' = [node EXCEPT ![n] = [node[n] EXCEPT !.silence = silence]]
    BY Zenon, <1>3 DEF R!Silence
  <2> DEFINE row == [node[n] EXCEPT !.silence = silence]
  <2>2. row \in NodeRows /\ Seen(row) = Seen(node[n])
    BY <1>0 DEF NodeRows, Seen
  <2>3. /\ node' = [node EXCEPT ![n] = row]
        /\ UNCHANGED <<access, contact, draining, removing, sweep, token>>
    BY Zenon, <1>3, <2>1 DEF R!Silence
  <2> HIDE DEF row
  <2>4. QED
    BY Zenon, <1>0, <2>2, <2>3, RowStep, RowTyped
<1>4. QED
  BY <1>1, <1>2, <1>3

LEMMA RegistryStep == R!TypeOK /\ [R!Next]_R!vars => R!TypeOK' /\ R!ViewStep
<1> SUFFICES ASSUME R!TypeOK, [R!Next]_R!vars PROVE R!TypeOK' /\ R!ViewStep
  OBVIOUS
<1>1. CASE UNCHANGED R!vars
  BY <1>1, QuietStep DEF R!vars, R!TypeOK
<1>2. QED
  BY <1>1, ContactingStep, OperatingStep, SweepingStep DEF R!Next

LEMMA RegistryInit == R!Init => R!TypeOK /\ R!View!ViewInit
<1> SUFFICES ASSUME R!Init PROVE R!TypeOK /\ R!View!ViewInit
  OBVIOUS
<1>1. R!TypeOK
  BY DEF R!Init, R!TypeOK, R!NodeStates
<1>2. \A n \in Fleet : R!ViewOf(n) = "open"
  BY Zenon DEF R!Init, R!ViewOf, R!Schedulable
<1>3. R!View!ViewInit
  BY <1>2 DEF R!Init, R!View!ViewInit
<1>4. QED
  BY <1>1, <1>3

\* The rows of the registry and the calls in progress keep their types, whichever
\* contacts, drains, removals and sweeps run at once.
THEOREM RegistryTypeCorrect == R!Spec => []R!TypeOK
<1>1. R!TypeOK /\ [R!Next]_R!vars => R!TypeOK'
  BY RegistryStep
<1>2. QED
  BY <1>1, RegistryInit, PTL DEF R!Spec

\* The registry implements the view that the task queue is built on: whatever
\* contact, sweep, drain or rejoin is under way, removal is final and is made by
\* the last statement of Remove only, and a drain cordons, cancels and finishes
\* in that order.
THEOREM RegistryImplementsView == R!Spec => ImplementsView /\ R!ImplementsView
<1>1. R!TypeOK /\ [R!Next]_R!vars => R!ViewStep /\ [R!View!ViewNext]_R!View!viewVars
  BY RegistryStep DEF R!ViewStep
<1>2. QED
  BY <1>1, RegistryInit, RegistryTypeCorrect, PTL
  DEF R!Spec, R!vars, fleetVars, ImplementsView, R!ImplementsView, R!View!ViewSpec

\* SweepLiveness moves no drained or removed node, even one it listed before it
\* was drained or removed.
THEOREM WithdrawnSpared == R!Spec => SweepSparesWithdrawn
<1>1. R!TypeOK /\ [R!Next]_R!vars =>
        \A n \in Fleet : R!SweepApply(n) /\ node[n].state \in {"drained", "removed"}
                            => node'[n].state = node[n].state
  <2> SUFFICES ASSUME R!TypeOK, NEW n \in Fleet, R!SweepApply(n),
                      node[n].state \in {"drained", "removed"}
               PROVE  node'[n].state = node[n].state
    OBVIOUS
  <2>1. sweep[n] \in {"degraded", "offline"} /\ node[n].state \in R!NodeStates
    BY DEF R!TypeOK, R!SweepApply
  <2>2. ~R!CanTransition(node[n].state, sweep[n])
    BY <2>1, Allowed
  <2>3. QED
    BY <2>2 DEF R!SweepApply
<1>2. QED
  BY <1>1, RegistryTypeCorrect, PTL DEF R!Spec, SweepSparesWithdrawn, R!SweepSparesWithdrawn
===============================================================================
