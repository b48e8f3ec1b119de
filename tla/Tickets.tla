------------------------------- MODULE Tickets -------------------------------
(***************************************************************************)
(* The support ticket: its nine states and the handlers of the customer,   *)
(* of the agents and of the scheduled sweeps that move it (src/support).   *)
(*                                                                         *)
(* Every handler reads the row, checks it, and then runs a fixed list of   *)
(* statements computed from what it read; the first that fails ends it.    *)
(* UpdateTicket is conditional on the version that was read, which is what *)
(* the set fresh of a worker stands for.  The clock counts the units the   *)
(* auto-close window and the allowances are given in.  Of the audit log    *)
(* only the warnings are kept: nothing reads its other entries back.       *)
(***************************************************************************)
EXTENDS Naturals, Sequences, FiniteSets

CONSTANTS
  Tickets,     \* identifiers newID() can return
  Agents,      \* enabled agents working in support mode
  NoAgent,     \* assigned_to = 0
  Workers,     \* requests and sweeps being executed at once
  MaxNow,      \* the clock stops here
  AutoClose,   \* tickets.auto_close_hours
  Response,    \* first-response allowance of the policy
  Resolution,  \* resolution allowance of the policy
  Escalate     \* its escalation point, in percent

VARIABLES
  now,     \* the service clock
  ticket,  \* support_tickets
  replied, \* whether a message of an agent reached the customer
  warned,  \* audit entries ticket.sla_warning of a ticket
  worker   \* handlers being executed

vars == <<now, ticket, replied, warned, worker>>

States == {"DRAFT", "OPEN", "ASSIGNED", "IN_PROGRESS", "AWAITING_USER",
           "AWAITING_AGENT", "RESOLVED", "CLOSED", "REOPENED"}
Actors == {"user", "agent", "system"}

\* The table, as the edges each actor may drive.
transitions ==
  [user |-> {<<"DRAFT", "OPEN">>, <<"AWAITING_USER", "AWAITING_AGENT">>,
             <<"RESOLVED", "AWAITING_AGENT">>, <<"RESOLVED", "CLOSED">>,
             <<"CLOSED", "REOPENED">>},
   agent |-> {<<"OPEN", "ASSIGNED">>, <<"ASSIGNED", "IN_PROGRESS">>,
              <<"ASSIGNED", "OPEN">>, <<"IN_PROGRESS", "AWAITING_USER">>,
              <<"AWAITING_AGENT", "AWAITING_USER">>,
              <<"AWAITING_AGENT", "IN_PROGRESS">>}
             \cup {"ASSIGNED", "IN_PROGRESS", "AWAITING_USER",
                   "AWAITING_AGENT"} \X {"RESOLVED"},
   system |-> {<<"OPEN", "ASSIGNED">>, <<"RESOLVED", "CLOSED">>,
               <<"REOPENED", "OPEN">>}]

CanTransition(from, to, actor) == <<from, to>> \in transitions[actor]

IsOpenState(s) == s \in {"OPEN", "ASSIGNED", "IN_PROGRESS", "AWAITING_USER",
                         "AWAITING_AGENT", "REOPENED"}

NoTicket == [status |-> "none", assignedTo |-> NoAgent, createdAt |-> 0,
             firstResponseAt |-> 0, resolvedAt |-> 0, closedAt |-> 0]
Idle == [task |-> "", fresh |-> {}, todo |-> <<>>]

Init ==
  /\ now = 1
  /\ ticket = [t \in Tickets |-> NoTicket]
  /\ replied = [t \in Tickets |-> FALSE]
  /\ warned = [t \in Tickets |-> 0]
  /\ worker = [w \in Workers |-> Idle]

-----------------------------------------------------------------------------
(* Statements of the store, and the lists of them the service computes.     *)

Update(t, r, actor) == [kind |-> "update", tk |-> t, row |-> r, word |-> actor]
InsertMessage(t, author) ==
  [kind |-> "message", tk |-> t, row |-> NoTicket, word |-> author]
HasAudit(t) == [kind |-> "check", tk |-> t, row |-> NoTicket, word |-> ""]
Warning(t) == [kind |-> "warn", tk |-> t, row |-> NoTicket, word |-> ""]

\* Mutant: a reopened ticket keeps the stamps of its first life.
MovedStale(r, to) ==
  CASE to = "RESOLVED" -> [r EXCEPT !.status = to, !.resolvedAt = now]
    [] to = "CLOSED" -> [r EXCEPT !.status = to, !.closedAt = now]
    [] OTHER -> [r EXCEPT !.status = to]

\* What applyTransition does to its copy of the row.
Moved(r, to) ==
  CASE to = "RESOLVED" -> [r EXCEPT !.status = to, !.resolvedAt = now]
    [] to = "CLOSED" -> [r EXCEPT !.status = to, !.closedAt = now]
    [] to = "OPEN" /\ r.status = "REOPENED" ->
         [r EXCEPT !.status = to, !.resolvedAt = 0, !.closedAt = 0,
                   !.assignedTo = NoAgent, !.createdAt = now,
                   !.firstResponseAt = 0]
    [] OTHER -> [r EXCEPT !.status = to]

applyTransition(t, r, to, actor) == <<Update(t, Moved(r, to), actor)>>

assign(t, r, a) ==
  LET owned == [r EXCEPT !.assignedTo = a]
  IN <<Update(t, owned, "agent")>>
     \o IF r.status = "OPEN" THEN applyTransition(t, owned, "ASSIGNED", "agent")
        ELSE <<>>

-----------------------------------------------------------------------------
(* The handlers, from the read of the row to the statements that follow.    *)

Start(w, t, statements) ==
  /\ worker[w].todo = <<>>
  /\ worker' = [worker EXCEPT ![w] = [task |-> "", fresh |-> {t}, todo |-> statements]]
  /\ UNCHANGED <<now, ticket, replied, warned>>

EscalateBotSession(t) ==
  /\ ticket[t].status = "none"
  /\ ticket' = [ticket EXCEPT ![t] = [NoTicket EXCEPT !.status = "DRAFT",
                                                      !.createdAt = now]]
  /\ UNCHANGED <<now, replied, warned, worker>>

SaveDraft(w, t) ==
  /\ ticket[t].status = "DRAFT"
  /\ Start(w, t, <<Update(t, ticket[t], "user")>>)

SubmitTicket(w, t) ==
  /\ CanTransition(ticket[t].status, "OPEN", "user")
  /\ Start(w, t, <<Update(t, [ticket[t] EXCEPT !.status = "OPEN",
                                               !.createdAt = now], "user")>>)

AddUserReply(w, t) ==
  LET r == ticket[t]
  IN /\ IsOpenState(r.status) \/ r.status = "RESOLVED"
     /\ Start(w, t, <<InsertMessage(t, "user")>>
                    \o IF CanTransition(r.status, "AWAITING_AGENT", "user")
                         THEN applyTransition(t, r, "AWAITING_AGENT", "user")
                         ELSE <<Update(t, r, "user")>>)

CloseTicket(w, t) ==
  /\ CanTransition(ticket[t].status, "CLOSED", "user")
  /\ Start(w, t, applyTransition(t, ticket[t], "CLOSED", "user"))

ReopenTicket(w, t) ==
  /\ CanTransition(ticket[t].status, "REOPENED", "user")
  /\ Start(w, t, applyTransition(t, ticket[t], "REOPENED", "user")
                 \o applyTransition(t, Moved(ticket[t], "REOPENED"), "OPEN", "system"))

ClaimTicket(w, t, a) ==
  /\ ticket[t].status # "none"
  /\ ticket[t].assignedTo \in {NoAgent, a}
  /\ Start(w, t, assign(t, ticket[t], a))

AssignTicket(w, t, a) ==
  /\ ticket[t].status # "none"
  /\ Start(w, t, assign(t, ticket[t], a))

\* Mutant: an internal note counts as the first response.
AgentReplyNoteAnswers(w, t) ==
  LET r == ticket[t]
      answered == IF r.firstResponseAt = 0
                    THEN [r EXCEPT !.firstResponseAt = now] ELSE r
  IN /\ r.status \notin {"none", "DRAFT"}
     /\ Start(w, t, <<InsertMessage(t, "note"), Update(t, answered, "agent")>>)

AgentReply(w, t) ==
  LET r == ticket[t]
      answered == IF r.firstResponseAt = 0
                    THEN [r EXCEPT !.firstResponseAt = now] ELSE r
  IN /\ r.status \notin {"none", "DRAFT"}
     /\ \/ Start(w, t, <<InsertMessage(t, "note")>>)
        \/ Start(w, t, <<InsertMessage(t, "agent"), Update(t, answered, "agent")>>
                       \o IF CanTransition(r.status, "AWAITING_USER", "agent")
                            THEN applyTransition(t, answered, "AWAITING_USER", "agent")
                            ELSE <<>>)

AgentTransition(w, t, to) ==
  /\ CanTransition(ticket[t].status, to, "agent")
  /\ Start(w, t, applyTransition(t, ticket[t], to, "agent"))

-----------------------------------------------------------------------------
(* The sweeps read every ticket first and then work through what they read. *)
(* They are cluster-wide tasks: each runs on one node at a time.            *)

TicketsInState(states) == {t \in Tickets : ticket[t].status \in states}

\* The rows of a query, in any order.
Listed(due) ==
  {q \in [1..Cardinality(due) -> due] : \A i, j \in DOMAIN q : q[i] = q[j] => i = j}

Sweep(w, task, due, statement(_)) ==
  /\ worker[w].todo = <<>>
  /\ \A v \in Workers : worker[v].task # task
  /\ due # {}
  /\ \E q \in Listed(due) :
       worker' = [worker EXCEPT ![w] =
                    [task |-> task, fresh |-> due,
                     todo |-> [i \in 1..Cardinality(due) |-> statement(q[i])]]]
  /\ UNCHANGED <<now, ticket, replied, warned>>

\* Mutant: every resolved ticket is closed, whatever its age.
runAutoCloseEager(w) ==
  LET closed(t) == Update(t, Moved(ticket[t], "CLOSED"), "system")
  IN Sweep(w, "auto-close", TicketsInState({"RESOLVED"}), closed)

runAutoClose(w) ==
  LET closed(t) == Update(t, Moved(ticket[t], "CLOSED"), "system")
  IN Sweep(w, "auto-close",
           {t \in TicketsInState({"RESOLVED"}) :
              /\ ticket[t].resolvedAt # 0
              /\ ticket[t].resolvedAt + AutoClose <= now}, closed)

percentOf(elapsed, allowance) == (elapsed * 100) \div allowance

\* Whether one of the two clocks of a ticket has passed the escalation point.
EvaluateSLA(r) ==
  LET answered == IF r.firstResponseAt > 0 THEN r.firstResponseAt ELSE now
      elapsed(at) == IF at > r.createdAt THEN at - r.createdAt ELSE 0
  IN /\ r.createdAt > 0
     /\ IsOpenState(r.status)
     /\ \/ percentOf(elapsed(answered), Response) >= Escalate
        \/ percentOf(elapsed(now), Resolution) >= Escalate

\* Mutant: the audit log is not asked whether the warning was sent.
runSLASweepForgetful(w) ==
  Sweep(w, "sla-sweep",
        {t \in TicketsInState({"OPEN", "ASSIGNED", "IN_PROGRESS",
                               "AWAITING_USER", "AWAITING_AGENT"}) :
           EvaluateSLA(ticket[t])}, Warning)

runSLASweep(w) ==
  Sweep(w, "sla-sweep",
        {t \in TicketsInState({"OPEN", "ASSIGNED", "IN_PROGRESS",
                               "AWAITING_USER", "AWAITING_AGENT"}) :
           EvaluateSLA(ticket[t])}, HasAudit)

-----------------------------------------------------------------------------
(* One statement of a worker.                                               *)

\* The handler after one more of its statements.
Rest(w) ==
  IF Len(worker[w].todo) = 1 THEN Idle ELSE [worker[w] EXCEPT !.todo = Tail(@)]

\* Mutant: the write does not ask for the version that was read.
UpdateTicketBlind(w) ==
  LET s == Head(worker[w].todo)
  IN /\ worker[w].todo # <<>> /\ s.kind = "update"
     /\ ticket' = [ticket EXCEPT ![s.tk] =
                     [s.row EXCEPT !.createdAt = ticket[s.tk].createdAt]]
     /\ worker' = [worker EXCEPT ![w] = Rest(w)]
     /\ UNCHANGED <<now, replied, warned>>

\* created_at is not among the columns the statement sets.
UpdateTicket(w) ==
  LET s == Head(worker[w].todo)
  IN /\ worker[w].todo # <<>> /\ s.kind = "update"
     /\ s.tk \in worker[w].fresh
     /\ ticket' = [ticket EXCEPT ![s.tk] =
                     [s.row EXCEPT !.createdAt = ticket[s.tk].createdAt]]
     /\ worker' = [v \in Workers |->
                     IF v = w THEN Rest(w)
                     ELSE [worker[v] EXCEPT !.fresh = @ \ {s.tk}]]
     /\ UNCHANGED <<now, replied, warned>>

\* A message, a warning, or a look at the audit log, which a warning follows if
\* there was none.
OtherStatement(w) ==
  LET s == Head(worker[w].todo)
  IN /\ worker[w].todo # <<>>
     /\ s.kind # "update"
     /\ replied' = [replied EXCEPT ![s.tk] = @ \/ (s.kind = "message" /\ s.word = "agent")]
     /\ warned' = IF s.kind = "warn" THEN [warned EXCEPT ![s.tk] = @ + 1] ELSE warned
     /\ worker' = [worker EXCEPT ![w] =
                     IF s.kind = "check" /\ warned[s.tk] = 0
                       THEN [worker[w] EXCEPT !.todo = <<Warning(s.tk)>> \o Tail(@)]
                       ELSE Rest(w)]
     /\ UNCHANGED <<now, ticket>>

\* A conflict, a failing statement, or the end of the process.
HandlerFails(w) ==
  /\ worker[w].todo # <<>>
  /\ worker' = [worker EXCEPT ![w] = Idle]
  /\ UNCHANGED <<now, ticket, replied, warned>>

Tick ==
  /\ now < MaxNow
  /\ now' = now + 1
  /\ UNCHANGED <<ticket, replied, warned, worker>>

Handlers(w) ==
  \E t \in Tickets :
    \/ SaveDraft(w, t) \/ SubmitTicket(w, t)
    \/ AddUserReply(w, t) \/ CloseTicket(w, t) \/ ReopenTicket(w, t)
    \/ AgentReply(w, t)
    \/ \E a \in Agents : ClaimTicket(w, t, a) \/ AssignTicket(w, t, a)
    \/ \E to \in States : AgentTransition(w, t, to)

Next ==
  \/ \E t \in Tickets : EscalateBotSession(t)
  \/ \E w \in Workers : Handlers(w) \/ runAutoClose(w) \/ runSLASweep(w)
  \/ \E w \in Workers : UpdateTicket(w) \/ OtherStatement(w) \/ HandlerFails(w)
  \/ Tick

Spec == Init /\ [][Next]_vars

-----------------------------------------------------------------------------
(* Properties.                                                              *)

\* A stored status only ever moves along an edge that the actor whose
\* statement moves it may drive, although every handler decides on a row it
\* read earlier.
MoveIsEdge ==
  \A t \in Tickets :
    \/ ticket'[t].status = ticket[t].status
    \/ ticket[t].status = "none" /\ ticket'[t].status = "DRAFT"
    \/ \E w \in Workers :
         /\ worker'[w].todo # worker[w].todo
         /\ CanTransition(ticket[t].status, ticket'[t].status,
                          Head(worker[w].todo).word)

\* The stamps agree with the status: a resolution or a closure is stamped
\* while it stands, and nothing before the first resolution, or after a
\* reopening went back to the queue, carries a stamp of an earlier life.
StampsMatchStatus ==
  \A t \in Tickets :
    LET r == ticket[t]
    IN /\ r.status \in {"DRAFT", "OPEN", "ASSIGNED"} => r.resolvedAt = 0 /\ r.closedAt = 0
       /\ r.status \in {"RESOLVED", "CLOSED", "REOPENED"} => r.resolvedAt > 0
       /\ r.status \in {"CLOSED", "REOPENED"} <=> r.closedAt > 0

\* The sweep closes a ticket only if the resolution that is stored at that
\* moment has stood for the whole window: a reply, a second resolution or a
\* reopening in between is never closed over.
SweepClosesOnlyOld ==
  \A t \in Tickets, w \in Workers :
    /\ ticket[t].status = "RESOLVED" /\ ticket'[t].status = "CLOSED"
    /\ worker'[w].todo # worker[w].todo
    /\ Head(worker[w].todo).word = "system"
    => ticket[t].resolvedAt + AutoClose <= now

\* A ticket is warned about at most once, over all sweeps, replies and
\* reopenings.
WarnedOnce == \A t \in Tickets : warned[t] <= 1

\* The first-response clock is stopped only by a message the customer can
\* read, never by an internal note.
ResponseWasSent ==
  \A t \in Tickets : ticket[t].firstResponseAt > 0 => replied[t]

(* Statements of the source that TLC refutes; see the README.               *)

\* state.go: "an unclaimed ticket must be claimed first, so that a resolution
\* always has a responsible agent recorded against it".
ResolutionOwned ==
  \A t \in Tickets : ticket[t].status = "RESOLVED" => ticket[t].assignedTo # NoAgent

\* tickets.go: "The SLA clock starts when the ticket enters the queue, not when
\* the draft was created".
ClockStartsAtSubmit ==
  [][\A t \in Tickets :
       ticket[t].status = "DRAFT" /\ ticket'[t].status = "OPEN"
         => ticket'[t].createdAt = now]_vars

\* tickets.go: "The draft is not a ticket: it is invisible to agents".
DraftHasNoAgent ==
  \A t \in Tickets : ticket[t].status = "DRAFT" => ticket[t].assignedTo = NoAgent

\* state.go: "REOPENED is a marker state the system immediately drains back
\* into the queue", when no statement fails and the process lives.
FairSpec ==
  /\ Init /\ [][Next /\ ~ \E w \in Workers :
                   HandlerFails(w) /\ Head(worker[w].todo).tk \in worker[w].fresh]_vars
  /\ \A w \in Workers :
       WF_vars(UpdateTicket(w) \/ OtherStatement(w) \/ HandlerFails(w))
ReopenedIsDrained ==
  \A t \in Tickets : (ticket[t].status = "REOPENED") ~> (ticket[t].status # "REOPENED")
==============================================================================
