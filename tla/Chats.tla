-------------------------------- MODULE Chats --------------------------------
(***************************************************************************)
(* Live chat and the presence of the agents who answer it (src/support).   *)
(*                                                                         *)
(* A handler reads the session row, checks it, and later writes the whole  *)
(* row back from its copy: UpdateChatSession has no version to compare.    *)
(* Support mode lives in the memory of the process and lapses on its own.  *)
(***************************************************************************)
EXTENDS Naturals, Sequences, FiniteSets

CONSTANTS
  Chats,       \* identifiers newID() can return
  Agents,      \* accounts with a support_agents row
  NoAgent,     \* agent_id = 0
  Workers,     \* requests and sweeps being executed at once
  MaxNow,      \* the clock stops here
  ModeTTL,     \* SupportModeTTL
  AwayAfter,   \* idle time after which an agent is away
  MaxChats,    \* max_concurrent_chats of an agent
  Capacity     \* chat.max_concurrent

VARIABLES
  now,       \* the service clock
  agent,     \* support_agents: enabled and last_activity_at
  mode,      \* expiry of the support mode of an agent, 0 when not in it
  chat,      \* support_chat_sessions
  tickets,   \* the chats for which a ticket has been inserted
  worker     \* statements a handler still has to run, for its copy of a row

vars == <<now, agent, mode, chat, tickets, worker>>

Ended == {"CLOSED", "ESCALATED", "ABANDONED"}
Statuses == {"none", "QUEUED", "ACTIVE"} \cup Ended

NoChat == [status |-> "none", agent |-> NoAgent, ticket |-> FALSE,
           endedAt |-> 0, lastEventAt |-> 0]

Init ==
  /\ now = 1
  /\ agent = [a \in Agents |-> [enabled |-> TRUE, lastActivityAt |-> 1]]
  /\ mode = [a \in Agents |-> 0]
  /\ chat = [c \in Chats |-> NoChat]
  /\ tickets = {}
  /\ worker = [w \in Workers |-> <<>>]

-----------------------------------------------------------------------------
(* Support mode and presence.                                               *)

TouchAgent(a) == [agent EXCEPT ![a].lastActivityAt = now]

SupportModeFor(a) == mode[a] > now

EnterSupportMode(a) ==
  /\ agent[a].enabled
  /\ mode' = [mode EXCEPT ![a] = now + ModeTTL]
  /\ agent' = TouchAgent(a)
  /\ UNCHANGED <<now, chat, tickets, worker>>

ExitSupportMode(a) ==
  /\ mode[a] # 0
  /\ mode' = [mode EXCEPT ![a] = 0]
  /\ UNCHANGED <<now, agent, chat, tickets, worker>>

\* An administrator enables or disables the account.
SaveAgent(a) ==
  /\ agent' = [agent EXCEPT ![a].enabled = ~ @]
  /\ UNCHANGED <<now, mode, chat, tickets, worker>>

\* The state of the memory is lost with the process, the handlers with it.
Restart ==
  /\ mode' = [a \in Agents |-> 0]
  /\ worker' = [w \in Workers |-> <<>>]
  /\ UNCHANGED <<now, agent, chat, tickets>>

CountActiveChats(a) ==
  Cardinality({c \in Chats : chat[c].status = "ACTIVE" /\ chat[c].agent = a})

AvailabilityOf(a) ==
  IF ~ agent[a].enabled \/ ~ SupportModeFor(a) THEN "OFFLINE"
  ELSE IF now - agent[a].lastActivityAt >= AwayAfter THEN "AWAY"
  ELSE IF CountActiveChats(a) >= MaxChats THEN "BUSY"
  ELSE "AVAILABLE"

ChatSessionsByStatus(statuses) == {c \in Chats : chat[c].status \in statuses}

\* Only the chats of enabled agents are counted as active.
Roster == {a \in Agents : agent[a].enabled}

ChatAvailable ==
  /\ \E a \in Roster : AvailabilityOf(a) = "AVAILABLE"
  /\ Cardinality({c \in ChatSessionsByStatus({"ACTIVE"}) : chat[c].agent \in Roster})
       + Cardinality(ChatSessionsByStatus({"QUEUED"})) < Capacity

-----------------------------------------------------------------------------
(* The handlers, up to the first statement that writes.                     *)

UpdateChatSession(c, r) == [kind |-> "update", chat |-> c, row |-> r]
InsertChatSession(c, r) == [kind |-> "insert", chat |-> c, row |-> r]
InsertTicket(c) == [kind |-> "ticket", chat |-> c, row |-> NoChat]

Start(w, statements) ==
  /\ worker[w] = <<>>
  /\ worker' = [worker EXCEPT ![w] = statements]
  /\ UNCHANGED <<now, mode, chat, tickets>>

requireAgent(a) ==
  /\ agent[a].enabled
  /\ SupportModeFor(a)
  /\ agent' = TouchAgent(a)

\* newID() returns no identifier that is stored or about to be.
StartChat(w, c) ==
  /\ chat[c].status = "none"
  /\ \A v \in Workers : \A i \in 1..Len(worker[v]) : worker[v][i].chat # c
  /\ ChatAvailable
  /\ Start(w, <<InsertChatSession(c, [NoChat EXCEPT !.status = "QUEUED",
                                                    !.lastEventAt = now])>>)
  /\ UNCHANGED agent

Said(c) == <<UpdateChatSession(c, [chat[c] EXCEPT !.lastEventAt = now])>>

PostChatMessage(w, c) ==
  /\ chat[c].status \in {"ACTIVE", "QUEUED"}
  /\ Start(w, Said(c))
  /\ UNCHANGED agent

AgentChatMessage(w, c, a) ==
  /\ requireAgent(a)
  /\ chat[c].status = "ACTIVE" /\ chat[c].agent = a
  /\ Start(w, Said(c))

\* Mutant: the session becomes active before it has its agent.
AcceptChatHalf(w, c, a) ==
  /\ requireAgent(a)
  /\ chat[c].status = "QUEUED"
  /\ CountActiveChats(a) < MaxChats
  /\ Start(w, <<UpdateChatSession(c, [chat[c] EXCEPT !.status = "ACTIVE",
                                                     !.lastEventAt = now])>>)

AcceptChat(w, c, a) ==
  /\ requireAgent(a)
  /\ chat[c].status = "QUEUED"
  /\ CountActiveChats(a) < MaxChats
  /\ Start(w, <<UpdateChatSession(c, [chat[c] EXCEPT !.status = "ACTIVE",
                                                     !.agent = a,
                                                     !.lastEventAt = now])>>)

Ending(c, status) ==
  UpdateChatSession(c, [chat[c] EXCEPT !.status = status, !.endedAt = now,
                                       !.lastEventAt = now])

\* Either side; an ended session is returned as it is, unless it was abandoned.
CloseChat(w, c) ==
  /\ chat[c].status \notin {"none", "CLOSED", "ESCALATED"}
  /\ Start(w, <<Ending(c, IF chat[c].status = "QUEUED" THEN "ABANDONED" ELSE "CLOSED")>>)
  /\ \/ UNCHANGED agent
     \/ \E a \in Agents : requireAgent(a)

\* Mutant: the session names its ticket before there is one.
EscalateChatEarly(w, c, a) ==
  /\ requireAgent(a)
  /\ chat[c].status = "ACTIVE" /\ chat[c].agent = a
  /\ Start(w, <<UpdateChatSession(c, [Ending(c, "ESCALATED").row EXCEPT !.ticket = TRUE]),
                InsertTicket(c)>>)

EscalateChat(w, c, a) ==
  /\ requireAgent(a)
  /\ chat[c].status = "ACTIVE" /\ chat[c].agent = a
  /\ Start(w, <<InsertTicket(c),
                UpdateChatSession(c, [Ending(c, "ESCALATED").row EXCEPT !.ticket = TRUE])>>)

\* The model does not keep queued_at: the rows come in any order.
Listed(cs) == {s \in [1..Cardinality(cs) -> cs] : \A i, j \in DOMAIN s : i # j => s[i] # s[j]}

\* The sweep reads every live session and then ends the idle ones in turn.
runChatReaper(w) ==
  LET idle(c) == now - chat[c].lastEventAt
      abandoned == {c \in ChatSessionsByStatus({"QUEUED"}) : idle(c) >= AwayAfter}
      quiet == {c \in ChatSessionsByStatus({"ACTIVE"}) : idle(c) >= 2 * AwayAfter}
  IN /\ abandoned \cup quiet # {}
     /\ \E reaped \in Listed(abandoned \cup quiet) :
          Start(w, [i \in DOMAIN reaped |->
                      Ending(reaped[i], IF chat[reaped[i]].status = "QUEUED" THEN "ABANDONED"
                                        ELSE "CLOSED")])
     /\ UNCHANGED agent

-----------------------------------------------------------------------------
Statement(w) ==
  LET s == Head(worker[w])
  IN /\ worker[w] # <<>>
     /\ worker' = [worker EXCEPT ![w] = Tail(@)]
     /\ IF s.kind = "ticket"
          THEN tickets' = tickets \cup {s.chat} /\ UNCHANGED chat
          ELSE chat' = [chat EXCEPT ![s.chat] = s.row] /\ UNCHANGED tickets
     /\ UNCHANGED <<now, agent, mode>>

HandlerFails(w) ==
  /\ worker[w] # <<>>
  /\ worker' = [worker EXCEPT ![w] = <<>>]
  /\ UNCHANGED <<now, agent, mode, chat, tickets>>

Tick ==
  /\ now < MaxNow
  /\ now' = now + 1
  /\ UNCHANGED <<agent, mode, chat, tickets, worker>>

Next ==
  \/ \E a \in Agents : EnterSupportMode(a) \/ ExitSupportMode(a) \/ SaveAgent(a)
  \/ Restart \/ Tick
  \/ \E w \in Workers :
       \/ Statement(w) \/ HandlerFails(w) \/ runChatReaper(w)
       \/ \E c \in Chats :
            \/ StartChat(w, c) \/ PostChatMessage(w, c) \/ CloseChat(w, c)
            \/ \E a \in Agents :
                 AgentChatMessage(w, c, a) \/ AcceptChat(w, c, a) \/ EscalateChat(w, c, a)

Spec == Init /\ [][Next]_vars

-----------------------------------------------------------------------------
(* Properties.                                                              *)

\* However stale the copies are that handlers write back, a stored session is
\* one that some order of whole handlers could have left: a live one has an
\* agent exactly when it is active and carries no end, an ended one does.
RowsAreWhole ==
  \A c \in Chats :
    LET r == chat[c]
    IN /\ r.status \in Statuses
       /\ r.status = "QUEUED" => r.agent = NoAgent
       /\ r.status \in {"ACTIVE", "ESCALATED"} => r.agent # NoAgent
       /\ r.status \in Ended <=> r.endedAt > 0
       /\ r.status = "ESCALATED" <=> r.ticket

\* A session that says it was turned into a ticket was: the ticket is inserted
\* before the session is ended, and a failure between the two leaves the chat
\* with its agent.
EscalatedHasTicket == \A c \in Chats : chat[c].status = "ESCALATED" => c \in tickets

(* Statements of the source that TLC refutes; see the README.               *)

\* chat.go: "The first agent to accept wins; a second attempt is refused rather
\* than silently reassigning the customer".
AcceptedOnce ==
  [][\A c \in Chats :
       chat[c].status = "ACTIVE" /\ chat'[c].status = "ACTIVE"
         => chat'[c].agent = chat[c].agent]_vars

\* chat.go: "CloseChat ends a conversation".
EndedStaysEnded ==
  [][\A c \in Chats : chat[c].status \in Ended => chat'[c].status \in Ended]_vars

\* chat.go: "the installation is below its concurrent chat ceiling".
BelowCeiling == Cardinality(ChatSessionsByStatus({"QUEUED", "ACTIVE"})) <= Capacity
==============================================================================
