---------------------------- MODULE SupportProofs ----------------------------
(***************************************************************************)
(* What a tenant is answered, for any number of tickets, chats, articles,  *)
(* attachments and requests at once: tickets, live chat, the knowledge     *)
(* base and the shelf of support (src/support).                            *)
(*                                                                         *)
(* A request reads a row, runs a list of statements each of which is       *)
(* atomic, and another request may run between two of them. The invariants *)
(* therefore speak of the lists as well: which statements a request has    *)
(* still to run, for which row, and what the rows that it writes first     *)
(* have made true by then.                                                 *)
(*                                                                         *)
(* The parts share no state; each is declared where it is reasoned about,  *)
(* and the last section puts them side by side.                            *)
(***************************************************************************)
EXTENDS Parts, Naturals, Sequences, FiniteSets, TLAPS

\* What a concatenation is, and when two lists are the same.
LEMMA Joined ==
  ASSUME NEW E, NEW a \in Seq(E), NEW b \in Seq(E)
  PROVE  /\ a \o b \in Seq(E) /\ Len(a \o b) = Len(a) + Len(b)
         /\ \A i \in 1..Len(a) + Len(b) :
              (a \o b)[i] = IF i <= Len(a) THEN a[i] ELSE b[i - Len(a)]
<1>1. a \o b \in Seq(E)
  OBVIOUS
<1>2. Len(a \o b) = Len(a) + Len(b)
  OBVIOUS
<1>3. \A i \in 1..Len(a) + Len(b) : (a \o b)[i] = IF i <= Len(a) THEN a[i] ELSE b[i - Len(a)]
  OBVIOUS
<1>4. QED
  BY <1>1, <1>2, <1>3

LEMMA SameList ==
  ASSUME NEW E, NEW a \in Seq(E), NEW b \in Seq(E), Len(a) = Len(b),
         \A i \in 1..Len(a) : a[i] = b[i]
  PROVE  a = b
OBVIOUS

LEMMA EmptyJoined ==
  ASSUME NEW E, NEW a \in Seq(E)
  PROVE  a \o <<>> = a
<1>1. <<>> \in Seq(E) /\ Len(<<>>) = 0
  OBVIOUS
<1>2. PICK e \in Seq(E) : e = <<>> /\ Len(e) = 0
  BY Zenon, <1>1
<1>3. PICK b : b = a \o e
  BY Zenon
<1>4. /\ b \in Seq(E) /\ Len(b) = Len(a) + Len(e)
      /\ \A i \in 1..Len(a) + Len(e) : b[i] = IF i <= Len(a) THEN a[i] ELSE e[i - Len(a)]
  BY Zenon, <1>3, Joined
<1>5. Len(b) = Len(a) /\ \A i \in 1..Len(b) : b[i] = a[i]
  BY <1>2, <1>4
<1>6. QED
  BY Zenon, <1>2, <1>3, <1>4, <1>5, SameList

\* Short lists, one after the other.
LEMMA JoinOne ==
  ASSUME NEW E, NEW x \in E, NEW y \in E, NEW z \in E
  PROVE  <<x>> \o <<y>> = <<x, y>> /\ <<x, y>> \o <<z>> = <<x, y, z>>
<1>1. <<x>> \in Seq(E) /\ Len(<<x>>) = 1 /\ <<x>>[1] = x
  OBVIOUS
<1>2. <<y>> \in Seq(E) /\ Len(<<y>>) = 1 /\ <<y>>[1] = y
  OBVIOUS
<1>3. <<z>> \in Seq(E) /\ Len(<<z>>) = 1 /\ <<z>>[1] = z
  OBVIOUS
<1>4. <<x, y>> \in Seq(E) /\ Len(<<x, y>>) = 2 /\ <<x, y>>[1] = x /\ <<x, y>>[2] = y
  OBVIOUS
<1>5. /\ <<x, y, z>> \in Seq(E) /\ Len(<<x, y, z>>) = 3
      /\ <<x, y, z>>[1] = x /\ <<x, y, z>>[2] = y /\ <<x, y, z>>[3] = z
  OBVIOUS
<1>6. \A a, b \in Seq(E) :
        /\ a \o b \in Seq(E) /\ Len(a \o b) = Len(a) + Len(b)
        /\ \A i \in 1..Len(a) + Len(b) : (a \o b)[i] = IF i <= Len(a) THEN a[i] ELSE b[i - Len(a)]
  BY Joined
<1>7. ASSUME NEW a \in Seq(E), NEW b \in Seq(E), NEW c \in Seq(E), Len(b) = 1,
             Len(c) = Len(a) + 1, c[Len(c)] = b[1], \A i \in 1..Len(a) : c[i] = a[i]
      PROVE  a \o b = c
  <2>1. PICK d : d = a \o b
    BY Zenon
  <2>2. Len(a) \in Nat
    OBVIOUS
  <2>3. d \in Seq(E) /\ Len(d) = Len(c)
    <3>1. d \in Seq(E) /\ Len(d) = Len(a) + Len(b)
      BY Zenon, <1>6, <2>1
    <3>2. QED
      BY <1>7, <3>1
  <2>4. \A i \in 1..Len(d) : d[i] = IF i <= Len(a) THEN a[i] ELSE b[i - Len(a)]
    <3>1. \A i \in 1..Len(a) + Len(b) : d[i] = IF i <= Len(a) THEN a[i] ELSE b[i - Len(a)]
      BY Zenon, <1>6, <2>1
    <3>2. QED
      BY <1>7, <2>3, <3>1
  <2>5. \A i \in 1..Len(d) : d[i] = c[i]
    BY <1>7, <2>2, <2>3, <2>4
  <2>6. QED
    BY Zenon, <2>1, <2>3, <2>5, SameList
<1>8. <<x>> \o <<y>> = <<x, y>>
  <2>1. \A i \in 1..Len(<<x>>) : <<x, y>>[i] = <<x>>[i]
    BY <1>1, <1>4
  <2>2. <<x, y>>[Len(<<x, y>>)] = <<y>>[1] /\ Len(<<x, y>>) = Len(<<x>>) + 1
    BY <1>1, <1>2, <1>4
  <2>3. QED
    BY Zenon, <1>1, <1>2, <1>4, <1>7, <2>1, <2>2
<1>9. <<x, y>> \o <<z>> = <<x, y, z>>
  <2>1. \A i \in 1..Len(<<x, y>>) : <<x, y, z>>[i] = <<x, y>>[i]
    BY <1>4, <1>5
  <2>2. <<x, y, z>>[Len(<<x, y, z>>)] = <<z>>[1] /\ Len(<<x, y, z>>) = Len(<<x, y>>) + 1
    BY <1>3, <1>4, <1>5
  <2>3. QED
    BY Zenon, <1>3, <1>4, <1>5, <1>7, <2>1, <2>2
<1>10. QED
  BY <1>8, <1>9

-----------------------------------------------------------------------------
(* Tickets.                                                                  *)

CONSTANTS Agents, NoAgent, Tickets, AutoClose, Response, Resolution, Escalate

VARIABLES ticketNow, ticket, replied, warned, desk

T == INSTANCE Tickets WITH now <- ticketNow, worker <- desk

\* Any set of tickets has a number of elements.
FinitelyManyTickets == \A ts \in SUBSET Tickets : Cardinality(ts) \in Nat

TicketRows == [status : T!States \cup {"none"}, assignedTo : Agents \cup {NoAgent},
               createdAt : Nat, firstResponseAt : Nat, resolvedAt : Nat, closedAt : Nat]

\* The stamps of a row agree with its status.
Stamped(r) ==
  /\ r.status \in {"DRAFT", "OPEN", "ASSIGNED"} => r.resolvedAt = 0 /\ r.closedAt = 0
  /\ r.status \in {"RESOLVED", "CLOSED", "REOPENED"} => r.resolvedAt > 0
  /\ r.status \in {"CLOSED", "REOPENED"} <=> r.closedAt > 0

StampedRows == {r \in TicketRows : Stamped(r)}
TicketStatements == [kind : {"update", "message", "check", "warn"}, tk : Tickets,
                     row : StampedRows, word : {"", "user", "agent", "system", "note"}]
Handlings == [task : {"", "auto-close", "sla-sweep"}, fresh : SUBSET Tickets,
              todo : Seq(TicketStatements)]

\* s is a write that the actor it names may make of r.
Follows(r, s, n) ==
  /\ r.status # "none"
  /\ s.row.status = r.status \/ T!CanTransition(r.status, s.row.status, s.word)
  /\ s.word = "system" /\ s.row.status = "CLOSED" => r.resolvedAt + AutoClose <= n

\* The first write of a ticket follows the row, as long as nobody else has
\* written it; the next ones each follow the one before.
Chained(x, tks, n) ==
  \A i \in 1..Len(x.todo) : x.todo[i].kind = "update" =>
    \/ /\ \A j \in 1..(i - 1) : x.todo[j].kind = "update" => x.todo[j].tk # x.todo[i].tk
       /\ x.todo[i].tk \in x.fresh => Follows(tks[x.todo[i].tk], x.todo[i], n)
    \/ /\ i > 1 /\ x.todo[i - 1].kind = "update" /\ x.todo[i - 1].tk = x.todo[i].tk
       /\ Follows(x.todo[i - 1].row, x.todo[i], n)

\* A response that is going to be stamped has been sent, or is sent first.
Answered(q, rp) ==
  \A i \in 1..Len(q) : q[i].kind = "update" /\ q[i].row.firstResponseAt > 0 =>
    \/ rp[q[i].tk]
    \/ \E j \in 1..(i - 1) : q[j].kind = "message" /\ q[j].word = "agent" /\ q[j].tk = q[i].tk

\* Only the sweep warns, right after it has found no warning.
WarnsOnce(x, wn) ==
  \A i \in 1..Len(x.todo) :
    /\ x.todo[i].kind \in {"check", "warn"} => x.task = "sla-sweep"
    /\ x.todo[i].kind = "warn" => i = 1 /\ wn[x.todo[i].tk] = 0

TicketInv ==
  /\ ticketNow \in Nat \ {0}
  /\ ticket \in [Tickets -> StampedRows]
  /\ replied \in [Tickets -> BOOLEAN]
  /\ warned \in [Tickets -> {0, 1}]
  /\ desk \in [Workers -> Handlings]
  /\ \A t \in Tickets : ticket[t].firstResponseAt > 0 => replied[t]
  /\ \A w \in Workers :
       /\ Chained(desk[w], ticket, ticketNow)
       /\ Answered(desk[w].todo, replied)
       /\ WarnsOnce(desk[w], warned)
  /\ \A v, w \in Workers : desk[v].task = "sla-sweep" /\ desk[w].task = "sla-sweep" => v = w

LEMMA NoTicketStamped == T!NoTicket \in StampedRows
<1>1. PICK r : r = T!NoTicket
  OBVIOUS
<1>2. /\ r \in TicketRows /\ r.status = "none" /\ r.resolvedAt = 0 /\ r.closedAt = 0
  BY <1>1 DEF T!NoTicket, TicketRows
<1>3. Stamped(r)
  BY <1>2 DEF Stamped
<1>4. QED
  BY <1>1, <1>2, <1>3 DEF StampedRows

LEMMA IdleHandling ==
  /\ T!Idle \in Handlings
  /\ T!Idle.task = ""
  /\ \A tks, n : Chained(T!Idle, tks, n)
  /\ \A rp : Answered(T!Idle.todo, rp)
  /\ \A wn : WarnsOnce(T!Idle, wn)
<1>1. PICK q : q = <<>>
  BY Zenon
<1>2. q \in Seq(TicketStatements) /\ Len(q) = 0
  BY <1>1
<1>3. PICK x : x = T!Idle
  OBVIOUS
<1>4. x = [task |-> "", fresh |-> {}, todo |-> q]
  BY Zenon, <1>1, <1>3 DEF T!Idle
<1>5. x.task = "" /\ x.fresh = {} /\ x.todo = q
  BY Zenon, <1>4
<1>6. x \in Handlings
  BY Zenon, <1>2, <1>4 DEF Handlings
<1>7. /\ \A tks, n : Chained(x, tks, n)
      /\ \A rp : Answered(x.todo, rp)
      /\ \A wn : WarnsOnce(x, wn)
  <2>1. \A i \in 1..Len(q) : FALSE
    BY <1>2
  <2>2. x.todo = q
    BY Zenon, <1>5
  <2>3. QED
    BY Zenon, <2>1, <2>2 DEF Chained, Answered, WarnsOnce
<1>8. QED
  BY Zenon, <1>3, <1>5, <1>6, <1>7

\* What applyTransition makes of a row, along an edge of the table.
LEMMA MovedStamped ==
  ASSUME TicketInv, NEW r \in StampedRows, NEW to \in T!States, NEW actor \in T!Actors,
         T!CanTransition(r.status, to, actor)
  PROVE  /\ T!Moved(r, to) \in StampedRows
         /\ T!Moved(r, to).status = to
         /\ T!Moved(r, to).firstResponseAt \in {0, r.firstResponseAt}
<1>1. PICK n \in Nat \ {0} : n = ticketNow
  BY DEF TicketInv
<1>2. r \in TicketRows /\ Stamped(r)
  BY DEF StampedRows
<1>3. /\ r.status \in T!States \cup {"none"} /\ r.assignedTo \in Agents \cup {NoAgent}
      /\ r.createdAt \in Nat /\ r.firstResponseAt \in Nat /\ r.resolvedAt \in Nat
      /\ r.closedAt \in Nat
  BY <1>2 DEF TicketRows
<1>4. <<r.status, to>> \in T!transitions.user \cup T!transitions.agent \cup T!transitions.system
  BY DEF T!CanTransition, T!Actors, T!transitions
<1>5. CASE to = "RESOLVED"
  <2>1. PICK x : x = [r EXCEPT !.status = to, !.resolvedAt = n]
    OBVIOUS
  <2>2. /\ x \in TicketRows /\ x.status = to /\ x.firstResponseAt = r.firstResponseAt
        /\ x.resolvedAt = n /\ x.closedAt = r.closedAt
    BY Zenon, <1>2, <1>3, <2>1 DEF TicketRows
  <2>3. r.status \notin {"CLOSED", "REOPENED"}
    BY <1>4, <1>5 DEF T!transitions
  <2>4. Stamped(x)
    BY <1>2, <1>3, <1>5, <2>2, <2>3 DEF Stamped
  <2>5. T!Moved(r, to) = x
    BY <1>1, <1>5, <2>1 DEF T!Moved
  <2>6. QED
    BY <2>2, <2>4, <2>5 DEF StampedRows
<1>6. CASE to = "CLOSED"
  <2>1. PICK x : x = [r EXCEPT !.status = to, !.closedAt = n]
    OBVIOUS
  <2>2. /\ x \in TicketRows /\ x.status = to /\ x.firstResponseAt = r.firstResponseAt
        /\ x.resolvedAt = r.resolvedAt /\ x.closedAt = n
    BY Zenon, <1>2, <1>3, <2>1 DEF TicketRows
  <2>3. r.status = "RESOLVED"
    BY <1>4, <1>6 DEF T!transitions
  <2>4. Stamped(x)
    BY <1>2, <1>3, <1>6, <2>2, <2>3 DEF Stamped
  <2>5. T!Moved(r, to) = x
    BY <1>1, <1>6, <2>1 DEF T!Moved
  <2>6. QED
    BY <2>2, <2>4, <2>5 DEF StampedRows
<1>7. CASE to = "OPEN" /\ r.status = "REOPENED"
  <2>1. PICK x : x = [r EXCEPT !.status = to, !.resolvedAt = 0, !.closedAt = 0,
                               !.assignedTo = NoAgent, !.createdAt = n, !.firstResponseAt = 0]
    OBVIOUS
  <2>2. /\ x \in TicketRows /\ x.status = to /\ x.firstResponseAt = 0
        /\ x.resolvedAt = 0 /\ x.closedAt = 0
    BY Zenon, <1>2, <1>3, <2>1 DEF TicketRows
  <2>3. Stamped(x)
    BY <1>7, <2>2 DEF Stamped
  <2>4. T!Moved(r, to) = x
    BY <1>1, <1>7, <2>1 DEF T!Moved
  <2>5. QED
    BY <2>2, <2>3, <2>4 DEF StampedRows
<1>8. CASE to \notin {"RESOLVED", "CLOSED"} /\ ~(to = "OPEN" /\ r.status = "REOPENED")
  <2>1. PICK x : x = [r EXCEPT !.status = to]
    BY Zenon
  <2>2. /\ x \in TicketRows /\ x.status = to /\ x.firstResponseAt = r.firstResponseAt
        /\ x.resolvedAt = r.resolvedAt /\ x.closedAt = r.closedAt
    BY <1>2, <1>3, <2>1 DEF TicketRows
  <2>3. /\ to \in {"OPEN", "ASSIGNED"} => r.status \in {"DRAFT", "OPEN", "ASSIGNED"}
        /\ to # "DRAFT"
        /\ to = "REOPENED" => r.status = "CLOSED"
        /\ to # "REOPENED" => r.status \notin {"CLOSED", "REOPENED"}
    BY <1>4, <1>8 DEF T!transitions
  <2>4. Stamped(x)
    BY <1>2, <1>3, <1>8, <2>2, <2>3 DEF Stamped
  <2>5. T!Moved(r, to) = x
    BY <1>8, <2>1 DEF T!Moved
  <2>6. QED
    BY <2>2, <2>4, <2>5 DEF StampedRows
<1>9. QED
  BY <1>5, <1>6, <1>7, <1>8

\* A row whose status is kept keeps its stamps.
LEMMA KeptStamped ==
  ASSUME TicketInv, NEW r \in StampedRows, NEW a \in Agents
  PROVE  /\ [r EXCEPT !.assignedTo = a] \in StampedRows
         /\ [r EXCEPT !.assignedTo = a].status = r.status
         /\ [r EXCEPT !.assignedTo = a].firstResponseAt = r.firstResponseAt
<1>1. r \in TicketRows /\ Stamped(r)
  BY DEF StampedRows
<1>2. PICK x : x = [r EXCEPT !.assignedTo = a]
  BY Zenon
<1>3. /\ x \in TicketRows /\ x.status = r.status /\ x.firstResponseAt = r.firstResponseAt
      /\ x.resolvedAt = r.resolvedAt /\ x.closedAt = r.closedAt
  BY <1>1, <1>2 DEF TicketRows
<1>4. Stamped(x)
  BY <1>1, <1>3 DEF Stamped
<1>5. QED
  BY <1>2, <1>3, <1>4 DEF StampedRows

LEMMA AnsweredStamped ==
  ASSUME TicketInv, NEW r \in StampedRows
  PROVE  /\ [r EXCEPT !.firstResponseAt = ticketNow] \in StampedRows
         /\ [r EXCEPT !.firstResponseAt = ticketNow].status = r.status
<1>1. r \in TicketRows /\ Stamped(r)
  BY DEF StampedRows
<1>2. PICK x : x = [r EXCEPT !.firstResponseAt = ticketNow]
  BY Zenon
<1>3. ticketNow \in Nat
  BY DEF TicketInv
<1>4. /\ x \in TicketRows /\ x.status = r.status
      /\ x.resolvedAt = r.resolvedAt /\ x.closedAt = r.closedAt
  BY <1>1, <1>2, <1>3 DEF TicketRows
<1>5. Stamped(x)
  BY <1>1, <1>4 DEF Stamped
<1>6. QED
  BY <1>2, <1>4, <1>5 DEF StampedRows

\* A row of which only the statement's columns are taken.
LEMMA WrittenStamped ==
  ASSUME NEW r \in StampedRows, NEW n \in Nat
  PROVE  /\ [r EXCEPT !.createdAt = n] \in StampedRows
         /\ [r EXCEPT !.createdAt = n].status = r.status
         /\ [r EXCEPT !.createdAt = n].resolvedAt = r.resolvedAt
         /\ [r EXCEPT !.createdAt = n].firstResponseAt = r.firstResponseAt
<1>1. r \in TicketRows /\ Stamped(r)
  BY DEF StampedRows
<1>2. PICK x : x = [r EXCEPT !.createdAt = n]
  BY Zenon
<1>3. /\ x \in TicketRows /\ x.status = r.status /\ x.firstResponseAt = r.firstResponseAt
      /\ x.resolvedAt = r.resolvedAt /\ x.closedAt = r.closedAt
  BY <1>1, <1>2 DEF TicketRows
<1>4. Stamped(x)
  BY <1>1, <1>3 DEF Stamped
<1>5. QED
  BY <1>2, <1>3, <1>4 DEF StampedRows

\* A handler starts with messages and then writes that follow each other.
LEMMA TicketStarts ==
  ASSUME TicketInv, NEW w \in Workers, NEW t \in Tickets, NEW q \in Seq(TicketStatements),
         NEW k \in Nat, T!Start(w, t, q),
         \A i \in 1..Len(q) : q[i].tk = t /\ q[i].kind = (IF i <= k THEN "message" ELSE "update"),
         \A i \in 1..Len(q) : i = k + 1 => Follows(ticket[t], q[i], ticketNow),
         \A i \in 1..Len(q) : i > k + 1 => Follows(q[i - 1].row, q[i], ticketNow),
         \A i \in 1..Len(q) : i > k /\ q[i].row.firstResponseAt > 0 =>
           replied[t] \/ (k = 1 /\ q[1].word = "agent")
  PROVE  TicketInv'
<1>1. PICK x : x = [task |-> "", fresh |-> {t}, todo |-> q]
  BY Zenon
<1>2. x.task = "" /\ x.fresh = {t} /\ x.todo = q /\ x \in Handlings
  BY Zenon, <1>1 DEF Handlings
<1>3. desk' = [desk EXCEPT ![w] = x] /\ UNCHANGED <<ticketNow, ticket, replied, warned>>
  BY Zenon, <1>1 DEF T!Start
<1>4. desk' \in [Workers -> Handlings]
  BY Zenon, <1>2, <1>3 DEF TicketInv
<1>5. Chained(x, ticket, ticketNow)
  <2>1. SUFFICES ASSUME NEW i \in 1..Len(q), q[i].kind = "update"
                 PROVE  \/ /\ \A j \in 1..(i - 1) : q[j].kind = "update" => q[j].tk # q[i].tk
                           /\ q[i].tk \in x.fresh => Follows(ticket[q[i].tk], q[i], ticketNow)
                        \/ /\ i > 1 /\ q[i - 1].kind = "update" /\ q[i - 1].tk = q[i].tk
                           /\ Follows(q[i - 1].row, q[i], ticketNow)
    BY Zenon, <1>2 DEF Chained
  <2>2. i \in Nat /\ Len(q) \in Nat /\ i > k /\ q[i].tk = t
    BY <2>1
  <2>3. CASE i = k + 1
    <3>1. \A j \in 1..(i - 1) : q[j].kind = "message"
      BY <2>2, <2>3
    <3>2. QED
      BY <2>2, <2>3, <3>1
  <2>4. CASE i > k + 1
    <3>1. i - 1 \in 1..Len(q) /\ i - 1 > k
      BY <2>2, <2>4
    <3>2. q[i - 1].kind = "update" /\ q[i - 1].tk = t
      BY <3>1
    <3>3. QED
      BY <2>2, <2>4, <3>1, <3>2
  <2>5. QED
    BY <2>2, <2>3, <2>4
<1>6. Answered(q, replied)
  <2>1. SUFFICES ASSUME NEW i \in 1..Len(q), q[i].kind = "update", q[i].row.firstResponseAt > 0,
                        ~ replied[q[i].tk]
                 PROVE  \E j \in 1..(i - 1) : /\ q[j].kind = "message" /\ q[j].word = "agent"
                                              /\ q[j].tk = q[i].tk
    BY DEF Answered
  <2>2. i \in Nat /\ Len(q) \in Nat /\ i > k /\ q[i].tk = t
    BY <2>1
  <2>3. k = 1 /\ q[1].word = "agent"
    BY <2>1, <2>2
  <2>4. 1 \in 1..(i - 1) /\ 1 \in 1..Len(q)
    BY <2>2, <2>3
  <2>5. q[1].kind = "message" /\ q[1].tk = t
    BY <2>3, <2>4
  <2>6. QED
    BY <2>2, <2>3, <2>4, <2>5
<1>7. WarnsOnce(x, warned)
  <2>1. \A i \in 1..Len(x.todo) : x.todo[i].kind \in {"message", "update"}
    BY Zenon, <1>2
  <2>2. QED
    BY <2>1 DEF WarnsOnce
<1>8. \A v \in Workers : /\ Chained(desk'[v], ticket, ticketNow)
                         /\ Answered(desk'[v].todo, replied)
                         /\ WarnsOnce(desk'[v], warned)
  BY Zenon, <1>2, <1>3, <1>5, <1>6, <1>7 DEF TicketInv
<1>9. \A u, v \in Workers : desk'[u].task = "sla-sweep" /\ desk'[v].task = "sla-sweep" => u = v
  BY Zenon, <1>2, <1>3 DEF TicketInv
<1>10. QED
  BY <1>3, <1>4, <1>8, <1>9 DEF TicketInv

\* One write, alone or after a message of the customer.
LEMMA OneWrite ==
  ASSUME TicketInv, NEW w \in Workers, NEW t \in Tickets, NEW u \in TicketStatements,
         u.kind = "update", u.tk = t, Follows(ticket[t], u, ticketNow),
         u.row.firstResponseAt > 0 => replied[t],
         \/ T!Start(w, t, <<u>>)
         \/ T!Start(w, t, <<T!InsertMessage(t, "user"), u>>)
  PROVE  TicketInv'
<1>1. CASE T!Start(w, t, <<u>>)
  <2>1. PICK q : q = <<u>>
    BY Zenon
  <2>2. q \in Seq(TicketStatements) /\ Len(q) = 1 /\ q[1] = u
    BY <2>1
  <2>3. /\ \A i \in 1..Len(q) : i = 1
        /\ T!Start(w, t, q)
    BY <1>1, <2>1, <2>2
  <2>4. /\ \A i \in 1..Len(q) : q[i].tk = t /\ q[i].kind = (IF i <= 0 THEN "message" ELSE "update")
        /\ \A i \in 1..Len(q) : i = 0 + 1 => Follows(ticket[t], q[i], ticketNow)
        /\ \A i \in 1..Len(q) : i > 0 + 1 => Follows(q[i - 1].row, q[i], ticketNow)
        /\ \A i \in 1..Len(q) : i > 0 /\ q[i].row.firstResponseAt > 0 =>
             replied[t] \/ (0 = 1 /\ q[1].word = "agent")
    BY <2>2, <2>3
  <2>5. QED
    BY Zenon, <2>2, <2>3, <2>4, TicketStarts
<1>2. CASE T!Start(w, t, <<T!InsertMessage(t, "user"), u>>)
  <2>1. PICK m : m = T!InsertMessage(t, "user")
    BY Zenon
  <2>2. m \in TicketStatements /\ m.kind = "message" /\ m.tk = t
    BY Zenon, <2>1, NoTicketStamped DEF T!InsertMessage, TicketStatements
  <2>3. PICK q : q = <<m, u>>
    BY Zenon
  <2>4. q \in Seq(TicketStatements) /\ Len(q) = 2 /\ q[1] = m /\ q[2] = u
    BY <2>2, <2>3
  <2>5. /\ \A i \in 1..Len(q) : i = 1 \/ i = 2
        /\ T!Start(w, t, q)
    BY <1>2, <2>1, <2>3, <2>4
  <2>6. /\ \A i \in 1..Len(q) : q[i].tk = t /\ q[i].kind = (IF i <= 1 THEN "message" ELSE "update")
        /\ \A i \in 1..Len(q) : i = 1 + 1 => Follows(ticket[t], q[i], ticketNow)
        /\ \A i \in 1..Len(q) : i > 1 + 1 => Follows(q[i - 1].row, q[i], ticketNow)
        /\ \A i \in 1..Len(q) : i > 1 /\ q[i].row.firstResponseAt > 0 =>
             replied[t] \/ (1 = 1 /\ q[1].word = "agent")
    BY <2>2, <2>4, <2>5
  <2>7. QED
    BY Zenon, <2>4, <2>5, <2>6, TicketStarts
<1>3. QED
  BY <1>1, <1>2

\* Two writes, of which the second follows the first.
LEMMA TwoWrites ==
  ASSUME TicketInv, NEW w \in Workers, NEW t \in Tickets, NEW u \in TicketStatements,
         NEW v \in TicketStatements, u.kind = "update", u.tk = t, v.kind = "update", v.tk = t,
         Follows(ticket[t], u, ticketNow), Follows(u.row, v, ticketNow),
         u.row.firstResponseAt > 0 => replied[t], v.row.firstResponseAt > 0 => replied[t],
         T!Start(w, t, <<u, v>>)
  PROVE  TicketInv'
<1>1. PICK q : q = <<u, v>>
  BY Zenon
<1>2. q \in Seq(TicketStatements) /\ Len(q) = 2 /\ q[1] = u /\ q[2] = v
  BY <1>1
<1>3. /\ \A i \in 1..Len(q) : i = 1 \/ i = 2
      /\ T!Start(w, t, q)
  BY <1>1, <1>2
<1>4. /\ \A i \in 1..Len(q) : q[i].tk = t /\ q[i].kind = (IF i <= 0 THEN "message" ELSE "update")
      /\ \A i \in 1..Len(q) : i = 0 + 1 => Follows(ticket[t], q[i], ticketNow)
      /\ \A i \in 1..Len(q) : i > 0 + 1 => Follows(q[i - 1].row, q[i], ticketNow)
      /\ \A i \in 1..Len(q) : i > 0 /\ q[i].row.firstResponseAt > 0 =>
           replied[t] \/ (0 = 1 /\ q[1].word = "agent")
  BY <1>2, <1>3
<1>5. QED
  BY Zenon, <1>2, <1>3, <1>4, TicketStarts

\* A message of an agent, then a write that stamps it, and perhaps another.
LEMMA ResponseFirst ==
  ASSUME TicketInv, NEW w \in Workers, NEW t \in Tickets, NEW u \in TicketStatements,
         NEW v \in TicketStatements, u.kind = "update", u.tk = t, v.kind = "update", v.tk = t,
         Follows(ticket[t], u, ticketNow), Follows(u.row, v, ticketNow),
         \/ T!Start(w, t, <<T!InsertMessage(t, "agent"), u>>)
         \/ T!Start(w, t, <<T!InsertMessage(t, "agent"), u, v>>)
  PROVE  TicketInv'
<1>1. PICK m : m = T!InsertMessage(t, "agent")
  BY Zenon
<1>2. m \in TicketStatements /\ m.kind = "message" /\ m.tk = t /\ m.word = "agent"
  BY Zenon, <1>1, NoTicketStamped DEF T!InsertMessage, TicketStatements
<1>3. PICK q : (q = <<m, u>> \/ q = <<m, u, v>>) /\ T!Start(w, t, q)
  BY Zenon, <1>1
<1>4. /\ q \in Seq(TicketStatements) /\ q[1] = m /\ q[2] = u
      /\ Len(q) = 2 \/ (Len(q) = 3 /\ q[3] = v)
  <2>1. CASE q = <<m, u>>
    BY <1>2, <2>1
  <2>2. CASE q = <<m, u, v>>
    BY <1>2, <2>2
  <2>3. QED
    BY <1>3, <2>1, <2>2
<1>5. \A i \in 1..Len(q) : i = 1 \/ i = 2 \/ (i = 3 /\ q[3] = v)
  <2>1. CASE Len(q) = 2
    BY <2>1
  <2>2. CASE Len(q) = 3 /\ q[3] = v
    BY <2>2
  <2>3. QED
    BY <1>4, <2>1, <2>2
<1>6. /\ \A i \in 1..Len(q) : q[i].tk = t /\ q[i].kind = (IF i <= 1 THEN "message" ELSE "update")
      /\ \A i \in 1..Len(q) : i = 1 + 1 => Follows(ticket[t], q[i], ticketNow)
      /\ \A i \in 1..Len(q) : i > 1 + 1 => Follows(q[i - 1].row, q[i], ticketNow)
      /\ \A i \in 1..Len(q) : i > 1 /\ q[i].row.firstResponseAt > 0 =>
           replied[t] \/ (1 = 1 /\ q[1].word = "agent")
  BY <1>2, <1>4, <1>5
<1>7. QED
  BY Zenon, <1>3, <1>4, <1>6, TicketStarts

\* A note is written and nothing else.
LEMMA NoteStarts ==
  ASSUME TicketInv, NEW w \in Workers, NEW t \in Tickets,
         T!Start(w, t, <<T!InsertMessage(t, "note")>>)
  PROVE  TicketInv'
<1>1. PICK m : m = T!InsertMessage(t, "note")
  BY Zenon
<1>2. m \in TicketStatements /\ m.kind = "message" /\ m.tk = t
  BY Zenon, <1>1, NoTicketStamped DEF T!InsertMessage, TicketStatements
<1>3. PICK q : q = <<m>>
  BY Zenon
<1>4. q \in Seq(TicketStatements) /\ q[1] = m /\ Len(q) = 1
  BY <1>2, <1>3
<1>5. /\ \A i \in 1..Len(q) : i = 1
      /\ T!Start(w, t, q)
  BY <1>1, <1>3, <1>4
<1>6. /\ \A i \in 1..Len(q) : q[i].tk = t /\ q[i].kind = (IF i <= 1 THEN "message" ELSE "update")
      /\ \A i \in 1..Len(q) : i = 1 + 1 => Follows(ticket[t], q[i], ticketNow)
      /\ \A i \in 1..Len(q) : i > 1 + 1 => Follows(q[i - 1].row, q[i], ticketNow)
      /\ \A i \in 1..Len(q) : i > 1 /\ q[i].row.firstResponseAt > 0 =>
           replied[t] \/ (1 = 1 /\ q[1].word = "agent")
  BY <1>2, <1>4, <1>5
<1>7. QED
  BY <1>4, <1>5, <1>6, TicketStarts

\* What Update makes of a stamped row.
LEMMA UpdateStatement ==
  ASSUME NEW t \in Tickets, NEW r \in StampedRows, NEW actor \in T!Actors
  PROVE  /\ T!Update(t, r, actor) \in TicketStatements
         /\ T!Update(t, r, actor).kind = "update" /\ T!Update(t, r, actor).tk = t
         /\ T!Update(t, r, actor).row = r /\ T!Update(t, r, actor).word = actor
<1>1. PICK u : u = T!Update(t, r, actor)
  BY Zenon
<1>2. u = [kind |-> "update", tk |-> t, row |-> r, word |-> actor]
  BY Zenon, <1>1 DEF T!Update
<1>3. u.kind = "update" /\ u.tk = t /\ u.row = r /\ u.word = actor
  BY <1>2
<1>4. u \in TicketStatements
  BY Zenon, <1>2 DEF TicketStatements, T!Actors
<1>5. QED
  BY <1>1, <1>3, <1>4

\* The handlers of one ticket.
LEMMA TicketHandlers ==
  ASSUME TicketInv, NEW w \in Workers, T!Handlers(w)
  PROVE  TicketInv'
<1>1. PICK t \in Tickets :
        \/ T!SaveDraft(w, t) \/ T!SubmitTicket(w, t)
        \/ T!AddUserReply(w, t) \/ T!CloseTicket(w, t) \/ T!ReopenTicket(w, t)
        \/ T!AgentReply(w, t)
        \/ \E a \in Agents : T!ClaimTicket(w, t, a) \/ T!AssignTicket(w, t, a)
        \/ \E to \in T!States : T!AgentTransition(w, t, to)
  BY Zenon DEF T!Handlers
<1>2. PICK r \in StampedRows : r = ticket[t]
  BY DEF TicketInv
<1>3. r.status \in T!States \cup {"none"} /\ r.firstResponseAt \in Nat
  BY DEF StampedRows, TicketRows
<1>4. r.firstResponseAt > 0 => replied[t]
  BY <1>2 DEF TicketInv
<1>5. T!Actors = {"user", "agent", "system"}
  BY DEF T!Actors
<1>0. r.status # "none"
  <2>1. ASSUME NEW to, NEW actor \in T!Actors, T!CanTransition("none", to, actor) PROVE FALSE
    BY <2>1 DEF T!CanTransition, T!Actors, T!transitions
  <2>2. CASE \/ T!SubmitTicket(w, t) \/ T!CloseTicket(w, t) \/ T!ReopenTicket(w, t)
             \/ \E to \in T!States : T!AgentTransition(w, t, to)
    BY Zenon, <1>2, <1>5, <2>1, <2>2
       DEF T!SubmitTicket, T!CloseTicket, T!ReopenTicket, T!AgentTransition
  <2>3. CASE \/ T!SaveDraft(w, t) \/ T!AddUserReply(w, t) \/ T!AgentReply(w, t)
             \/ \E a \in Agents : T!ClaimTicket(w, t, a) \/ T!AssignTicket(w, t, a)
    <3>1. \/ ticket[t].status = "DRAFT"
          \/ T!IsOpenState(ticket[t].status) \/ ticket[t].status = "RESOLVED"
          \/ ticket[t].status # "none"
      BY Zenon, <2>3 DEF T!SaveDraft, T!AddUserReply, T!AgentReply, T!ClaimTicket, T!AssignTicket
    <3>2. QED
      BY <1>2, <3>1 DEF T!IsOpenState
  <2>4. QED
    BY <1>1, <2>2, <2>3
\* A write that keeps the status.
<1>6. ASSUME NEW x \in StampedRows, NEW actor \in {"user", "agent"}, x.status = r.status
      PROVE  Follows(r, T!Update(t, x, actor), ticketNow)
  <2>1. /\ T!Update(t, x, actor).row = x /\ T!Update(t, x, actor).word = actor
    BY <1>5, UpdateStatement
  <2>2. QED
    BY <1>0, <1>6, <2>1 DEF Follows
\* A write along an edge.
<1>7. ASSUME NEW x \in StampedRows, NEW to \in T!States, NEW actor \in T!Actors,
             T!CanTransition(x.status, to, actor), actor = "system" => to # "CLOSED"
      PROVE  /\ T!Moved(x, to) \in StampedRows
             /\ Follows(x, T!Update(t, T!Moved(x, to), actor), ticketNow)
             /\ T!Moved(x, to).status = to
             /\ T!Moved(x, to).firstResponseAt \in {0, x.firstResponseAt}
  <2>1. PICK y \in StampedRows : /\ y = T!Moved(x, to) /\ y.status = to
                                 /\ y.firstResponseAt \in {0, x.firstResponseAt}
    BY <1>7, MovedStamped
  <2>2. T!Update(t, y, actor).row = y /\ T!Update(t, y, actor).word = actor
    BY UpdateStatement
  <2>3. x.status # "none"
    BY <1>7 DEF T!CanTransition, T!Actors, T!transitions
  <2>4. Follows(x, T!Update(t, y, actor), ticketNow)
    BY <1>7, <2>1, <2>2, <2>3 DEF Follows
  <2>5. QED
    BY <2>1, <2>4
\* One transition, alone or after a message.
<1>8. ASSUME NEW to \in T!States, NEW actor \in {"user", "agent"},
             T!CanTransition(r.status, to, actor),
             \/ T!Start(w, t, <<T!Update(t, T!Moved(r, to), actor)>>)
             \/ T!Start(w, t, <<T!InsertMessage(t, "user"), T!Update(t, T!Moved(r, to), actor)>>)
      PROVE  TicketInv'
  <2>1. actor \in T!Actors
    BY <1>5
  <2>2. PICK y \in StampedRows :
          /\ y = T!Moved(r, to) /\ y.firstResponseAt \in {0, r.firstResponseAt}
          /\ Follows(r, T!Update(t, y, actor), ticketNow)
    BY <1>7, <1>8, <2>1
  <2>3. PICK u \in TicketStatements : u = T!Update(t, y, actor) /\ u.kind = "update" /\ u.tk = t
                                      /\ u.row = y
    BY <2>1, UpdateStatement
  <2>4. u.row.firstResponseAt > 0 => replied[t]
    BY <1>3, <1>4, <2>2, <2>3
  <2>5. T!Start(w, t, <<u>>) \/ T!Start(w, t, <<T!InsertMessage(t, "user"), u>>)
    BY Zenon, <1>8, <2>2, <2>3
  <2>6. Follows(ticket[t], u, ticketNow)
    BY <1>2, <2>2, <2>3
  <2>7. QED
    BY <2>3, <2>4, <2>5, <2>6, OneWrite
\* The row is written back, alone or after a message.
<1>9. ASSUME \/ T!Start(w, t, <<T!Update(t, r, "user")>>)
             \/ T!Start(w, t, <<T!InsertMessage(t, "user"), T!Update(t, r, "user")>>)
      PROVE  TicketInv'
  <2>1. PICK u \in TicketStatements : u = T!Update(t, r, "user") /\ u.kind = "update" /\ u.tk = t
                                      /\ u.row = r
    BY <1>5, UpdateStatement
  <2>2. Follows(ticket[t], u, ticketNow)
    BY <1>2, <1>6, <2>1
  <2>3. QED
    BY Zenon, <1>4, <1>9, <2>1, <2>2, OneWrite
<1>10. CASE T!SaveDraft(w, t)
  BY <1>2, <1>9, <1>10 DEF T!SaveDraft
<1>11. CASE T!SubmitTicket(w, t)
  <2>1. PICK x : x = [r EXCEPT !.status = "OPEN", !.createdAt = ticketNow]
    OBVIOUS
  <2>2. T!CanTransition(r.status, "OPEN", "user") /\ T!Start(w, t, <<T!Update(t, x, "user")>>)
    BY <1>2, <1>11, <2>1 DEF T!SubmitTicket
  <2>3. r.status = "DRAFT"
    BY <2>2 DEF T!CanTransition, T!transitions
  <2>4. r \in TicketRows /\ Stamped(r)
    BY DEF StampedRows
  <2>5. ticketNow \in Nat
    BY DEF TicketInv
  <2>6. /\ x \in TicketRows /\ x.status = "OPEN" /\ x.firstResponseAt = r.firstResponseAt
        /\ x.resolvedAt = r.resolvedAt /\ x.closedAt = r.closedAt
    BY Zenon, <2>1, <2>4, <2>5 DEF TicketRows, T!States
  <2>7. x \in StampedRows
    BY <2>3, <2>4, <2>6 DEF Stamped, StampedRows
  <2>8. PICK u \in TicketStatements : u = T!Update(t, x, "user") /\ u.kind = "update" /\ u.tk = t
                                      /\ u.row = x /\ u.word = "user"
    BY <1>5, <2>7, UpdateStatement
  <2>9. Follows(ticket[t], u, ticketNow)
    BY <1>0, <1>2, <2>2, <2>6, <2>8 DEF Follows
  <2>10. QED
    BY Zenon, <1>4, <2>2, <2>6, <2>8, <2>9, OneWrite
<1>12. CASE T!AddUserReply(w, t)
  <2>1. PICK m \in TicketStatements : m = T!InsertMessage(t, "user")
    BY Zenon, NoTicketStamped DEF T!InsertMessage, TicketStatements
  <2>2. CASE T!CanTransition(r.status, "AWAITING_AGENT", "user")
    <3>1. "AWAITING_AGENT" \in T!States /\ "user" \in T!Actors
      BY <1>5 DEF T!States
    <3>2. T!Moved(r, "AWAITING_AGENT") \in StampedRows
      BY <2>2, <3>1, MovedStamped
    <3>3. PICK u \in TicketStatements : u = T!Update(t, T!Moved(r, "AWAITING_AGENT"), "user")
      BY <3>1, <3>2, UpdateStatement
    <3>4. T!Start(w, t, <<m>> \o <<u>>)
      BY Zenon, <1>2, <1>12, <2>1, <2>2, <3>3 DEF T!AddUserReply, T!applyTransition
    <3>5. T!Start(w, t, <<m, u>>)
      BY Zenon, <3>4, JoinOne
    <3>6. QED
      BY Zenon, <1>8, <2>1, <2>2, <3>1, <3>3, <3>5
  <2>3. CASE ~T!CanTransition(r.status, "AWAITING_AGENT", "user")
    <3>1. PICK u \in TicketStatements : u = T!Update(t, r, "user")
      BY <1>5, UpdateStatement
    <3>2. T!Start(w, t, <<m>> \o <<u>>)
      BY Zenon, <1>2, <1>12, <2>1, <2>3, <3>1 DEF T!AddUserReply
    <3>3. T!Start(w, t, <<m, u>>)
      BY Zenon, <3>2, JoinOne
    <3>4. QED
      BY <1>9, <2>1, <3>1, <3>3
  <2>4. QED
    BY <2>2, <2>3
<1>13. CASE T!CloseTicket(w, t)
  BY <1>2, <1>8, <1>13 DEF T!CloseTicket, T!applyTransition, T!States
<1>14. ASSUME NEW to \in T!States, T!AgentTransition(w, t, to) PROVE TicketInv'
  BY Zenon, <1>2, <1>8, <1>14 DEF T!AgentTransition, T!applyTransition
<1>15. CASE T!ReopenTicket(w, t)
  <2>1. T!CanTransition(r.status, "REOPENED", "user")
    BY <1>2, <1>15 DEF T!ReopenTicket
  <2>2. "REOPENED" \in T!States /\ "OPEN" \in T!States /\ "user" \in T!Actors
        /\ "system" \in T!Actors
    BY <1>5 DEF T!States
  <2>3. PICK x \in StampedRows :
          /\ x = T!Moved(r, "REOPENED") /\ x.status = "REOPENED"
          /\ x.firstResponseAt \in {0, r.firstResponseAt}
          /\ Follows(r, T!Update(t, x, "user"), ticketNow)
    BY <1>7, <2>1, <2>2
  <2>4. T!CanTransition(x.status, "OPEN", "system")
    BY <2>3 DEF T!CanTransition, T!transitions
  <2>5. PICK y \in StampedRows :
          /\ y = T!Moved(x, "OPEN") /\ y.firstResponseAt \in {0, x.firstResponseAt}
          /\ Follows(x, T!Update(t, y, "system"), ticketNow)
    BY <1>7, <2>2, <2>4
  <2>6. PICK u \in TicketStatements : /\ u = T!Update(t, x, "user") /\ u.kind = "update"
                                      /\ u.tk = t /\ u.row = x
    BY <2>2, UpdateStatement
  <2>7. PICK v \in TicketStatements : /\ v = T!Update(t, y, "system") /\ v.kind = "update"
                                      /\ v.tk = t /\ v.row = y
    BY <2>2, UpdateStatement
  <2>8. T!Start(w, t, <<u>> \o <<v>>)
    BY Zenon, <1>2, <1>15, <2>3, <2>5, <2>6, <2>7 DEF T!ReopenTicket, T!applyTransition
  <2>9. <<u>> \o <<v>> = <<u, v>>
    BY Zenon, JoinOne
  <2>10. /\ u.row.firstResponseAt > 0 => replied[t]
         /\ v.row.firstResponseAt > 0 => replied[t]
    BY <1>3, <1>4, <2>3, <2>5, <2>6, <2>7
  <2>11. Follows(ticket[t], u, ticketNow) /\ Follows(u.row, v, ticketNow)
    BY <1>2, <2>3, <2>5, <2>6, <2>7
  <2>12. QED
    BY Zenon, <2>6, <2>7, <2>8, <2>9, <2>10, <2>11, TwoWrites
<1>16. ASSUME NEW a \in Agents, T!Start(w, t, T!assign(t, r, a)) PROVE TicketInv'
  <2>1. PICK x \in StampedRows : /\ x = [r EXCEPT !.assignedTo = a] /\ x.status = r.status
                                 /\ x.firstResponseAt = r.firstResponseAt
    BY Zenon, KeptStamped
  <2>2. "agent" \in T!Actors /\ "ASSIGNED" \in T!States
    BY <1>5 DEF T!States
  <2>3. PICK u \in TicketStatements : /\ u = T!Update(t, x, "agent") /\ u.kind = "update"
                                      /\ u.tk = t /\ u.row = x
    BY <2>2, UpdateStatement
  <2>4. Follows(ticket[t], u, ticketNow)
    BY Zenon, <1>2, <1>6, <2>1, <2>3
  <2>5. CASE r.status = "OPEN"
    <3>1. T!CanTransition(x.status, "ASSIGNED", "agent")
      BY <2>1, <2>5 DEF T!CanTransition, T!transitions
    <3>2. PICK y \in StampedRows :
            /\ y = T!Moved(x, "ASSIGNED") /\ y.firstResponseAt \in {0, x.firstResponseAt}
            /\ Follows(x, T!Update(t, y, "agent"), ticketNow)
      BY <1>7, <2>2, <3>1
    <3>3. PICK v \in TicketStatements : /\ v = T!Update(t, y, "agent") /\ v.kind = "update"
                                        /\ v.tk = t /\ v.row = y
      BY <2>2, UpdateStatement
    <3>4. T!Start(w, t, <<u>> \o <<v>>)
      BY Zenon, <1>16, <2>1, <2>3, <2>5, <3>2, <3>3 DEF T!assign, T!applyTransition
    <3>5. <<u>> \o <<v>> = <<u, v>>
      BY Zenon, JoinOne
    <3>6. /\ u.row.firstResponseAt > 0 => replied[t]
          /\ v.row.firstResponseAt > 0 => replied[t]
      <4>1. u.row.firstResponseAt = r.firstResponseAt
        BY Zenon, <2>1, <2>3
      <4>2. v.row.firstResponseAt \in {0, r.firstResponseAt}
        BY <2>1, <3>2, <3>3
      <4>3. QED
        BY <1>3, <1>4, <4>1, <4>2
    <3>7. Follows(u.row, v, ticketNow)
      BY <2>3, <3>2, <3>3
    <3>8. T!Start(w, t, <<u, v>>)
      BY Zenon, <3>4, <3>5
    <3>9. u.kind = "update" /\ u.tk = t /\ v.kind = "update" /\ v.tk = t
      BY <2>3, <3>3
    <3>10. QED
      BY <2>4, <3>6, <3>7, <3>8, <3>9, TwoWrites
  <2>6. CASE r.status # "OPEN"
    <3>1. T!Start(w, t, <<u>> \o <<>>)
      BY Zenon, <1>16, <2>1, <2>3, <2>6 DEF T!assign
    <3>2. <<u>> \o <<>> = <<u>>
      OBVIOUS
    <3>3. T!Start(w, t, <<u>>)
      BY <3>1, <3>2
    <3>4. QED
      BY Zenon, <1>4, <2>1, <2>3, <2>4, <3>3, OneWrite
  <2>7. QED
    BY <2>5, <2>6
<1>17. CASE T!AgentReply(w, t)
  <2>1. PICK x : x = IF r.firstResponseAt = 0 THEN [r EXCEPT !.firstResponseAt = ticketNow] ELSE r
    BY Zenon
  <2>2. x \in StampedRows /\ x.status = r.status
    BY <2>1, AnsweredStamped
  <2>3. "agent" \in T!Actors /\ "AWAITING_USER" \in T!States
    BY <1>5 DEF T!States
  <2>4. PICK u \in TicketStatements : /\ u = T!Update(t, x, "agent") /\ u.kind = "update"
                                      /\ u.tk = t /\ u.row = x
    BY <2>2, <2>3, UpdateStatement
  <2>5. Follows(ticket[t], u, ticketNow)
    BY <1>2, <1>6, <2>2, <2>4
  <2>6. CASE T!Start(w, t, <<T!InsertMessage(t, "note")>>)
    BY <2>6, NoteStarts
  <2>7. CASE T!Start(w, t, <<T!InsertMessage(t, "agent"), u>>
                           \o IF T!CanTransition(r.status, "AWAITING_USER", "agent")
                                THEN T!applyTransition(t, x, "AWAITING_USER", "agent")
                                ELSE <<>>)
    <3>1. CASE T!CanTransition(r.status, "AWAITING_USER", "agent")
      <4>1. PICK y \in StampedRows :
              /\ y = T!Moved(x, "AWAITING_USER")
              /\ Follows(x, T!Update(t, y, "agent"), ticketNow)
        BY <1>7, <2>2, <2>3, <3>1
      <4>2. PICK v \in TicketStatements : /\ v = T!Update(t, y, "agent") /\ v.kind = "update"
                                          /\ v.tk = t /\ v.row = y
        BY <2>3, UpdateStatement
      <4>3. PICK m \in TicketStatements : m = T!InsertMessage(t, "agent")
        BY Zenon, NoTicketStamped DEF T!InsertMessage, TicketStatements
      <4>4. T!Start(w, t, <<m, u>> \o <<v>>)
        BY Zenon, <2>7, <3>1, <4>1, <4>2, <4>3 DEF T!applyTransition
      <4>5. T!Start(w, t, <<T!InsertMessage(t, "agent"), u, v>>)
        BY Zenon, <4>3, <4>4, JoinOne
      <4>6. Follows(u.row, v, ticketNow)
        BY <2>4, <4>1, <4>2
      <4>7. QED
        BY Zenon, <2>4, <2>5, <4>2, <4>5, <4>6, ResponseFirst
    <3>2. CASE ~T!CanTransition(r.status, "AWAITING_USER", "agent")
      <4>1. PICK m \in TicketStatements : m = T!InsertMessage(t, "agent")
        BY Zenon, NoTicketStamped DEF T!InsertMessage, TicketStatements
      <4>2. T!Start(w, t, <<m, u>> \o <<>>)
        BY Zenon, <2>7, <3>2, <4>1
      <4>3. T!Start(w, t, <<T!InsertMessage(t, "agent"), u>>)
        <5>1. <<m, u>> \o <<>> = <<m, u>>
          <6>1. <<m, u>> \in Seq(TicketStatements)
            OBVIOUS
          <6>2. QED
            BY Zenon, <6>1, EmptyJoined
        <5>2. QED
          BY Zenon, <4>1, <4>2, <5>1
      <4>4. PICK v \in TicketStatements : /\ v = T!Update(t, x, "agent") /\ v.kind = "update"
                                          /\ v.tk = t /\ v.row = x /\ v.word = "agent"
        BY <2>2, <2>3, UpdateStatement
      <4>5. Follows(u.row, v, ticketNow)
        BY <1>0, <2>2, <2>4, <4>4 DEF Follows
      <4>6. QED
        BY Zenon, <2>4, <2>5, <4>3, <4>4, <4>5, ResponseFirst
    <3>3. QED
      BY <3>1, <3>2
  <2>8. QED
    BY Zenon, <1>2, <1>17, <2>1, <2>4, <2>6, <2>7 DEF T!AgentReply
<1>18. QED
  BY <1>1, <1>2, <1>10, <1>11, <1>12, <1>13, <1>14, <1>15, <1>16, <1>17
     DEF T!ClaimTicket, T!AssignTicket

\* The sweep that closes what has been resolved for the whole window.
LEMMA AutoCloseStarts ==
  ASSUME TicketInv, FinitelyManyTickets, NEW w \in Workers, T!runAutoClose(w)
  PROVE  TicketInv'
<1>1. PICK due : due = {t \in T!TicketsInState({"RESOLVED"}) :
                          /\ ticket[t].resolvedAt # 0
                          /\ ticket[t].resolvedAt + AutoClose <= ticketNow}
  BY Zenon
<1>2. /\ due \in SUBSET Tickets
      /\ \A t \in due : ticket[t].status = "RESOLVED" /\ ticket[t].resolvedAt + AutoClose <= ticketNow
  BY <1>1 DEF T!TicketsInState
<1>3. PICK n \in Nat : n = T!Cardinality(due)
  <2>1. T!Cardinality(due) = Cardinality(due)
    BY Zenon DEF Cardinality, T!Cardinality
  <2>2. QED
    BY <1>2, <2>1 DEF FinitelyManyTickets
<1>4. PICK q \in T!Listed(due) :
        desk' = [desk EXCEPT ![w] =
                   [task |-> "auto-close", fresh |-> due,
                    todo |-> [i \in 1..T!Cardinality(due) |->
                                T!Update(q[i], T!Moved(ticket[q[i]], "CLOSED"), "system")]]]
  BY Zenon, <1>1 DEF T!runAutoClose, T!Sweep
<1>5. UNCHANGED <<ticketNow, ticket, replied, warned>>
  BY Zenon DEF T!runAutoClose, T!Sweep
<1>6. q \in [1..n -> due] /\ \A i, j \in 1..n : q[i] = q[j] => i = j
  BY <1>3, <1>4 DEF T!Listed
<1>7. PICK todo : todo = [i \in 1..n |-> T!Update(q[i], T!Moved(ticket[q[i]], "CLOSED"), "system")]
  BY Zenon
<1>8. ASSUME NEW i \in 1..n
      PROVE  /\ todo[i] \in TicketStatements /\ todo[i].tk = q[i] /\ todo[i].kind = "update"
             /\ Follows(ticket[q[i]], todo[i], ticketNow)
             /\ todo[i].row.firstResponseAt > 0 => replied[q[i]]
  <2>1. PICK t \in Tickets : /\ t = q[i] /\ ticket[t].status = "RESOLVED"
                             /\ ticket[t].resolvedAt + AutoClose <= ticketNow
    BY <1>2, <1>6
  <2>2. PICK r \in StampedRows : r = ticket[t]
    BY DEF TicketInv
  <2>3. "CLOSED" \in T!States /\ "system" \in T!Actors
    BY DEF T!States, T!Actors
  <2>4. T!CanTransition(r.status, "CLOSED", "system")
    BY <2>1, <2>2 DEF T!CanTransition, T!transitions
  <2>5. PICK x \in StampedRows : /\ x = T!Moved(r, "CLOSED") /\ x.status = "CLOSED"
                                 /\ x.firstResponseAt \in {0, r.firstResponseAt}
    BY <2>3, <2>4, MovedStamped
  <2>6. PICK u \in TicketStatements : /\ u = T!Update(t, x, "system") /\ u.kind = "update"
                                      /\ u.tk = t /\ u.row = x /\ u.word = "system"
    BY <2>3, UpdateStatement
  <2>7. todo[i] = u
    BY <1>7, <2>1, <2>2, <2>5, <2>6
  <2>8. Follows(ticket[t], u, ticketNow)
    BY <2>1, <2>2, <2>4, <2>5, <2>6 DEF Follows
  <2>9. r.firstResponseAt \in Nat /\ (r.firstResponseAt > 0 => replied[t])
    BY <2>2 DEF TicketInv, StampedRows, TicketRows
  <2>10. u.row.firstResponseAt > 0 => replied[t]
    BY <2>5, <2>6, <2>9
  <2>11. QED
    BY <2>1, <2>6, <2>7, <2>8, <2>10
<1>9. todo \in Seq(TicketStatements) /\ Len(todo) = n
  BY <1>7, <1>8
<1>10. PICK x : x = [task |-> "auto-close", fresh |-> due, todo |-> todo]
  BY Zenon
<1>11. x.task = "auto-close" /\ x.fresh = due /\ x.todo = todo /\ x \in Handlings
  BY <1>2, <1>9, <1>10 DEF Handlings
<1>12. desk' = [desk EXCEPT ![w] = x]
  BY Zenon, <1>3, <1>4, <1>7, <1>10
<1>13. Chained(x, ticket, ticketNow)
  <2>1. SUFFICES ASSUME NEW i \in 1..n
                 PROVE  /\ \A j \in 1..(i - 1) : todo[j].tk # todo[i].tk
                        /\ Follows(ticket[todo[i].tk], todo[i], ticketNow)
    BY <1>9, <1>11 DEF Chained
  <2>2. \A j \in 1..(i - 1) : j \in 1..n /\ j # i
    BY <1>3
  <2>3. \A j \in 1..n : todo[j].tk = q[j]
    BY <1>8
  <2>4. QED
    BY <1>6, <1>8, <2>2, <2>3
<1>14. Answered(todo, replied) /\ WarnsOnce(x, warned)
  BY <1>8, <1>9, <1>11 DEF Answered, WarnsOnce
<1>15. desk' \in [Workers -> Handlings]
  BY <1>11, <1>12 DEF TicketInv
<1>16. \A v \in Workers : /\ Chained(desk'[v], ticket, ticketNow)
                          /\ Answered(desk'[v].todo, replied)
                          /\ WarnsOnce(desk'[v], warned)
  BY <1>11, <1>12, <1>13, <1>14 DEF TicketInv
<1>17. \A u, v \in Workers : desk'[u].task = "sla-sweep" /\ desk'[v].task = "sla-sweep" => u = v
  BY <1>11, <1>12 DEF TicketInv
<1>18. QED
  BY <1>5, <1>15, <1>16, <1>17 DEF TicketInv

\* The sweep that warns; there is only one.
LEMMA SLASweepStarts ==
  ASSUME TicketInv, FinitelyManyTickets, NEW w \in Workers, T!runSLASweep(w)
  PROVE  TicketInv'
<1>1. PICK due : due = {t \in T!TicketsInState({"OPEN", "ASSIGNED", "IN_PROGRESS",
                                                "AWAITING_USER", "AWAITING_AGENT"}) :
                          T!EvaluateSLA(ticket[t])}
  BY Zenon
<1>2. due \in SUBSET Tickets
  BY <1>1 DEF T!TicketsInState
<1>3. PICK n \in Nat : n = T!Cardinality(due)
  <2>1. T!Cardinality(due) = Cardinality(due)
    BY Zenon DEF Cardinality, T!Cardinality
  <2>2. QED
    BY <1>2, <2>1 DEF FinitelyManyTickets
<1>4. PICK q \in T!Listed(due) :
        desk' = [desk EXCEPT ![w] =
                   [task |-> "sla-sweep", fresh |-> due,
                    todo |-> [i \in 1..T!Cardinality(due) |-> T!HasAudit(q[i])]]]
  BY Zenon, <1>1 DEF T!runSLASweep, T!Sweep
<1>5. /\ UNCHANGED <<ticketNow, ticket, replied, warned>>
      /\ \A v \in Workers : desk[v].task # "sla-sweep"
  BY Zenon DEF T!runSLASweep, T!Sweep
<1>6. q \in [1..n -> due]
  BY <1>3, <1>4 DEF T!Listed
<1>7. PICK todo : todo = [i \in 1..n |-> T!HasAudit(q[i])]
  BY Zenon
<1>8. ASSUME NEW i \in 1..n
      PROVE  todo[i] \in TicketStatements /\ todo[i].kind = "check"
  <2>1. PICK t \in Tickets : t = q[i]
    BY <1>2, <1>6
  <2>2. todo[i] = T!HasAudit(t)
    BY <1>7, <2>1
  <2>3. PICK m : m = T!HasAudit(t)
    BY Zenon
  <2>4. m \in TicketStatements /\ m.kind = "check"
    BY Zenon, <2>3, NoTicketStamped DEF T!HasAudit, TicketStatements
  <2>5. QED
    BY <2>2, <2>3, <2>4
<1>9. todo \in Seq(TicketStatements) /\ Len(todo) = n
  BY <1>7, <1>8
<1>10. PICK x : x = [task |-> "sla-sweep", fresh |-> due, todo |-> todo]
  BY Zenon
<1>11. x.task = "sla-sweep" /\ x.todo = todo /\ x \in Handlings
  BY <1>2, <1>9, <1>10 DEF Handlings
<1>12. desk' = [desk EXCEPT ![w] = x]
  BY Zenon, <1>3, <1>4, <1>7, <1>10
<1>13. Chained(x, ticket, ticketNow) /\ Answered(todo, replied) /\ WarnsOnce(x, warned)
  BY <1>8, <1>9, <1>11 DEF Chained, Answered, WarnsOnce
<1>14. desk' \in [Workers -> Handlings]
  BY <1>11, <1>12 DEF TicketInv
<1>15. \A v \in Workers : /\ Chained(desk'[v], ticket, ticketNow)
                          /\ Answered(desk'[v].todo, replied)
                          /\ WarnsOnce(desk'[v], warned)
  BY <1>11, <1>12, <1>13 DEF TicketInv
<1>16. \A u, v \in Workers : desk'[u].task = "sla-sweep" /\ desk'[v].task = "sla-sweep" => u = v
  BY <1>5, <1>11, <1>12 DEF TicketInv
<1>17. QED
  BY <1>5, <1>14, <1>15, <1>16 DEF TicketInv

\* What is left of a handler after one of its statements.
LEMMA RestOfHandling ==
  ASSUME TicketInv, NEW w \in Workers, NEW q \in Seq(TicketStatements), q = desk[w].todo, q # <<>>
  PROVE  /\ Len(q) \in Nat /\ Len(q) > 0 /\ q[1] \in TicketStatements /\ Head(q) = q[1]
         /\ Tail(q) \in Seq(TicketStatements) /\ Len(Tail(q)) = Len(q) - 1
         /\ \A i \in 1..Len(Tail(q)) : Tail(q)[i] = q[i + 1] /\ i + 1 \in 1..Len(q)
         /\ \/ T!Rest(w) = T!Idle
            \/ /\ T!Rest(w) \in Handlings /\ T!Rest(w).task = desk[w].task
               /\ T!Rest(w).fresh = desk[w].fresh /\ T!Rest(w).todo = Tail(q)
<1>1. Len(q) \in Nat /\ Len(q) > 0
  OBVIOUS
<1>2. /\ q[1] \in TicketStatements /\ Head(q) = q[1]
      /\ Tail(q) \in Seq(TicketStatements) /\ Len(Tail(q)) = Len(q) - 1
  BY <1>1
<1>3. \A i \in 1..Len(Tail(q)) : Tail(q)[i] = q[i + 1] /\ i + 1 \in 1..Len(q)
  BY <1>1, <1>2
<1>4. PICK x \in Handlings : x = desk[w]
  BY DEF TicketInv
<1>5. PICK y : y = [x EXCEPT !.todo = Tail(q)]
  BY Zenon
<1>6. /\ y \in Handlings /\ y.task = x.task /\ y.fresh = x.fresh /\ y.todo = Tail(q)
  BY Zenon, <1>2, <1>4, <1>5 DEF Handlings
<1>7. T!Rest(w) = T!Idle \/ T!Rest(w) = y
  BY <1>4, <1>5 DEF T!Rest
<1>8. QED
  BY <1>1, <1>2, <1>3, <1>4, <1>6, <1>7

\* A write of one worker: it makes the copies of the others stale.
LEMMA UpdateKept ==
  ASSUME TicketInv, NEW w \in Workers, T!UpdateTicket(w)
  PROVE  TicketInv'
<1>1. PICK q \in Seq(TicketStatements) : q = desk[w].todo /\ q # <<>>
  BY Zenon DEF TicketInv, Handlings, T!UpdateTicket
<1>2. PICK s \in TicketStatements : s = q[1] /\ s = Head(q)
  BY <1>1, RestOfHandling
<1>3. s.tk \in Tickets /\ s.row \in StampedRows
  BY Zenon DEF TicketStatements
<1>4. PICK x \in Handlings : x = desk[w] /\ x.todo = q
  BY <1>1 DEF TicketInv
<1>5. s.kind = "update" /\ s.tk \in x.fresh
  BY <1>1, <1>2, <1>4 DEF T!UpdateTicket
<1>6. /\ desk' = [v \in Workers |-> IF v = w THEN T!Rest(w)
                                    ELSE [desk[v] EXCEPT !.fresh = @ \ {s.tk}]]
      /\ UNCHANGED <<ticketNow, replied, warned>>
  BY Zenon, <1>1, <1>2 DEF T!UpdateTicket
<1>7. PICK n \in Nat : n = ticket[s.tk].createdAt
  BY <1>3 DEF TicketInv, StampedRows, TicketRows
<1>8. PICK r \in StampedRows : /\ r = [s.row EXCEPT !.createdAt = n] /\ r.status = s.row.status
                               /\ r.resolvedAt = s.row.resolvedAt
                               /\ r.firstResponseAt = s.row.firstResponseAt
  BY Zenon, <1>3, WrittenStamped
<1>9. ticket' = [ticket EXCEPT ![s.tk] = r]
  BY Zenon, <1>1, <1>2, <1>7, <1>8 DEF T!UpdateTicket
<1>10. ticket' \in [Tickets -> StampedRows]
  BY <1>3, <1>9 DEF TicketInv
<1>11. Len(q) \in Nat /\ 1 \in 1..Len(q)
  BY <1>1, RestOfHandling
<1>12. s.row.firstResponseAt > 0 => replied[s.tk]
  BY <1>1, <1>2, <1>5, <1>11 DEF TicketInv, Answered
<1>13. \A t \in Tickets : ticket'[t].firstResponseAt > 0 => replied[t]
  BY <1>8, <1>9, <1>12 DEF TicketInv
\* What this worker still has to do.
<1>14. ASSUME NEW y \in Handlings, y.todo = Tail(q), y.fresh = x.fresh, y.task = x.task
       PROVE  /\ Chained(y, ticket', ticketNow) /\ Answered(y.todo, replied)
              /\ WarnsOnce(y, warned)
  <2>1. /\ Len(Tail(q)) = Len(q) - 1
        /\ \A i \in 1..Len(Tail(q)) : Tail(q)[i] = q[i + 1] /\ i + 1 \in 1..Len(q)
    BY <1>1, RestOfHandling
  <2>2. /\ Chained(x, ticket, ticketNow) /\ Answered(q, replied) /\ WarnsOnce(x, warned)
    BY <1>4 DEF TicketInv
  <2>3. ASSUME NEW i \in 1..Len(Tail(q)), q[i + 1].kind = "update"
        PROVE  \/ /\ \A j \in 1..(i - 1) : q[j + 1].kind = "update" => q[j + 1].tk # q[i + 1].tk
                  /\ q[i + 1].tk \in x.fresh => Follows(ticket'[q[i + 1].tk], q[i + 1], ticketNow)
               \/ /\ i > 1 /\ q[i].kind = "update" /\ q[i].tk = q[i + 1].tk
                  /\ Follows(q[i].row, q[i + 1], ticketNow)
    <3>1. i \in Nat /\ i + 1 \in 1..Len(q) /\ (i + 1) - 1 = i
      BY <2>1
    <3>2. q[i + 1].tk \in Tickets
      <4>1. q[i + 1] \in TicketStatements
        BY <3>1
      <4>2. QED
        BY Zenon, <4>1 DEF TicketStatements
    <3>3. CASE /\ \A j \in 1..i : q[j].kind = "update" => q[j].tk # q[i + 1].tk
               /\ q[i + 1].tk \in x.fresh => Follows(ticket[q[i + 1].tk], q[i + 1], ticketNow)
      <4>1. \A j \in 1..(i - 1) : j + 1 \in 1..i
        BY <3>1
      <4>2. 1 \in 1..i
        BY <3>1
      <4>3. q[i + 1].tk # s.tk
        BY <1>2, <1>5, <3>3, <4>2
      <4>4. ticket'[q[i + 1].tk] = ticket[q[i + 1].tk]
        BY <1>9, <3>2, <4>3 DEF TicketInv
      <4>5. QED
        BY <3>3, <4>1, <4>4
    <3>4. CASE /\ q[i].kind = "update" /\ q[i].tk = q[i + 1].tk
               /\ Follows(q[i].row, q[i + 1], ticketNow)
      <4>1. CASE i > 1
        BY <3>4, <4>1
      <4>2. CASE i = 1
        <5>1. Follows(s.row, q[i + 1], ticketNow) /\ q[i + 1].tk = s.tk
          BY <1>2, <3>4, <4>2
        <5>2. ticket'[s.tk] = r
          BY <1>3, <1>9 DEF TicketInv
        <5>3. Follows(r, q[i + 1], ticketNow)
          BY <1>8, <5>1 DEF Follows
        <5>4. \A j \in 1..(i - 1) : FALSE
          BY <4>2
        <5>5. QED
          BY <5>1, <5>2, <5>3, <5>4
      <4>3. QED
        BY <3>1, <4>1, <4>2
    <3>5. QED
      BY <1>4, <2>2, <2>3, <3>1, <3>3, <3>4 DEF Chained
  <2>4. Chained(y, ticket', ticketNow)
    <3>1. SUFFICES ASSUME NEW i \in 1..Len(Tail(q)), Tail(q)[i].kind = "update"
                   PROVE  \/ /\ \A j \in 1..(i - 1) :
                                  Tail(q)[j].kind = "update" => Tail(q)[j].tk # Tail(q)[i].tk
                             /\ Tail(q)[i].tk \in x.fresh =>
                                  Follows(ticket'[Tail(q)[i].tk], Tail(q)[i], ticketNow)
                          \/ /\ i > 1 /\ Tail(q)[i - 1].kind = "update"
                             /\ Tail(q)[i - 1].tk = Tail(q)[i].tk
                             /\ Follows(Tail(q)[i - 1].row, Tail(q)[i], ticketNow)
      BY Zenon, <1>14 DEF Chained
    <3>2. Tail(q)[i] = q[i + 1] /\ i \in Nat
      BY <2>1
    <3>3. \A j \in 1..(i - 1) : j \in 1..Len(Tail(q)) /\ Tail(q)[j] = q[j + 1]
      BY <1>11, <2>1, <3>2
    <3>4. i > 1 => i - 1 \in 1..Len(Tail(q)) /\ Tail(q)[i - 1] = q[i]
      <4>1. SUFFICES ASSUME i > 1 PROVE i - 1 \in 1..Len(Tail(q)) /\ Tail(q)[i - 1] = q[i]
        OBVIOUS
      <4>2. i - 1 \in 1..Len(Tail(q)) /\ (i - 1) + 1 = i
        BY <1>11, <2>1, <3>2, <4>1
      <4>3. QED
        BY <2>1, <4>2
    <3>5. QED
      BY <2>3, <3>1, <3>2, <3>3, <3>4
  <2>5. Answered(y.todo, replied)
    <3>1. SUFFICES ASSUME NEW i \in 1..Len(Tail(q)), Tail(q)[i].kind = "update",
                          Tail(q)[i].row.firstResponseAt > 0, ~ replied[Tail(q)[i].tk]
                   PROVE  \E j \in 1..(i - 1) :
                            /\ Tail(q)[j].kind = "message" /\ Tail(q)[j].word = "agent"
                            /\ Tail(q)[j].tk = Tail(q)[i].tk
      BY <1>14 DEF Answered
    <3>2. Tail(q)[i] = q[i + 1] /\ i \in Nat /\ i + 1 \in 1..Len(q) /\ (i + 1) - 1 = i
      BY <2>1
    <3>3. PICK j \in 1..i : /\ q[j].kind = "message" /\ q[j].word = "agent"
                            /\ q[j].tk = q[i + 1].tk
      BY <2>2, <3>1, <3>2 DEF Answered
    <3>4. j # 1
      BY <1>2, <1>5, <3>3
    <3>5. j - 1 \in 1..(i - 1) /\ j - 1 \in 1..Len(Tail(q)) /\ (j - 1) + 1 = j
      BY <1>11, <2>1, <3>2, <3>4
    <3>6. Tail(q)[j - 1] = q[j]
      BY <2>1, <3>5
    <3>7. QED
      BY <3>2, <3>3, <3>5, <3>6
  <2>6. WarnsOnce(y, warned)
    <3>1. SUFFICES ASSUME NEW i \in 1..Len(Tail(q))
                   PROVE  /\ Tail(q)[i].kind \in {"check", "warn"} => x.task = "sla-sweep"
                          /\ Tail(q)[i].kind # "warn"
      BY <1>14 DEF WarnsOnce
    <3>2. Tail(q)[i] = q[i + 1] /\ i + 1 \in 1..Len(q) /\ i + 1 # 1
      BY <2>1
    <3>3. QED
      BY <1>4, <2>2, <3>2 DEF WarnsOnce
  <2>7. QED
    BY <2>4, <2>5, <2>6
\* The same, whether it is the last one or not.
<1>15. /\ desk'[w] \in Handlings /\ desk'[w].task \in {"", x.task}
       /\ Chained(desk'[w], ticket', ticketNow) /\ Answered(desk'[w].todo, replied)
       /\ WarnsOnce(desk'[w], warned)
  <2>1. desk'[w] = T!Rest(w)
    BY <1>6
  <2>2. CASE T!Rest(w) = T!Idle
    BY Zenon, <2>1, <2>2, IdleHandling
  <2>3. CASE /\ T!Rest(w) \in Handlings /\ T!Rest(w).task = desk[w].task
             /\ T!Rest(w).fresh = desk[w].fresh /\ T!Rest(w).todo = Tail(q)
    BY Zenon, <1>4, <1>14, <2>1, <2>3
  <2>4. QED
    BY Zenon, <1>1, <2>2, <2>3, RestOfHandling
\* What the others still have to do.
<1>16. ASSUME NEW v \in Workers, v # w
       PROVE  /\ desk'[v] \in Handlings /\ desk'[v].task = desk[v].task
              /\ Chained(desk'[v], ticket', ticketNow) /\ Answered(desk'[v].todo, replied)
              /\ WarnsOnce(desk'[v], warned)
  <2>1. PICK y \in Handlings : y = desk[v]
    BY DEF TicketInv
  <2>2. PICK z : z = [y EXCEPT !.fresh = @ \ {s.tk}]
    BY Zenon
  <2>3. /\ z \in Handlings /\ z.task = y.task /\ z.todo = y.todo /\ z.fresh = y.fresh \ {s.tk}
    BY Zenon, <2>2 DEF Handlings
  <2>4. desk'[v] = z
    BY <1>6, <1>16, <2>1, <2>2
  <2>5. Chained(y, ticket, ticketNow) /\ Answered(y.todo, replied) /\ WarnsOnce(y, warned)
    BY <2>1 DEF TicketInv
  <2>6. ASSUME NEW i \in 1..Len(y.todo), y.todo[i].tk \in z.fresh
        PROVE  ticket'[y.todo[i].tk] = ticket[y.todo[i].tk] /\ y.todo[i].tk \in y.fresh
    <3>1. y.todo[i].tk \in Tickets /\ y.todo[i].tk # s.tk /\ y.todo[i].tk \in y.fresh
      BY Zenon, <2>3, <2>6 DEF Handlings
    <3>2. QED
      BY <1>9, <3>1 DEF TicketInv
  <2>7. Chained(z, ticket', ticketNow)
    <3>1. PICK p : p = y.todo /\ p = z.todo
      BY Zenon, <2>3
    <3>2. SUFFICES ASSUME NEW i \in 1..Len(p), p[i].kind = "update"
                   PROVE  \/ /\ \A j \in 1..(i - 1) : p[j].kind = "update" => p[j].tk # p[i].tk
                             /\ p[i].tk \in z.fresh => Follows(ticket'[p[i].tk], p[i], ticketNow)
                          \/ /\ i > 1 /\ p[i - 1].kind = "update" /\ p[i - 1].tk = p[i].tk
                             /\ Follows(p[i - 1].row, p[i], ticketNow)
      BY Zenon, <3>1 DEF Chained
    <3>3. \/ /\ \A j \in 1..(i - 1) : p[j].kind = "update" => p[j].tk # p[i].tk
             /\ p[i].tk \in y.fresh => Follows(ticket[p[i].tk], p[i], ticketNow)
          \/ /\ i > 1 /\ p[i - 1].kind = "update" /\ p[i - 1].tk = p[i].tk
             /\ Follows(p[i - 1].row, p[i], ticketNow)
      BY Zenon, <2>5, <3>1, <3>2 DEF Chained
    <3>4. p[i].tk \in z.fresh => ticket'[p[i].tk] = ticket[p[i].tk] /\ p[i].tk \in y.fresh
      <4>1. i \in 1..Len(y.todo) /\ y.todo[i] = p[i]
        BY Zenon, <3>1
      <4>2. QED
        BY <2>6, <4>1
    <3>5. QED
      BY Zenon, <3>3, <3>4
  <2>8. WarnsOnce(z, warned)
    BY Zenon, <2>3, <2>5 DEF WarnsOnce
  <2>9. QED
    BY Zenon, <2>1, <2>3, <2>4, <2>5, <2>7, <2>8
<1>17. desk' \in [Workers -> Handlings]
  <2>1. \A v \in Workers : desk'[v] \in Handlings
    BY Zenon, <1>15, <1>16
  <2>2. QED
    BY Zenon, <1>6, <2>1
<1>18. \A u, v \in Workers : desk'[u].task = "sla-sweep" /\ desk'[v].task = "sla-sweep" => u = v
  BY Zenon, <1>4, <1>15, <1>16 DEF TicketInv
<1>19. QED
  <2>1. ticketNow' = ticketNow /\ replied' = replied /\ warned' = warned
    BY Zenon, <1>6
  <2>2. \A v \in Workers : /\ Chained(desk'[v], ticket', ticketNow)
                           /\ Answered(desk'[v].todo, replied) /\ WarnsOnce(desk'[v], warned)
    BY Zenon, <1>15, <1>16
  <2>3. QED
    BY Zenon, <1>10, <1>13, <1>17, <1>18, <2>1, <2>2 DEF TicketInv

\* A message or a warning is written, or the log is read.
LEMMA OtherKept ==
  ASSUME TicketInv, NEW w \in Workers, T!OtherStatement(w)
  PROVE  TicketInv'
<1>1. PICK q \in Seq(TicketStatements) : q = desk[w].todo /\ q # <<>>
  BY Zenon DEF TicketInv, Handlings, T!OtherStatement
<1>2. PICK s \in TicketStatements : s = q[1] /\ s = Head(q)
  BY <1>1, RestOfHandling
<1>3. s.tk \in Tickets
  BY Zenon DEF TicketStatements
<1>4. PICK x \in Handlings : x = desk[w] /\ x.todo = q
  BY <1>1 DEF TicketInv
<1>5. /\ s.kind # "update"
      /\ replied' = [replied EXCEPT ![s.tk] = @ \/ (s.kind = "message" /\ s.word = "agent")]
      /\ warned' = IF s.kind = "warn" THEN [warned EXCEPT ![s.tk] = @ + 1] ELSE warned
      /\ desk' = [desk EXCEPT ![w] =
                    IF s.kind = "check" /\ warned[s.tk] = 0
                      THEN [desk[w] EXCEPT !.todo = <<T!Warning(s.tk)>> \o Tail(@)]
                      ELSE T!Rest(w)]
      /\ UNCHANGED <<ticketNow, ticket>>
  BY Zenon, <1>1, <1>2 DEF T!OtherStatement
<1>6. replied' \in [Tickets -> BOOLEAN] /\ \A t \in Tickets : replied[t] => replied'[t]
  BY Zenon, <1>3, <1>5 DEF TicketInv
<1>7. s.kind = "message" /\ s.word = "agent" => replied'[s.tk]
  BY Zenon, <1>3, <1>5 DEF TicketInv
<1>8. Len(q) \in Nat /\ 1 \in 1..Len(q) /\ Len(Tail(q)) = Len(q) - 1
  BY <1>1, RestOfHandling
<1>9. /\ Tail(q) \in Seq(TicketStatements)
      /\ \A i \in 1..Len(Tail(q)) : Tail(q)[i] = q[i + 1] /\ i + 1 \in 1..Len(q)
  BY <1>1, RestOfHandling
<1>10. /\ s.kind \in {"check", "warn"} => x.task = "sla-sweep"
       /\ s.kind = "warn" => warned[s.tk] = 0
  <2>1. WarnsOnce(x, warned)
    BY <1>4 DEF TicketInv
  <2>2. QED
    BY <1>2, <1>4, <1>8, <2>1 DEF WarnsOnce
<1>11. warned' \in [Tickets -> {0, 1}]
  BY <1>3, <1>5, <1>10 DEF TicketInv
<1>12. \A t \in Tickets : ticket[t].firstResponseAt > 0 => replied'[t]
  BY <1>6 DEF TicketInv
\* The list that is left, behind a warning or not.
<1>13. ASSUME NEW y \in Handlings, y.fresh = x.fresh, y.task = x.task, NEW k \in {0, 1},
              Len(y.todo) = Len(q) - 1 + k,
              \A i \in 1..Len(Tail(q)) : y.todo[i + k] = q[i + 1],
              k = 1 => y.todo[1].kind = "warn" /\ warned'[y.todo[1].tk] = 0
                       /\ x.task = "sla-sweep"
       PROVE  /\ Chained(y, ticket, ticketNow) /\ Answered(y.todo, replied')
              /\ WarnsOnce(y, warned')
  <2>1. /\ Chained(x, ticket, ticketNow) /\ Answered(q, replied) /\ WarnsOnce(x, warned)
    BY <1>4 DEF TicketInv
  <2>2. \A i \in 1..Len(y.todo) : i > k =>
          /\ i - k \in 1..Len(Tail(q)) /\ i - k + 1 \in 1..Len(q) /\ i - k + 1 > 1
          /\ y.todo[i] = q[i - k + 1]
    <3>1. SUFFICES ASSUME NEW i \in 1..Len(y.todo), i > k
                   PROVE  /\ i - k \in 1..Len(Tail(q)) /\ i - k + 1 \in 1..Len(q)
                          /\ i - k + 1 > 1 /\ y.todo[i] = q[i - k + 1]
      OBVIOUS
    <3>2. i - k \in 1..Len(Tail(q)) /\ (i - k) + k = i /\ i - k + 1 > 1
      BY <1>8, <1>13, <3>1
    <3>3. QED
      BY Zenon, <1>9, <1>13, <3>2
  <2>3. \A i \in 1..Len(y.todo) : y.todo[i].kind = "update" => i > k
    BY <1>8, <1>13
  <2>4. Chained(y, ticket, ticketNow)
    <3>1. SUFFICES ASSUME NEW i \in 1..Len(y.todo), y.todo[i].kind = "update"
                   PROVE  \/ /\ \A j \in 1..(i - 1) :
                                  y.todo[j].kind = "update" => y.todo[j].tk # y.todo[i].tk
                             /\ y.todo[i].tk \in y.fresh =>
                                  Follows(ticket[y.todo[i].tk], y.todo[i], ticketNow)
                          \/ /\ i > 1 /\ y.todo[i - 1].kind = "update"
                             /\ y.todo[i - 1].tk = y.todo[i].tk
                             /\ Follows(y.todo[i - 1].row, y.todo[i], ticketNow)
      BY Zenon DEF Chained
    <3>2. PICK n \in 1..Len(q) : n = i - k + 1 /\ n > 1 /\ y.todo[i] = q[n] /\ i > k
      BY <2>2, <2>3, <3>1
    <3>3. CASE /\ \A j \in 1..(n - 1) : q[j].kind = "update" => q[j].tk # q[n].tk
               /\ q[n].tk \in x.fresh => Follows(ticket[q[n].tk], q[n], ticketNow)
      <4>1. ASSUME NEW j \in 1..(i - 1), y.todo[j].kind = "update"
            PROVE  y.todo[j].tk # y.todo[i].tk
        <5>1. j \in 1..Len(y.todo)
          BY <1>8, <1>13
        <5>2. j - k + 1 \in 1..(n - 1) /\ y.todo[j] = q[j - k + 1]
          BY <1>8, <2>2, <2>3, <3>2, <4>1, <5>1
        <5>3. QED
          BY <3>2, <3>3, <4>1, <5>2
      <4>2. QED
        BY <1>13, <3>2, <3>3, <4>1
    <3>4. CASE /\ q[n - 1].kind = "update" /\ q[n - 1].tk = q[n].tk
               /\ Follows(q[n - 1].row, q[n], ticketNow)
      <4>1. n - 1 # 1
        BY <1>2, <1>5, <3>4
      <4>2. i - 1 \in 1..Len(y.todo) /\ i - 1 > k /\ (i - 1) - k + 1 = n - 1 /\ i > 1
        BY <1>8, <1>13, <3>2, <4>1
      <4>3. y.todo[i - 1] = q[n - 1]
        BY <2>2, <4>2
      <4>4. QED
        BY <3>2, <3>4, <4>2, <4>3
    <3>5. QED
      BY Zenon, <1>4, <2>1, <3>1, <3>2, <3>3, <3>4 DEF Chained
  <2>5. Answered(y.todo, replied')
    <3>1. SUFFICES ASSUME NEW i \in 1..Len(y.todo), y.todo[i].kind = "update",
                          y.todo[i].row.firstResponseAt > 0, ~ replied'[y.todo[i].tk]
                   PROVE  \E j \in 1..(i - 1) :
                            /\ y.todo[j].kind = "message" /\ y.todo[j].word = "agent"
                            /\ y.todo[j].tk = y.todo[i].tk
      BY DEF Answered
    <3>2. PICK n \in 1..Len(q) : n = i - k + 1 /\ n > 1 /\ y.todo[i] = q[n] /\ i > k
      BY <2>2, <2>3, <3>1
    <3>3. q[n].tk \in Tickets
      <4>1. q[n] \in TicketStatements
        OBVIOUS
      <4>2. QED
        BY Zenon, <4>1 DEF TicketStatements
    <3>4. ~ replied[q[n].tk]
      BY <1>6, <3>1, <3>2, <3>3
    <3>5. PICK j \in 1..(n - 1) : /\ q[j].kind = "message" /\ q[j].word = "agent"
                                  /\ q[j].tk = q[n].tk
      BY <2>1, <3>1, <3>2, <3>4 DEF Answered
    <3>6. j # 1
      BY <1>2, <1>7, <3>1, <3>2, <3>5
    <3>7. /\ j + k - 1 \in 1..(i - 1) /\ j + k - 1 \in 1..Len(y.todo) /\ j + k - 1 > k
          /\ (j + k - 1) - k + 1 = j
      BY <1>8, <1>13, <3>2, <3>6
    <3>8. y.todo[j + k - 1] = q[j]
      BY <2>2, <3>7
    <3>9. QED
      BY <3>2, <3>5, <3>7, <3>8
  <2>6. WarnsOnce(y, warned')
    <3>1. SUFFICES ASSUME NEW i \in 1..Len(y.todo)
                   PROVE  /\ y.todo[i].kind \in {"check", "warn"} => y.task = "sla-sweep"
                          /\ y.todo[i].kind = "warn" => i = 1 /\ warned'[y.todo[i].tk] = 0
      BY Zenon DEF WarnsOnce
    <3>2. CASE i > k
      <4>1. PICK n \in 1..Len(q) : n > 1 /\ y.todo[i] = q[n]
        BY <2>2, <3>2
      <4>2. QED
        BY <1>4, <1>13, <2>1, <4>1 DEF WarnsOnce
    <3>3. CASE ~ (i > k)
      <4>1. i = 1 /\ k = 1
        BY <1>8, <1>13, <3>3
      <4>2. QED
        BY <1>13, <4>1
    <3>4. QED
      BY <3>2, <3>3
  <2>7. QED
    BY <2>4, <2>5, <2>6
<1>14. /\ desk'[w] \in Handlings /\ desk'[w].task \in {"", x.task}
       /\ Chained(desk'[w], ticket, ticketNow) /\ Answered(desk'[w].todo, replied')
       /\ WarnsOnce(desk'[w], warned')
  <2>1. CASE ~ (s.kind = "check" /\ warned[s.tk] = 0)
    <3>1. desk'[w] = T!Rest(w)
      BY <1>5, <2>1 DEF TicketInv
    <3>2. CASE T!Rest(w) = T!Idle
      BY Zenon, <3>1, <3>2, IdleHandling
    <3>3. CASE /\ T!Rest(w) \in Handlings /\ T!Rest(w).task = desk[w].task
               /\ T!Rest(w).fresh = desk[w].fresh /\ T!Rest(w).todo = Tail(q)
      <4>1. PICK y \in Handlings : /\ y = T!Rest(w) /\ y.task = x.task
                                   /\ y.fresh = x.fresh /\ y.todo = Tail(q)
        BY Zenon, <1>4, <3>3
      <4>2. Len(y.todo) = Len(q) - 1 + 0
        BY <1>8, <4>1
      <4>3. \A i \in 1..Len(Tail(q)) : y.todo[i + 0] = q[i + 1]
        BY <1>9, <4>1
      <4>4. 0 \in {0, 1} /\ ~ (0 = 1)
        OBVIOUS
      <4>5. /\ Chained(y, ticket, ticketNow) /\ Answered(y.todo, replied')
            /\ WarnsOnce(y, warned')
        BY Zenon, <1>13, <4>1, <4>2, <4>3, <4>4
      <4>6. QED
        BY Zenon, <3>1, <4>1, <4>5
    <3>4. QED
      BY Zenon, <1>1, <3>2, <3>3, RestOfHandling
  <2>2. CASE s.kind = "check" /\ warned[s.tk] = 0
    <3>1. PICK m : m = T!Warning(s.tk)
      BY Zenon
    <3>2. m \in TicketStatements /\ m.kind = "warn" /\ m.tk = s.tk
      BY Zenon, <1>3, <3>1, NoTicketStamped DEF T!Warning, TicketStatements
    <3>3. PICK p : p = <<m>>
      BY Zenon
    <3>4. p \in Seq(TicketStatements) /\ Len(p) = 1 /\ p[1] = m
      BY <3>2, <3>3
    <3>5. PICK z : z = p \o Tail(q)
      BY Zenon
    <3>6. /\ z \in Seq(TicketStatements) /\ Len(z) = Len(p) + Len(Tail(q))
          /\ \A i \in 1..Len(p) + Len(Tail(q)) :
               z[i] = IF i <= Len(p) THEN p[i] ELSE Tail(q)[i - Len(p)]
      <4>1. /\ p \o Tail(q) \in Seq(TicketStatements)
            /\ Len(p \o Tail(q)) = Len(p) + Len(Tail(q))
            /\ \A i \in 1..Len(p) + Len(Tail(q)) :
                 (p \o Tail(q))[i] = IF i <= Len(p) THEN p[i] ELSE Tail(q)[i - Len(p)]
        BY Zenon, <1>9, <3>4, Joined
      <4>2. QED
        BY Zenon, <3>5, <4>1
    <3>7. Len(z) = Len(q) - 1 + 1 /\ z[1] = m
      BY <1>8, <3>4, <3>6
    <3>8. \A i \in 1..Len(Tail(q)) : z[i + 1] = q[i + 1]
      BY <1>8, <1>9, <3>4, <3>6
    <3>9. PICK y : y = [x EXCEPT !.todo = z]
      BY Zenon
    <3>10. y \in Handlings /\ y.fresh = x.fresh /\ y.task = x.task /\ y.todo = z
      BY Zenon, <3>6, <3>9 DEF Handlings
    <3>11. desk'[w] = y
      <4>1. desk'[w] = [x EXCEPT !.todo = <<m>> \o Tail(q)]
        BY Zenon, <1>4, <1>5, <2>2, <3>1 DEF TicketInv
      <4>2. QED
        BY Zenon, <3>3, <3>5, <3>9, <4>1
    <3>12. warned'[y.todo[1].tk] = 0 /\ y.todo[1].kind = "warn" /\ x.task = "sla-sweep"
      BY <1>5, <1>10, <2>2, <3>2, <3>7, <3>10
    <3>13. QED
      BY Zenon, <1>13, <3>7, <3>8, <3>10, <3>11, <3>12
  <2>3. QED
    BY Zenon, <2>1, <2>2
\* A warning is only pending with the sweep, and there is one.
<1>15. ASSUME NEW v \in Workers, v # w
       PROVE  /\ desk'[v] = desk[v] /\ Answered(desk[v].todo, replied')
              /\ WarnsOnce(desk[v], warned')
  <2>1. desk'[v] = desk[v]
    BY <1>5, <1>15 DEF TicketInv
  <2>2. PICK y \in Handlings : y = desk[v]
    BY DEF TicketInv
  <2>3. Answered(y.todo, replied) /\ WarnsOnce(y, warned)
    BY <2>2 DEF TicketInv
  <2>4. \A i \in 1..Len(y.todo) : y.todo[i].tk \in Tickets
    <3>1. \A i \in 1..Len(y.todo) : y.todo[i] \in TicketStatements
      <4>1. PICK p \in Seq(TicketStatements) : p = y.todo
        BY Zenon DEF Handlings
      <4>2. \A i \in 1..Len(p) : p[i] \in TicketStatements
        OBVIOUS
      <4>3. QED
        BY Zenon, <4>1, <4>2
    <3>2. QED
      BY Zenon, <3>1 DEF TicketStatements
  <2>5. Answered(y.todo, replied')
    BY Zenon, <1>6, <2>3, <2>4 DEF Answered
  <2>6. s.kind = "warn" => y.task # "sla-sweep"
    BY <1>4, <1>10, <1>15, <2>2 DEF TicketInv
  <2>7. s.kind # "warn" => warned' = warned
    BY <1>5
  <2>8. WarnsOnce(y, warned')
    BY <2>3, <2>6, <2>7 DEF WarnsOnce
  <2>9. QED
    BY Zenon, <2>1, <2>2, <2>5, <2>8
<1>16. desk' \in [Workers -> Handlings]
  <2>1. \A v \in Workers : desk'[v] \in Handlings
    BY Zenon, <1>14, <1>15 DEF TicketInv
  <2>2. QED
    BY Zenon, <1>5, <2>1 DEF TicketInv
<1>17. \A u, v \in Workers : desk'[u].task = "sla-sweep" /\ desk'[v].task = "sla-sweep" => u = v
  BY Zenon, <1>4, <1>14, <1>15 DEF TicketInv
<1>18. QED
  <2>1. ticketNow' = ticketNow /\ ticket' = ticket
    BY Zenon, <1>5
  <2>2. \A v \in Workers : /\ Chained(desk'[v], ticket, ticketNow)
                           /\ Answered(desk'[v].todo, replied') /\ WarnsOnce(desk'[v], warned')
    BY Zenon, <1>14, <1>15 DEF TicketInv
  <2>3. QED
    BY Zenon, <1>6, <1>11, <1>12, <1>16, <1>17, <2>1, <2>2 DEF TicketInv

\* A customer makes a draft: nobody has anything in mind for it.
LEMMA DraftKept ==
  ASSUME TicketInv, NEW t \in Tickets, T!EscalateBotSession(t)
  PROVE  TicketInv'
<1>1. PICK n \in Nat \ {0} : n = ticketNow
  BY DEF TicketInv
<1>2. PICK r : r = [T!NoTicket EXCEPT !.status = "DRAFT", !.createdAt = n]
  BY Zenon
<1>3. /\ r.status = "DRAFT" /\ r.resolvedAt = 0 /\ r.closedAt = 0 /\ r.firstResponseAt = 0
      /\ r \in TicketRows
  BY Zenon, <1>1, <1>2 DEF T!NoTicket, TicketRows, T!States
<1>4. r \in StampedRows
  BY <1>3 DEF StampedRows, Stamped
<1>5. ticket' = [ticket EXCEPT ![t] = r] /\ UNCHANGED <<ticketNow, replied, warned, desk>>
  BY Zenon, <1>1, <1>2 DEF T!EscalateBotSession
<1>6. ticket' \in [Tickets -> StampedRows]
  BY <1>4, <1>5 DEF TicketInv
<1>7. \A u \in Tickets : ticket'[u].firstResponseAt > 0 => replied[u]
  BY <1>3, <1>5 DEF TicketInv
<1>8. ASSUME NEW w \in Workers
      PROVE  Chained(desk[w], ticket', ticketNow)
  <2>1. PICK y \in Handlings : y = desk[w] /\ Chained(y, ticket, ticketNow)
    BY DEF TicketInv
  <2>2. PICK p \in Seq(TicketStatements) : p = y.todo
    BY Zenon DEF Handlings
  <2>3. ASSUME NEW i \in 1..Len(p), Follows(ticket[p[i].tk], p[i], ticketNow)
        PROVE  Follows(ticket'[p[i].tk], p[i], ticketNow)
    <3>1. p[i] \in TicketStatements
      OBVIOUS
    <3>2. p[i].tk \in Tickets
      BY Zenon, <3>1 DEF TicketStatements
    <3>3. p[i].tk # t
      BY <2>3 DEF T!EscalateBotSession, Follows
    <3>4. ticket'[p[i].tk] = ticket[p[i].tk]
      BY <1>5, <3>2, <3>3 DEF TicketInv
    <3>5. QED
      BY Zenon, <2>3, <3>4
  <2>4. SUFFICES ASSUME NEW i \in 1..Len(p), p[i].kind = "update"
                 PROVE  \/ /\ \A j \in 1..(i - 1) : p[j].kind = "update" => p[j].tk # p[i].tk
                           /\ p[i].tk \in y.fresh => Follows(ticket'[p[i].tk], p[i], ticketNow)
                        \/ /\ i > 1 /\ p[i - 1].kind = "update" /\ p[i - 1].tk = p[i].tk
                           /\ Follows(p[i - 1].row, p[i], ticketNow)
    BY Zenon, <2>1, <2>2 DEF Chained
  <2>5. \/ /\ \A j \in 1..(i - 1) : p[j].kind = "update" => p[j].tk # p[i].tk
           /\ p[i].tk \in y.fresh => Follows(ticket[p[i].tk], p[i], ticketNow)
        \/ /\ i > 1 /\ p[i - 1].kind = "update" /\ p[i - 1].tk = p[i].tk
           /\ Follows(p[i - 1].row, p[i], ticketNow)
    BY Zenon, <2>1, <2>2, <2>4 DEF Chained
  <2>6. QED
    BY Zenon, <2>3, <2>5
<1>9. QED
  <2>1. ticketNow' = ticketNow /\ replied' = replied /\ warned' = warned /\ desk' = desk
    BY Zenon, <1>5
  <2>2. QED
    BY Zenon, <1>6, <1>7, <1>8, <2>1 DEF TicketInv

\* A handler that stops leaves nothing behind.
LEMMA FailureKept ==
  ASSUME TicketInv, NEW w \in Workers, T!HandlerFails(w)
  PROVE  TicketInv'
<1>1. /\ desk' = [desk EXCEPT ![w] = T!Idle]
      /\ ticketNow' = ticketNow /\ ticket' = ticket /\ replied' = replied /\ warned' = warned
  BY Zenon DEF T!HandlerFails
<1>2. PICK x \in Handlings : x = T!Idle /\ x.task = ""
  BY Zenon, IdleHandling
<1>3. desk' \in [Workers -> Handlings]
  BY Zenon, <1>1, <1>2 DEF TicketInv
<1>4. \A v \in Workers : desk'[v] = IF v = w THEN T!Idle ELSE desk[v]
  BY Zenon, <1>1 DEF TicketInv
<1>5. \A v \in Workers : /\ Chained(desk'[v], ticket, ticketNow)
                         /\ Answered(desk'[v].todo, replied) /\ WarnsOnce(desk'[v], warned)
  BY Zenon, <1>4, IdleHandling DEF TicketInv
<1>6. \A u, v \in Workers : desk'[u].task = "sla-sweep" /\ desk'[v].task = "sla-sweep" => u = v
  BY Zenon, <1>2, <1>4 DEF TicketInv
<1>7. QED
  BY Zenon, <1>1, <1>3, <1>5, <1>6 DEF TicketInv

\* Time passes: what was old enough stays old enough.
LEMMA TickKept ==
  ASSUME TicketInv, T!Tick, AutoClose \in Nat
  PROVE  TicketInv'
<1>1. /\ ticketNow' = ticketNow + 1
      /\ ticket' = ticket /\ replied' = replied /\ warned' = warned /\ desk' = desk
  BY Zenon DEF T!Tick
<1>2. ticketNow' \in Nat \ {0} /\ ticketNow \in Nat
  BY <1>1 DEF TicketInv
<1>3. ASSUME NEW r \in StampedRows, NEW s, Follows(r, s, ticketNow)
      PROVE  Follows(r, s, ticketNow')
  <2>1. r.resolvedAt \in Nat
    BY DEF StampedRows, TicketRows
  <2>2. r.resolvedAt + AutoClose <= ticketNow => r.resolvedAt + AutoClose <= ticketNow'
    BY <1>1, <1>2, <2>1
  <2>3. QED
    BY Zenon, <1>3, <2>2 DEF Follows
<1>4. ASSUME NEW w \in Workers
      PROVE  Chained(desk[w], ticket, ticketNow')
  <2>1. PICK y \in Handlings : y = desk[w] /\ Chained(y, ticket, ticketNow)
    BY DEF TicketInv
  <2>2. PICK p \in Seq(TicketStatements) : p = y.todo
    BY Zenon DEF Handlings
  <2>3. \A i \in 1..Len(p) : ticket[p[i].tk] \in StampedRows /\ p[i].row \in StampedRows
    <3>1. \A i \in 1..Len(p) : p[i] \in TicketStatements
      OBVIOUS
    <3>2. QED
      BY Zenon, <3>1 DEF TicketStatements, TicketInv
  <2>4. SUFFICES ASSUME NEW i \in 1..Len(p), p[i].kind = "update"
                 PROVE  \/ /\ \A j \in 1..(i - 1) : p[j].kind = "update" => p[j].tk # p[i].tk
                           /\ p[i].tk \in y.fresh => Follows(ticket[p[i].tk], p[i], ticketNow')
                        \/ /\ i > 1 /\ p[i - 1].kind = "update" /\ p[i - 1].tk = p[i].tk
                           /\ Follows(p[i - 1].row, p[i], ticketNow')
    BY Zenon, <2>1, <2>2 DEF Chained
  <2>5. \/ /\ \A j \in 1..(i - 1) : p[j].kind = "update" => p[j].tk # p[i].tk
           /\ p[i].tk \in y.fresh => Follows(ticket[p[i].tk], p[i], ticketNow)
        \/ /\ i > 1 /\ p[i - 1].kind = "update" /\ p[i - 1].tk = p[i].tk
           /\ Follows(p[i - 1].row, p[i], ticketNow)
    BY Zenon, <2>1, <2>2, <2>4 DEF Chained
  <2>6. i > 1 => i - 1 \in 1..Len(p)
    OBVIOUS
  <2>7. QED
    BY Zenon, <1>3, <2>3, <2>5, <2>6
<1>5. QED
  BY Zenon, <1>1, <1>2, <1>4 DEF TicketInv

\* Whatever version a handler or a sweep of tickets has read, every row that is
\* stored, and every row it is going to write, is stamped for its status.
THEOREM TicketInductive ==
  ASSUME FinitelyManyTickets, AutoClose \in Nat
  PROVE  T!Spec => []TicketInv
<1>1. T!Init => TicketInv
  <2>1. SUFFICES ASSUME T!Init PROVE TicketInv
    OBVIOUS
  <2>2. /\ ticketNow = 1 /\ ticket = [t \in Tickets |-> T!NoTicket]
        /\ replied = [t \in Tickets |-> FALSE] /\ warned = [t \in Tickets |-> 0]
        /\ desk = [w \in Workers |-> T!Idle]
    BY Zenon, <2>1 DEF T!Init
  <2>3. \A t \in Tickets : ticket[t] = T!NoTicket /\ T!NoTicket.firstResponseAt = 0
    BY <2>2 DEF T!NoTicket
  <2>4. /\ ticketNow \in Nat \ {0} /\ ticket \in [Tickets -> StampedRows]
        /\ \A t \in Tickets : ticket[t].firstResponseAt > 0 => replied[t]
    BY <2>2, <2>3, NoTicketStamped
  <2>5. replied \in [Tickets -> BOOLEAN] /\ warned \in [Tickets -> {0, 1}]
    BY <2>2
  <2>6. desk \in [Workers -> Handlings] /\ \A w \in Workers : desk[w] = T!Idle
    BY Zenon, <2>2, IdleHandling
  <2>7. \A w \in Workers : /\ Chained(desk[w], ticket, ticketNow)
                           /\ Answered(desk[w].todo, replied) /\ WarnsOnce(desk[w], warned)
    BY Zenon, <2>6, IdleHandling
  <2>8. \A w \in Workers : desk[w].task = ""
    BY Zenon, <2>6, IdleHandling
  <2>9. \A v, w \in Workers : desk[v].task = "sla-sweep" /\ desk[w].task = "sla-sweep" => v = w
    BY Zenon, <2>8
  <2>10. QED
    BY Zenon, <2>4, <2>5, <2>6, <2>7, <2>9 DEF TicketInv
<1>2. TicketInv /\ [T!Next]_T!vars => TicketInv'
  <2>1. SUFFICES ASSUME TicketInv, [T!Next]_T!vars PROVE TicketInv'
    OBVIOUS
  <2>2. CASE UNCHANGED T!vars
    BY Zenon, <2>1, <2>2 DEF T!vars, TicketInv
  <2>3. CASE \E t \in Tickets : T!EscalateBotSession(t)
    BY Zenon, <2>1, <2>3, DraftKept
  <2>4. CASE \E w \in Workers : T!Handlers(w) \/ T!runAutoClose(w) \/ T!runSLASweep(w)
    BY Zenon, <2>1, <2>4, TicketHandlers, AutoCloseStarts, SLASweepStarts
  <2>5. CASE \E w \in Workers : T!UpdateTicket(w) \/ T!OtherStatement(w) \/ T!HandlerFails(w)
    BY Zenon, <2>1, <2>5, UpdateKept, OtherKept, FailureKept
  <2>6. CASE T!Tick
    BY Zenon, <2>1, <2>6, TickKept
  <2>7. QED
    BY Zenon, <2>1, <2>2, <2>3, <2>4, <2>5, <2>6 DEF T!Next
<1>3. QED
  BY <1>1, <1>2, PTL DEF T!Spec

\* The stamps of every ticket agree with its status, a response is stamped only
\* when one was sent, and a ticket is warned about once.
THEOREM TicketsAreWhole ==
  ASSUME FinitelyManyTickets, AutoClose \in Nat
  PROVE  T!Spec => [](T!StampsMatchStatus /\ T!ResponseWasSent /\ T!WarnedOnce)
<1>1. TicketInv => T!StampsMatchStatus
  BY Zenon DEF TicketInv, StampedRows, Stamped, T!StampsMatchStatus
<1>2. TicketInv => T!ResponseWasSent /\ T!WarnedOnce
  BY DEF TicketInv, T!ResponseWasSent, T!WarnedOnce
<1>3. QED
  BY <1>1, <1>2, TicketInductive, PTL

\* What a write of a ticket changes, and what it follows from.
LEMMA WriteFollows ==
  ASSUME TicketInv, NEW w \in Workers, T!UpdateTicket(w)
  PROVE  \E s \in TicketStatements :
           /\ s = Head(desk[w].todo) /\ Follows(ticket[s.tk], s, ticketNow)
           /\ ticket'[s.tk].status = s.row.status
           /\ \A t \in Tickets : t # s.tk => ticket'[t] = ticket[t]
           /\ \A v \in Workers : v # w => desk'[v].todo = desk[v].todo
           /\ desk'[w].todo # desk[w].todo
<1>1. PICK q \in Seq(TicketStatements) : q = desk[w].todo /\ q # <<>>
  BY Zenon DEF TicketInv, Handlings, T!UpdateTicket
<1>2. PICK s \in TicketStatements : s = q[1] /\ s = Head(q)
  BY <1>1, RestOfHandling
<1>3. s.tk \in Tickets /\ s.row \in StampedRows
  BY Zenon DEF TicketStatements
<1>4. PICK x \in Handlings : x = desk[w] /\ x.todo = q
  BY <1>1 DEF TicketInv
<1>5. s.kind = "update" /\ s.tk \in x.fresh
  BY <1>1, <1>2, <1>4 DEF T!UpdateTicket
<1>6. desk' = [v \in Workers |-> IF v = w THEN T!Rest(w)
                                 ELSE [desk[v] EXCEPT !.fresh = @ \ {s.tk}]]
  BY Zenon, <1>1, <1>2 DEF T!UpdateTicket
<1>7. Len(q) \in Nat /\ 1 \in 1..Len(q) /\ Len(Tail(q)) = Len(q) - 1
  BY <1>1, RestOfHandling
<1>8. Follows(ticket[s.tk], s, ticketNow)
  <2>1. Chained(x, ticket, ticketNow)
    BY <1>4 DEF TicketInv
  <2>2. ~ (1 > 1)
    OBVIOUS
  <2>3. QED
    BY Zenon, <1>2, <1>4, <1>5, <1>7, <2>1, <2>2 DEF Chained
<1>9. PICK n \in Nat : n = ticket[s.tk].createdAt
  BY <1>3 DEF TicketInv, StampedRows, TicketRows
<1>10. PICK r \in StampedRows : r = [s.row EXCEPT !.createdAt = n] /\ r.status = s.row.status
  BY Zenon, <1>3, WrittenStamped
<1>11. ticket' = [ticket EXCEPT ![s.tk] = r]
  BY Zenon, <1>1, <1>2, <1>9, <1>10 DEF T!UpdateTicket
<1>12. /\ ticket'[s.tk].status = s.row.status
       /\ \A t \in Tickets : t # s.tk => ticket'[t] = ticket[t]
  BY <1>3, <1>10, <1>11 DEF TicketInv
<1>13. \A v \in Workers : v # w => desk'[v].todo = desk[v].todo
  BY Zenon, <1>6 DEF TicketInv, Handlings
<1>14. desk'[w].todo # q
  <2>1. desk'[w] = T!Rest(w)
    BY <1>6
  <2>2. CASE T!Rest(w) = T!Idle
    <3>1. T!Idle.todo = <<>>
      BY Zenon DEF T!Idle
    <3>2. QED
      BY Zenon, <1>1, <2>1, <2>2, <3>1
  <2>3. CASE T!Rest(w).todo = Tail(q)
    <3>1. Tail(q) # q
      BY <1>7
    <3>2. QED
      BY Zenon, <2>1, <2>3, <3>1
  <2>4. QED
    BY Zenon, <1>1, <2>2, <2>3, RestOfHandling
<1>15. QED
  BY Zenon, <1>1, <1>2, <1>8, <1>12, <1>13, <1>14

\* The row of a ticket is written by nothing else.
LEMMA OthersKeepTickets ==
  ASSUME [T!Next]_T!vars, ~ \E t \in Tickets : T!EscalateBotSession(t),
         ~ \E w \in Workers : T!UpdateTicket(w)
  PROVE  ticket' = ticket
<1>1. CASE UNCHANGED T!vars
  BY Zenon, <1>1 DEF T!vars
<1>2. CASE \E w \in Workers : T!OtherStatement(w) \/ T!HandlerFails(w)
  BY Zenon, <1>2 DEF T!OtherStatement, T!HandlerFails
<1>3. CASE T!Tick
  BY Zenon, <1>3 DEF T!Tick
<1>4. CASE \E w \in Workers : T!Handlers(w)
  <2>1. \A w, t, q : T!Start(w, t, q) => ticket' = ticket
    BY Zenon DEF T!Start
  <2>2. QED
    BY Zenon, <1>4, <2>1 DEF T!Handlers, T!SaveDraft, T!SubmitTicket, T!AddUserReply,
       T!CloseTicket, T!ReopenTicket, T!AgentReply, T!ClaimTicket, T!AssignTicket,
       T!AgentTransition
<1>5. CASE \E w \in Workers : T!runAutoClose(w) \/ T!runSLASweep(w)
  BY Zenon, <1>5 DEF T!runAutoClose, T!runSLASweep, T!Sweep
<1>6. QED
  BY Zenon, <1>1, <1>2, <1>3, <1>4, <1>5 DEF T!Next

\* Every change of a stored status is an edge of the table that the actor of the
\* statement may drive, and the sweep closes what has been resolved for long
\* enough when it writes.
THEOREM TicketMoves ==
  ASSUME FinitelyManyTickets, AutoClose \in Nat
  PROVE  T!Spec => [][T!MoveIsEdge /\ T!SweepClosesOnlyOld]_T!vars
<1>1. TicketInv /\ [T!Next]_T!vars => [T!MoveIsEdge /\ T!SweepClosesOnlyOld]_T!vars
  <2>1. SUFFICES ASSUME TicketInv, [T!Next]_T!vars
                 PROVE  T!MoveIsEdge /\ T!SweepClosesOnlyOld
    BY Zenon
  <2>2. CASE ticket' = ticket
    <3>1. T!MoveIsEdge
      BY Zenon, <2>2 DEF T!MoveIsEdge
    <3>2. T!SweepClosesOnlyOld
      BY <2>2 DEF T!SweepClosesOnlyOld
    <3>3. QED
      BY <3>1, <3>2
  <2>3. CASE \E t \in Tickets : T!EscalateBotSession(t)
    <3>1. PICK t \in Tickets : T!EscalateBotSession(t)
      BY <2>3
    <3>2. PICK r : r = [T!NoTicket EXCEPT !.status = "DRAFT", !.createdAt = ticketNow]
      BY Zenon
    <3>3. r.status = "DRAFT"
      BY <3>2 DEF T!NoTicket
    <3>4. ticket[t].status = "none" /\ ticket' = [ticket EXCEPT ![t] = r]
      BY Zenon, <3>1, <3>2 DEF T!EscalateBotSession
    <3>5. \A u \in Tickets : \/ ticket'[u] = ticket[u]
                             \/ ticket[u].status = "none" /\ ticket'[u].status = "DRAFT"
      BY Zenon, <2>1, <3>3, <3>4 DEF TicketInv
    <3>6. T!MoveIsEdge
      BY Zenon, <3>5 DEF T!MoveIsEdge
    <3>7. T!SweepClosesOnlyOld
      BY <3>5 DEF T!SweepClosesOnlyOld
    <3>8. QED
      BY <3>6, <3>7
  <2>4. CASE \E w \in Workers : T!UpdateTicket(w)
    <3>1. PICK w \in Workers : T!UpdateTicket(w)
      BY <2>4
    <3>2. PICK s \in TicketStatements :
             /\ s = Head(desk[w].todo) /\ Follows(ticket[s.tk], s, ticketNow)
             /\ ticket'[s.tk].status = s.row.status
             /\ \A t \in Tickets : t # s.tk => ticket'[t] = ticket[t]
             /\ \A v \in Workers : v # w => desk'[v].todo = desk[v].todo
             /\ desk'[w].todo # desk[w].todo
      BY <2>1, <3>1, WriteFollows
    <3>3. T!MoveIsEdge
      BY Zenon, <3>2 DEF T!MoveIsEdge, Follows
    <3>4. T!SweepClosesOnlyOld
      <4>1. SUFFICES ASSUME NEW t \in Tickets, NEW v \in Workers,
                            ticket[t].status = "RESOLVED", ticket'[t].status = "CLOSED",
                            desk'[v].todo # desk[v].todo, Head(desk[v].todo).word = "system"
                     PROVE  ticket[t].resolvedAt + AutoClose <= ticketNow
        BY Zenon DEF T!SweepClosesOnlyOld
      <4>2. v = w /\ t = s.tk
        BY <3>2, <4>1
      <4>3. QED
        BY <3>2, <4>1, <4>2 DEF Follows
    <3>5. QED
      BY <3>3, <3>4
  <2>5. QED
    BY Zenon, <2>1, <2>2, <2>3, <2>4, OthersKeepTickets
<1>2. QED
  BY <1>1, TicketInductive, PTL DEF T!Spec

-----------------------------------------------------------------------------
(* Live chat.                                                                *)

CONSTANTS Chats, MaxChatNow, ModeTTL, AwayAfter, MaxChats, Capacity

VARIABLES chatNow, agent, mode, chat, tickets, talk

L == INSTANCE Chats WITH MaxNow <- MaxChatNow, now <- chatNow, worker <- talk

ChatRows == [status : L!Statuses, agent : Agents \cup {NoAgent}, ticket : BOOLEAN,
             endedAt : Nat, lastEventAt : Nat]

\* Any set of chats has a number of elements.
FinitelyManyChats == \A cs \in SUBSET Chats : Cardinality(cs) \in Nat

\* One that some order of whole handlers could have left.
Whole(r) ==
  /\ r.status = "QUEUED" => r.agent = NoAgent
  /\ r.status \in {"ACTIVE", "ESCALATED"} => r.agent # NoAgent
  /\ r.status \in L!Ended <=> r.endedAt > 0
  /\ r.status = "ESCALATED" <=> r.ticket = TRUE

WholeRows == {r \in ChatRows : Whole(r)}
ChatStatements == [kind : {"update", "insert", "ticket"}, chat : Chats, row : WholeRows]

\* A row that names a ticket is written when the ticket is there, or right after it.
Backed(s, ts) ==
  \A i \in 1..Len(s) :
    s[i].kind # "ticket" /\ s[i].row.status = "ESCALATED"
      => s[i].chat \in ts \/ (i = 2 /\ s[1].kind = "ticket" /\ s[1].chat = s[2].chat)

ChatInv ==
  /\ chatNow \in Nat \ {0}
  /\ chat \in [Chats -> WholeRows]
  /\ talk \in [Workers -> Seq(ChatStatements)]
  /\ \A c \in Chats : chat[c].status = "ESCALATED" => c \in tickets
  /\ \A w \in Workers : Backed(talk[w], tickets)

LEMMA BackedLonger ==
  ASSUME NEW s, NEW ts, NEW ts2, ts \subseteq ts2, Backed(s, ts)
  PROVE  Backed(s, ts2)
BY DEF Backed

LEMMA NothingLeft == <<>> \in Seq(ChatStatements) /\ \A ts : Backed(<<>>, ts)
BY DEF Backed

\* A handler starts with whole rows of which none is escalated.
LEMMA ChatStarts ==
  ASSUME ChatInv, NEW w \in Workers, NEW todo \in Seq(ChatStatements), L!Start(w, todo),
         Backed(todo, tickets)
  PROVE  ChatInv'
<1>1. talk' = [talk EXCEPT ![w] = todo] /\ UNCHANGED <<chatNow, chat, tickets>>
  BY DEF L!Start
<1>2. talk' \in [Workers -> Seq(ChatStatements)]
  BY <1>1 DEF ChatInv
<1>3. \A v \in Workers : Backed(talk'[v], tickets)
  BY <1>1 DEF ChatInv
<1>4. QED
  BY <1>1, <1>2, <1>3 DEF ChatInv

\* A single write of a row that is not escalated.
LEMMA ChatWrites ==
  ASSUME ChatInv, NEW w \in Workers, NEW c \in Chats, NEW r \in WholeRows,
         r.status # "ESCALATED",
         L!Start(w, <<L!UpdateChatSession(c, r)>>) \/ L!Start(w, <<L!InsertChatSession(c, r)>>)
  PROVE  ChatInv'
<1>1. ASSUME NEW s \in ChatStatements, s.row = r, L!Start(w, <<s>>)
      PROVE  ChatInv'
  <2>1. PICK todo : todo = <<s>>
    BY Zenon
  <2>2. todo \in Seq(ChatStatements) /\ Len(todo) = 1 /\ todo[1] = s
    BY <2>1
  <2>3. Backed(todo, tickets)
    BY <1>1, <2>2 DEF Backed
  <2>4. QED
    BY Zenon, <1>1, <2>1, <2>2, <2>3, ChatStarts
<1>2. PICK u : u = L!UpdateChatSession(c, r)
  OBVIOUS
<1>3. PICK n : n = L!InsertChatSession(c, r)
  OBVIOUS
<1>4. u \in ChatStatements /\ u.row = r /\ n \in ChatStatements /\ n.row = r
  BY <1>2, <1>3 DEF L!UpdateChatSession, L!InsertChatSession, ChatStatements
<1>5. QED
  BY <1>1, <1>2, <1>3, <1>4

\* What the handlers make of a row.
SaidAt(r, n) == [r EXCEPT !.lastEventAt = n]
TakenAt(r, a, n) == [r EXCEPT !.status = "ACTIVE", !.agent = a, !.lastEventAt = n]
EndedAt(r, st, n) == [r EXCEPT !.status = st, !.endedAt = n, !.lastEventAt = n]
TurnedAt(r, n) == [EndedAt(r, "ESCALATED", n) EXCEPT !.ticket = TRUE]

\* It is whole when the row was.
LEMMA WrittenIsWhole ==
  ASSUME NEW n \in Nat \ {0}, NEW r \in WholeRows, NoAgent \notin Agents
  PROVE  /\ SaidAt(r, n) \in WholeRows
         /\ SaidAt(r, n).status = r.status
         /\ \A a \in Agents : r.status = "QUEUED" =>
              /\ TakenAt(r, a, n) \in WholeRows
              /\ TakenAt(r, a, n).status = "ACTIVE"
         /\ r.status # "ESCALATED" => \A st \in {"ABANDONED", "CLOSED"} :
              /\ EndedAt(r, st, n) \in WholeRows
              /\ EndedAt(r, st, n).status = st
         /\ r.status = "ACTIVE" =>
              TurnedAt(r, n) \in WholeRows
<1>1. r \in ChatRows /\ Whole(r)
  BY DEF WholeRows
<1>2. PICK x : x = SaidAt(r, n)
  OBVIOUS
<1>3. x \in WholeRows /\ x.status = r.status
  <2>1. /\ x \in ChatRows /\ x.status = r.status /\ x.agent = r.agent /\ x.endedAt = r.endedAt
        /\ x.ticket = r.ticket
    BY <1>1, <1>2 DEF ChatRows, SaidAt
  <2>2. QED
    BY <1>1, <2>1 DEF WholeRows, Whole
<1>4. ASSUME NEW a \in Agents, r.status = "QUEUED"
      PROVE  /\ TakenAt(r, a, n) \in WholeRows
             /\ TakenAt(r, a, n).status = "ACTIVE"
  <2>1. PICK y : y = TakenAt(r, a, n)
    OBVIOUS
  <2>2. /\ y \in ChatRows /\ y.status = "ACTIVE" /\ y.agent = a /\ y.endedAt = r.endedAt
        /\ y.ticket = r.ticket
    BY Zenon, <1>1, <2>1 DEF ChatRows, L!Statuses, TakenAt
  <2>3. Whole(y)
    BY <1>1, <1>4, <2>2 DEF Whole, L!Ended
  <2>4. QED
    BY <2>1, <2>2, <2>3 DEF WholeRows
<1>5. ASSUME NEW st \in {"ABANDONED", "CLOSED"}, r.status # "ESCALATED"
      PROVE  /\ EndedAt(r, st, n) \in WholeRows
             /\ EndedAt(r, st, n).status = st
  <2>1. PICK y : y = EndedAt(r, st, n)
    OBVIOUS
  <2>2. y \in ChatRows /\ y.status = st /\ y.endedAt = n /\ y.ticket = r.ticket
    BY Zenon, <1>1, <2>1 DEF ChatRows, L!Statuses, L!Ended, EndedAt, TurnedAt
  <2>3. Whole(y)
    BY <1>1, <1>5, <2>2 DEF Whole, L!Ended
  <2>4. QED
    BY <2>1, <2>2, <2>3 DEF WholeRows
<1>6. ASSUME r.status = "ACTIVE"
      PROVE  TurnedAt(r, n) \in WholeRows
  <2>1. PICK y : y = TurnedAt(r, n)
    OBVIOUS
  <2>2. /\ y \in ChatRows /\ y.status = "ESCALATED" /\ y.endedAt = n
        /\ y.ticket = TRUE /\ y.agent = r.agent
    BY Zenon, <1>1, <2>1 DEF ChatRows, L!Statuses, L!Ended, EndedAt, TurnedAt
  <2>3. Whole(y)
    BY <1>1, <1>6, <2>2 DEF Whole, L!Ended
  <2>4. QED
    BY <2>1, <2>2, <2>3 DEF WholeRows
<1>7. QED
  BY <1>2, <1>3, <1>4, <1>5, <1>6

LEMMA NoChatWhole ==
  /\ L!NoChat \in WholeRows
  /\ \A n \in Nat : /\ [L!NoChat EXCEPT !.status = "QUEUED", !.lastEventAt = n] \in WholeRows
                    /\ [L!NoChat EXCEPT !.status = "QUEUED", !.lastEventAt = n].status = "QUEUED"
<1>1. PICK r : r = L!NoChat
  OBVIOUS
<1>2. /\ r \in ChatRows /\ r.status = "none" /\ r.agent = NoAgent
      /\ r.ticket = FALSE /\ r.endedAt = 0
  BY <1>1 DEF L!NoChat, ChatRows, L!Statuses
<1>3. Whole(r)
  BY <1>2 DEF Whole, L!Ended
<1>4. ASSUME NEW n \in Nat
      PROVE  /\ [r EXCEPT !.status = "QUEUED", !.lastEventAt = n] \in WholeRows
             /\ [r EXCEPT !.status = "QUEUED", !.lastEventAt = n].status = "QUEUED"
  <2>1. PICK y : y = [r EXCEPT !.status = "QUEUED", !.lastEventAt = n]
    OBVIOUS
  <2>2. /\ y \in ChatRows /\ y.status = "QUEUED" /\ y.agent = NoAgent /\ y.ticket = FALSE
        /\ y.endedAt = 0
    BY Zenon, <1>2, <2>1 DEF ChatRows, L!Statuses
  <2>3. Whole(y)
    BY <2>2 DEF Whole, L!Ended
  <2>4. QED
    BY <2>1, <2>2, <2>3 DEF WholeRows
<1>5. QED
  BY Zenon, <1>1, <1>2, <1>3, <1>4 DEF WholeRows

\* The handlers on one session.
LEMMA ChatHandlers ==
  ASSUME ChatInv, NoAgent \notin Agents, NEW w \in Workers, NEW c \in Chats,
         \/ L!StartChat(w, c) \/ L!PostChatMessage(w, c) \/ L!CloseChat(w, c)
         \/ \E a \in Agents : L!AgentChatMessage(w, c, a) \/ L!AcceptChat(w, c, a)
  PROVE  ChatInv'
<1>1. PICK r \in WholeRows : r = chat[c]
  BY DEF ChatInv
<1>2. PICK n \in Nat \ {0} : n = chatNow
  BY DEF ChatInv
<1>3. CASE L!StartChat(w, c)
  <2>1. PICK q \in WholeRows : q = [L!NoChat EXCEPT !.status = "QUEUED", !.lastEventAt = n]
                               /\ q.status = "QUEUED"
    BY Zenon, NoChatWhole
  <2>2. L!Start(w, <<L!InsertChatSession(c, q)>>)
    BY <1>2, <1>3, <2>1 DEF L!StartChat
  <2>3. QED
    BY Zenon, <2>1, <2>2, ChatWrites
<1>4. ASSUME r.status \in {"ACTIVE", "QUEUED"}, L!Start(w, L!Said(c)) PROVE ChatInv'
  <2>0. SaidAt(r, n) \in WholeRows /\ SaidAt(r, n).status = r.status
    BY WrittenIsWhole
  <2>1. PICK q \in WholeRows : q = SaidAt(r, n) /\ q.status = r.status
    BY <2>0
  <2>2. L!Start(w, <<L!UpdateChatSession(c, q)>>)
    BY <1>1, <1>2, <1>4, <2>1 DEF L!Said, SaidAt
  <2>3. QED
    BY Zenon, <1>4, <2>1, <2>2, ChatWrites
<1>5. CASE L!CloseChat(w, c)
  <2>1. PICK st \in {"ABANDONED", "CLOSED"} :
          st = IF chat[c].status = "QUEUED" THEN "ABANDONED" ELSE "CLOSED"
    OBVIOUS
  <2>2. r.status # "ESCALATED" /\ L!Start(w, <<L!Ending(c, st)>>)
    BY <1>1, <1>5, <2>1 DEF L!CloseChat
  <2>3. PICK q \in WholeRows : /\ q = EndedAt(r, st, n)
                               /\ q.status = st
    <3>1. /\ EndedAt(r, st, n) \in WholeRows
          /\ EndedAt(r, st, n).status = st
      BY <2>2, WrittenIsWhole
    <3>2. QED
      BY <3>1
  <2>4. L!Start(w, <<L!UpdateChatSession(c, q)>>)
    BY <1>1, <1>2, <2>2, <2>3 DEF L!Ending, EndedAt
  <2>5. QED
    BY Zenon, <2>3, <2>4, ChatWrites
<1>6. ASSUME NEW a \in Agents, L!AcceptChat(w, c, a) PROVE ChatInv'
  <2>1. PICK q \in WholeRows : /\ q = TakenAt(r, a, n)
                               /\ q.status = "ACTIVE"
    <3>1. r.status = "QUEUED"
      BY Zenon, <1>1, <1>6 DEF L!AcceptChat
    <3>2. /\ TakenAt(r, a, n) \in WholeRows
          /\ TakenAt(r, a, n).status = "ACTIVE"
      BY <3>1, WrittenIsWhole
    <3>3. QED
      BY <3>2
  <2>2. L!Start(w, <<L!UpdateChatSession(c, q)>>)
    BY Zenon, <1>1, <1>2, <1>6, <2>1 DEF L!AcceptChat, TakenAt
  <2>3. QED
    BY Zenon, <2>1, <2>2, ChatWrites
<1>7. QED
  BY <1>1, <1>3, <1>4, <1>5, <1>6 DEF L!PostChatMessage, L!AgentChatMessage

\* The ticket is inserted first, and then the session names it.
LEMMA EscalationBacked ==
  ASSUME ChatInv, NoAgent \notin Agents, NEW w \in Workers, NEW c \in Chats, NEW a \in Agents,
         L!EscalateChat(w, c, a)
  PROVE  ChatInv'
<1>1. PICK r \in WholeRows : r = chat[c] /\ r.status = "ACTIVE"
  BY DEF ChatInv, L!EscalateChat
<1>2. PICK n \in Nat \ {0} : n = chatNow
  BY DEF ChatInv
<1>3. PICK q \in WholeRows : q = TurnedAt(r, n)
  BY <1>1, WrittenIsWhole
<1>4. PICK t : t = L!InsertTicket(c)
  OBVIOUS
<1>5. PICK u : u = L!UpdateChatSession(c, q)
  OBVIOUS
<1>6. t \in ChatStatements /\ t.kind = "ticket" /\ t.chat = c /\ u \in ChatStatements /\ u.chat = c
  BY Zenon, <1>4, <1>5, NoChatWhole DEF L!InsertTicket, L!UpdateChatSession, ChatStatements
<1>7. PICK todo : todo = <<t, u>>
  BY Zenon
<1>8. todo \in Seq(ChatStatements) /\ Len(todo) = 2 /\ todo[1] = t /\ todo[2] = u
  BY <1>6, <1>7
<1>9. L!Ending(c, "ESCALATED").row = EndedAt(r, "ESCALATED", n)
  BY <1>1, <1>2 DEF L!Ending, L!UpdateChatSession, EndedAt
<1>10. L!Start(w, todo)
  BY Zenon, <1>3, <1>4, <1>5, <1>7, <1>9 DEF L!EscalateChat, TurnedAt
<1>11. Backed(todo, tickets)
  BY <1>6, <1>8 DEF Backed
<1>12. QED
  BY <1>8, <1>10, <1>11, ChatStarts

\* The sweep ends sessions that were live when it read them.
LEMMA ReaperBacked ==
  ASSUME ChatInv, NoAgent \notin Agents, NEW w \in Workers, L!runChatReaper(w),
         FinitelyManyChats
  PROVE  ChatInv'
<1>1. PICK cs \in SUBSET {c \in Chats : chat[c].status \in {"QUEUED", "ACTIVE"}} :
        \E s \in L!Listed(cs) :
          L!Start(w, [i \in DOMAIN s |->
                        L!Ending(s[i], IF chat[s[i]].status = "QUEUED" THEN "ABANDONED" ELSE "CLOSED")])
  BY Zenon DEF L!runChatReaper, L!ChatSessionsByStatus
<1>2. PICK n \in Nat : n = L!Cardinality(cs)
  <2>1. L!Cardinality(cs) = Cardinality(cs)
    BY Zenon DEF Cardinality, L!Cardinality
  <2>2. QED
    BY <2>1 DEF FinitelyManyChats
<1>3. PICK s \in [1..n -> cs] :
        L!Start(w, [i \in DOMAIN s |->
                      L!Ending(s[i], IF chat[s[i]].status = "QUEUED" THEN "ABANDONED" ELSE "CLOSED")])
  BY Zenon, <1>1, <1>2 DEF L!Listed
<1>4. PICK todo : todo = [i \in 1..n |-> L!Ending(s[i], IF chat[s[i]].status = "QUEUED"
                                                        THEN "ABANDONED" ELSE "CLOSED")]
  BY Zenon
<1>5. L!Start(w, todo)
  BY <1>3, <1>4
<1>6. ASSUME NEW i \in 1..n
      PROVE  todo[i] \in ChatStatements /\ todo[i].row.status # "ESCALATED"
  <2>1. PICK c \in Chats : c = s[i] /\ chat[c].status \in {"QUEUED", "ACTIVE"}
    OBVIOUS
  <2>2. PICK st \in {"ABANDONED", "CLOSED"} :
          st = IF chat[c].status = "QUEUED" THEN "ABANDONED" ELSE "CLOSED"
    OBVIOUS
  <2>3. PICK r \in WholeRows : r = chat[c] /\ r.status # "ESCALATED"
    BY <2>1 DEF ChatInv
  <2>4. PICK t \in Nat \ {0} : t = chatNow
    BY DEF ChatInv
  <2>5. /\ EndedAt(r, st, t) \in WholeRows
        /\ EndedAt(r, st, t).status = st
    BY <2>3, WrittenIsWhole
  <2>6. PICK q \in WholeRows : /\ q = EndedAt(r, st, t)
                               /\ q.status = st
    BY <2>5
  <2>7. todo[i] = L!UpdateChatSession(c, q)
    BY Zenon, <1>4, <2>1, <2>2, <2>3, <2>4, <2>6 DEF L!Ending, EndedAt
  <2>8. PICK u : u = L!UpdateChatSession(c, q)
    OBVIOUS
  <2>9. u \in ChatStatements /\ u.row = q
    BY <2>8 DEF L!UpdateChatSession, ChatStatements
  <2>10. QED
    BY <2>6, <2>7, <2>8, <2>9
<1>7. todo \in Seq(ChatStatements) /\ Len(todo) = n
  BY <1>4, <1>6
<1>8. Backed(todo, tickets)
  BY <1>6, <1>7 DEF Backed
<1>9. QED
  BY <1>5, <1>7, <1>8, ChatStarts

\* A statement is run, or a handler stops.
LEMMA ChatStatementKept ==
  ASSUME ChatInv, NEW w \in Workers, L!Statement(w) \/ L!HandlerFails(w)
  PROVE  ChatInv'
<1>1. PICK q \in Seq(ChatStatements) : q = talk[w] /\ q # <<>> /\ Backed(q, tickets)
  BY DEF ChatInv, L!Statement, L!HandlerFails
<1>2. /\ Len(q) \in Nat /\ Len(q) > 0 /\ q[1] \in ChatStatements /\ Head(q) = q[1]
      /\ Tail(q) \in Seq(ChatStatements) /\ Len(Tail(q)) = Len(q) - 1
  <2>1. Len(q) \in Nat /\ Len(q) > 0
    BY <1>1
  <2>2. QED
    BY <1>1, <2>1
<1>3. PICK s \in ChatStatements : s = q[1]
  BY <1>2
<1>4. s.chat \in Chats /\ s.row \in WholeRows
  BY DEF ChatStatements
<1>5. CASE L!HandlerFails(w)
  <2>1. talk' = [talk EXCEPT ![w] = <<>>] /\ UNCHANGED <<chatNow, chat, tickets>>
    BY <1>5 DEF L!HandlerFails
  <2>2. talk' \in [Workers -> Seq(ChatStatements)]
    BY <2>1, NothingLeft DEF ChatInv
  <2>3. \A v \in Workers : Backed(talk'[v], tickets)
    BY <2>1, NothingLeft DEF ChatInv
  <2>4. QED
    BY <2>1, <2>2, <2>3 DEF ChatInv
<1>6. CASE L!Statement(w)
  <2>1. talk' = [talk EXCEPT ![w] = Tail(q)] /\ UNCHANGED chatNow
    BY <1>1, <1>6 DEF L!Statement
  <2>2. talk' \in [Workers -> Seq(ChatStatements)]
    BY <1>2, <2>1 DEF ChatInv
  <2>3. tickets \subseteq tickets' /\ (s.kind = "ticket" => s.chat \in tickets')
    BY <1>1, <1>2, <1>3, <1>6 DEF L!Statement
  <2>4. Backed(Tail(q), tickets')
    <3>1. SUFFICES ASSUME NEW i \in 1..Len(Tail(q)), Tail(q)[i].kind # "ticket",
                          Tail(q)[i].row.status = "ESCALATED"
                   PROVE  Tail(q)[i].chat \in tickets'
      BY DEF Backed
    <3>2. Tail(q)[i] = q[i + 1] /\ i + 1 \in 1..Len(q)
      BY <1>2
    <3>3. q[i + 1].chat \in tickets \/ (i + 1 = 2 /\ q[1].kind = "ticket" /\ q[1].chat = q[2].chat)
      BY <1>1, <3>1, <3>2 DEF Backed
    <3>4. QED
      BY <1>3, <2>3, <3>2, <3>3
  <2>5. \A v \in Workers : Backed(talk'[v], tickets')
    BY <2>1, <2>3, <2>4, BackedLonger DEF ChatInv
  <2>6. CASE s.kind = "ticket"
    <3>1. chat' = chat
      BY <1>1, <1>2, <1>3, <1>6, <2>6 DEF L!Statement
    <3>2. QED
      BY <2>1, <2>2, <2>3, <2>5, <3>1 DEF ChatInv
  <2>7. CASE s.kind # "ticket"
    <3>1. chat' = [chat EXCEPT ![s.chat] = s.row] /\ tickets' = tickets
      BY Zenon, <1>1, <1>2, <1>3, <1>6, <2>7 DEF L!Statement
    <3>2. chat' \in [Chats -> WholeRows]
      BY <1>4, <3>1 DEF ChatInv
    <3>3. s.row.status = "ESCALATED" => s.chat \in tickets
      <4>1. 1 \in 1..Len(q)
        BY <1>2
      <4>2. QED
        BY <1>1, <1>3, <2>7, <4>1 DEF Backed
    <3>4. \A c \in Chats : chat'[c].status = "ESCALATED" => c \in tickets
      BY <1>4, <3>1, <3>3 DEF ChatInv
    <3>5. QED
      BY <2>1, <2>2, <2>5, <3>1, <3>2, <3>4 DEF ChatInv
  <2>8. QED
    BY <2>6, <2>7
<1>7. QED
  BY <1>5, <1>6

\* Every step keeps the invariant.
LEMMA ChatStep ==
  ASSUME ChatInv, NoAgent \notin Agents, FinitelyManyChats, [L!Next]_(L!vars)
  PROVE  ChatInv'
<1>1. ASSUME NEW a \in Agents, L!EnterSupportMode(a) \/ L!ExitSupportMode(a) \/ L!SaveAgent(a)
      PROVE  ChatInv'
  BY <1>1 DEF L!EnterSupportMode, L!ExitSupportMode, L!SaveAgent, ChatInv
<1>2. CASE L!Restart
  <2>1. talk' = [v \in Workers |-> <<>>] /\ UNCHANGED <<chatNow, chat, tickets>>
    BY <1>2 DEF L!Restart
  <2>2. /\ talk' \in [Workers -> Seq(ChatStatements)]
        /\ \A v \in Workers : Backed(talk'[v], tickets)
    BY <2>1, NothingLeft
  <2>3. QED
    BY <2>1, <2>2 DEF ChatInv
<1>3. CASE L!Tick
  <2>1. chatNow' = chatNow + 1 /\ UNCHANGED <<chat, tickets, talk>>
    BY <1>3 DEF L!Tick
  <2>2. chatNow' \in Nat \ {0}
    BY <2>1 DEF ChatInv
  <2>3. QED
    BY <2>1, <2>2 DEF ChatInv
<1>4. CASE UNCHANGED L!vars
  BY <1>4 DEF L!vars, ChatInv
<1>5. QED
  BY <1>1, <1>2, <1>3, <1>4, ChatHandlers, EscalationBacked, ReaperBacked, ChatStatementKept
     DEF L!Next

LEMMA ChatsKept ==
  ASSUME NoAgent \notin Agents, FinitelyManyChats
  PROVE  L!Spec => []ChatInv
<1>1. L!Init => ChatInv
  <2>1. SUFFICES ASSUME L!Init PROVE ChatInv
    OBVIOUS
  <2>2. chatNow = 1 /\ talk = [w \in Workers |-> <<>>] /\ chat = [c \in Chats |-> L!NoChat]
    BY <2>1 DEF L!Init
  <2>3. chat \in [Chats -> WholeRows]
    BY Zenon, <2>2, NoChatWhole
  <2>4. \A c \in Chats : chat[c].status # "ESCALATED"
    BY <2>2 DEF L!NoChat
  <2>5. talk \in [Workers -> Seq(ChatStatements)] /\ \A w \in Workers : Backed(talk[w], tickets)
    BY <2>2, NothingLeft
  <2>6. QED
    BY <2>2, <2>3, <2>4, <2>5 DEF ChatInv
<1>2. ChatInv /\ [L!Next]_(L!vars) => ChatInv'
  BY ChatStep
<1>3. QED
  BY <1>1, <1>2, PTL DEF L!Spec

\* However stale the copies are that UpdateChatSession writes back, and with any
\* number of agents, requests and sweeps, every stored session is one that some
\* order of whole handlers could have left.
THEOREM SessionsAreWhole ==
  ASSUME NoAgent \notin Agents, FinitelyManyChats
  PROVE  L!Spec => []L!RowsAreWhole
<1>1. ChatInv => L!RowsAreWhole
  <2>1. SUFFICES ASSUME ChatInv, NEW c \in Chats
                 PROVE  LET r == chat[c]
                        IN /\ r.status \in L!Statuses
                           /\ r.status = "QUEUED" => r.agent = NoAgent
                           /\ r.status \in {"ACTIVE", "ESCALATED"} => r.agent # NoAgent
                           /\ r.status \in L!Ended <=> r.endedAt > 0
                           /\ r.status = "ESCALATED" <=> r.ticket
    BY DEF L!RowsAreWhole
  <2>2. PICK r \in ChatRows : r = chat[c] /\ Whole(r)
    BY <2>1 DEF ChatInv, WholeRows
  <2>3. r.status \in L!Statuses /\ r.ticket \in BOOLEAN
    BY DEF ChatRows
  <2>4. r.status = "ESCALATED" <=> r.ticket
    BY <2>2, <2>3 DEF Whole
  <2>5. QED
    BY <2>2, <2>3, <2>4 DEF Whole
<1>2. QED
  BY <1>1, ChatsKept, PTL

\* A session that says it was escalated has its ticket, wherever EscalateChat
\* stopped and whatever was written to the session since.
THEOREM EscalationHasTicket ==
  ASSUME NoAgent \notin Agents, FinitelyManyChats
  PROVE  L!Spec => []L!EscalatedHasTicket
<1>1. ChatInv => L!EscalatedHasTicket
  BY DEF ChatInv, L!EscalatedHasTicket
<1>2. QED
  BY <1>1, ChatsKept, PTL

-----------------------------------------------------------------------------
(* The knowledge base.                                                       *)

CONSTANTS Articles, Slugs, Editors, Admins

VARIABLES article, index, public, editor

K == INSTANCE KnowledgeBase WITH Agents <- Editors, worker <- editor

ArticleRows == [status : {"none", "DRAFT", "REVIEW", "PUBLISHED", "ARCHIVED"},
                slug : Slugs \cup {""}]
ArticleJobs == [op : {"idle", "insert", "edit", "move", "list", "swap"},
                art : Articles \cup {""}, row : ArticleRows, fresh : BOOLEAN,
                list : SUBSET (Slugs \cup {""})]

\* What a write that is still based on the stored row does to its status.
ArticleStep(op, from, to) ==
  /\ op = "insert" => from = "none" /\ to = "DRAFT"
  /\ op = "edit" => to = from
  /\ op = "move" => K!CanPublishArticle(from, to)

Writing == {"insert", "edit", "move"}

ArticleInv ==
  /\ article \in [Articles -> ArticleRows]
  /\ editor \in [Workers -> ArticleJobs]
  /\ index \subseteq public /\ K!ListPublished \subseteq public
  /\ \A w \in Workers :
       /\ editor[w].list \subseteq public
       /\ editor[w].op \in Writing => editor[w].art \in Articles
       /\ editor[w].op \in Writing /\ editor[w].fresh
            => ArticleStep(editor[w].op, article[editor[w].art].status, editor[w].row.status)

\* A editor takes up another job, and nothing else changes.
LEMMA HoldKept ==
  ASSUME ArticleInv, NEW w \in Workers, NEW v \in ArticleJobs, K!Hold(w, v),
         v.list \subseteq public,
         v.op \in Writing => /\ v.art \in Articles
                             /\ ArticleStep(v.op, article[v.art].status, v.row.status)
  PROVE  ArticleInv' /\ article' = article
<1>1. /\ editor' = [editor EXCEPT ![w] = v]
      /\ article' = article /\ index' = index /\ public' = public
  BY DEF K!Hold
<1>2. K!ListPublished' = K!ListPublished
  BY <1>1 DEF K!ListPublished
<1>3. QED
  BY Zenon, <1>1, <1>2 DEF ArticleInv

LEMMA IdleJob == K!Idle \in ArticleJobs /\ K!Idle.op \notin Writing /\ K!Idle.list = {}
BY DEF K!Idle, K!NoArticle, ArticleJobs, ArticleRows, Writing

\* A handler reads the row it is going to write.
LEMMA ArticleHandlers ==
  ASSUME ArticleInv, NEW w \in Workers, NEW a \in Articles,
         \/ \E s \in Slugs : K!CreateArticle(w, a, s) \/ K!EditArticle(w, a, s)
         \/ \E u \in Editors, to \in {"DRAFT", "REVIEW", "PUBLISHED", "ARCHIVED"} :
              K!TransitionArticle(w, u, a, to)
  PROVE  ArticleInv' /\ article' = article
<1>1. article[a] \in ArticleRows
  BY Zenon DEF ArticleInv
<1>2. ASSUME NEW s \in Slugs, K!CreateArticle(w, a, s) PROVE ArticleInv' /\ article' = article
  <2>1. PICK v : v = [K!Idle EXCEPT !.op = "insert", !.art = a, !.fresh = TRUE,
                        !.row = [K!NoArticle EXCEPT !.status = "DRAFT", !.slug = s]]
    OBVIOUS
  <2>2. v \in ArticleJobs /\ v.list = {} /\ v.op = "insert" /\ v.art = a /\ v.row.status = "DRAFT"
    BY Zenon, <2>1 DEF K!Idle, K!NoArticle, ArticleJobs, ArticleRows
  <2>3. K!Hold(w, v) /\ article[a].status = "none"
    BY Zenon, <1>2, <2>1 DEF K!CreateArticle
  <2>4. QED
    BY Zenon, <2>2, <2>3, HoldKept DEF ArticleStep
<1>3. ASSUME NEW s \in Slugs, K!EditArticle(w, a, s) PROVE ArticleInv' /\ article' = article
  <2>1. PICK v : v = [K!Idle EXCEPT !.op = "edit", !.art = a, !.fresh = TRUE,
                        !.row = [article[a] EXCEPT !.slug = s]]
    OBVIOUS
  <2>2. [article[a] EXCEPT !.slug = s] \in ArticleRows
        /\ [article[a] EXCEPT !.slug = s].status = article[a].status
    BY Zenon, <1>1 DEF ArticleRows
  <2>3. /\ v \in ArticleJobs /\ v.list = {} /\ v.op = "edit" /\ v.art = a
        /\ v.row.status = article[a].status
    BY Zenon, <2>1, <2>2 DEF K!Idle, ArticleJobs
  <2>4. K!Hold(w, v)
    BY Zenon, <1>3, <2>1 DEF K!EditArticle
  <2>5. QED
    BY <2>3, <2>4, HoldKept DEF ArticleStep
<1>4. ASSUME NEW u \in Editors, NEW to \in {"DRAFT", "REVIEW", "PUBLISHED", "ARCHIVED"},
             K!TransitionArticle(w, u, a, to)
      PROVE  ArticleInv' /\ article' = article
  <2>1. PICK v : v = [K!Idle EXCEPT !.op = "move", !.art = a, !.fresh = TRUE,
                        !.row = [article[a] EXCEPT !.status = to]]
    OBVIOUS
  <2>2. [article[a] EXCEPT !.status = to] \in ArticleRows
        /\ [article[a] EXCEPT !.status = to].status = to
    BY Zenon, <1>1 DEF ArticleRows
  <2>3. v \in ArticleJobs /\ v.list = {} /\ v.op = "move" /\ v.art = a /\ v.row.status = to
    BY Zenon, <2>1, <2>2 DEF K!Idle, ArticleJobs
  <2>4. K!Hold(w, v) /\ K!CanPublishArticle(article[a].status, to)
    BY <1>4, <2>1 DEF K!TransitionArticle
  <2>5. QED
    BY <2>3, <2>4, HoldKept DEF ArticleStep
<1>5. QED
  BY <1>2, <1>3, <1>4

\* The conditional write: it takes the step it was based on, and whoever else
\* read the row has a stale copy now.
LEMMA ArticleWritten ==
  ASSUME ArticleInv, NEW w \in Workers, K!UpdateArticle(w)
  PROVE  /\ ArticleInv'
         /\ \A a \in Articles : article'[a] # article[a] =>
              \E op \in Writing : ArticleStep(op, article[a].status, article'[a].status)
<1>1. PICK a \in Articles : a = editor[w].art
  BY DEF K!UpdateArticle, ArticleInv, Writing
<1>2. PICK r \in ArticleRows : r = editor[w].row
  BY Zenon DEF ArticleInv, ArticleJobs
<1>3. /\ editor[w].op \in Writing /\ ArticleStep(editor[w].op, article[a].status, r.status)
      /\ article' = [article EXCEPT ![a] = r]
      /\ index' = index /\ public' = public \cup K!ListPublished'
  BY <1>1, <1>2 DEF K!UpdateArticle, ArticleInv, Writing
<1>4. article' \in [Articles -> ArticleRows]
  BY <1>3 DEF ArticleInv
<1>5. ASSUME NEW v \in Workers
      PROVE  /\ editor'[v] \in ArticleJobs /\ editor'[v].list \subseteq public
             /\ editor'[v].op \in Writing => editor'[v].art \in Articles
             /\ editor'[v].op \in Writing /\ editor'[v].fresh
                  => ArticleStep(editor'[v].op, article'[editor'[v].art].status,
                                 editor'[v].row.status)
  <2>1. CASE v = w
    <3>1. editor'[v] = K!Idle \/ editor'[v] = [K!Idle EXCEPT !.op = "list"]
      BY <2>1 DEF K!UpdateArticle
    <3>2. editor'[v] \in ArticleJobs /\ editor'[v].op \notin Writing /\ editor'[v].list = {}
      <4>1. PICK idle : idle = K!Idle
        OBVIOUS
      <4>2. idle \in ArticleJobs /\ idle.op \notin Writing /\ idle.list = {}
        BY <4>1, IdleJob
      <4>3. PICK listing : listing = [idle EXCEPT !.op = "list"]
        BY Zenon
      <4>4. listing \in ArticleJobs /\ listing.op \notin Writing /\ listing.list = {}
        BY Zenon, <4>2, <4>3 DEF ArticleJobs, Writing
      <4>5. QED
        BY Zenon, <3>1, <4>1, <4>2, <4>3, <4>4
    <3>3. QED
      BY Zenon, <3>2
  <2>2. CASE v # w /\ editor[v].art = a
    <3>1. editor'[v] = [editor[v] EXCEPT !.fresh = FALSE]
      BY <1>1, <2>2 DEF K!UpdateArticle
    <3>2. editor[v] \in ArticleJobs
      BY DEF ArticleInv
    <3>3. /\ editor'[v] \in ArticleJobs /\ ~editor'[v].fresh
          /\ editor'[v].list = editor[v].list /\ editor'[v].op = editor[v].op
          /\ editor'[v].art = editor[v].art
      BY Zenon, <3>1, <3>2 DEF ArticleJobs
    <3>4. QED
      BY Zenon, <3>3 DEF ArticleInv
  <2>3. CASE v # w /\ editor[v].art # a
    <3>1. editor'[v] = editor[v]
      BY <1>1, <2>3 DEF K!UpdateArticle
    <3>2. editor[v].op \in Writing => article'[editor[v].art] = article[editor[v].art]
      BY <1>3, <2>3 DEF ArticleInv
    <3>3. QED
      BY Zenon, <3>1, <3>2 DEF ArticleInv
  <2>4. QED
    BY Zenon, <2>1, <2>2, <2>3
<1>6. editor' \in [Workers -> ArticleJobs]
  <2>1. editor' = [v \in Workers |-> editor'[v]]
    BY DEF K!UpdateArticle
  <2>2. QED
    BY <1>5, <2>1
<1>7. public \subseteq public' /\ K!ListPublished' \subseteq public'
  BY <1>3
<1>8. ArticleInv'
  BY Zenon, <1>3, <1>4, <1>5, <1>6, <1>7 DEF ArticleInv
<1>9. QED
  BY Zenon, <1>3, <1>8 DEF ArticleInv

\* Every step keeps the invariant and changes a row by a write only.
LEMMA ArticleNext ==
  ASSUME ArticleInv, [K!Next]_(K!vars)
  PROVE  /\ ArticleInv'
         /\ \A a \in Articles : article'[a] # article[a] =>
              \E op \in Writing : ArticleStep(op, article[a].status, article'[a].status)
<1>1. ASSUME NEW w \in Workers, K!ListArticles(w) PROVE ArticleInv' /\ article' = article
  <2>1. PICK v : v = [K!Idle EXCEPT !.op = "swap", !.list = K!ListPublished]
    OBVIOUS
  <2>2. K!ListPublished \in SUBSET (Slugs \cup {""})
    BY Zenon DEF K!ListPublished, ArticleInv, ArticleRows
  <2>3. v \in ArticleJobs /\ v.op \notin Writing /\ v.list = K!ListPublished
    BY Zenon, <2>1, <2>2 DEF K!Idle, K!NoArticle, ArticleJobs, ArticleRows, Writing
  <2>4. K!Hold(w, v)
    BY <1>1, <2>1 DEF K!ListArticles
  <2>5. v.list \subseteq public
    BY <2>3 DEF ArticleInv
  <2>6. QED
    BY <2>3, <2>4, <2>5, HoldKept
<1>2. ASSUME NEW w \in Workers, K!SwapIndex(w) PROVE ArticleInv' /\ article' = article
  <2>1. /\ editor' = [editor EXCEPT ![w] = K!Idle] /\ index' = editor[w].list
        /\ article' = article /\ public' = public
    BY <1>2 DEF K!SwapIndex
  <2>2. K!ListPublished' = K!ListPublished
    BY <2>1 DEF K!ListPublished
  <2>3. QED
    BY Zenon, <2>1, <2>2, IdleJob DEF ArticleInv
<1>3. ASSUME NEW w \in Workers, K!HandlerFails(w) PROVE ArticleInv' /\ article' = article
  BY <1>3, IdleJob, HoldKept DEF K!HandlerFails
<1>4. ASSUME NEW w \in Workers, K!Bootstrap(w) PROVE ArticleInv' /\ article' = article
  <2>1. PICK v : v = [K!Idle EXCEPT !.op = "list"]
    BY Zenon
  <2>2. v \in ArticleJobs /\ v.op \notin Writing /\ v.list = {}
    BY Zenon, <2>1 DEF K!Idle, K!NoArticle, ArticleJobs, ArticleRows, Writing
  <2>3. /\ editor' = [x \in Workers |-> IF x = w THEN v ELSE K!Idle] /\ index' = {}
        /\ article' = article /\ public' = public
    BY <1>4, <2>1 DEF K!Bootstrap
  <2>4. K!ListPublished' = K!ListPublished
    BY <2>3 DEF K!ListPublished
  <2>5. QED
    BY Zenon, <2>2, <2>3, <2>4, IdleJob DEF ArticleInv
<1>5. CASE UNCHANGED K!vars
  <2>1. article' = article /\ index' = index /\ public' = public /\ editor' = editor
    BY <1>5 DEF K!vars
  <2>2. K!ListPublished' = K!ListPublished
    BY <2>1 DEF K!ListPublished
  <2>3. ArticleInv' /\ article' = article
    BY Zenon, <2>1, <2>2 DEF ArticleInv
  <2>4. QED
    BY <2>3
<1>6. CASE K!Next
  <2>1. PICK w \in Workers :
          \/ K!UpdateArticle(w) \/ K!ListArticles(w) \/ K!SwapIndex(w) \/ K!HandlerFails(w)
          \/ K!Bootstrap(w)
          \/ \E a \in Articles, s \in Slugs : K!CreateArticle(w, a, s) \/ K!EditArticle(w, a, s)
          \/ \E a \in Articles, u \in Editors :
               \E to \in {"DRAFT", "REVIEW", "PUBLISHED", "ARCHIVED"} :
                 K!TransitionArticle(w, u, a, to)
    BY <1>6 DEF K!Next
  <2>2. CASE K!UpdateArticle(w)
    BY <2>2, ArticleWritten
  <2>3. CASE ~K!UpdateArticle(w)
    <3>1. ArticleInv' /\ article' = article
      BY <1>1, <1>2, <1>3, <1>4, <2>1, <2>3, ArticleHandlers
    <3>2. QED
      BY <3>1
  <2>4. QED
    BY <2>2, <2>3
<1>7. QED
  BY <1>5, <1>6

LEMMA ArticlesKept == K!Spec => []ArticleInv
<1>1. K!Init => ArticleInv
  <2>1. SUFFICES ASSUME K!Init PROVE ArticleInv
    OBVIOUS
  <2>2. K!NoArticle \in ArticleRows /\ K!NoArticle.status = "none"
    BY DEF K!NoArticle, ArticleRows
  <2>3. article \in [Articles -> ArticleRows] /\ index = {} /\ K!ListPublished = {}
    BY <2>1, <2>2 DEF K!Init, K!ListPublished
  <2>4. editor = [w \in Workers |-> K!Idle]
    BY <2>1 DEF K!Init
  <2>5. QED
    BY <2>3, <2>4, IdleJob DEF ArticleInv
<1>2. ArticleInv /\ [K!Next]_(K!vars) => ArticleInv'
  BY ArticleNext
<1>3. QED
  BY <1>1, <1>2, PTL DEF K!Spec

\* However many rebuilds race, RebuildKBIndex puts nothing into the index that
\* was not published when it was listed.
THEOREM IndexedWasPublished == K!Spec => []K!IndexWasPublished
<1>1. ArticleInv => K!IndexWasPublished
  BY DEF ArticleInv, K!IndexWasPublished
<1>2. QED
  BY <1>1, ArticlesKept, PTL

\* The version that UpdateArticle compares keeps every article on its lifecycle,
\* although any number of handlers decide on rows they read earlier.
THEOREM ArticlesMoveAlongEdges == K!Spec => [][K!ArticleMoveIsEdge]_(K!vars)
<1>1. ArticleInv /\ [K!Next]_(K!vars) => [K!ArticleMoveIsEdge]_(K!vars)
  BY ArticleNext DEF K!ArticleMoveIsEdge, ArticleStep, Writing
<1>2. QED
  BY <1>1, ArticlesKept, PTL DEF K!Spec

-----------------------------------------------------------------------------
(* Canned responses and attachments.                                         *)

CONSTANTS Dept, NoDept, Canned, Files

VARIABLES canned, upload

H == INSTANCE SupportShelf WITH Agents <- Editors

\* An upload that is under way has its file, and a row is never without one.
ShelfInv ==
  /\ canned \in [Canned -> [scope : {"none", "SYSTEM", "DEPARTMENT", "PERSONAL"},
                            dept : Dept \cup {NoDept}, owner : Editors \cup {NoAgent}]]
  /\ upload \in [Files -> [file : BOOLEAN, row : BOOLEAN,
                           step : {"none", "open", "copied", "done"}]]
  /\ \A f \in Files : /\ upload[f].step \in {"open", "copied"} => upload[f].file
                      /\ upload[f].row => upload[f].file

\* The step of an upload that writes file and row.
LEMMA UploadKept ==
  ASSUME ShelfInv, NEW f \in Files, NEW from, NEW file \in BOOLEAN, NEW r \in BOOLEAN,
         NEW to \in {"open", "copied", "done"}, H!Upload(f, from, file, r, to),
         to \in {"open", "copied"} => file, r => file
  PROVE  ShelfInv'
<1>1. PICK x : x = [file |-> file, row |-> r, step |-> to]
  BY Zenon
<1>2. /\ x \in [file : BOOLEAN, row : BOOLEAN, step : {"none", "open", "copied", "done"}]
      /\ x.file = file /\ x.row = r /\ x.step = to
  BY <1>1
<1>3. upload' = [upload EXCEPT ![f] = x] /\ canned' = canned
  BY Zenon, <1>1 DEF H!Upload
<1>4. \A g \in Files : upload'[g] = IF g = f THEN x ELSE upload[g]
  BY Zenon, <1>3 DEF ShelfInv
<1>5. QED
  BY Zenon, <1>2, <1>3, <1>4 DEF ShelfInv

LEMMA CannedKept ==
  ASSUME ShelfInv, NEW c \in Canned,
         NEW r \in [scope : {"none", "SYSTEM", "DEPARTMENT", "PERSONAL"},
                    dept : Dept \cup {NoDept}, owner : Editors \cup {NoAgent}],
         H!Write(c, r)
  PROVE  ShelfInv'
<1>1. canned' = [canned EXCEPT ![c] = r] /\ upload' = upload
  BY Zenon DEF H!Write
<1>2. QED
  BY Zenon, <1>1 DEF ShelfInv

\* What the three handlers write, and over what.
LEMMA CannedWrites ==
  ASSUME ShelfInv, NEW u \in Editors, NEW c \in Canned,
         \/ H!CreatePersonalCanned(u, c) \/ H!DeletePersonalCanned(u, c)
         \/ \E scope \in {"SYSTEM", "DEPARTMENT"}, d \in Dept \cup {NoDept} :
              H!SaveSharedCanned(u, c, scope, d)
  PROVE  \E r \in [scope : {"none", "SYSTEM", "DEPARTMENT", "PERSONAL"},
                   dept : Dept \cup {NoDept}, owner : Editors \cup {NoAgent}] :
           /\ H!Write(c, r)
           /\ \/ canned[c].scope = "none"
              \/ canned[c].scope = "PERSONAL" /\ r = H!NoCanned
              \/ r.scope = canned[c].scope /\ r.owner = canned[c].owner
<1> DEFINE CannedRows == [scope : {"none", "SYSTEM", "DEPARTMENT", "PERSONAL"},
                    dept : Dept \cup {NoDept}, owner : Editors \cup {NoAgent}]
<1>1. CASE H!CreatePersonalCanned(u, c)
  <2>1. PICK r : r = [scope |-> "PERSONAL", dept |-> NoDept, owner |-> u]
    BY Zenon
  <2>2. r \in CannedRows
    BY <2>1
  <2>3. canned[c].scope = "none" /\ H!Write(c, r)
    BY Zenon, <1>1, <2>1 DEF H!CreatePersonalCanned
  <2>4. QED
    BY Zenon, <2>2, <2>3
<1>2. CASE H!DeletePersonalCanned(u, c)
  <2>1. PICK r : r = H!NoCanned
    BY Zenon
  <2>2. r \in CannedRows
    BY <2>1 DEF H!NoCanned
  <2>3. canned[c].scope = "PERSONAL" /\ H!Write(c, r)
    BY Zenon, <1>2, <2>1 DEF H!DeletePersonalCanned
  <2>4. QED
    BY Zenon, <2>1, <2>2, <2>3
<1>3. ASSUME NEW scope \in {"SYSTEM", "DEPARTMENT"}, NEW d \in Dept \cup {NoDept},
             H!SaveSharedCanned(u, c, scope, d)
      PROVE  \E r \in CannedRows : /\ H!Write(c, r)
                             /\ \/ canned[c].scope = "none"
                                \/ r.scope = canned[c].scope /\ r.owner = canned[c].owner
  <2>1. PICK e \in Dept \cup {NoDept} : e = IF scope = "SYSTEM" THEN NoDept ELSE d
    OBVIOUS
  <2>2. H!Write(c, IF canned[c].scope = "none"
                     THEN [scope |-> scope, dept |-> e, owner |-> NoAgent]
                     ELSE [canned[c] EXCEPT !.dept = e])
    BY Zenon, <1>3, <2>1 DEF H!SaveSharedCanned
  <2>3. CASE canned[c].scope = "none"
    <3>1. PICK r : r = [scope |-> scope, dept |-> e, owner |-> NoAgent]
      BY Zenon
    <3>2. r \in CannedRows
      BY <3>1
    <3>3. H!Write(c, r)
      BY Zenon, <2>2, <2>3, <3>1
    <3>4. QED
      BY Zenon, <2>3, <3>2, <3>3
  <2>4. CASE canned[c].scope # "none"
    <3>1. PICK r : r = [canned[c] EXCEPT !.dept = e]
      BY Zenon
    <3>2. r \in CannedRows /\ r.scope = canned[c].scope /\ r.owner = canned[c].owner
      BY <3>1 DEF ShelfInv
    <3>3. H!Write(c, r)
      BY Zenon, <2>2, <2>4, <3>1
    <3>4. QED
      BY Zenon, <3>2, <3>3
  <2>5. QED
    BY Zenon, <2>3, <2>4
<1>4. QED
  BY Zenon, <1>1, <1>2, <1>3

\* An upload that has still to copy or to insert its row holds a file, and so
\* does every row.
THEOREM ShelfInductive == H!Spec => []ShelfInv
<1>1. H!Init => ShelfInv
  <2>1. SUFFICES ASSUME H!Init PROVE ShelfInv
    OBVIOUS
  <2>2. H!NoCanned \in [scope : {"none", "SYSTEM", "DEPARTMENT", "PERSONAL"},
                        dept : Dept \cup {NoDept}, owner : Editors \cup {NoAgent}]
    BY DEF H!NoCanned
  <2>3. QED
    BY <2>1, <2>2 DEF H!Init, ShelfInv
<1>2. ShelfInv /\ [H!Next]_H!vars => ShelfInv'
  <2>1. SUFFICES ASSUME ShelfInv, [H!Next]_H!vars PROVE ShelfInv'
    OBVIOUS
  <2>2. CASE UNCHANGED H!vars
    BY Zenon, <2>1, <2>2 DEF H!vars, ShelfInv
  <2>3. ASSUME NEW u \in Editors, NEW c \in Canned,
               \/ H!CreatePersonalCanned(u, c) \/ H!DeletePersonalCanned(u, c)
               \/ \E scope \in {"SYSTEM", "DEPARTMENT"}, d \in Dept \cup {NoDept} :
                    H!SaveSharedCanned(u, c, scope, d)
        PROVE  ShelfInv'
    BY Zenon, <2>1, <2>3, CannedWrites, CannedKept
  <2>4. ASSUME NEW f \in Files, H!AttachFile(f)
        PROVE  ShelfInv'
    <3>1. /\ TRUE \in BOOLEAN /\ FALSE \in BOOLEAN
          /\ \A to \in {"open", "copied", "done"} :
               to = "open" \/ to = "copied" \/ to = "done"
          /\ "open" \in {"open", "copied", "done"} /\ "copied" \in {"open", "copied", "done"}
          /\ "done" \in {"open", "copied", "done"} /\ "done" \notin {"open", "copied"}
      BY Zenon
    <3>2. QED
      BY Zenon, <2>1, <2>4, <3>1, UploadKept DEF H!AttachFile
  <2>5. ASSUME NEW f \in Files, H!AttachDies(f)
        PROVE  ShelfInv'
    <3>1. PICK file, r \in BOOLEAN : file = upload[f].file /\ r = upload[f].row
      BY <2>1 DEF ShelfInv
    <3>2. r => file
      BY Zenon, <2>1, <3>1 DEF ShelfInv
    <3>3. H!Upload(f, upload[f].step, file, r, "done")
      BY Zenon, <2>5, <3>1 DEF H!AttachDies
    <3>4. "done" \in {"open", "copied", "done"} /\ "done" \notin {"open", "copied"}
      BY Zenon
    <3>5. QED
      BY Zenon, <2>1, <3>2, <3>3, <3>4, UploadKept
  <2>6. QED
    BY Zenon, <2>1, <2>2, <2>3, <2>4, <2>5 DEF H!Next
<1>3. QED
  BY <1>1, <1>2, PTL DEF H!Spec

\* A row of an attachment always has its file, wherever the upload stopped.
THEOREM AttachmentHasFile == H!Spec => []H!RowHasFile
<1>1. ShelfInv => H!RowHasFile
  BY Zenon DEF ShelfInv, H!RowHasFile
<1>2. QED
  BY <1>1, ShelfInductive, PTL

\* No edit changes the scope or the author of a canned response.
THEOREM CannedScope == H!Spec => [][H!ScopeIsForGood]_H!vars
<1>1. ShelfInv /\ [H!Next]_H!vars => [H!ScopeIsForGood]_H!vars
  <2>1. SUFFICES ASSUME ShelfInv, [H!Next]_H!vars PROVE H!ScopeIsForGood
    BY Zenon
  <2>2. CASE canned' = canned
    BY Zenon, <2>2 DEF H!ScopeIsForGood
  <2>3. ASSUME NEW u \in Editors, NEW c \in Canned,
               \/ H!CreatePersonalCanned(u, c) \/ H!DeletePersonalCanned(u, c)
               \/ \E scope \in {"SYSTEM", "DEPARTMENT"}, d \in Dept \cup {NoDept} :
                    H!SaveSharedCanned(u, c, scope, d)
        PROVE  H!ScopeIsForGood
    <3>1. PICK r : /\ H!Write(c, r)
                   /\ \/ canned[c].scope = "none"
                      \/ canned[c].scope = "PERSONAL" /\ r = H!NoCanned
                      \/ r.scope = canned[c].scope /\ r.owner = canned[c].owner
      BY Zenon, <2>1, <2>3, CannedWrites
    <3>2. canned' = [canned EXCEPT ![c] = r]
      BY Zenon, <3>1 DEF H!Write
    <3>3. \A e \in Canned : canned'[e] = IF e = c THEN r ELSE canned[e]
      BY Zenon, <2>1, <3>2 DEF ShelfInv
    <3>4. QED
      BY Zenon, <3>1, <3>3 DEF H!ScopeIsForGood
  <2>4. CASE \E f \in Files : H!AttachFile(f) \/ H!AttachDies(f)
    <3>1. canned' = canned
      BY Zenon, <2>4 DEF H!AttachFile, H!AttachDies, H!Upload
    <3>2. QED
      BY <2>2, <3>1
  <2>5. CASE UNCHANGED H!vars
    BY Zenon, <2>2, <2>5 DEF H!vars
  <2>6. QED
    BY Zenon, <2>1, <2>3, <2>4, <2>5 DEF H!Next
<1>2. QED
  BY <1>1, ShelfInductive, PTL DEF H!Spec

-----------------------------------------------------------------------------
(* The parts of support, side by side.                                       *)

ofTickets == <<ticketNow, ticket, replied, warned, desk>>
ofChats == <<chatNow, agent, mode, chat, tickets, talk>>
ofArticles == <<article, index, public, editor>>
ofShelf == <<canned, upload>>
supportVars == <<part, ofTickets, ofChats, ofArticles, ofShelf>>

NoTickets ==
  /\ ticketNow = "-" /\ ticket = "-" /\ replied = "-" /\ warned = "-" /\ desk = "-"
NoChats ==
  /\ chatNow = "-" /\ agent = "-" /\ mode = "-" /\ chat = "-" /\ tickets = "-" /\ talk = "-"
NoArticles ==
  /\ article = "-" /\ index = "-" /\ public = "-" /\ editor = "-"
NoShelf ==
  /\ canned = "-" /\ upload = "-"
NoSupport == NoTickets /\ NoChats /\ NoArticles /\ NoShelf

SupportInit ==
  /\ part \in {"T", "L", "K", "H"}
  /\ IF part = "T" THEN T!Init ELSE NoTickets
  /\ IF part = "L" THEN L!Init ELSE NoChats
  /\ IF part = "K" THEN K!Init ELSE NoArticles
  /\ IF part = "H" THEN H!Init ELSE NoShelf

SupportNext ==
  \/ part = "T" /\ T!Next /\ UNCHANGED <<part, ofChats, ofArticles, ofShelf>>
  \/ part = "L" /\ L!Next /\ UNCHANGED <<part, ofTickets, ofArticles, ofShelf>>
  \/ part = "K" /\ K!Next /\ UNCHANGED <<part, ofTickets, ofChats, ofShelf>>
  \/ part = "H" /\ H!Next /\ UNCHANGED <<part, ofTickets, ofChats, ofArticles>>

SupportSpec == SupportInit /\ [][SupportNext]_supportVars

\* However stale the copies are that handlers write back, a stored row agrees
\* with itself: the stamps of a ticket with its status, the agent, the end and
\* the ticket of a chat with its status.
RowsAreWhole ==
  /\ part = "T" => T!StampsMatchStatus
  /\ part = "L" => L!RowsAreWhole

\* What a row says has happened did happen, whichever statement failed: a first
\* response was sent and a warning given once, an escalated chat has its ticket,
\* an indexed link was published, an attachment has its file.
ClaimsAreBacked ==
  /\ part = "T" => T!ResponseWasSent
  /\ part = "T" => T!WarnedOnce
  /\ part = "L" => L!EscalatedHasTicket
  /\ part = "K" => K!IndexWasPublished
  /\ part = "H" => H!RowHasFile

\* A status moves along the edges of its table only, although every handler
\* decides on a row it read earlier; and a canned response keeps its scope.
MovesAreEdges ==
  [][/\ part = "T" => T!MoveIsEdge
     /\ part = "K" => K!ArticleMoveIsEdge
     /\ part = "H" => H!ScopeIsForGood]_supportVars

\* The sweep never closes over a reply, a second resolution or a reopening.
SweepClosesOnlyOld ==
  [][part = "T" => T!SweepClosesOnlyOld]_supportVars

\* No agent is called as nobody, the tables are finite, the age is a number.
ASSUME SupportAssumption ==
  NoAgent \notin Agents /\ AutoClose \in Nat /\ FinitelyManyTickets /\ FinitelyManyChats

\* The part that runs takes its own steps; the part does not change.
LEMMA SupportParts ==
  SupportSpec => /\ part = "T" => T!Spec /\ [](part = "T")
                 /\ ~ (part = "T") => []~ (part = "T")
                 /\ part = "L" => L!Spec /\ [](part = "L")
                 /\ ~ (part = "L") => []~ (part = "L")
                 /\ part = "K" => K!Spec /\ [](part = "K")
                 /\ ~ (part = "K") => []~ (part = "K")
                 /\ part = "H" => H!Spec /\ [](part = "H")
                 /\ ~ (part = "H") => []~ (part = "H")
<1>1. SupportInit => /\ part = "T" => T!Init
                     /\ part = "L" => L!Init
                     /\ part = "K" => K!Init
                     /\ part = "H" => H!Init
  BY Zenon DEF SupportInit
<1>2. [SupportNext]_supportVars => /\ part = "T" => [T!Next]_(T!vars)
                                   /\ part = "L" => [L!Next]_(L!vars)
  BY DEF SupportNext, supportVars, ofTickets, ofChats, T!vars, L!vars
<1>3. [SupportNext]_supportVars => /\ part = "K" => [K!Next]_(K!vars)
                                   /\ part = "H" => [H!Next]_(H!vars)
  BY DEF SupportNext, supportVars, ofArticles, ofShelf, K!vars, H!vars
<1>4. [SupportNext]_supportVars => /\ part = "T" <=> (part = "T")'
                                   /\ part = "L" <=> (part = "L")'
                                   /\ part = "K" <=> (part = "K")'
                                   /\ part = "H" <=> (part = "H")'
  BY DEF SupportNext, supportVars
<1>5. QED
  BY <1>1, <1>2, <1>3, <1>4, PTL DEF SupportSpec, T!Spec, L!Spec, K!Spec, H!Spec

\* Tickets and chats agree with themselves, for every number of handlers that
\* write back the copies they hold.
THEOREM RowsWhole == SupportSpec => []RowsAreWhole
<1>1. T!Spec => [](T!StampsMatchStatus /\ T!ResponseWasSent /\ T!WarnedOnce)
  BY Zenon, SupportAssumption, TicketsAreWhole
<1>2. L!Spec => []L!RowsAreWhole
  BY Zenon, SupportAssumption, SessionsAreWhole
<1>3. QED
  BY <1>1, <1>2, SupportParts, PTL DEF RowsAreWhole

\* What a row of support says has happened did happen, however requests,
\* sweeps and failures interleave.
THEOREM ClaimsBacked == SupportSpec => []ClaimsAreBacked
<1>1. T!Spec => [](T!StampsMatchStatus /\ T!ResponseWasSent /\ T!WarnedOnce)
  BY Zenon, SupportAssumption, TicketsAreWhole
<1>2. L!Spec => []L!EscalatedHasTicket
  BY Zenon, SupportAssumption, EscalationHasTicket
<1>3. QED
  BY <1>1, <1>2, IndexedWasPublished, AttachmentHasFile, SupportParts, PTL DEF ClaimsAreBacked

\* A step of support is a step of the part that runs, or changes nothing.
LEMMA SupportMoves ==
  ASSUME [SupportNext]_supportVars, ~ UNCHANGED supportVars
  PROVE  /\ part = "T" => ~ UNCHANGED T!vars
         /\ part = "K" => ~ UNCHANGED K!vars
         /\ part = "H" => ~ UNCHANGED H!vars
<1>1. part = "T" /\ UNCHANGED T!vars => UNCHANGED supportVars
  BY DEF SupportNext, supportVars, ofTickets, T!vars
<1>2. part = "K" /\ UNCHANGED K!vars => UNCHANGED supportVars
  BY DEF SupportNext, supportVars, ofArticles, K!vars
<1>3. part = "H" /\ UNCHANGED H!vars => UNCHANGED supportVars
  BY DEF SupportNext, supportVars, ofShelf, H!vars
<1>4. QED
  BY Zenon, <1>1, <1>2, <1>3

\* No handler, however old its copy, takes a status off its table or changes a
\* scope.
THEOREM MovesKept == SupportSpec => MovesAreEdges
<1>1. T!Spec => [][T!MoveIsEdge /\ T!SweepClosesOnlyOld]_(T!vars)
  BY Zenon, SupportAssumption, TicketMoves
<1>2. /\ [SupportNext]_supportVars
      /\ part = "T" => [T!MoveIsEdge /\ T!SweepClosesOnlyOld]_(T!vars)
      /\ part = "K" => [K!ArticleMoveIsEdge]_(K!vars)
      /\ part = "H" => [H!ScopeIsForGood]_(H!vars)
      => [/\ part = "T" => T!MoveIsEdge
          /\ part = "K" => K!ArticleMoveIsEdge
          /\ part = "H" => H!ScopeIsForGood]_supportVars
  BY Zenon, SupportMoves
<1>3. QED
  BY <1>1, <1>2, ArticlesMoveAlongEdges, CannedScope, SupportParts, PTL
  DEF SupportSpec, MovesAreEdges

\* What the sweep closes was resolved long enough ago when it is written, for
\* every age and every number of handlers.
THEOREM SweepSpares == SupportSpec => SweepClosesOnlyOld
<1>1. T!Spec => [][T!MoveIsEdge /\ T!SweepClosesOnlyOld]_(T!vars)
  BY Zenon, SupportAssumption, TicketMoves
<1>2. /\ [SupportNext]_supportVars
      /\ part = "T" => [T!MoveIsEdge /\ T!SweepClosesOnlyOld]_(T!vars)
      => [part = "T" => T!SweepClosesOnlyOld]_supportVars
  BY Zenon, SupportMoves
<1>3. QED
  BY <1>1, <1>2, SupportParts, PTL DEF SupportSpec, SweepClosesOnlyOld
===============================================================================
