---------------------------- MODULE NotifyChannel ----------------------------
(***************************************************************************)
(* The state machine of one outbound channel (src/notify/state.go,         *)
(* channel.go): whether it may send, under tests and sends that take time  *)
(* while an administrator moves it.  It lives in the memory of the process.*)
(***************************************************************************)
EXTENDS Naturals

CONSTANTS
  Workers,         \* tests and deliveries under way
  AutoEnable,      \* a passing test activates the channel
  DegradeThreshold,
  FailThreshold,
  MaxFailures      \* the count of failures stops here

VARIABLES
  channel,   \* stateMachine: state, failures in a row, outcome of the last test
  job,       \* what a worker waits for
  passed     \* some test of the channel passed (history)

vars == <<channel, job, passed>>

newStateMachine == [state |-> "DISABLED", failures |-> 0, tested |-> FALSE]

Init ==
  /\ channel = newStateMachine
  /\ job = [w \in Workers |-> "idle"]
  /\ passed = FALSE

-----------------------------------------------------------------------------
(* The state machine of the channel.                                        *)

transitions ==
  [DISABLED    |-> {"CONFIGURING", "MAINTENANCE"},
   CONFIGURING |-> {"TESTING", "DISABLED", "MAINTENANCE"},
   TESTING     |-> {"ACTIVE", "DISABLED", "CONFIGURING", "MAINTENANCE"},
   ACTIVE      |-> {"DEGRADED", "FAILED", "CONFIGURING", "DISABLED", "MAINTENANCE"},
   DEGRADED    |-> {"ACTIVE", "FAILED", "CONFIGURING", "DISABLED", "MAINTENANCE"},
   FAILED      |-> {"CONFIGURING", "DISABLED", "MAINTENANCE"},
   MAINTENANCE |-> {"ACTIVE", "DISABLED", "CONFIGURING"}]

CanTransition(from, to) == from = to \/ to \in transitions[from]

\* Mutant: the streak of failures survives a return to service.
toLockedKeepsStreak(m, next) ==
  IF CanTransition(m.state, next) THEN [m EXCEPT !.state = next] ELSE m

toLocked(m, next) ==
  IF CanTransition(m.state, next)
    THEN [m EXCEPT !.state = next, !.failures = IF next = "ACTIVE" THEN 0 ELSE @]
    ELSE m

recordTest(m, ok) ==
  LET told == [m EXCEPT !.tested = ok]
  IN IF ~ ok THEN toLocked(told, "DISABLED")
     ELSE IF AutoEnable THEN toLocked(told, "ACTIVE") ELSE told

recordSend(m, ok) ==
  LET healed == [m EXCEPT !.failures = 0]
      hurt == [m EXCEPT !.failures = IF @ < MaxFailures THEN @ + 1 ELSE @]
  IN IF ok THEN (IF m.state = "DEGRADED" THEN toLocked(healed, "ACTIVE") ELSE healed)
     ELSE IF hurt.failures >= FailThreshold THEN toLocked(hurt, "FAILED")
     ELSE IF hurt.failures >= DegradeThreshold THEN toLocked(hurt, "DEGRADED")
     ELSE hurt

\* Configure, Disable and Maintenance of the registry.
transition(next) ==
  /\ next \in {"CONFIGURING", "DISABLED", "MAINTENANCE"}
  /\ CanTransition(channel.state, next)
  /\ channel' = toLocked(channel, next)
  /\ UNCHANGED <<job, passed>>

\* Activate looks at the last test first, and then asks for the transition.
Activate(w) ==
  /\ job[w] = "idle"
  /\ channel.tested
  /\ job' = [job EXCEPT ![w] = "activating"]
  /\ UNCHANGED <<channel, passed>>

Activates(w) ==
  /\ job[w] = "activating"
  /\ channel' = toLocked(channel, "ACTIVE")
  /\ job' = [job EXCEPT ![w] = "idle"]
  /\ UNCHANGED passed

\* Test, up to the live check, or to the end when the settings are incomplete.
Test(w) ==
  LET walked == IF channel.state = "DISABLED" THEN toLocked(channel, "CONFIGURING")
                ELSE channel
  IN /\ job[w] = "idle"
     /\ \/ channel' = recordTest(channel, FALSE) /\ UNCHANGED job
        \/ /\ CanTransition(walked.state, "TESTING")
           /\ channel' = toLocked(walked, "TESTING")
           /\ job' = [job EXCEPT ![w] = "testing"]
     /\ UNCHANGED passed

TestAnswers(w, ok) ==
  /\ job[w] = "testing"
  /\ channel' = recordTest(channel, ok)
  /\ job' = [job EXCEPT ![w] = "idle"]
  /\ passed' = (passed \/ ok)

\* Deliver: the state is looked at before the message goes out.
Deliver(w) ==
  /\ job[w] = "idle"
  /\ channel.state \in {"ACTIVE", "DEGRADED"}
  /\ job' = [job EXCEPT ![w] = "sending"]
  /\ UNCHANGED <<channel, passed>>

SendReturns(w, ok) ==
  /\ job[w] = "sending"
  /\ channel' = recordSend(channel, ok)
  /\ job' = [job EXCEPT ![w] = "idle"]
  /\ UNCHANGED passed

Restart ==
  /\ channel' = newStateMachine
  /\ job' = [w \in Workers |-> "idle"]
  /\ passed' = FALSE

Next ==
  \/ \E next \in {"CONFIGURING", "DISABLED", "MAINTENANCE"} : transition(next)
  \/ Restart
  \/ \E w \in Workers :
       \/ Test(w) \/ Activate(w) \/ Activates(w) \/ Deliver(w)
       \/ \E ok \in BOOLEAN : TestAnswers(w, ok) \/ SendReturns(w, ok)

Spec == Init /\ [][Next]_vars

-----------------------------------------------------------------------------
(* Properties.                                                              *)

\* A channel in service has passed a test, and its state tells the length of
\* its streak of failures, whatever sends and tests were under way while an
\* administrator moved it.
ServiceMatchesStreak ==
  /\ channel.state \in {"ACTIVE", "DEGRADED"} => passed
  /\ channel.state = "ACTIVE" => channel.failures < DegradeThreshold
  /\ channel.state = "DEGRADED" => channel.failures \in DegradeThreshold .. FailThreshold - 1
==============================================================================
