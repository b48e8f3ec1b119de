-------------------------------- MODULE Apps --------------------------------
(***************************************************************************)
(* A PaaS application (src/hosting/paas.go): its row, its releases, their  *)
(* source trees and the workloads the orchestrator runs for it.            *)
(*                                                                         *)
(* A handler reads the row, and every later statement writes the whole of  *)
(* its copy back; nothing locks the application while a handler is under   *)
(* way.  The orchestrator is external: Deploy starts a new workload and    *)
(* Remove ends one.  The clone into the release tree is external too.      *)
(***************************************************************************)
EXTENDS Naturals, Sequences, FiniteSets, SequencesExt, FiniteSetsExt

CONSTANTS
  Releases,     \* identifiers newID() can return, as numbers
  NoRelease,    \* release_id = ''
  Keep,         \* keepReleases
  Images,       \* whether a deploy names a prebuilt image
  Workers,      \* requests and the cleanup task, being executed at once
  MaxWorkloads, \* bound on the workloads ever started
  MaxNumber     \* bound on the release numbers

VARIABLES
  app,        \* the hosting_apps row
  release,    \* hosting_app_releases
  files,      \* numbers of the releases whose source tree is on disk
  workloads,  \* workloads of the application the orchestrator runs
  started,    \* workloads started so far; workload identifiers are 1..started
  worker,     \* the handler of a request: its copies and remaining statements
  deleting,   \* DeleteApp has begun
  lost,       \* a statement has failed
  overlap     \* two handlers have been under way at once

vars == <<app, release, files, workloads, started, worker, deleting, lost, overlap>>

NoApp == [state |-> "none", workload |-> 0, release |-> NoRelease]
NoRow == [state |-> "none", number |-> 0, image |-> FALSE]
Idle == [app |-> NoApp, rel |-> NoRelease, row |-> NoRow, new |-> 0, todo |-> <<>>]

Init ==
  /\ app = NoApp
  /\ release = [r \in Releases |-> NoRow]
  /\ files = {}
  /\ workloads = {}
  /\ started = 0
  /\ worker = [w \in Workers |-> Idle]
  /\ deleting = FALSE
  /\ lost = FALSE
  /\ overlap = FALSE

-----------------------------------------------------------------------------
(* What a handler reads, and what it then has to do.                        *)

GetApp == app.state # "none"

ListReleases == {r \in Releases : release[r].state # "none"}

Numbered(rs) == {release[r].number : r \in rs}

Do(op, r) == [op |-> op, rel |-> r]

Start(w, r, row, todo) ==
  /\ worker[w] = Idle
  /\ worker' = [worker EXCEPT ![w] = [app |-> app, rel |-> r, row |-> row,
                                              new |-> 0, todo |-> todo]]
  /\ overlap' = (overlap \/ \E v \in Workers : worker[v] # Idle)
  /\ UNCHANGED <<app, release, files, workloads, started, lost>>

\* Which identifier newID() returns makes no difference: take the least.
Unused(r) ==
  LET free == {q \in Releases : release[q].state = "none"
                                 /\ \A w \in Workers : worker[w].rel # q}
  IN r \in free /\ \A q \in free : r <= q

CreateApp(w) ==
  /\ ~ GetApp /\ ~ deleting
  /\ Start(w, NoRelease, NoRow, <<Do("CreateApp", NoRelease)>>)
  /\ UNCHANGED deleting

\* Settings only: the row is written back with the state it was read with.
UpdateApp(w) ==
  /\ GetApp
  /\ Start(w, NoRelease, NoRow, <<Do("UpdateApp", NoRelease)>>)
  /\ UNCHANGED deleting

\* Mutant: the release before stays deployed.
supersedeNone == <<>>

\* The release rows that were deployed when the list was read, one write each.
supersede ==
  LET deployed == SetToSeq({r \in ListReleases : release[r].state = "deployed"})
  IN [i \in 1..Len(deployed) |-> Do("superseded", deployed[i])]

\* Mutant: the previous workload is retired before the row names its successor.
takeOverLate == <<Do("deployed", NoRelease), Do("Remove", NoRelease), Do("live", NoRelease)>>

\* The row is written before the previous workload is removed.
takeOver == <<Do("deployed", NoRelease), Do("live", NoRelease), Do("Remove", NoRelease)>>

Deploy(w, r, image) ==
  /\ GetApp /\ app.state # "deploying"
  /\ Unused(r)
  /\ LET number == Max(Numbered(ListReleases) \cup {0}) + 1
         build == IF image THEN <<>>
                  ELSE <<Do("building", NoRelease), Do("GitClone", NoRelease)>>
     IN /\ number <= MaxNumber
        /\ Start(w, r, [state |-> "pending", number |-> number, image |-> image],
                 <<Do("CreateRelease", NoRelease), Do("deploying", NoRelease)>> \o build \o
                 <<Do("Deploy", NoRelease)>> \o supersede \o takeOver)
  /\ UNCHANGED deleting

Restorable == {"deployed", "superseded", "rolled_back"}

Rollback(w, r) ==
  /\ GetApp
  /\ r \in ListReleases /\ r # app.release
  /\ release[r].state \in Restorable
  /\ release[r].image \/ release[r].number \in files
  /\ LET current == IF app.release # NoRelease THEN <<Do("rolled_back", app.release)>> ELSE <<>>
     IN Start(w, r, release[r], <<Do("Deploy", NoRelease)>> \o current \o takeOver)
  /\ UNCHANGED deleting

runningApp == GetApp /\ app.workload # 0

StartApp(w) ==
  /\ runningApp
  /\ Start(w, NoRelease, NoRow, <<Do("Orchestrator", NoRelease), Do("running", NoRelease)>>)
  /\ UNCHANGED deleting

StopApp(w) ==
  /\ runningApp
  /\ Start(w, NoRelease, NoRow, <<Do("Orchestrator", NoRelease), Do("stopped", NoRelease)>>)
  /\ UNCHANGED deleting

ScaleApp(w) ==
  /\ runningApp
  /\ Start(w, NoRelease, NoRow, <<Do("Orchestrator", NoRelease), Do("UpdateApp", NoRelease)>>)
  /\ UNCHANGED deleting

\* Mutant: the newest releases are kept whichever of them is live.
PrunableByAge ==
  {r \in ListReleases :
     Cardinality({q \in ListReleases : release[q].number > release[r].number}) >= Keep}

\* Newest first; the live release and a deployed one are neither counted nor removed.
Prunable ==
  LET spare == {r \in ListReleases : r # app.release /\ release[r].state # "deployed"}
      newer(r) == {q \in spare : release[q].number > release[r].number}
  IN {r \in spare : Cardinality(newer(r)) >= Keep}

cleanupApp(w) ==
  LET old == SetToSortSeq(Prunable, LAMBDA a, b : release[a].number > release[b].number)
  IN /\ GetApp /\ old # <<>>
     /\ Start(w, NoRelease, NoRow,
              [i \in 1..(2 * Len(old)) |->
                 Do(IF i % 2 = 1 THEN "RemoveTree" ELSE "DeleteRelease", old[(i + 1) \div 2])])
     /\ UNCHANGED deleting

\* The releases are listed once the workload has been removed.
DeleteApp(w) ==
  /\ GetApp
  /\ deleting' = TRUE
  /\ Start(w, NoRelease, NoRow,
           <<Do("Remove", NoRelease), Do("ListReleases", NoRelease),
             Do("DeleteApp", NoRelease), Do("RemoveApp", NoRelease)>>)

-----------------------------------------------------------------------------
(* The statements.                                                          *)

\* A write of a row that is gone answers "not found"; Rollback reads the live
\* release again and passes over one that is gone.
Possible(h, s) ==
  CASE s.op \in {"UpdateApp", "deploying", "running", "stopped", "appFailed", "live", "DeleteApp"} -> GetApp
    [] s.op \in {"building", "deployed", "failed"} -> h.rel \in ListReleases
    [] s.op \in {"superseded", "DeleteRelease"} -> s.rel \in ListReleases
    [] s.op = "Deploy" -> started < MaxWorkloads
    [] OTHER -> TRUE

\* The copies of the rows, as the statement writes them.
AppCopy(h, s) ==
  CASE s.op \in {"deploying", "running", "stopped"} -> [h.app EXCEPT !.state = s.op]
    [] s.op = "CreateApp" -> [h.app EXCEPT !.state = "created"]
    [] s.op = "appFailed" -> [h.app EXCEPT !.state = "failed"]
    [] s.op = "live" -> [state |-> "running", workload |-> h.new, release |-> h.rel]
    [] OTHER -> h.app

RowCopy(h, s) ==
  IF s.op \in {"building", "deployed", "failed"} THEN [h.row EXCEPT !.state = s.op] ELSE h.row

AppRow(h, s) ==
  CASE s.op \in {"CreateApp", "UpdateApp", "deploying", "running", "stopped", "appFailed", "live"}
         -> AppCopy(h, s)
    [] s.op = "DeleteApp" -> NoApp
    [] OTHER -> app

ReleaseRows(h, s) ==
  CASE s.op \in {"CreateRelease", "building", "deployed", "failed"} ->
         [release EXCEPT ![h.rel] = RowCopy(h, s)]
    [] s.op \in {"superseded", "rolled_back"} /\ s.rel \in ListReleases ->
         [release EXCEPT ![s.rel].state = s.op]
    [] s.op = "DeleteRelease" -> [release EXCEPT ![s.rel] = NoRow]
    [] s.op = "DeleteApp" -> [r \in Releases |-> NoRow]
    [] OTHER -> release

Trees(h, s) ==
  CASE s.op = "GitClone" -> files \cup {h.row.number}
    [] s.op = "RemoveTree" -> files \ {release[s.rel].number}
    [] s.op = "RemoveApp" -> {}
    [] OTHER -> files

Rest(h, s) ==
  IF s.op = "ListReleases"
    THEN LET rs == SetToSeq(ListReleases)
         IN [i \in 1..Len(rs) |-> Do("DeleteRelease", rs[i])] \o Tail(h.todo)
    ELSE Tail(h.todo)

Finish(h) == IF h.todo = <<>> THEN Idle ELSE h

Statement(w) ==
  LET h == worker[w]
      s == Head(h.todo)
      spawns == s.op = "Deploy"
  IN /\ h # Idle /\ Possible(h, s)
     /\ app' = AppRow(h, s)
     /\ release' = ReleaseRows(h, s)
     /\ files' = Trees(h, s)
     /\ started' = IF spawns THEN started + 1 ELSE started
     /\ workloads' = CASE spawns -> workloads \cup {started + 1}
                       [] s.op = "Remove" -> workloads \ {h.app.workload}
                       [] OTHER -> workloads
     /\ worker' = [worker EXCEPT ![w] =
                     Finish([h EXCEPT !.app = IF s.op = "live" THEN @ ELSE AppCopy(h, s),
                                      !.row = RowCopy(h, s),
                                      !.new = IF spawns THEN started + 1 ELSE @,
                                      !.todo = Rest(h, s)])]
     /\ UNCHANGED <<deleting, lost, overlap>>

failRelease(h) ==
  [h EXCEPT !.todo = <<Do("failed", NoRelease), Do("appFailed", NoRelease)>>]

\* Only a failed clone, and a workload that does not start, are recorded; the
\* handler just returns when deployEnv cannot read the environment before it, the
\* old tree cannot be cleared, or any other statement fails.
StatementFails(w) ==
  LET h == worker[w]
  IN /\ h # Idle
     /\ \/ worker' = [worker EXCEPT ![w] = Idle]
        \/ /\ Head(h.todo).op \in {"GitClone", "Deploy"}
           /\ h.row.state \in {"pending", "building"}
           /\ worker' = [worker EXCEPT ![w] = failRelease(h)]
     /\ lost' = TRUE
     /\ UNCHANGED <<app, release, files, workloads, started, deleting, overlap>>

Next ==
  \E w \in Workers :
    \/ Statement(w) \/ StatementFails(w)
    \/ CreateApp(w) \/ UpdateApp(w) \/ StartApp(w) \/ StopApp(w) \/ ScaleApp(w)
    \/ cleanupApp(w) \/ DeleteApp(w)
    \/ \E r \in Releases :
         Rollback(w, r) \/ \E image \in Images : Deploy(w, r, image)

Spec == Init /\ [][Next]_vars

-----------------------------------------------------------------------------
(* Properties.                                                              *)

Quiet == \A w \in Workers : worker[w] = Idle

\* Until its deletion begins, the application always has the release it names,
\* with the source tree a restart needs, and the workload it names still runs,
\* whatever statement of whichever handler fails: the row names a release only
\* once it runs, the workload before it is removed after that, and neither
\* retention nor a later deploy takes away the tree of the live release.
LiveIsKept ==
  ~ overlap /\ ~ deleting =>
    /\ app.workload # 0 => app.workload \in workloads
    /\ app.release # NoRelease =>
         /\ app.release \in ListReleases
         /\ release[app.release].image \/ release[app.release].number \in files

\* When every statement succeeds and handlers do not overlap, each leaves behind
\* one deployed release and one workload, those of the row, and nothing deploying.
RulesKeptAlone ==
  ~ overlap /\ ~ lost /\ Quiet =>
    /\ workloads = {app.workload} \ {0}
    /\ {r \in Releases : release[r].state = "deployed"} = {app.release} \ {NoRelease}
    /\ app.state # "deploying"
    /\ \A q, r \in ListReleases : release[q].number = release[r].number => q = r

(* Statements of the source that TLC refutes; see the README.               *)

\* paas.go: "a deploy is already in progress for this app".
InProgressIsTrue == app.state = "deploying" /\ ~ overlap => ~ Quiet

\* paas.go: "cloned into a fresh release directory".
TreesAreOwn ==
  \A q, r \in ListReleases :
    release[q].number = release[r].number => q = r
=============================================================================
