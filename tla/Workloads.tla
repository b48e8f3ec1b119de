------------------------------ MODULE Workloads ------------------------------
(***************************************************************************)
(* The orchestrator (src/orchestrator): the backends a node found, the     *)
(* handlers that drive them, and the ownership record kept beside them.    *)
(*                                                                         *)
(* One qualified name is modelled: the rows and the engine objects of two  *)
(* names never meet.  A handler reads (authorize, Select or resolve), then *)
(* calls the engine, then writes its record; the calls and the writes are  *)
(* separate steps, and the write is best effort.  The engines themselves   *)
(* are external: they keep one workload per name and answer, refuse, or    *)
(* act without their answer arriving.                                      *)
(***************************************************************************)
EXTENDS Naturals, Sequences, SequencesExt

CONSTANTS
  Backends,    \* the engines this host might have
  NoBackend,   \* no preference expressed
  Class,       \* the class of the workload: tenant or app_managed
  Wants,       \* what a create request asks for beyond its kind
  Snapshots,   \* snapshot names
  Workers      \* requests being executed at once

VARIABLES
  order,     \* Manager.order: the registered backends
  engine,    \* the workload each engine holds under the name
  record,    \* its row of orchestrator_workloads
  rows,      \* the live rows of orchestrator_snapshots
  worker,    \* what each request still has to do
  overlap,   \* some request began while another was under way
  lost       \* a removal the engine carried out is missing from the record

vars == <<order, engine, record, rows, worker, overlap, lost>>

Kinds(b) ==
  CASE b \in {"docker", "podman"} -> {"container"}
    [] b = "incus" -> {"container", "vm"}
    [] b = "libvirt" -> {"vm"}

-----------------------------------------------------------------------------
(* What the engines can do, and what they report.                           *)

dockerCapabilities ==
  {"cpu_limit", "memory_limit", "pids_limit", "port_mapping", "volume_mount", "digest_pin"}

podmanCapabilities ==
  {"cpu_limit", "memory_limit", "pids_limit", "port_mapping", "volume_mount", "digest_pin"}

incusCapabilities ==
  {"cpu_limit", "memory_limit", "disk_limit", "pids_limit", "port_mapping",
   "volume_mount", "disk_attach", "digest_pin", "snapshot"}

libvirtCapabilities == {"cpu_limit", "memory_limit", "disk_attach", "snapshot"}

Capabilities(b) ==
  CASE b = "docker" -> dockerCapabilities
    [] b = "podman" -> podmanCapabilities
    [] b = "incus" -> incusCapabilities
    [] b = "libvirt" -> libvirtCapabilities

dockerState(status) ==
  CASE status = "created" -> "created"
    [] status \in {"running", "restarting"} -> "running"
    [] status = "paused" -> "paused"
    [] status \in {"exited", "removing"} -> "stopped"
    [] status = "dead" -> "error"
    [] OTHER -> "unknown"

incusState(status) ==
  CASE status \in {"running", "starting", "stopping", "restarting"} -> "running"
    [] status = "stopped" -> "stopped"
    [] status = "frozen" -> "paused"
    [] status = "error" -> "error"
    [] status = "ready" -> "created"
    [] OTHER -> "unknown"

libvirtState(status) ==
  CASE status \in {"running", "idle"} -> "running"
    [] status \in {"paused", "pmsuspended"} -> "paused"
    [] status \in {"shut off", "in shutdown"} -> "stopped"
    [] status = "crashed" -> "error"
    [] OTHER -> "unknown"

\* The status an engine shows for a workload that does not run.
Halted(b) ==
  CASE b \in {"docker", "podman"} -> "exited" [] b = "incus" -> "stopped" [] b = "libvirt" -> "shut off"

\* What a request asks for is a set: the capabilities it needs, and host_network,
\* no_network, privileged, host_path, command, readonly_root or Linux capabilities.
Needs(wants) ==
  wants \cap {"cpu_limit", "memory_limit", "disk_limit", "pids_limit", "port_mapping",
              "volume_mount", "disk_attach", "digest_pin"}

checkResourceSupport(b, wants) ==
  wants \cap {"cpu_limit", "memory_limit", "disk_limit", "pids_limit"} \subseteq Capabilities(b)

checkSpecSupport(b, wants) ==
  /\ checkResourceSupport(b, wants)
  /\ Needs(wants) \subseteq Capabilities(b)

dockerCreate(b, kind, wants) == kind = "container" /\ checkSpecSupport(b, wants)

incusCreate(wants) ==
  /\ checkSpecSupport("incus", wants)
  /\ wants \cap {"command", "readonly_root", "host_network"} = {}

buildDomainXML(kind, wants) == kind = "vm" /\ {"disk_attach", "memory_limit"} \subseteq wants

libvirtCreate(kind, wants) ==
  /\ checkSpecSupport("libvirt", wants)
  /\ "command" \notin wants
  /\ buildDomainXML(kind, wants)

\* The request gets as far as the engine.
Accepted(b, kind, wants) ==
  CASE b \in {"docker", "podman"} -> dockerCreate(b, kind, wants)
    [] b = "incus" -> incusCreate(wants)
    [] b = "libvirt" -> libvirtCreate(kind, wants)

baseAddCapabilities ==
  {"CHOWN", "DAC_OVERRIDE", "FOWNER", "FSETID", "KILL", "NET_BIND_SERVICE", "SETGID", "SETUID"}

\* Neither class may be privileged or share the network of the host.
TenantProfile == [hostPaths |-> FALSE, add |-> baseAddCapabilities]

AppManagedProfile == [hostPaths |-> TRUE, add |-> baseAddCapabilities \cup {"SETFCAP", "SETPCAP"}]

ProfileFor == IF Class = "tenant" THEN TenantProfile ELSE AppManagedProfile

resolveNetwork(wants) ==
  /\ "host_network" \notin wants
  /\ "no_network" \in wants => "port_mapping" \notin wants

resolveCapabilities(wants) ==
  wants \cap {"CHOWN", "SETPCAP", "SYS_ADMIN"} \subseteq ProfileFor.add

\* A source is relative to the root of the tenant, or a path of the host.
resolveSource(wants) == "host_path" \in wants => ProfileFor.hostPaths

resolveMounts(kind, wants) == "volume_mount" \in wants => kind = "container" /\ resolveSource(wants)

resolveDisks(kind, wants) == "disk_attach" \in wants => kind = "vm" /\ resolveSource(wants)

resolveSpec(kind, wants) ==
  /\ "privileged" \notin wants
  /\ resolveNetwork(wants)
  /\ resolveCapabilities(wants)
  /\ resolveMounts(kind, wants)
  /\ resolveDisks(kind, wants)

-----------------------------------------------------------------------------
(* The manager.                                                             *)

Absent == [status |-> "absent", kind |-> "none", snaps |-> {}]
NoRecord == [life |-> "none", backend |-> NoBackend, kind |-> "none", state |-> "unknown"]
Idle == [todo |-> <<>>, on |-> NoBackend, kind |-> "none", snap |-> "none"]

Init ==
  /\ order = <<>>
  /\ engine = [b \in Backends |-> Absent]
  /\ record = NoRecord
  /\ rows = {}
  /\ worker = [w \in Workers |-> Idle]
  /\ overlap = FALSE
  /\ lost = FALSE

Registered(b) == b \in Range(order)

Register(registered, b) == IF b \in Range(registered) THEN registered ELSE Append(registered, b)

candidates == SelectSeq(<<"docker", "podman", "incus", "libvirt">>, LAMBDA b : b \in Backends)

\* At startup the engines that answered their probe are registered, in the
\* fixed order.
Discover(answered) ==
  /\ order = <<>>
  /\ order' = FoldLeft(Register, order, SelectSeq(candidates, LAMBDA b : b \in answered))
  /\ UNCHANGED <<engine, record, rows, worker, overlap, lost>>

preferenceOrder(kind) ==
  IF kind = "vm" THEN <<"libvirt", "incus">> ELSE <<"docker", "podman", "incus">>

supportsKind(b, kind) == kind \in Kinds(b)

FirstOf(s, default) == IF s = <<>> THEN default ELSE Head(s)

Select(kind, preferred) ==
  IF preferred # NoBackend
    THEN IF Registered(preferred) /\ supportsKind(preferred, kind) THEN preferred ELSE NoBackend
    ELSE FirstOf(SelectSeq(preferenceOrder(kind), LAMBDA b : Registered(b) /\ supportsKind(b, kind)),
                 NoBackend)

Inspect(b) == engine[b].status # "absent"

\* Without a preference every registered backend is asked in turn.
resolve(preferred) ==
  IF preferred # NoBackend
    THEN IF Registered(preferred) THEN preferred ELSE NoBackend
    ELSE FirstOf(SelectSeq(order, LAMBDA b : Inspect(b)), NoBackend)

-----------------------------------------------------------------------------
(* The handlers, up to the first call.                                      *)

Do(b, todo) == [Idle EXCEPT !.on = b, !.todo = todo]

Start(w, job) ==
  /\ worker[w] = Idle
  /\ job.on # NoBackend
  /\ worker' = [worker EXCEPT ![w] = job]
  /\ overlap' = (overlap \/ \E v \in Workers : worker[v] # Idle)
  /\ UNCHANGED <<order, engine, record, rows, lost>>

\* Mutant: the record is written before the engine has the workload.
CreateRecordedFirst(w, kind, wants, preferred) ==
  LET b == Select(kind, preferred)
  IN /\ b # NoBackend /\ resolveSpec(kind, wants) /\ Accepted(b, kind, wants)
     /\ Start(w, [Do(b, <<"SaveWorkload", "Create">>) EXCEPT !.kind = kind])

Create(w, kind, wants, preferred) ==
  LET b == Select(kind, preferred)
  IN /\ b # NoBackend /\ resolveSpec(kind, wants) /\ Accepted(b, kind, wants)
     /\ Start(w, [Do(b, <<"Create", "SaveWorkload">>) EXCEPT !.kind = kind])

StartWorkload(w, preferred) == Start(w, Do(resolve(preferred), <<"Start">>))

Stop(w, preferred) == Start(w, Do(resolve(preferred), <<"Stop">>))

Restart(w, preferred) == Start(w, Do(resolve(preferred), <<"Restart">>))

\* Mutant: the record of a workload the engine removed stays.
RemoveKept(w, preferred) == Start(w, Do(resolve(preferred), <<"Remove">>))

RemoveWorkload(w, preferred) ==
  Start(w, Do(resolve(preferred), <<"Remove", "MarkWorkloadRemoved">>))

Snapshot(w, preferred, s) ==
  LET b == resolve(preferred)
  IN /\ b # NoBackend /\ "snapshot" \in Capabilities(b)
     /\ Start(w, [Do(b, <<"Snapshot", "SaveSnapshot">>) EXCEPT !.snap = s])

Restore(w, preferred, s) ==
  LET b == resolve(preferred)
  IN /\ b # NoBackend /\ "snapshot" \in Capabilities(b)
     /\ Start(w, [Do(b, <<"Restore">>) EXCEPT !.snap = s])

-----------------------------------------------------------------------------
(* The engines: what each call leaves, when the engine does not refuse it.  *)

Next1(w) == [worker EXCEPT ![w] = IF Len(@.todo) = 1 THEN Idle ELSE [@ EXCEPT !.todo = Tail(@)]]

Possible(call, e, job) ==
  CASE call = "Create" -> e = Absent
    [] call = "Start" -> e # Absent /\ e.status # "running"
    [] call \in {"Stop", "Restart"} -> e.status = "running"
    [] call = "Remove" -> e # Absent
    [] call = "Snapshot" -> e # Absent /\ job.snap \notin e.snaps
    [] call = "Restore" -> job.snap \in e.snaps

Effect(call, e, job) ==
  CASE call = "Create" ->
         [status |-> IF "container" \in Kinds(job.on) /\ job.on # "incus" THEN "created"
                     ELSE Halted(job.on),
          kind |-> job.kind, snaps |-> {}]
    [] call \in {"Start", "Restart"} -> [e EXCEPT !.status = "running"]
    [] call \in {"Stop", "Restore"} -> [e EXCEPT !.status = Halted(job.on)]
    [] call = "Remove" -> Absent
    [] call = "Snapshot" -> [e EXCEPT !.snaps = @ \cup {job.snap}]

Calls == {"Create", "Start", "Stop", "Restart", "Remove", "Snapshot", "Restore"}

\* The engine carries the call out; its answer arrives, or the deadline of the
\* call passes first and the handler gives up.
EngineCall(w) ==
  LET job == worker[w]  call == Head(job.todo)
  IN /\ job # Idle /\ call \in Calls
     /\ Possible(call, engine[job.on], job)
     /\ engine' = [engine EXCEPT ![job.on] = Effect(call, @, job)]
     /\ \/ worker' = Next1(w) /\ UNCHANGED lost
        \/ worker' = [worker EXCEPT ![w] = Idle] /\ lost' = (lost \/ call = "Remove")
     /\ UNCHANGED <<order, record, rows, overlap>>

\* The engine refuses, or cannot be reached: the handler returns the error.
EngineRefuses(w) ==
  /\ worker[w] # Idle /\ Head(worker[w].todo) \in Calls
  /\ worker' = [worker EXCEPT ![w] = Idle]
  /\ UNCHANGED <<order, engine, record, rows, overlap, lost>>

-----------------------------------------------------------------------------
(* The store.                                                               *)

\* What a new workload is recorded as: the containers and incus report it
\* created, libvirt is inspected and reports its domain.
FirstState(b) == IF b = "libvirt" THEN libvirtState(Halted(b)) ELSE "created"

SaveWorkload(w) ==
  /\ worker[w] # Idle /\ Head(worker[w].todo) = "SaveWorkload"
  /\ record' = [life |-> "live", backend |-> worker[w].on, kind |-> worker[w].kind,
                state |-> FirstState(worker[w].on)]
  /\ worker' = Next1(w)
  /\ lost' = FALSE
  /\ UNCHANGED <<order, engine, rows, overlap>>

MarkWorkloadRemoved(w) ==
  /\ worker[w] # Idle /\ Head(worker[w].todo) = "MarkWorkloadRemoved"
  /\ record' = IF record.life = "live" THEN [record EXCEPT !.life = "removed", !.state = "stopped"]
               ELSE record
  /\ worker' = Next1(w)
  /\ UNCHANGED <<order, engine, rows, overlap, lost>>

SaveSnapshot(w) ==
  /\ worker[w] # Idle /\ Head(worker[w].todo) = "SaveSnapshot"
  /\ rows' = rows \cup {<<worker[w].on, worker[w].snap>>}
  /\ worker' = Next1(w)
  /\ UNCHANGED <<order, engine, record, overlap, lost>>

\* A failed write is logged or dropped; the request still succeeds.
WriteFails(w) ==
  /\ worker[w] # Idle /\ Head(worker[w].todo) \notin Calls
  /\ worker' = [worker EXCEPT ![w] = Idle]
  /\ lost' = (lost \/ Head(worker[w].todo) = "MarkWorkloadRemoved")
  /\ UNCHANGED <<order, engine, record, rows, overlap>>

Next ==
  \/ \E answered \in SUBSET Backends : Discover(answered)
  \/ \E w \in Workers :
       \/ EngineCall(w) \/ EngineRefuses(w)
       \/ SaveWorkload(w) \/ MarkWorkloadRemoved(w) \/ SaveSnapshot(w) \/ WriteFails(w)
       \/ \E preferred \in Backends \cup {NoBackend} :
            \/ StartWorkload(w, preferred) \/ Stop(w, preferred)
            \/ Restart(w, preferred) \/ RemoveWorkload(w, preferred)
            \/ \E s \in Snapshots : Snapshot(w, preferred, s) \/ Restore(w, preferred, s)
            \/ \E kind \in {"container", "vm"}, wants \in Wants : Create(w, kind, wants, preferred)

Spec == Init /\ [][Next]_vars

-----------------------------------------------------------------------------
(* Properties.                                                              *)

\* A live ownership record names a registered engine that holds the workload,
\* with the kind the record gives, as long as no two requests overlapped and no
\* removal was lost on the way to the record: whatever the preferences of the
\* requests were, the record follows the last creation and any removal.
RecordedExists ==
  record.life = "live" /\ ~ overlap /\ ~ lost /\ (\A w \in Workers : worker[w] = Idle)
    => /\ Registered(record.backend)
       /\ engine[record.backend].kind = record.kind

\* Every workload an engine holds was admitted for that engine: it is of a kind
\* the engine manages, on a registered backend, and only an engine that takes
\* snapshots holds any.
HeldIsAdmitted ==
  \A b \in Backends :
    engine[b] # Absent =>
      /\ Registered(b) /\ engine[b].kind \in Kinds(b)
      /\ engine[b].snaps # {} => "snapshot" \in Capabilities(b)

(* Statements of the source that TLC refutes; see the README.               *)

\* store.go: RemovedAt "is when the workload was destroyed; zero while it lives".
RemovedIsGone ==
  record.life = "removed" /\ ~ overlap /\ ~ lost => \A b \in Backends : engine[b] = Absent

\* store.go: RemovedAt "is when it was discarded; zero while it exists".
IndexedExists ==
  ~ overlap /\ ~ lost => \A r \in rows : r[2] \in engine[r[1]].snaps

\* store.go: "State is the last observed run state".
StateIsCurrent ==
  record.life = "live" /\ ~ overlap /\ ~ lost /\ (\A w \in Workers : worker[w] = Idle)
    => record.state = (CASE record.backend \in {"docker", "podman"} -> dockerState(engine[record.backend].status)
                         [] record.backend = "incus" -> incusState(engine[record.backend].status)
                         [] OTHER -> libvirtState(engine[record.backend].status))
==============================================================================
