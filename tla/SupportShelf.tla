---------------------------- MODULE SupportShelf ----------------------------
(***************************************************************************)
(* Canned responses and their three scopes (src/support/canned.go,         *)
(* admin.go), and the files attached to tickets (attachments.go).          *)
(***************************************************************************)
CONSTANTS
  Agents,     \* enabled agents in support mode
  Admins,     \* those of them who are administrators
  NoAgent,    \* agent_user_id = 0
  Dept,       \* departments of agents, and of department responses
  NoDept,     \* department_id = ''
  Canned,     \* identifiers of canned responses
  Files       \* stored names of uploads

VARIABLES
  canned,    \* support_canned_responses
  upload     \* an upload: its file, its row and where its handler is

vars == <<canned, upload>>

NoCanned == [scope |-> "none", dept |-> NoDept, owner |-> NoAgent]

Init ==
  /\ canned = [c \in Canned |-> NoCanned]
  /\ upload = [f \in Files |-> [file |-> FALSE, row |-> FALSE, step |-> "none"]]

-----------------------------------------------------------------------------
Write(c, r) ==
  /\ canned' = [canned EXCEPT ![c] = r]
  /\ UNCHANGED upload

CreatePersonalCanned(u, c) ==
  /\ canned[c].scope = "none"
  /\ Write(c, [scope |-> "PERSONAL", dept |-> NoDept, owner |-> u])

\* The delete names the scope and the author.
DeletePersonalCanned(u, c) ==
  /\ canned[c].scope = "PERSONAL" /\ canned[c].owner = u
  /\ Write(c, NoCanned)

\* Mutant: an existing response takes the scope it is saved with.
SaveSharedCannedScope(u, c, scope, d) ==
  /\ u \in Admins
  /\ scope \in {"SYSTEM", "DEPARTMENT"} /\ (scope = "DEPARTMENT" => d # NoDept)
  /\ Write(c, [scope |-> scope, dept |-> IF scope = "SYSTEM" THEN NoDept ELSE d,
               owner |-> NoAgent])

\* UpdateCanned writes the department and the texts, not the scope.
SaveSharedCanned(u, c, scope, d) ==
  LET dept == IF scope = "SYSTEM" THEN NoDept ELSE d
  IN /\ u \in Admins
     /\ scope \in {"SYSTEM", "DEPARTMENT"} /\ (scope = "DEPARTMENT" => d # NoDept)
     /\ canned[c].scope # "PERSONAL"
     /\ Write(c, IF canned[c].scope = "none"
                   THEN [scope |-> scope, dept |-> dept, owner |-> NoAgent]
                   ELSE [canned[c] EXCEPT !.dept = dept])

ListCannedFor(u, d) ==
  {c \in Canned : \/ canned[c].scope = "SYSTEM"
                  \/ canned[c].scope = "DEPARTMENT" /\ canned[c].dept = d /\ d # NoDept
                  \/ canned[c].scope = "PERSONAL" /\ canned[c].owner = u}

-----------------------------------------------------------------------------
Upload(f, from, file, row, to) ==
  /\ upload[f].step = from
  /\ upload' = [upload EXCEPT ![f] = [file |-> file, row |-> row, step |-> to]]
  /\ UNCHANGED canned

\* Mutant: the row comes first.
AttachFileRowFirst(f) ==
  \/ Upload(f, "none", FALSE, TRUE, "copied")
  \/ Upload(f, "copied", TRUE, TRUE, "done")

\* Opened exclusively and copied; too large or failing, it is removed.  Then
\* the row, whose failure removes the file.
AttachFile(f) ==
  \/ Upload(f, "none", TRUE, FALSE, "open")
  \/ Upload(f, "open", TRUE, FALSE, "copied")
  \/ Upload(f, "open", FALSE, FALSE, "done")
  \/ Upload(f, "copied", TRUE, TRUE, "done")
  \/ Upload(f, "copied", FALSE, FALSE, "done")

\* The process ends, or the removal fails.
AttachDies(f) ==
  /\ upload[f].step \in {"open", "copied"}
  /\ Upload(f, upload[f].step, upload[f].file, upload[f].row, "done")

Next ==
  \/ \E u \in Agents, c \in Canned :
       \/ CreatePersonalCanned(u, c) \/ DeletePersonalCanned(u, c)
       \/ \E scope \in {"SYSTEM", "DEPARTMENT"}, d \in Dept \cup {NoDept} :
            SaveSharedCanned(u, c, scope, d)
  \/ \E f \in Files : AttachFile(f) \/ AttachDies(f)

Spec == Init /\ [][Next]_vars

-----------------------------------------------------------------------------
(* Properties.                                                             *)

\* A canned response keeps its scope and its author: no edit turns a personal
\* response into a shared one, or hands one to a colleague.
ScopeIsForGood ==
  \A c \in Canned : canned[c].scope # "none"
    => \/ canned'[c].scope = canned[c].scope /\ canned'[c].owner = canned[c].owner
       \/ canned[c].scope = "PERSONAL" /\ canned'[c] = NoCanned

\* A row of support_ticket_attachments always has its file.
RowHasFile == \A f \in Files : upload[f].row => upload[f].file

(* A statement of the source that TLC refutes; see the README.             *)

\* models.go: "An agent sees SYSTEM responses, the DEPARTMENT responses of their
\* own department, and their own PERSONAL responses": each is visible to someone.
EveryResponseVisible ==
  \A c \in Canned : canned[c].scope # "none"
    => \E u \in Agents, d \in Dept : c \in ListCannedFor(u, d)
=============================================================================
