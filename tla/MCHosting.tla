------------------------------ MODULE MCHosting ------------------------------
(***************************************************************************)
(* The registry of nodes and what a node hosts: the workloads of the       *)
(* orchestrator, the instances, accounts and backups of the database       *)
(* service, and the apps, sites, zones and mail of the hosting panel.      *)
(* They share no state, so they are explored one at a time: part names the *)
(* one that is explored.  The registry rests while another one is; the     *)
(* variables of the others are s1, s2, ...                                 *)
(***************************************************************************)
EXTENDS Naturals, FleetPart

CONSTANTS
  None   \* no mailbox, no server block

VARIABLES
  part,  \* the component that is explored
  s1, s2, s3, s4, s5, s6, s7, s8, s9, s10  \* the variables of one that is explored; those it lacks are "-"

W == INSTANCE Workloads WITH
  Backends <- {"docker", "incus", "libvirt"}, NoBackend <- "none",
  Class <- "tenant",
  Wants <- {{}, {"disk_limit"}, {"disk_attach", "memory_limit"}, {"volume_mount", "host_path"}},
  Snapshots <- {"s"}, Workers <- {"w"}, order <- s1, engine <- s2,
  record <- s3, rows <- s4, worker <- s5, overlap <- s6, lost <- s7

I == INSTANCE Instances WITH
  Instances <- {"i1", "i2"}, NoInstance <- "none", Ports <- {1, 2},
  Versions <- {1, 2}, InPlace <- TRUE, MaxInstances <- 2, MayFail <- TRUE,
  Workers <- {"w"}, row <- s1, container <- s2, volume <- s3, cred <- s4,
  worker <- s5, lost <- s6, overlap <- s7

E == INSTANCE Engines WITH
  Rows <- {"r1", "r2"}, NoRow <- "none", Grants <- {"rw"},
  IfNotExists <- TRUE, MaxSecret <- 2, Workers <- {"w1", "w2"},
  account <- s1, base <- s2, row <- s3, baseRow <- s4, secrets <- s5,
  worker <- s6, lost <- s7, overlap <- s8

U == INSTANCE Dumps WITH
  Dumps <- {"d1", "d2", "d3"}, Keep <- 1, Workers <- {"w1", "w2"},
  artifact <- s1, record <- s2, worker <- s3, lost <- s4, overlap <- s5

P == INSTANCE Apps WITH
  Releases <- 1..3, NoRelease <- 0, Keep <- 1, Images <- {FALSE},
  Workers <- {"w"}, MaxWorkloads <- 2, MaxNumber <- 3, app <- s1,
  release <- s2, files <- s3, workloads <- s4, started <- s5, worker <- s6,
  deleting <- s7, lost <- s8, overlap <- s9

S == INSTANCE Sites WITH
  Sites <- {"x", "y"}, Confs <- {1, 2}, Off <- None, Workers <- {"w"},
  claim <- s1, row <- s2, tree <- s3, file <- s4, live <- s5, worker <- s6,
  lost <- s7, overlap <- s8

Z == INSTANCE Zones WITH
  Values <- {1, 2}, Today <- 1, MaxSerial <- 4, Workers <- {"w"}, zone <- s1,
  records <- s2, file <- s3, include <- s4, worker <- s5, lost <- s6,
  overlap <- s7

M == INSTANCE Mail WITH
  Boxes <- {"b1", "b2"}, Passwords <- {1, 2}, Disabled <- None,
  Hosted <- TRUE, Workers <- {"w"}, domain <- s1, box <- s2, alias <- s3,
  home <- s4, key <- s5, dns <- s6, maps <- s7, worker <- s8, lost <- s9,
  overlap <- s10

hosted == <<s1, s2, s3, s4, s5, s6, s7, s8, s9, s10>>

MCInit ==
  /\ R!Init
  /\ \/ part = "R" /\ s1 = "-" /\ s2 = "-" /\ s3 = "-" /\ s4 = "-" /\ s5 = "-"
        /\ s6 = "-" /\ s7 = "-" /\ s8 = "-" /\ s9 = "-" /\ s10 = "-"
     \/ part = "W" /\ W!Init /\ s8 = "-" /\ s9 = "-" /\ s10 = "-"
     \/ part = "I" /\ I!Init /\ s8 = "-" /\ s9 = "-" /\ s10 = "-"
     \/ part = "E" /\ E!Init /\ s9 = "-" /\ s10 = "-"
     \/ part = "U" /\ U!Init /\ s6 = "-" /\ s7 = "-" /\ s8 = "-" /\ s9 = "-"
        /\ s10 = "-"
     \/ part = "P" /\ P!Init /\ s10 = "-"
     \/ part = "S" /\ S!Init /\ s9 = "-" /\ s10 = "-"
     \/ part = "Z" /\ Z!Init /\ s8 = "-" /\ s9 = "-" /\ s10 = "-"
     \/ part = "M" /\ M!Init

MCNext ==
  /\ UNCHANGED part
  /\ \/ part = "R" /\ R!Next /\ UNCHANGED hosted
     \/ /\ UNCHANGED fleetVars
        /\ \/ part = "W" /\ W!Next /\ UNCHANGED <<s8, s9, s10>>
           \/ part = "I" /\ I!Next /\ UNCHANGED <<s8, s9, s10>>
           \/ part = "E" /\ E!Next /\ UNCHANGED <<s9, s10>>
           \/ part = "U" /\ U!Next /\ UNCHANGED <<s6, s7, s8, s9, s10>>
           \/ part = "P" /\ P!Next /\ UNCHANGED <<s10>>
           \/ part = "S" /\ S!Next /\ UNCHANGED <<s9, s10>>
           \/ part = "Z" /\ Z!Next /\ UNCHANGED <<s8, s9, s10>>
           \/ part = "M" /\ M!Next

MCSpec == MCInit /\ [][MCNext]_<<part, fleetVars, hosted>>

-----------------------------------------------------------------------------
\* A row and what it stands for come and go together, whichever statement or
\* engine call fails: a recorded workload exists, a volume, container or port
\* belongs to an instance, a live credential opens the account it names, a
\* listed backup is stored, the live release is kept, a mailbox keeps its mail.
RowsHaveResources ==
  /\ part = "W" => W!RecordedExists
  /\ part = "I" => I!NothingOrphaned
  /\ part = "E" => E!RowsMatchEngine
  /\ part = "U" => U!ListedIsStored
  /\ part = "P" => P!LiveIsKept
  /\ part = "M" => M!DeliveredIsKept

\* Once handlers that did not overlap have finished, what the web server, the
\* name server and the mail server read is what the tables hold.
ServedIsStored ==
  /\ part = "S" => S!ServedIsStored
  /\ part = "Z" => Z!ServedIsStored
  /\ part = "M" => M!ServedIsStored

\* As long as no two handlers are under way at once, whichever of their steps
\* fails, the rules between rows hold: ports and quotas of instances, the one
\* live release of an app, the owned domain of a site.
RulesKeptAlone ==
  /\ part = "I" => I!RulesKeptAlone
  /\ part = "P" => P!RulesKeptAlone
  /\ part = "S" => S!RulesKeptAlone

\* A secondary sees every change: while handlers do not overlap and none has
\* failed, the records in the zone file change only under a higher serial.
SerialAdvances ==
  [][part = "Z" => Z!SerialAdvances]_<<part, hosted>>
==============================================================================
