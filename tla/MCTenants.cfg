CONSTANTS
  Workers = {w1, w2}
  MaxNow = 2
  Users = {"u1", "u2"}
  Founders = {"u1"}
  Orgs = {"o1"}
  OrgSlugs = {"s"}
  Invites = {"i1"}
  Nobody = "none"
  Grants = {"admin"}
  MaxMembers = 2
  MaxOrgs = 1
  Rows = {"d1", "d2"}
  DomainNames = {"n"}
  Eligible = {"n"}
  Owners = {"o"}
  RequireApproval = TRUE
  MaxDomains = 1
  MaxChecks = 1
  Sessions = {"x1", "x2"}
  Secrets = {"k1", "k2"}
  NoSecret = "none"
  MaxSessions = 1
  Threshold = 2
  SessionTTL = 0
  Deliveries = {"d1"}
  Events = {"backup", "sched"}
  SuppressedBy <- Suppression
  NoEvent = "none"
  Window = 1
  Backoff <- Delays
  Batch = 1
  AutoEnable = TRUE
  DegradeThreshold = 2
  FailThreshold = 3
  MaxFailures = 4
  Agents = {"a1"}
  NoAgent = "none"
  Editors = {"a1", "a2"}
  Admins = {"a1"}
  Tickets = {"t1"}
  AutoClose = 1
  Response = 1
  Resolution = 2
  Escalate = 80
  Chats = {"c1"}
  MaxChatNow = 3
  ModeTTL = 1
  AwayAfter = 1
  MaxChats = 1
  Capacity = 1
  Articles = {"k1", "k2"}
  Slugs = {"s1", "s2"}
  Dept = {"d1"}
  NoDept = ""
  Canned = {"r1"}
  Files = {"f1"}
SPECIFICATION Spec
INVARIANTS
  RowsAreWhole
  
  ClaimsAreProven
  RulesKeptAlone
  NoticesAccounted
PROPERTIES
  
  SweepClosesOnlyOld
SYMMETRY Interchangeable
CHECK_DEADLOCK FALSE
