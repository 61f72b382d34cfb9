SPECIFICATION MCSpec
CONSTANTS
  Drivers = {d1, d2}
  Flows = {f1, f2}
  Window = 1
  Lifetimes = {1, 2}
  MaxEpoch = 2
  NoDriver = NoDriver
  Upgrades = {u1, u2}
  LastSha = 2
  NoUpgrade = NoUpgrade
  Clients = {w1, w2}
  Items = {i1, i2}
  Projects = {p1}
  Texts = {t1, t2}
  MaxItems = 1
  MaxAudit = 3
  Attempts = {q1, q2}
  Actors = {a1, a2}
  Admins = {a1}
  Selections = {s1}
  MaxCommit = 2
  MaxRepos = 2
  Legacy = {TRUE, FALSE}
  Nobody = Nobody
  Leader = l0
  Children = {l1, l2, l3}
  Watched = {m1, m2}
  Refreshes = {c1, c2}
  Workers = 1
  NoRefresh = NoRefresh
  Reconcilers = {r1, r2}
  LastCommit = 3
  Disabling = {2}
  LastRevision = 4
  TakenByOther = {TRUE, FALSE}
  Calls = {h1, h2, h3}
  Rulesets = {s1, s2}
  LastGeneration = 2
  NoCaller = NoCaller
INVARIANTS
  MCTypeOK
  AnswerBehindEveryGrant
  LatchIsServed
  NoLostUpdate
  CreationSound
  NothingOutlivesItsCall
  ReaderQuarantined
  IndexedIsCurrent
  DurableBeforeMemory
  CompanionSound
PROPERTIES
  CallersAnswered
CHECK_DEADLOCK FALSE
