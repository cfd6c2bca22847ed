\* One subscription, two events and two of everything that races.  Two
\* administrators, of whom one may be demoted, banned or cut off.  One of the two
\* mails cannot be read, and a push is sent twice when no answer comes.  Limits
\* below the number of requests that two at a time make in a window.  Two users
\* of one address, a token and the one it is exchanged for.  One go-live; what
\* its checks read changes twice while it is under way.  Two requests that seal
\* anew what is sealed already, with two keys.  A post that is older than the
\* clock is too old.
CONSTANTS
  Subs = {"s1"}
  NoSub = "nosub"
  EventWorkers = {"w1", "w2"}
  MaxEvents = 2
  MaxRows = 2
  MaxCalls = 2
  Admins = {"a1", "a2"}
  StepUp = {"a1", "a2"}
  Instances = {"i1"}
  Owner <- MCOwner
  AdminChanges = 1
  Mails = {"m1", "m2"}
  MailWorkers = {"w1", "w2"}
  Malformed = {"m2"}
  Tries = 2
  Calls = {"q1", "q2"}
  Free = 1
  Pro = 2
  Window = 2
  Grace = 1
  Stall = 1
  MaxWindows = 2
  Users = {"u1", "u2"}
  Emails = {"e1"}
  Tokens = {"t1", "t2"}
  Callers = {"c1", "c2"}
  Life = 2
  AccessLife = 1
  MaxAuthTime = 2
  GoLives = {"g1"}
  GateChanges = 2
  AccountIds = {"b1"}
  Labels = {"l1"}
  Edits = {"e1", "e2"}
  Keys = {1, 2}
  MaxSealed = 3
  Handlers = {"h1", "h2"}
  Configs <- MCConfigs
  Skew = 0
  MaxPosts = 2
  MaxCopies = 1
  MaxReportTime = 1
SPECIFICATION MCSpec
INVARIANTS
  TypeOK
  EachEventOnce
  LastEventDecides
  TwiceOnlyIfUnclear
  LimitIsKept
  GivenBackIsRefused
  EveryCheckHeld
PROPERTIES
  TwoMustAsk
  CommitsKeepOthersWrites
CHECK_DEADLOCK FALSE
