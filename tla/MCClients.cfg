SPECIFICATION MCSpec
CONSTANTS
  Threads = {u1, u2, a1}
  Uploaders = {u1, u2}
  MaxRequests = 2
  MaxUploads = 1
  MaxRetries = 1
  MaxDelay = 1
  MaxCalls = 1
  Callers = {c1, c2}
  Retries = 1
  LongestWait = 1
  MostCalls = 2
  MaxRedirects = 2
  TopVersion = 2
  Lives = {2, 6, 12}
  EwsMargin = 10
  GraphMargin = 3
  FailurePause = 3
  Fallback = 7
  LongestSetup = 3
  Slowest = 1
  CodeWait = 11
  CodeLife = 4
  MostFailures = 3
  Mailboxes = {f1, f2}
  NoMailbox = NoMailbox
  JobRetries = 1
  MaxJobs = 4
  MaxLines = 1
  MaxTorn = 1
  Names = {"s1", "s2"}
  SieveTries = 1
  MaxGarbled = 1
  Documents = {"calendar", "contact", "message", "folders", "response", "envelope", "found",
               "changes", "attachments", "multistatus"}
  MonthDays <- MCMonthDays
  Years = 2
  Summer = {14, 15, 16, 17, 18, 19, 20, 21, 22, 23, 24, 25, 26, 27, 28, 29, 30, 31, 32, 33, 34, 35,
            36, 37, 38, 39, 40}
  Events <- MCEvents
  Contacts <- MCContacts
  Domains = {"d1", "d2"}
  FirstDomain = "d1"
  MaxAddresses = 4
  SeekFaults = 1
  Tasks <- MCTasks
  ObjectsLimit = 3
  SizeLimit = 4
  MaxCallRuns = 2
  CallFaults = 2
  Sites <- MCSites
  SiteFolders = 2
  LoginRetries = 1
  LoginFaults = 2
INVARIANT MCTypeOK
INVARIANT CapsRespected
INVARIANT NoLostWakeup
INVARIANT RequestsBounded
INVARIANT CredentialsHold
INVARIANT AnsweredAsMeant
INVARIANT ReadAsMeant
PROPERTY EverythingReturns
CHECK_DEADLOCK FALSE
