SPECIFICATION OutsideSpec
CONSTANTS
  a1 = a1
  a2 = a2
  o1 = o1
  o2 = o2
  e1 = e1
  op1 = op1
  op2 = op2
  Agents = {a1, a2}
  Opportunities = {o1, o2}
  Recipients = {e1}
  Cooldown = 1
  Budget = 2
  Price = 1
  Levels = {"sender"}
  LastDay = 1
  MaxLetters = 3
  MaxChecks = 3
  Ids = {"one"}
  Stocks <- MCStocks
  PageSize = 2
  MaxPages = 2
  MaxSales = 1
  MaxCommands = 2
  Fields = {"title", "description", "seo title", "draft"}
  Hashed = {"title", "description", "seo title"}
  Fallback <- MCFallback
  Together = {"description", "seo title"}
  Updates = {"description"}
  Operators = {op1, op2}
  Batches = 2
  MaxPageEdits = 2
  Targets <- MCTargets
  IndexExports <- MCIndexExports
  Samples <- MCSamples
  Crawlers <- MCCrawlers
  Repeats = 1
  LogRows <- MCLogRows
  AnswerTexts <- MCAnswerTexts
  MaxRuns = 2
  MaxCut = 1
  MinSeverity = "medium"
  JourneyPlans <- MCJourneyPlans
  Governed = {"local_storage"}
  JourneyRequests = {"q1", "q2"}
  Bodies = TRUE
  MaxEvents = 3
  MaxObserved = 3
  MaxPushes = 2
  MaxTampers = 2
  Origins <- MCOrigins
  Foreign = {"foreign"}
  Malformed = {"malformed"}
  MaxAttempts = 2
  MaxHops = 1
  MaxBodyBytes = 1
  MaxEntries = 3
  MaxTokens = 20
  MaxXmlDepth = 4
  EntrySitemaps <- MCEntrySitemaps
  MaxDepth = 1
  MaxDocuments = 3
  MaxQueued = 2
  MaxDiscovered = 3
  MaxUnpacked = 2
  MaxTotalUnpacked = 3
  Callers = {"c1", "c2"}
  ServerAnswers <- MCServerAnswers
  Contracted = {"2024-11-05", "2025-03-26"}
  Tools <- MCTools
  MaxCalls = 3
  Collectors = {"c1", "c2", "c3"}
  Queries = {"q1", "q2", "q3"}
  Suppliers = {"Google", "google", "Bing"}
  LowerCase <- MCLowerCase
  Usage <- MCUsage
  RequestLimit = 3
  CostLimit = 4
  QueryLimit = 2
  SupplierLimits <- MCSupplierLimits
  Costs = {1, 2}
INVARIANTS ContactedOnce CompleteIsAll ReceiptIsTrue ResumeKeeps RegressionIsDelivered QueueIsAccounted CompletionIsAttributed
  CompleteListsAll EnvelopesAreTrue OverrunIsBounded
PROPERTY ReviewedIsOverwritten
CHECK_DEADLOCK FALSE
