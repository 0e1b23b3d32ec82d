SPECIFICATION Spec
CONSTANTS
  r1 = r1
  r2 = r2
  orders = orders
  accounts = accounts
  drivers = drivers
  x1 = x1
  x2 = x2
  u1 = u1
  s1 = s1
  s2 = s2
  s3 = s3
  n1 = n1
  n2 = n2
  up = up
  k1 = k1
  k2 = k2
  p1 = p1
  p2 = p2
  p3 = p3
  l1 = l1
  l2 = l2
  forgot = forgot
  recover = recover
  confirm = confirm
  endOthers = endOthers
  bye = bye
  look = look
  statement = statement
  apply = apply
  c1 = c1
  None = none
  Nobody = nobody
  Sessions = {a, b, c}
  Old = {a}
  ChatRequests = {r1, r2}
  MaxSessions = 1
  MaxMessages = 3
  MaxExpiries = 1
  Tables = {orders, accounts, drivers}
  Denied = {accounts}
  Curated = {orders}
  Links <- LinksOfOrders
  FirstPublic = {orders, accounts}
  Generated <- Written
  FixedQuery <- FixedTexts
  Conns = {c1}
  QueryRows = 2
  MaxSize = 3
  QueryQuestions = {x1, x2}
  CatalogQuestions = {x1}
  CatalogRefreshers = {y1, x2}
  MaxMigrations = 1
  Users = {u1}
  NoUser = noUser
  Sockets = {s1, s2, s3}
  Claim <- Handshake
  Cookie <- OneCookie
  Gateways <- AllGateways
  OnlineFaults = 1
  Root = root
  FolderNames = {n1, n2}
  TreeFolders = {d1, d2, d3}
  TreeFiles = {f1}
  TreePaths <- TwoDeep
  TreeDepth = 2
  LibraryFolders = {d1, d2}
  LibraryFiles = {f1, f2}
  LibraryPaths <- OneDeep
  LibraryDepth = 1
  DocumentCrashes = 1
  Uploads = {up}
  Chunks = {k1, k2}
  Sends = {p1, p2, p3}
  UploadOf <- OneUpload
  Chunk <- SentTwice
  Completes = {e1, e2}
  VideoCrashes = 1
  MaxUid = 3
  MaxValidity = 1
  MailCrashes = 1
  DigestUid = 4
  Sender <- TwoSenders
  Verdicts <- FourVerdicts
  DigestLimit = 3
  AccountRequests = {l1, l2, forgot, recover, confirm, endOthers, bye}
  AccountKind <- Kinds
  Who <- OneUser
  TwoFactor = {u1}
  Connections = 2
  MaxTokens = 3
  Jobs = {look, statement, apply}
  JobKind <- JobKinds
  OracleConns = {c1}
  MaxDeaths = 1
  AskQuestions = {x1}
  LookUp <- LooksUp
  Run <- Runs
  Callers = {apply}
  AskTables = {orders}
  Objects = {orders}
  Refreshes = {r1, r2}
  Keys = {k1, k2}
  HistoryLimit = 2
  MaxDDL = 2
  MaxTicks = 1
  MaxRestarts = 1
  Years <- LeapYears
  Todays <- Ends
  Asked <- Periods
  Firms = {f1, f2}
  MaxDocs = 2
  ReportRows = 2
  Latest <- LastTrips
  Addresses = {x1}
  FileNames = {n1, n2}
  Starts = {r1, r2}
  MaxPauses = 1
  CampaignFaults = 1
  TenderUploads = {f1, f2, n1, n2}
  Saves = {r1, r2}
  SaveUploads <- NewFiles
  TenderFaults = 1
  LogUsers = {u1, s1}
  Companies = {c1}
  CompanyOf <- OneCompany
  WrittenFor <- Mismatched
  External = {u1, s1}
  Grain = 2
  MaxTime = 2
  LogRows = 3
  PageLimit = 1
\* requests are handled and faults spent: the focus may stop
CHECK_DEADLOCK FALSE
INVARIANTS TypeOK ErasedStaysErased   LibrarySound 
PROPERTIES DocsTrue RequestsEnd
