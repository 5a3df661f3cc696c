CONSTANTS
  None = None
  own = own
  other = other
  r1 = r1
  r2 = r2
  Requests <- MCRequests
  Ids = {1}
  Supervisors = {1, 2, 3}
  Rows <- MCRows
  Latest = 1
  Installs = {1, 2, 3}
  Crons = {1, 2}
  Saves = {1, 2}
  Jobs = {1, 2, 3}
  Tasks = {1, 2, 3}
  Files <- MCFiles
  Own = own
  KeyOf <- MCKeyOf
  Accounts = {1, 2}
  AddressLimit = 2
  AccountLimit = 1
  Duration = 1
  MaxWindows = 2
  Over = 1
  LoginClock = 1
  MaxPasswords = 3
  MaxVersion = 3
  MaxTokens = 1
  MaxSecrets = 2
  MaxGens = 2
  MaxStep = 2
  MaxPasskeys = 1
  Users = {1, 2, 3}
  First = 1
  AddressOf <- MCAddressOf
  Invites = {1}
  Uploads <- MCRequests
  Sweeper = 3
  Tool = 4
  MAX_STORED_BYTES = 2
  MAX_STORED_FILES = 2
  MAX_CONCURRENT_UPLOADS = 2
  MaxBytes = 2
  LinkTime = 2
  WholeTime = 1
  KeptTime = 2
  UploadClock = 2
  Writers = {1, 2}
  Flushers = {}
  MAX_PENDING_WRITES = 2
  WRITE_BATCH = 2
  Retention = 0
  MaxRecords = 3
  MaxLevels = 2
  LogClock = 1
  Suffixes = {"a", "b"}
  MaxMoves = 2
  Mails = {1, 2}
  max = 1
  MaxCalls = 2
  Parts = {"sessions"}
SPECIFICATION MCSpec
SYMMETRY Swaps
INVARIANT SignedOutEverywhere
CHECK_DEADLOCK FALSE
