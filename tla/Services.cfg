SPECIFICATION MCSpec
CONSTANTS
  p1 = p1
  p2 = p2
  Sales = {p1, p2}
  Bases <- BasesOf
  Vat = 15
  Fee = 25
  Servers = {a, b}
  LastDay = 2
  NoSale = NoSale
  NoSettlement = NoSettlement
  Updates = {u1, u2, u3}
  Plans = {friday, monday}
  Seeded = friday
  Crashes = 2
  NoJob = NoJob
  Structure <- TwoJuz
  Starters = {a, b}
  Faults = 2
  NoJuz = NoJuz
  t1 = t1
  t2 = t2
  h1 = h1
  h2 = h2
  r1 = r1
  r2 = r2
  Tokens = {t1, t2}
  Holders = {h1, h2}
  Registrations = {r1, r2}
  Broadcasts = {b1}
  ChunkSize = 1
  Nobody = Nobody
  Readers = {h1, h2}
  Items = {n1, n2}
  Marks = {m1, m2}
  NoUser = NoUser
  Playlists = 2
  Queries = {q}
  Fetches = {f1, f2, f3}
  MaxVersion = 1
  Playlist = Playlist
  Missing = Missing
  Permissions = {"content.edit"}
  RoleNames = {"ADMIN", "USER", "EDITOR"}
  Custom = "EDITOR"
  ReminderIds = {"JUMUAH"}
  Plan <- SeedPlan
  Requests = {q1}
  Changes = 2
  SeedFaults = 1
  NoRole = NoRole
INVARIANTS TypesOK PartsAddUp SettledDayIsWhole NoDayForgotten ReportsAgree JobMatchesRow BroadcastReachesAll DeviceOfLastUser ClearedStaysCleared FreshAfterRefresh
PROPERTIES EventuallySeeded EveryServerStarts OnlyDeadTokensCleaned
CHECK_DEADLOCK FALSE
