SPECIFICATION MCSpec
CONSTANTS
  on = on
  off = off
  alice = alice
  bob = bob
  Keys = {"size", "backup", "enabled", "secret", "ns"}
  Scalars = {on, off}
  Blank = Blank
  Editors = {alice}
  Listed <- MCListed
  Rendered <- MCRendered
  Default = off
  Typed <- MCTyped
  MaxWrites = 3
  Absent = Absent
  NoVersion = NoVersion
  Admins = {alice}
  TenantOrder <- MCTenantOrder
  Spellings <- MCSpellings
  rootTenant = "root"
  ValidNames = {"demo", "root"}
  Reserved = {"ns"}
  TenantFields <- MCTenantFields
  TenantSpecs <- MCTenantSpecs
  MaxTenantWrites = 3
  NoTenant = NoTenant
  NoPin = NoPin
  a1 = a1  a2 = a2  v1 = v1
  Askers = {a1, a2}
  Sessions = {"alice", "ops1", "ops2"}
  UserOf <- MCUserOf
  DefOrder <- MCDefOrder
  KindIn <- MCKindIn
  toLowerKind <- MCtoLowerKind
  MayGet <- MCMayGet
  MayList = {"ops1"}
  Contents = {v1}
  schemaCacheTTL = 2
  MaxStall = 1
  SchemaFields <- MCSchemaFields
  Overlays <- MCOverlays
  NoContent = NoContent
  old = old  new = new
  AppNames = {"db"}
  AppKinds = {"Postgres", "VMInstance"}
  KindOrder <- MCKindOrder
  Secrets = {"db-creds", "postgres-db-app", "postgres-db-ca"}
  Values = {old, new}
  KeysOf <- MCKeysOf
  SecretTemplates <- MCSecretTemplates
  Prefixed <- MCPrefixed
  NotCredentials = {"postgres-db-ca"}
  Concealed = {"password"}
  ActionIDs = {"start", "stop"}
  Registered <- MCRegistered
  TargetName <- MCTargetName
  MaxChanges = 2
  NoData = NoData
  TenantCRs <- MCTenantCRs
  LivesIn <- MCLivesIn
  Workload <- MCWorkload
  AppOrder <- MCAppOrder
  AppListLimit = 2
  paletteFanoutConcurrency = 2
  MaxShifts = 2
INVARIANTS RequestsTypeOK EveryAuditIsTrue
  OnlyOwnSchemas FormFollowsOverlay
  InfoFromOneSource ButtonsWereAllowed GathersAll
PROPERTIES NoLostUpdate SavesWhatWasAsked NoLostTenantUpdate SaveScrubsAndKeeps
  SchemaIsFresh
