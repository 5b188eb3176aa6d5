SPECIFICATION EditsSpec
CONSTANTS
  on = on
  off = off
  alice = alice
  bob = bob
  Keys = {"size", "backup", "enabled", "secret", "ns"}
  Scalars = {on, off}
  Blank = Blank
  Editors = {alice, bob}
  Listed <- MCListed
  Rendered <- MCRendered
  Default = off
  Typed <- MCTyped
  MaxWrites = 2
  Absent = Absent
  NoVersion = NoVersion
  Admins = {alice}
  TenantOrder <- MCTenantOrder
  Spellings <- MCSpellings
  rootTenant = "root"
  ValidNames = {"demo", "root"}
  Reserved = {"ns"}
  TenantFields <- MCTenantFields
  TenantSpecs <- MCTenantSpecs
  MaxTenantWrites = 3
  NoTenant = NoTenant
  NoPin = NoPin
PROPERTY NoSilentClobber
