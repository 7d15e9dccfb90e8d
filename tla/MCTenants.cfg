SPECIFICATION Spec
CONSTANTS
  Ids = {t1, t2}
  Slugs = {"a", "b"}
  Domains = {"", "d"}
  Bodies <- MCBodies
  Tiers = {"pro", "business"}
  QuotaTiers = {"basic", "pro"}
  Basic = "basic"
  Switches = {"k"}
  Keys = {"c"}
  Values = {"off", "on"}
  Off = "off"
  Requests = {r1, r2}
  Operators = {o1, o2}
  MaxChanges = 3
  MaxFaults = 1
  None = None
INVARIANTS
    SlugsApart
    SettingsAgreeWithAudit
PROPERTIES
    QuotaFollowsTier
