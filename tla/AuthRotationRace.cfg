SPECIFICATION Spec
CONSTANTS
  t1 = t1
  t2 = t2
  Tabs = {t1, t2}
  Deployments <- RacingTabs
  Uploads = {}
  MaxTokens = 3
  MaxLogins = 1
  MaxRestarts = 0
  NoCookie = NoCookie
  Unset = Unset
INVARIANT FailsOnlyIfRevoked
CHECK_DEADLOCK FALSE
