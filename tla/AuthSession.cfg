SPECIFICATION FairSpec
CONSTANTS
  t1 = t1
  t2 = t2
  Tabs = {t1, t2}
  Deployments <- MCDeployments
  Uploads = {900, 2000}
  MaxTokens = 3
  MaxLogins = 2
  MaxRestarts = 1
  NoCookie = NoCookie
  Unset = Unset
INVARIANTS TypeOK StaysRefreshable SignedOutStays ChainUnbroken
PROPERTIES ServesUsableToken SignsInAgain
CHECK_DEADLOCK FALSE
