CONSTANTS
  Accounts = {alice, bob}
  Tasks = {t1, t2}
  None = None
  MaxInputs = 5
SPECIFICATION FairSpec
INVARIANT CacheIsTheSessions
INVARIANT LastIntentWins
PROPERTY LogoutRevokesCookie
PROPERTY OnlyOwnCallsEndSession
PROPERTY CallsEnd
