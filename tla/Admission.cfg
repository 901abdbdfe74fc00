\* Two requests under every setting a server starts with, a cache of one token,
\* and lifetimes the margin leaves nothing of, or something.
SPECIFICATION MCSpec
CONSTANTS
  r1 = r1
  r2 = r2
  alice = alice
  bob = bob
  Requests = {r1, r2}
  Tokens <- MCTokens
  Claims <- MCClaims
  Settings <- AllSettings
  Asked <- MCAsked
  Users = {alice, bob}
  Lifetimes = {0, 2, 3}
  Margin = 1
  Leeway = 1
  CacheSize = 1
  MaxTime = 3
  NoToken = NoToken
  NoUser = NoUser
  Server = Server
  ServerSql = ServerSql
INVARIANTS
  RunsAsCaller
  CachedTokenLives
  GuardHolds
