SPECIFICATION FairSpec
CONSTANTS
  Holders = {h1, h2}
  Drivers = {d1}
  Partitions = {p1}
  Tokens = {t1, t2}
  NoToken = NoToken
  NoCall = NoCall
  TTL = 3
  MaxReply = 1
  MaxLate = 1
INVARIANTS
  TypeOK
  SafeMargin
PROPERTIES
  Fenced
  ForgottenLeasesExpire
