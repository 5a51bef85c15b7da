\* Two reloads of everything an operator may save, one request, --logfile given.
\* Requests, edits and signals are bounded: the system stops when they are used up.
CONSTANTS
  k1 = k1  k2 = k2  s1 = s1  s2 = s2  g1 = g1  g2 = g2  f1 = f1  f2 = f2  bad = bad
  KeyIds = {k1, k2}
  Writers = {}
  FirstSecrets = {s1, s2}
  NoSecret = NoSecret
  NotListed = NotListed
  Files = {f1, f2, g1, g2, stderr, bad}
  Stderr = stderr
  Unwritable = {bad}
  Credentials <- MCCredentials
  NoFile = NoFile
  Inherit = Inherit
  FirstConfig <- MCFirst
  Edits <- MCReloadEdits
  Broken = Broken
  MaxEdits = 1
  MaxKills = 0
  Requests = {r1}
  LogfileOption = g2
  MaxSignals = 2
SPECIFICATION FairSpec
INVARIANT StuckOnlyIfNested
INVARIANT StateIsWhole
PROPERTY ReloadTakesEffect
PROPERTY RequestsAnswered
CHECK_DEADLOCK FALSE
