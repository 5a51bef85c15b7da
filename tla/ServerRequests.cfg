\* Two requests, one reload, one genkey run, everything an operator may save.
\* Requests, edits and signals are bounded: the system stops when they are used up.
CONSTANTS
  k1 = k1  k2 = k2  s1 = s1  s2 = s2  g1 = g1  g2 = g2  f1 = f1  f2 = f2  bad = bad
  KeyIds = {k1, k2}
  Writers = {w1}
  FirstSecrets = {s1, s2}
  NoSecret = NoSecret
  NotListed = NotListed
  Files = {f1, f2, g1, g2, stderr, bad}
  Stderr = stderr
  Unwritable = {bad}
  Credentials <- MCCredentials
  NoFile = NoFile
  Inherit = Inherit
  FirstConfig <- MCFirst
  Edits <- MCReloadEdits
  Broken = Broken
  MaxEdits = 1
  MaxKills = 0
  Requests = {r1, r2}
  LogfileOption = NoFile
  MaxSignals = 1
SPECIFICATION Spec
INVARIANT TypeOK
INVARIANT JustlyAnswered
INVARIANT HandlersPerReload
INVARIANT NeverSilent
INVARIANT LoggingFollowsCache
CHECK_DEADLOCK FALSE
