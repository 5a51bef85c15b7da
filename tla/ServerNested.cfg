\* A second SIGHUP while the first one is handled.
CONSTANTS
  k1 = k1  k2 = k2  s1 = s1  s2 = s2  g1 = g1  g2 = g2  f1 = f1  f2 = f2  bad = bad
  KeyIds = {k1, k2}
  Writers = {}
  FirstSecrets = {s1, s2}
  NoSecret = NoSecret
  NotListed = NotListed
  Files = {f1, f2, g1, g2, stderr, bad}
  Stderr = stderr
  Unwritable = {bad}
  Credentials <- MCCredentials
  NoFile = NoFile
  Inherit = Inherit
  FirstConfig <- MCFirst
  Edits = {}
  Broken = Broken
  MaxEdits = 0
  MaxKills = 0
  Requests = {r1}
  LogfileOption = NoFile
  MaxSignals = 2
SPECIFICATION FairSpec
PROPERTY ClientsNotInterrupted
CHECK_DEADLOCK FALSE
