\* Two servers, three start-ups; two runs of genkey, one save by the operator, one run that
\* dies.  Everything ends when the start-ups and the runs are used up.
CONSTANTS
  k1 = k1  k2 = k2  s1 = s1  s2 = s2  g1 = g1  g2 = g2  f1 = f1  f2 = f2
  KeyIds = {k1, k2}
  Writers = {w1, w2}
  FirstSecrets = {s1, s2}
  NoSecret = NoSecret
  NotListed = NotListed
  Files = {f1, f2, g1, g2}
  NoFile = NoFile
  Inherit = Inherit
  FirstConfig <- MCFirst
  Edits <- MCStartUpEdits
  Broken = Broken
  MaxEdits = 1
  MaxKills = 1
  Servers = {x1, x2}
  RemoteServers <- MCRemoteServers
  NotGiven = NotGiven
  MaxStarts = 3
SPECIFICATION Spec
INVARIANT TypeOK
INVARIANT RotationsStick
INVARIANT OnlyOthersPreventAStart
INVARIANT LatestAnswers
SYMMETRY Symmetry
CHECK_DEADLOCK FALSE
