SPECIFICATION FairSpec
CONSTANTS
  g1 = g1
  g2 = g2
  g3 = g3
  p1 = p1
  p2 = p2
  Guarded = {g1, g2, g3}
  Peeking = {p1, p2}
  Trip = 3
INVARIANT OneProbeAtATime
PROPERTY OpensOnStreak
PROPERTY NeverWedged
