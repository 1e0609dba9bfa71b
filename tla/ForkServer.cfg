SPECIFICATION FairSpec
CONSTANTS
  Conns = {c1, c2}
  MaxForks = 3
INVARIANTS ZombiesAnnounced WaitFindsZombie
PROPERTY Concluded

CHECK_DEADLOCK FALSE
