SPECIFICATION FairSpec
CONSTANTS
  g1 = g1
  g2 = g2
  exe1 = exe1
  exe2 = exe2
  other = other
  Pids = {1, 2, 3}
  Exes = {exe1, exe2, other}
  Games = {g1, g2}
  NoGame = NoGame
  Gone = Gone
  GameOf <- MCGameOf
INVARIANTS CountsMatch OpenAsTold OpenIffListed
PROPERTIES ClosesEventually ImplementsSessions
