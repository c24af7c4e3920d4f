SPECIFICATION Spec
CONSTANTS
  Groups = {g1, g2}
  Games = {x}
  Tokens = {t1, t2}
  Names = {n1}
  NoName = NoName
  Out = Out
  NoSecret = NoSecret
  Broken = Broken
  MaxQueue = 2
  MaxCommands = 4
SYMMETRY MCSymmetry
INVARIANTS Startable JoinedStays AgentFollows WindowFollows
