CONSTANTS
  Servers = {s1, s2}
  Clients = {c1}
  First = 8080
  Tries = 3
  Taken = {8080}
  Given = {8082}
  Workers = {}
SPECIFICATION Spec
CHECK_DEADLOCK FALSE
INVARIANTS TypeOK HintLeadsToServer GivesUpForOthers
PROPERTIES InterruptEnds ConnectionAccepted
