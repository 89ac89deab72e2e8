SPECIFICATION Spec
CONSTANTS
  a1 = a1
  a2 = a2
  NoAtt = NoAtt
  Att = {a1, a2}
  FirstTable = 100
  Confs <- PolicyConfs
INVARIANT
  IsolationFirst
