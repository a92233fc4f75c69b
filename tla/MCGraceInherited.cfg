SPECIFICATION Spec
CONSTANTS
  asha = asha
  ben = ben
  nobody = nobody
  Users = {asha, ben}
  NoUser = nobody
  MaxToken = 2
  MaxFault = 2
  Grace = 2
  Interval = 2
  MaxDepth = 1
  MaxEvent = 1
INVARIANT GraceNotInherited
