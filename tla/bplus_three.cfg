SPECIFICATION BpSpec
CONSTANTS
  BpKey = {1, 2, 3, 4, 5, 6}
  Bf = 3
INVARIANT SiblingExists
