SPECIFICATION FairSpec
CONSTANTS
  Strides <- MCStrides
  Sizes = {0, 31, 33, 100, 200}
  Hiccups = 1
  Kilo = 2
  Bufsz = 64
INVARIANTS TypeOK InBounds StreamExact PartsHashed
PROPERTIES HashfTerminates
