\* A gzip body that ends too early.
SPECIFICATION Spec
CONSTANTS
  Encodings = {"gzip"}
  States = {"torn"}
  MaxPlain = 4
  BufSize = 3
  Ratio = 2
  Ceiling = 6
PROPERTIES
  TornBodyEnds
CHECK_DEADLOCK FALSE
