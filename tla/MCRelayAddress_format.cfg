CONSTANTS
  HostCap = 2
  MaxLen = 5
  Alphabet = {"a", "0", "7", ":", "-", " "}
  Ports = {0, 7, 70, 77}
SPECIFICATION Spec
INVARIANT AcceptsOnlyWellFormed
