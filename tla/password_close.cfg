SPECIFICATION Spec
CONSTANTS
  a4 = a4
  b4 = b4
  x20 = x20
  x72 = x72
  Passwords = {a4, b4}
  Length <- MCLength
  Xdigits <- MCXdigits
  Modes = {"G-PON"}
  Writes = {"both"}
  Order = {"hex"}
  Faults = {"close"}
  MaxEvents = 1
INVARIANTS WriteReported
