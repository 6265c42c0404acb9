SPECIFICATION Spec
CONSTANTS
  a4 = a4
  b4 = b4
  x20 = x20
  x72 = x72
  Passwords = {a4, x20, x72}
  Length <- MCLength
  Xdigits <- MCXdigits
  Modes = {"Unknown", "G-PON", "XG-PON"}
  Writes = {"password", "hex", "both"}
  Order = {"hex", "password"}
  Faults = {"write", "close", "sync"}
  MaxEvents = 2
INVARIANTS OldOrNew SettledPassword
PROPERTY ImplementsRegister
