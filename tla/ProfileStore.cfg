SPECIFICATION Spec
CONSTANTS
  Windows = {w1, w2}
  Profiles = {p1, p2}
  Names = {n1, n2}
  Suffixes = {s1, s2}
  Passwords = {a, b}
  MaxKeys = 2
  None = None
  New = New
INVARIANTS PasswordKept EntriesOwned
SYMMETRY Symmetry
PROPERTY OnlyOwnPassword
