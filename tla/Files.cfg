CONSTANTS
  Children = {c1, c2}
  MaxSize = 3
  K1 = 1
  K16 = 3
  M1 = 3
  Int4 = 1
  Path = 1
  Script = 2
  TrueExe = 1
  Pattern = 2
SPECIFICATION FilesSpec
PROPERTIES
  NamedUnlessRaced
  NothingBehind
