SPECIFICATION Spec
CONSTANTS
  Addr <- MCAddr
  NoAddr = NoAddr
  Rvalue <- MCRvalue
  ConstAddr <- MCConstAddr
  w1 = w1
  w2 = w2
  w3 = w3
  s1 = s1
  s2 = s2
  s3 = s3
  Symbol = {s1, s2, s3}
  NoName = NoName
  NoUuid = NoUuid
  Self = Self
  Worker = {w1, w2, w3}
  Binaries <- MCBinaries
INVARIANTS UniqueFunction AliasFindsFunction EdgesAreCalls SymbolsKept 
PROPERTIES DiscoverySpec
