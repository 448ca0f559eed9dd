SPECIFICATION Spec
CONSTANTS
  Addr <- MCAddr
  NoAddr = NoAddr
  Rvalue <- MCRvalue
  ConstAddr <- MCConstAddr
  s1 = s1
  s2 = s2
  Symbol = {s1, s2}
  NoName = NoName
  Binaries <- MCBinaries
INVARIANTS CallsBooked NoRework AllShown
PROPERTIES DiscoverySpec
