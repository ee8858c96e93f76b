CONSTANTS
  a1 = a1
  a2 = a2
  a3 = a3
  Address = {a1, a2, a3}
  NoAddress = NoAddress
  Net <- TwoNets
  Common = {a1, a2, a3}
  Bases = {a1, NoAddress}
  House = {"g1"}
  Main = "main"
  Slot = {"s1"}
  MaxEvents = 2
SPECIFICATION StartSpec
INVARIANTS
  AdoptedWasNode
PROPERTIES
  FoundAgain
