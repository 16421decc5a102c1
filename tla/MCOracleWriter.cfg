SPECIFICATION Spec
CONSTANTS
  MaxNonce = 2
  MaxMarket = 2
  MaxFee = 4
  MaxFaults = 2
INVARIANTS
  ReaderKeepsUp
  EnoughGas
PROPERTIES
  PushesGoOn
