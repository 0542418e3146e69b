SPECIFICATION FairSpec
CONSTANTS
  bng = bng
  cpe = cpe
  A = bng
  B = cpe
  Unordered = {bng}
  Value = {1, 2}
  NoOption = NoOption
  Wanted <- MCWanted
  Reply <- MCReply
  Suggest <- MCSuggest
  MaxConf = 3
  MaxTerm = 1
  IdMod = 4
  MaxFault = 2
  MaxEarly = 1
INVARIANTS TypeOK WaitsWithTimer 
PROPERTIES Converges ImplementsLayer
CHECK_DEADLOCK FALSE
