CONSTANTS
  c1 = c1
  c2 = c2
  Half = 4
  Groups = 2
  IdSpace = 8
  Clients = {c1, c2}
  Routes <- SmallRoutes
  Dicts <- SmallDicts
  Ids <- SmallIds
  Datas <- SmallDatas
  MaxSessions = 3
  Rests <- SmallRests
SPECIFICATION Spec
INVARIANTS TypeOK HalvesAgree ReadAsMeant RejectedOnlyFor DecodersAgree
CHECK_DEADLOCK FALSE
