SPECIFICATION FairSpec
CONSTANTS
  Order = {o1, o2}
  Trip = {t1, t2}
  Driver = {d1, d2}
  NoDriver = NoDriver
  OrderLimit = 2
  Request = {r1, r2}
  Kind = {"dispatch", "arrive", "complete"}
  Waiting = {o1, o2}
  MaxRepeated = 0
INVARIANTS
  DriverOfItsTrip
  StopAndOrderAgree
  OneStopEach
PROPERTY RequestsEnd
CHECK_DEADLOCK FALSE
