SPECIFICATION Spec
CONSTANTS
  Order = {o1, o2}
  Trip = {t1, t2}
  Driver = {d1, d2}
  NoDriver = NoDriver
  OrderLimit = 2
  Request = {r1}
  Kind = {"create", "patch", "edit", "delete", "dispatch", "arrive", "complete", "skip"}
  Waiting = {}
  MaxRepeated = 0
SYMMETRY Symmetric
PROPERTY SerialIsDispatch
CHECK_DEADLOCK FALSE
