SPECIFICATION Spec
CONSTANTS
  Order = {o1, o2, o3}
  Trip = {t1, t2, t3}
  Driver = {d1, d2}
  NoDriver = NoDriver
  OrderLimit = 2
SYMMETRY Symmetric
INVARIANTS
  DispatchedOnce
  CompletedIsDelivered
  DriverMatchesTrip
  
  
PROPERTIES
  TripStaysCompleted
  StatusWalksTable
CHECK_DEADLOCK FALSE
