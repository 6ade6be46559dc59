CONSTANTS
  m1 = m1
  m2 = m2
  m3 = m3
  u1 = u1
  c1 = c1
  c2 = c2
  c3 = c3
  a = a
  b = b
  box = box
  Machines = {m1}
  Clients = {c1, c2, c3}
  Place <- PlaceOf
  Keyed <- KeyedOf
  Nobody = nobody
  ControlBacklog = 1
SPECIFICATION StalledSpec
PROPERTY ClientsAnswered
CHECK_DEADLOCK FALSE
