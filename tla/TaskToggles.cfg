CONSTANTS
  d1 = d1  d2 = d2  k1 = k1  k2 = k2  a = a  b = b
  Notes = {d1}
  Daily = {d1}
  Writers = {w1, w2}
  Requests <- Toggling
  Ids = {k1, k2}
  Texts = {a, b}
  NoId = NoId
  Torn = Torn
  Foreign = Foreign
  Absent = Absent
  Nobody = Nobody
  NoRequest = NoRequest
  MaxRequests = 4
  MaxFaults = 0
SPECIFICATION Spec
PROPERTIES TogglesFollow
