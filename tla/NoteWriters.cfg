CONSTANTS
  d1 = d1  d2 = d2  k1 = k1  k2 = k2  a = a  b = b
  Notes = {d1, d2}
  Daily = {d1, d2}
  Writers = {w1, w2}
  Requests <- Mixed
  Ids = {k1, k2}
  Texts = {a, b}
  NoId = NoId
  Torn = Torn
  Foreign = Foreign
  Absent = Absent
  Nobody = Nobody
  NoRequest = NoRequest
  MaxRequests = 3
  MaxFaults = 1
SPECIFICATION FairSpec
INVARIANTS TypeOK AckedIsDurable AckedIsThere OwnLines
PROPERTIES NothingIsLost AppendsOnce EventuallyAnswered
