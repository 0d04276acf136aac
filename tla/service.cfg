SPECIFICATION ServerSpec
CONSTANTS
  k1 = k1  k2 = k2  k3 = k3  v1 = v1  v2 = v2  r1 = r1
  w1 = w1  w2 = w2  c1 = c1  c2 = c2  c3 = c3  c4 = c4  c5 = c5
  n1 = n1  n2 = n2
  Keys = {k1, k2, k3}
  Values = {v1, v2}
  NoVal = NoVal
  NShards = 3
  ShardOf <- ThreeShards
  Loaded <- Replayed
  Writers = {w1, w2}
  Requests <- Sent
  Readers = {r1}
  Counts = {1, 2}
  Selections = {{k1, k3}}
  MaxFaults = 1
  Clients = {n1, n2}
  Calls = {w1, w2, c1, c2, c3, c4, c5}
  ClientOf <- Through
  Request <- Asked
  NoCall = NoCall
  Elements = {1, 2, 3, 4, 5, 6}
  Names = {k1}
  Lists <- Arrays
  Absent = Absent
  Torn = Torn
  Scripts <- AllScripts
CHECK_DEADLOCK FALSE
INVARIANTS TypeOK DSTypeOK ReadsComplete ReadsReal FoundOnce
INVARIANTS AnswersTrue ListSorted ListExact ElementsAccounted
PROPERTIES ReadersReturn CallsReturn
