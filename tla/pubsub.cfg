SPECIFICATION FairSpec
CONSTANTS
  s1 = s1  s2 = s2  p1 = p1  p2 = p2  t1 = t1  t2 = t2
  Conns = {s1, s2}
  Publishers = {p1, p2}
  Topics = {t1, t2}
  TopicOf <- OneTopic
  Cap = 2
  NoConn = NoConn
  Quota <- TwoAndOne
CHECK_DEADLOCK FALSE
INVARIANTS TypeOK NoSendOnClosed HubKnowsHandlers NothingMissed InOrder
PROPERTIES PublishReturns LeaverForgotten
