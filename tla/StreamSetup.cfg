\* Three operations that share a client, in the mixes of MCWants.
CONSTANTS
  q1 = q1
  q2 = q2
  q3 = q3
  sub = sub
  sub2 = sub2
  notif = notif
  raw = raw
  raw2 = raw2
  rpc = rpc
  none = none
  Requests = {q1, q2, q3}
  Resources = {sub, sub2, notif, raw, raw2, rpc, none}
  KindOf <- MCKindOf
  Wants <- MCWants
  NoStream = NoStream
SPECIFICATION FairSpec
INVARIANTS TypeOK NeverAnotherProtocol QuietSetupsGetTheirOwn AcceptedIsServed
PROPERTIES SetupsEnd
CHECK_DEADLOCK FALSE
