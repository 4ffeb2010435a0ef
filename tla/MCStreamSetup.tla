--------------------------- MODULE MCStreamSetup ----------------------------
EXTENDS StreamSetup, TLC

CONSTANTS q1, q2, q3, sub, sub2, notif, raw, raw2, rpc, none

MCKindOf ==
  [x \in Resources |->
     CASE x \in {sub, sub2} -> "subscription" [] x = notif -> "notification"
       [] x \in {raw, raw2} -> "stream" [] x = rpc -> "rpc" [] OTHER -> "missing"]

Want(o, x) == [op |-> o, resource |-> x]

Three(a, b, c) == (q1 :> a) @@ (q2 :> b) @@ (q3 :> c)

Sub1 == Want("subscribe", sub)
Raw1 == Want("open_stream", raw)
Ntf1 == Want("notify", notif)

\* A refusal between set-ups, two resources of one kind, several set-ups of one
\* resource, the two protocols that share a queue, and operations on a
\* resource of another kind.
MCWants ==
  { Three(Sub1, Want("subscribe", sub2), Want("subscribe", none)),
    Three(Raw1, Want("open_stream", raw2), Sub1),
    Three(Ntf1, Ntf1, Want("call", rpc)),
    Three(Ntf1, Raw1, Want("open_stream", notif)),
    Three(Sub1, Want("subscribe", rpc), Want("call", sub)) }
=============================================================================
