--------------------------- MODULE MCHTTPRequests ---------------------------
EXTENDS HTTPRequests, TLC

CONSTANTS c1, c2, Nobody

Simple == [route |-> "endpoint", kind |-> "read",
           authorization |-> "absent", origin |-> "none", accept |-> <<>>]

Open == [query |-> FALSE, update |-> FALSE, anonymous |-> TRUE, cors |-> "off", metrics |-> TRUE]

Alone(q) == [c \in {c1, c2} |-> IF c = c1 THEN q ELSE Nobody]

\* Every configuration without metrics and every request on its own; then two
\* requests at a time with metrics.
MCCases ==
  {[config |-> k, input |-> Alone(q)] :
     k \in {k \in Configs : ~k.metrics},
     q \in {q \in Requests : q.accept = <<>>}}
  \cup {[config |-> Open, input |-> Alone([Simple EXCEPT !.accept = a])] : a \in AcceptEncodings}
  \cup {[config |-> Open,
         input |-> (c1 :> Simple @@ c2 :> [Simple EXCEPT !.kind = k])] : k \in Ops \cup {"options"}}

MCBuckets == <<1>>
=============================================================================
