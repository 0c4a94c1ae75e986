------------------------ MODULE MCServerConnIngress ------------------------
(* Five scenarios.  On logs of three envelopes: durable and in-memory events *)
(* with what the durable adapter rejects and an occurrence id that comes     *)
(* back with another payload; hoisted requests among events; responses, a    *)
(* unary caller and incompatibility.  On logs of two: the caller beside      *)
(* in-memory events; and what no adapter takes.                              *)
EXTENDS ServerConnIngress

Env(kind, occ, payload) == [kind |-> kind, occ |-> occ, payload |-> payload]
Plain(kinds) == {Env(k, 0, 0) : k \in kinds}
Once(kinds) == [f \in FaultKinds |-> IF f \in kinds THEN 1 ELSE 0]
Event == Env("event", 1, 1)
Poison == Env("poison", 2, 1)

MCScenarios ==
    {[envelopes |-> {Event, Env("event", 1, 2), Poison} \cup Plain({"memory"}),
      posts |-> 3, sends |-> 0,
      faults |-> Once({"crash", "rollback"}), maxFaults |-> 2],
     [envelopes |-> {Event} \cup Plain({"memory", "request", "foreign"}),
      posts |-> 3, sends |-> 0,
      faults |-> Once({"crash", "replay", "rollback", "serve"}), maxFaults |-> 1],
     [envelopes |-> Plain({"response", "durable_response", "bad_version"}),
      posts |-> 3, sends |-> 1,
      faults |-> Once({"permanent"}), maxFaults |-> 1],
     [envelopes |-> Plain({"memory", "response", "durable_response",
                           "bad_version"}),
      posts |-> 2, sends |-> 1,
      faults |-> Once({"permanent"}), maxFaults |-> 1],
     [envelopes |-> {Event, Poison}
                    \cup Plain({"memory", "memory_poison", "unroutable"}),
      posts |-> 2, sends |-> 0,
      faults |-> Once({"crash", "rollback", "ack_lost"}), maxFaults |-> 2]}

=============================================================================
