---------------------- MODULE MCCommunicationRetention ----------------------
(* Small instances of the retention of communications.                       *)
EXTENDS CommunicationRetention

CONSTANTS s1, f1, k1, e1, e2

Parent == [k \in Kids |-> s1]

(* Two executions overlap only while no occurrence exists.                   *)
Apart ==
  \/ \A k \in Kids : docs[k].state = "none"
  \/ \A e \in Executors \ {e1} : exec[e].pc = "idle"
=============================================================================
