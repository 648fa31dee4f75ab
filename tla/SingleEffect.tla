---------------------------- MODULE SingleEffect ----------------------------
(***************************************************************************)
(* What the execution ledger promises about each action identity: its      *)
(* effect is asked for at most once, and its verdict, once given, is final *)
(* and agrees with what really happened.  ExecutionAttempts implements it. *)
(***************************************************************************)
CONSTANT Ids

VARIABLES
  verdict,  \* [Ids -> {"open", "done", "failed", "void"}]
  effect    \* [Ids -> {"untouched", "inflight", "applied", "refused"}]

Init ==
  /\ verdict = [id \in Ids |-> "open"]
  /\ effect = [id \in Ids |-> "untouched"]

(* The one request to the outside world, possible only while undecided.      *)
Ask(id) ==
  /\ verdict[id] = "open"
  /\ effect[id] = "untouched"
  /\ effect' = [effect EXCEPT ![id] = "inflight"]
  /\ UNCHANGED verdict

Happen(id) ==
  /\ effect[id] = "inflight"
  /\ \E e \in {"applied", "refused"} : effect' = [effect EXCEPT ![id] = e]
  /\ UNCHANGED verdict

(* A verdict is given once, and only the one the effect supports.            *)
Supported(id) ==
  CASE effect[id] = "untouched" -> "void"
    [] effect[id] = "applied"   -> "done"
    [] effect[id] = "refused"   -> "failed"
    [] OTHER                    -> "open"

Close(id) ==
  /\ verdict[id] = "open"
  /\ effect[id] # "inflight"
  /\ verdict' = [verdict EXCEPT ![id] = Supported(id)]
  /\ UNCHANGED effect

Next == \E id \in Ids : Ask(id) \/ Happen(id) \/ Close(id)

Spec == Init /\ [][Next]_<<verdict, effect>>
=============================================================================
