------------------------- MODULE MCExecutionAttempts -------------------------
(* Instances of the request model: a packet upload that depends on a loop,   *)
(* both through the bridge, and a governed label beside a Vendor attempt.    *)
EXTENDS ExecutionAttempts

CONSTANTS admin, editor, canary, loop, upload, label, vendor, p1, p2

(* Either three requests with two previews about the loop, or two requests   *)
(* about the loop and the upload that depends on it.                         *)
About(ids, requests, previews) ==
  /\ \A id \in Ids \ ids : ledger[id].state = "None" /\ world[id] = "untouched"
  /\ \A r \in Requests \ requests : req[r] = Idle
  /\ \A id \in Ids : ledger[id].preview \in previews \cup {NoPreview}
  /\ \A r \in Requests : req[r].preview \in previews \cup {NoPreview}

LoopOrPair == About({loop}, Requests, Previews) \/ About({loop, upload}, {1, 2}, {p1})

MCRoleOf == [a \in Actors |-> IF a = admin THEN "Admin" ELSE "Editor"]
MCRiskOf == [id \in Ids |-> IF id \in {loop, vendor} THEN "High" ELSE "Low"]
MCChannel ==
  [id \in Ids |->
     CASE id = label -> "label" [] id = vendor -> "vendor" [] OTHER -> "bridge"]
MCDependsOn == [id \in Ids |-> IF id = upload THEN {loop} ELSE {}]
=============================================================================
