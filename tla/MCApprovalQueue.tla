-------------------------- MODULE MCApprovalQueue --------------------------
(* Small instances of the Approval Queue: an Admin, an Approver and an       *)
(* Editor; one consequential action and one ordinary review.                 *)
EXTENDS ApprovalQueue

CONSTANTS admin, approver, editor, bill, review, p1

MCRoleOf ==
  [a \in Actors |->
    IF a = admin THEN "Admin" ELSE IF a = approver THEN "Approver" ELSE "Editor"]

(* Ordinary reviews and consequential actions share the queue but nothing    *)
(* else: one kind is explored at a time.  The scheduler holds a read of the  *)
(* first item only; a review raised again is the Editor's, or nobody's.      *)
Apart ==
  /\ \/ \A id \in Ids : ledger[id].state = "None"
     \/ \A i \in Numbers : items[i].key \notin Plain
  /\ candidates \subseteq {1}
  /\ items[2].key \in Plain => items[2].assignee \in {editor, NoActor}

MCRiskOf == [id \in Ids |-> "High"]
=============================================================================
