--------------------------- MODULE MCAccessApply ---------------------------
(* Small instances of the decisions about access requests.                   *)
EXTENDS AccessApply, TLC

CONSTANTS h1, h2

Editor == 0
Approver == 1
Nothing == [role |-> Editor, spaces |-> {}]
AsApprover == [role |-> Approver, spaces |-> {}]
InSpace == [role |-> Editor, spaces |-> {"leasing"}]

OneIntent == "r1" :> AsApprover
TwoIntents == "r1" :> AsApprover @@ "r2" :> InSpace

SameCode == Permutations(Handlers)
=============================================================================
