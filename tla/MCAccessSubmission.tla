------------------------- MODULE MCAccessSubmission -------------------------
(* Small instances of the filing of access requests.                         *)
EXTENDS AccessSubmission, TLC

CONSTANTS s1, s2, i1, i2, i3

SameCode == Permutations(Submitters) \cup Permutations(Intents)
=============================================================================
