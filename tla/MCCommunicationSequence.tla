---------------------- MODULE MCCommunicationSequence ----------------------
(* Small instances of one scheduled communication.                           *)
EXTENDS CommunicationSequence, TLC

CONSTANTS ann, bob, w1, w2, wording, edited, s1, s2

(* Overlapping dispatchers run the same code.                                *)
SameCode == Permutations(Dispatchers)

Alone == Cardinality({d \in Dispatchers : disp[d].pc # "idle"}) <= 1

(* Several small instances in one run: the source changes, for a while or    *)
(* for good, around the first review of one draft; replies meet an edited    *)
(* draft; each with one dispatcher at work.                                  *)
MostlyUnchanged ==
  /\ source = s1 \/ (seq.version = 1 /\ seq.draft = wording /\ ~replied /\ Alone)
  /\ replied /\ seq.draft = edited => Alone
=============================================================================
