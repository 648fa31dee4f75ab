-------------------------- MODULE MCRentWriteback --------------------------
(* Small instances of the updates of one lease, and of the stop they obey.   *)
EXTENDS RentWriteback, TLC

CONSTANTS ann, rent, o1, o2, o3, r1, r2

MCKeyOf == [e \in Effects |-> rent]
SameCode == Permutations(Requests)

Touched ==
  {e \in Effects : \E g \in Generations :
     \/ exec[Forward(g, e)].state # "none"
     \/ \E h \in Requests : handler[h].x \in {Forward(g, e), Reversal(g, e)}}

Busy == Cardinality({h \in Requests : handler[h].pc # "idle"})

Issued(g) == {e \in Effects : previews[<<g, e>>].issued > 0}
Undamaged == \A key \in Keys : damaged[key] = NoOperation
Stopless == sent = {} /\ Undamaged
Faultless == edits = 0 /\ deaths = 0

(* One run for several small instances: one effect at a time, the first      *)
(* proposal assembled from what RentVine held; stops before that proposal,   *)
(* or beside its effect; reversals of the first generation, whose previews   *)
(* expire and are renewed only while nothing else goes wrong; one fault,     *)
(* with two handlers before the proposal is replaced and one after, when the *)
(* reversals of the first go one at a time as well.                          *)
Modest ==
  /\ Cardinality(Touched) <= 1
  /\ \A e \in Effects : plan[1][e] = 0 /\ (Touched \subseteq {e} \/ plan[2][e] = 0)
  /\ Issued(2) = {}
  /\ saved = 2 /\ Issued(1) # {} => Busy <= 1
  /\ \A e \in Effects : previews[<<1, e>>].issued = 2 \/ previews[<<1, e>>].expired > 0 =>
       saved = 1 /\ Faultless
  /\ Faultless \/ (edits + deaths = 1 /\ (saved = 2 => Busy <= 1 /\ Issued(1) = {}))
  /\ \/ Stopless
     \/ saved = 0 /\ (Cardinality(sent) > 2 => Undamaged)
     \/ /\ saved = 1 /\ active = 1 /\ Faultless /\ Issued(1) = {}
        /\ Cardinality(sent) <= IF Undamaged THEN 3 ELSE 1
        /\ Touched \cap Creates = {} /\ landed = {} /\ Busy <= 1
        /\ \A h \in Requests : handler[h].pc \notin {"observing", "settling"}
=============================================================================
