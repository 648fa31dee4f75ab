--------------------------- MODULE MCMailboxSync ---------------------------
(* Small instances of the observation of linked threads.                     *)
EXTENDS MailboxSync, TLC

CONSTANTS h1, h2

(* Two replies, or a reply and a failure, on the thread linked from the      *)
(* start; less once staff link another, and only one of the others at a time; *)
(* and a linked thread that is deleted, which is all that `caught' is about. *)
Linking == Linked \cup {handler[h].link : h \in {k \in Handlers : handler[k].pc = "linking"}}
Modest ==
  /\ Arrived + faults <= 2
  /\ 2 \in Linking => Arrived + faults <= 1
  /\ 3 \in Linking => Arrived + faults <= 1 /\ 2 \notin Linking
  /\ gone = {} => \A h \in Handlers : ~handler[h].caught
  /\ gone # {} =>
       /\ Cardinality(gone) = 1 /\ gone \subseteq Linking /\ 3 \notin Linking
       /\ Arrived <= 1 /\ faults = 0 /\ (2 \in Linking => Arrived = 0)
=============================================================================
