------------------------- MODULE MailboxSync_proofs -------------------------
(***************************************************************************)
(* Theorems about the observation of linked threads, for every number of   *)
(* threads, messages, overlapping handlers and faults.                     *)
(*                                                                         *)
(* A link never goes back because every write compares what was read with  *)
(* what the link holds.  No reply is lost because whatever a handler may   *)
(* still complete up to is either on its link already, or in the work that *)
(* handler has before it completes; that needs every resync to cover all   *)
(* linked threads in one page, and says nothing of threads too long to be  *)
(* read.                                                                   *)
(***************************************************************************)
EXTENDS MailboxSync, TLAPS, FiniteSetTheorems, WellFoundedInduction

LinkOK(l, record) ==
  /\ record.last <= record.seen
  /\ ~record.linked => record.seen = 0
  /\ l \notin Unlinked => record.linked

(* A handler knows no message that has not arrived, and works on links.      *)
HandlerOK(my, arrived, linked) ==
  /\ {my.cursor, my.to, my.got} \subseteq 0..arrived
  /\ my.pc = "claim" => my.push # Manual
  /\ my.pc = "linking" => my.link # NoLink
  /\ my.pc \in {"marking", "observed"} => my.link \in linked
  /\ my.todo \subseteq linked

(* The replies of a thread up to a position of the mailbox are on its link.  *)
UpTo(position, replies, seen) == \A m \in replies : m <= position => seen >= m

(* What a handler may complete: it is on the link, or still before it.       *)
Pending(my, l, replies, seen) ==
  \A m \in replies :
    m <= my.to =>
      \/ seen >= m
      \/ l \in my.todo
      \/ my.pc = "marking" /\ my.link = l /\ my.got >= m

Known == Links \ (Unlinked \cup Long)
Replies == [l \in Links |-> On(l)]

Covers(my, replies, links) ==
  /\ my.after = NoLink /\ my.more = NoLink
  /\ \A l \in Known : /\ UpTo(my.cursor, replies[l], links[l].seen)
                       /\ Pending(my, l, replies[l], links[l].seen)

OnePage == Cardinality(Linked) <= BatchSize

MailboxCovers(state, replies, links) ==
  state.after = NoLink /\ \A l \in Known : UpTo(state.cursor, replies[l], links[l].seen)

Complete ==
  MailboxCovers(mailbox, Replies, link) /\ \A h \in Handlers : Covers(handler[h], Replies, link)

Observed ==
  /\ TypeOK
  /\ mailbox.cursor <= Arrived
  /\ \A l \in Links : LinkOK(l, link[l])
  /\ \A h \in Handlers : HandlerOK(handler[h], Arrived, Linked)
  /\ OnePage => Complete

-----------------------------------------------------------------------------
(* Greatest and least elements                                               *)

(* The least element of a set of numbers is in it and bounds it.             *)
LEMMA LeastFacts ==
  ASSUME NEW S \in SUBSET Nat, S # {}
  PROVE  Least(S) \in S /\ \A m \in S : Least(S) <= m
<1>1. IsWellFoundedOn(OpToRel(<, Nat), Nat)
  BY NatLessThanWellFounded
<1>2. PICK m \in S : \A j \in S : ~(<<j, m>> \in OpToRel(<, Nat))
  BY <1>1, WFMin
<1>3. \A j \in S : ~(j < m)
  BY <1>2 DEF OpToRel
<1>4. \A j \in S : m <= j
  BY <1>3
<1> QED
  BY <1>4 DEF Least

(* The greatest element of a finite set is in it and bounds it: the one with *)
(* the fewest above it.                                                      *)
LEMMA GreatestFacts ==
  ASSUME NEW S \in SUBSET Nat, IsFiniteSet(S), S # {}
  PROVE  Greatest(S) \in S /\ \A m \in S : m <= Greatest(S)
<1> DEFINE Above(k) == {j \in S : j > k}
           sizes == {Cardinality(Above(k)) : k \in S}
<1>1. \A k \in S : Above(k) \in SUBSET S /\ IsFiniteSet(Above(k)) /\ Cardinality(Above(k)) \in Nat
  <2> SUFFICES ASSUME NEW k \in S
               PROVE  Above(k) \in SUBSET S /\ IsFiniteSet(Above(k)) /\ Cardinality(Above(k)) \in Nat
    OBVIOUS
  <2>1. Above(k) \in SUBSET S
    OBVIOUS
  <2>2. IsFiniteSet(Above(k))
    BY <2>1, FS_Subset
  <2> QED
    BY <2>1, <2>2, FS_CardinalityType
<1>2. sizes \in SUBSET Nat /\ sizes # {}
  BY <1>1
<1> HIDE DEF sizes
<1>7. Least(sizes) \in sizes /\ \A size \in sizes : Least(sizes) <= size
  BY <1>2, LeastFacts
<1> HIDE DEF Above
<1>3. PICK k \in S : Cardinality(Above(k)) = Least(sizes)
  BY <1>7 DEF sizes
<1>4. \A j \in S : Cardinality(Above(k)) <= Cardinality(Above(j))
  BY <1>3, <1>7 DEF sizes
<1>5. ASSUME NEW j \in S, j > k PROVE FALSE
  <2>0. \A i \in S : i > j => i > k
    BY <1>5
  <2>3. j \in Above(k)
    BY <1>5 DEF Above
  <2>4. j \notin Above(j)
    BY DEF Above
  <2>5. Above(j) \in SUBSET Above(k)
    BY <2>0 DEF Above
  <2>1. Above(j) \in SUBSET Above(k) /\ j \in Above(k) /\ j \notin Above(j)
    BY <2>3, <2>4, <2>5
  <2>2. /\ Cardinality(Above(j)) <= Cardinality(Above(k))
        /\ Cardinality(Above(k)) = Cardinality(Above(j)) => Above(k) = Above(j)
    BY <1>1, <2>1, FS_Subset
  <2> QED
    BY <1>1, <1>4, <2>1, <2>2
<1>6. \A m \in S : m <= k
  BY <1>5
<1> QED
  BY <1>6 DEF Greatest

(* A bounded set of numbers: its greatest element, or 0, is within.          *)
LEMMA BoundedFacts ==
  ASSUME NEW n \in Nat, NEW S \in SUBSET (0..n)
  PROVE  Greatest(S) \in 0..n /\ \A m \in S : m <= Greatest(S)
<1>1. CASE S = {}
  BY <1>1 DEF Greatest
<1>2. CASE S # {}
  <2>1. IsFiniteSet(S) /\ S \in SUBSET Nat
    <3>1. IsFiniteSet(0..n)
      BY FS_Interval
    <3>2. IsFiniteSet(S)
      BY <3>1, FS_Subset
    <3>3. S \in SUBSET Nat
      OBVIOUS
    <3> QED
      BY <3>2, <3>3
  <2> QED
    BY <1>2, <2>1, GreatestFacts
<1> QED
  BY <1>1, <1>2

-----------------------------------------------------------------------------
(* What is known of the state                                                *)

(* What types say about one link and one handler.                            *)
LEMMA MailboxTypes ==
  ASSUME TypeOK
  PROVE  /\ Arrived \in Nat /\ Arrived <= MaxMail
         /\ mail \in Seq(Links) /\ mailbox \in MailboxRecords
         /\ link \in [Links -> LinkRecords] /\ handler \in [Handlers -> HandlerRecords]
         /\ \A l \in Links : link[l] \in LinkRecords /\ link[l].seen \in 0..MaxMail
                             /\ link[l].last \in 0..MaxMail
         /\ \A h \in Handlers : handler[h] \in HandlerRecords
         /\ \A l \in Links : On(l) \in SUBSET (1..Arrived) /\ On(l) \in SUBSET (0..Arrived)
                             /\ Replies[l] = On(l)
         /\ Linked \subseteq Links /\ IsFiniteSet(Linked) /\ NoLink \notin Links
         /\ faults \in 0..MaxFaults /\ Known \subseteq Links
<1>1. Arrived \in Nat /\ \A l \in Links : On(l) \in SUBSET (1..Arrived)
  BY DEF TypeOK, Arrived, On
<1>2. IsFiniteSet(Linked)
  <2>1. Linked \in SUBSET Links
    BY DEF Linked
  <2> QED
    BY <2>1, FS_Subset, MailboxAssumption
<1>3. \A l \in Links : On(l) \in SUBSET (0..Arrived)
  BY <1>1
<1>4. \A l \in Links : link[l] \in LinkRecords /\ link[l].seen \in 0..MaxMail
                       /\ link[l].last \in 0..MaxMail
  BY DEF TypeOK, LinkRecords
<1> QED
  BY <1>1, <1>2, <1>3, <1>4, MailboxAssumption DEF TypeOK, Linked, NoLink, Known, Replies

(* The idle handler has nothing to complete.                                 *)
LEMMA IdleFacts ==
  ASSUME Arrived \in Nat
  PROVE  /\ Idle \in HandlerRecords /\ HandlerOK(Idle, Arrived, Linked)
         /\ Idle.cursor = 0 /\ Idle.to = 0 /\ Idle.got = 0 /\ Idle.todo = {}
         /\ Idle.after = NoLink /\ Idle.more = NoLink /\ Idle.pc = "idle" /\ Idle.link = NoLink
         /\ Idle.push = Manual /\ Idle.resync = FALSE /\ Idle.caught = FALSE
<1>1. 0 \in 0..MaxMail
  BY MailboxAssumption
<1> QED
  BY <1>1 DEF Idle, HandlerRecords, HandlerOK, Manual, NoLink

(* As links are told more, a handler covers no less.                         *)
LEMMA CoversMore ==
  ASSUME NEW my \in HandlerRecords, NEW replies, NEW before, NEW after,
         \A l \in Known : replies[l] \subseteq Nat,
         \A l \in Known : before[l].seen \in Nat /\ after[l].seen \in Nat
                          /\ before[l].seen <= after[l].seen,
         Covers(my, replies, before)
  PROVE  Covers(my, replies, after)
<1> SUFFICES ASSUME NEW l \in Known
             PROVE  /\ UpTo(my.cursor, replies[l], after[l].seen)
                    /\ Pending(my, l, replies[l], after[l].seen)
  BY DEF Covers
<1>1. /\ UpTo(my.cursor, replies[l], before[l].seen)
      /\ Pending(my, l, replies[l], before[l].seen)
  BY DEF Covers
<1>2. \A m \in replies[l] : before[l].seen >= m => after[l].seen >= m
  OBVIOUS
<1>3. UpTo(my.cursor, replies[l], after[l].seen)
  BY <1>1, <1>2 DEF UpTo
<1>4. Pending(my, l, replies[l], after[l].seen)
  BY <1>1, <1>2 DEF Pending
<1> QED
  BY <1>3, <1>4

(* A handler that has only begun covers what its cursor covers.              *)
LEMMA CoversFresh ==
  ASSUME TypeOK, NEW my \in HandlerRecords, my.to = 0, my.more = NoLink, my.after = NoLink,
         my.cursor = 0 \/ \A l \in Known : UpTo(my.cursor, Replies[l], link[l].seen)
  PROVE  Covers(my, Replies, link)
<1> SUFFICES ASSUME NEW l \in Known
             PROVE  /\ UpTo(my.cursor, Replies[l], link[l].seen)
                    /\ Pending(my, l, Replies[l], link[l].seen)
  BY DEF Covers
<1>1. \A m \in Replies[l] : m \in Nat /\ ~(m <= 0)
  BY MailboxTypes
<1> QED
  BY <1>1 DEF UpTo, Pending

-----------------------------------------------------------------------------
(* Steps                                                                     *)

(* Links are told more, handlers and the mailbox change to what is covered.  *)
LEMMA ObservationStep ==
  ASSUME Observed, UNCHANGED mail, TypeOK',
         \A l \in Links : /\ link[l].seen <= link'[l].seen
                          /\ link[l].linked => link'[l].linked
                          /\ LinkOK(l, link'[l]),
         \A h \in Handlers :
           \/ handler'[h] = handler[h]
           \/ /\ HandlerOK(handler'[h], Arrived, Linked')
              /\ OnePage => Covers(handler'[h], Replies, link'),
         \/ UNCHANGED mailbox
         \/ /\ mailbox'.cursor <= Arrived
            /\ OnePage => MailboxCovers(mailbox', Replies, link')
  PROVE  Observed'
<1>1. Arrived' = Arrived /\ Replies' = Replies
  BY DEF Arrived, Replies, On
<1>2. Linked \subseteq Linked' /\ IsFiniteSet(Linked')
  <2>1. Linked' \in SUBSET Links
    BY DEF Linked
  <2>2. IsFiniteSet(Linked')
    BY <2>1, FS_Subset, MailboxAssumption
  <2> QED
    BY <2>2 DEF Linked
<1>3. OnePage' => OnePage
  <2>1. Linked \in SUBSET Linked' /\ BatchSize \in Nat
    BY <1>2, MailboxAssumption
  <2>2. /\ Cardinality(Linked) <= Cardinality(Linked') /\ Cardinality(Linked') \in Nat
        /\ Cardinality(Linked) \in Nat
    BY <1>2, <2>1, FS_Subset, FS_CardinalityType
  <2> QED
    BY <2>1, <2>2 DEF OnePage
<1>4. /\ \A l \in Known : Replies[l] \subseteq Nat
      /\ \A l \in Known : /\ link[l].seen \in Nat /\ link'[l].seen \in Nat
                         /\ link[l].seen <= link'[l].seen
  <2>1. \A l \in Known : l \in Links /\ Replies[l] \in SUBSET (1..Arrived) /\ link[l].seen \in 0..MaxMail
    BY MailboxTypes DEF Observed
  <2>2. \A l \in Links : link'[l].seen \in 0..MaxMail
    BY DEF TypeOK, LinkRecords
  <2> QED
    BY <2>1, <2>2
<1>5. ASSUME NEW h \in Handlers PROVE HandlerOK(handler'[h], Arrived, Linked')
  <2>1. HandlerOK(handler[h], Arrived, Linked)
    BY DEF Observed
  <2>2. HandlerOK(handler[h], Arrived, Linked')
    BY <1>2, <2>1 DEF HandlerOK
  <2> QED
    BY <2>2
<1>6. ASSUME OnePage, NEW h \in Handlers PROVE Covers(handler'[h], Replies, link')
  <2>1. Covers(handler[h], Replies, link) /\ handler[h] \in HandlerRecords
    BY <1>6, MailboxTypes DEF Observed, Complete
  <2>2. Covers(handler[h], Replies, link')
    BY <1>4, <2>1, CoversMore
  <2> QED
    BY <1>6, <2>2
<1>7. ASSUME OnePage PROVE MailboxCovers(mailbox', Replies, link')
  <2>1. MailboxCovers(mailbox, Replies, link)
    BY <1>7 DEF Observed, Complete
  <2>2. \A l \in Known : \A m \in Replies[l] : link[l].seen >= m => link'[l].seen >= m
    BY <1>4
  <2>3. MailboxCovers(mailbox, Replies, link')
    BY <2>1, <2>2 DEF MailboxCovers, UpTo
  <2> QED
    BY <1>7, <2>3
<1>8. (OnePage => Complete)'
  BY <1>1, <1>3, <1>6, <1>7 DEF Complete
<1>9. (mailbox.cursor <= Arrived)'
  BY <1>1 DEF Observed
<1> QED
  BY <1>1, <1>5, <1>8, <1>9 DEF Observed

(* One handler goes on; the links and the mailbox stay.                      *)
LEMMA HandlerGoes ==
  ASSUME Observed, NEW h \in Handlers, NEW my \in HandlerRecords,
         handler' = [handler EXCEPT ![h] = my],
         UNCHANGED <<mail, mailbox, link, gone>>,
         pushes' \in [Messages -> {"new", "processing", "completed", "failed"}],
         faults' \in 0..MaxFaults,
         HandlerOK(my, Arrived, Linked), OnePage => Covers(my, Replies, link)
  PROVE  Observed'
<1>1. /\ handler'[h] = my /\ \A g \in Handlers : g # h => handler'[g] = handler[g]
      /\ handler' \in [Handlers -> HandlerRecords]
  BY MailboxTypes DEF Observed
<1>2. TypeOK'
  BY <1>1 DEF Observed, TypeOK, Arrived
<1>3. \A l \in Links : link[l].seen <= link'[l].seen /\ LinkOK(l, link'[l])
  BY MailboxTypes DEF Observed
<1>4. Linked' = Linked
  BY DEF Linked
<1>5. \A g \in Handlers :
        \/ handler'[g] = handler[g]
        \/ HandlerOK(handler'[g], Arrived, Linked') /\ (OnePage => Covers(handler'[g], Replies, link'))
  BY <1>1, <1>4
<1> QED
  BY <1>2, <1>3, <1>5, ObservationStep

(* One link is told more, by a handler that goes on.                         *)
LEMMA LinkGoes ==
  ASSUME Observed, NEW h \in Handlers, NEW my \in HandlerRecords,
         handler' = [handler EXCEPT ![h] = my],
         NEW l \in Links, NEW record \in LinkRecords, link' = [link EXCEPT ![l] = record],
         UNCHANGED <<mail, mailbox, pushes, faults, gone>>,
         link[l].seen <= record.seen, link[l].linked => record.linked, LinkOK(l, record),
         HandlerOK(my, Arrived, Linked), OnePage => Covers(my, Replies, link')
  PROVE  Observed'
<1>1. /\ handler'[h] = my /\ \A g \in Handlers : g # h => handler'[g] = handler[g]
      /\ handler' \in [Handlers -> HandlerRecords]
      /\ link'[l] = record /\ \A k \in Links : k # l => link'[k] = link[k]
      /\ link' \in [Links -> LinkRecords]
  BY MailboxTypes DEF Observed
<1>2. TypeOK'
  BY <1>1 DEF Observed, TypeOK, Arrived
<1>3. \A k \in Links : /\ link[k].seen <= link'[k].seen
                       /\ link[k].linked => link'[k].linked
                       /\ LinkOK(k, link'[k])
  BY <1>1, MailboxTypes DEF Observed
<1>4. Linked \subseteq Linked'
  BY <1>3 DEF Linked
<1>5. HandlerOK(my, Arrived, Linked')
  BY <1>4 DEF HandlerOK
<1>6. \A g \in Handlers :
        \/ handler'[g] = handler[g]
        \/ HandlerOK(handler'[g], Arrived, Linked') /\ (OnePage => Covers(handler'[g], Replies, link'))
  BY <1>1, <1>5
<1> QED
  BY <1>2, <1>3, <1>6, ObservationStep

(* A message arrives: it is behind no position anybody knows.                *)
LEMMA ArriveStep ==
  ASSUME Observed, NEW k \in Links, Arrive(k)
  PROVE  Observed'
<1>0. /\ mail' = Append(mail, k) /\ UNCHANGED <<mailbox, pushes, link, handler, faults, gone>>
      /\ Arrived < MaxMail /\ mail \in Seq(Links) /\ Arrived \in Nat
  BY MailboxTypes DEF Arrive, Observed
<1>1. /\ mail' \in Seq(Links) /\ Arrived' = Arrived + 1
      /\ \A m \in 1..Arrived : mail'[m] = mail[m]
  BY <1>0 DEF Arrived
<1>2. TypeOK'
  BY <1>0, <1>1, MailboxAssumption DEF Observed, TypeOK
<1>3. \A l \in Links : \A m \in On(l)' : m \in Nat /\ (m <= Arrived => m \in On(l))
  <2> SUFFICES ASSUME NEW l \in Links, NEW m \in On(l)'
               PROVE  m \in Nat /\ (m <= Arrived => m \in On(l))
    OBVIOUS
  <2>1. m \in 1..(Arrived + 1) /\ mail'[m] = l
    BY <1>1 DEF On
  <2>2. m <= Arrived => m \in 1..Arrived
    BY <1>0, <2>1
  <2> QED
    BY <1>1, <2>1, <2>2 DEF On
<1>4. \A l \in Known : /\ Replies'[l] = On(l)' /\ Replies[l] = On(l) /\ l \in Links
  BY DEF Known, Replies
<1>5. ASSUME NEW h \in Handlers PROVE HandlerOK(handler[h], Arrived', Linked')
  <2>1. HandlerOK(handler[h], Arrived, Linked) /\ Linked' = Linked
    BY <1>0 DEF Observed, Linked
  <2>2. 0..Arrived \subseteq 0..Arrived'
    BY <1>0, <1>1
  <2> QED
    BY <2>1, <2>2 DEF HandlerOK
<1>6. ASSUME NEW position \in 0..Arrived, NEW l \in Known,
             UpTo(position, Replies[l], link[l].seen)
      PROVE  UpTo(position, Replies'[l], link[l].seen)
  <2>1. \A m \in On(l)' : m <= position => m \in On(l)
    BY <1>0, <1>3, <1>4
  <2> QED
    BY <1>4, <1>6, <2>1 DEF UpTo
<1>7. ASSUME OnePage, NEW h \in Handlers PROVE Covers(handler[h], Replies', link)
  <2>1. /\ Covers(handler[h], Replies, link)
        /\ handler[h].cursor \in 0..Arrived /\ handler[h].to \in 0..Arrived
    BY <1>7 DEF Observed, Complete, HandlerOK
  <2>2. ASSUME NEW l \in Known PROVE Pending(handler[h], l, Replies'[l], link[l].seen)
    <3>1. \A m \in On(l)' : m <= handler[h].to => m \in On(l)
      BY <1>0, <1>3, <1>4, <2>1
    <3> QED
      BY <1>4, <2>1, <3>1 DEF Covers, Pending
  <2>3. ASSUME NEW l \in Known PROVE UpTo(handler[h].cursor, Replies'[l], link[l].seen)
    BY <1>6, <2>1 DEF Covers
  <2> QED
    BY <2>1, <2>2, <2>3 DEF Covers
<1>8. ASSUME OnePage PROVE MailboxCovers(mailbox, Replies', link)
  <2>1. MailboxCovers(mailbox, Replies, link) /\ mailbox.cursor \in 0..Arrived
    BY <1>0, <1>8, MailboxTypes DEF Observed, Complete, MailboxRecords
  <2> QED
    BY <1>6, <2>1 DEF MailboxCovers
<1>9. (OnePage => Complete)'
  BY <1>0, <1>7, <1>8 DEF Complete, OnePage, Linked
<1>10. (mailbox.cursor <= Arrived)'
  BY <1>0, <1>1, MailboxTypes DEF Observed, MailboxRecords
<1>11. \A l \in Links : LinkOK(l, link'[l])
  BY <1>0 DEF Observed
<1> QED
  BY <1>0, <1>2, <1>5, <1>9, <1>10, <1>11 DEF Observed

(* A deleted thread leaves what is stored, and its messages, as they are.    *)
LEMMA VanishStep ==
  ASSUME Observed, NEW k \in Links, Vanish(k)
  PROVE  Observed'
<1>1. UNCHANGED <<mail, mailbox, pushes, link, handler, faults>> /\ gone' = gone \cup {k}
  BY DEF Vanish
<1>2. TypeOK' /\ Linked' = Linked /\ Arrived' = Arrived /\ Replies' = Replies
  BY <1>1 DEF Observed, TypeOK, Linked, Arrived, Replies, On
<1> QED
  BY <1>1, <1>2 DEF Observed, Complete, OnePage

(* What storing a read does to a link: it is told at least what was read.    *)
LEMMA StoredFacts ==
  ASSUME Observed, NEW l \in Linked, NEW m \in 1..Arrived, NEW after,
         after \in {Attention(l, m), Observation(l, m)}
  PROVE  \E record \in LinkRecords :
           /\ after = [link EXCEPT ![l] = record]
           /\ link[l].seen <= record.seen /\ record.linked /\ LinkOK(l, record)
           /\ record.seen >= m
<1>0. /\ l \in Links /\ link[l] \in LinkRecords /\ link \in [Links -> LinkRecords]
      /\ m \in 0..MaxMail /\ link[l].linked /\ LinkOK(l, link[l])
      /\ link[l].last \in Nat /\ link[l].seen \in Nat /\ m \in Nat
  <2>1. l \in Links /\ Arrived \in Nat /\ Arrived <= MaxMail /\ MaxMail \in Nat
    BY MailboxTypes, MailboxAssumption DEF Observed
  <2>2. link[l].linked
    BY DEF Linked
  <2> QED
    BY <2>1, <2>2, MailboxTypes DEF Observed
<1>1. CASE after = link
  <2>1. link[l].seen >= m
    BY <1>0, <1>1 DEF Attention, Observation, LinkOK, LinkRecords
  <2>2. link = [link EXCEPT ![l] = link[l]]
    BY <1>0
  <2> QED
    BY <1>0, <1>1, <2>1, <2>2
<1>2. CASE after # link
  <2>1. m >= link[l].seen
    BY <1>0, <1>2 DEF Attention, Observation
  <2>2. PICK record \in LinkRecords :
          /\ after = [link EXCEPT ![l] = record]
          /\ record.seen = m /\ record.last \in {m, link[l].last} /\ record.linked
    <3> DEFINE flagged == [link[l] EXCEPT !.seen = m, !.last = m, !.read = FALSE, !.verify = FALSE]
               noted == [link[l] EXCEPT !.seen = m, !.verify = FALSE]
    <3>1. after \in {[link EXCEPT ![l] = flagged], [link EXCEPT ![l] = noted]}
      BY <1>0, <1>2 DEF Attention, Observation
    <3>2. flagged \in LinkRecords /\ flagged.seen = m /\ flagged.last = m /\ flagged.linked
      BY <1>0 DEF LinkRecords
    <3>3. noted \in LinkRecords /\ noted.seen = m /\ noted.last = link[l].last /\ noted.linked
      BY <1>0 DEF LinkRecords
    <3> HIDE DEF flagged, noted
    <3> QED
      BY <3>1, <3>2, <3>3
  <2>3. record.last <= record.seen
    BY <1>0, <2>1, <2>2 DEF LinkOK
  <2>4. LinkOK(l, record)
    BY <2>2, <2>3 DEF LinkOK
  <2>5. record.seen >= m /\ link[l].seen <= record.seen
    BY <1>0, <2>1, <2>2
  <2> QED
    BY <2>2, <2>4, <2>5
<1> QED
  BY <1>1, <1>2

(* What the steps of a handler start from.                                   *)
LEMMA HandlerFacts ==
  ASSUME Observed, NEW h \in Handlers
  PROVE  /\ handler[h] \in HandlerRecords /\ HandlerOK(handler[h], Arrived, Linked)
         /\ OnePage => Covers(handler[h], Replies, link) /\ MailboxCovers(mailbox, Replies, link)
         /\ TypeOK /\ mailbox.cursor \in 0..Arrived /\ mailbox.after \in Links \cup {NoLink}
         /\ Arrived \in 0..MaxMail /\ 0..Arrived \subseteq 0..MaxMail /\ 0 \in 0..Arrived
BY MailboxTypes, MailboxAssumption DEF Observed, Complete, MailboxRecords

(* A handler begins something, or ends it.                                   *)
LEMMA FreshStep ==
  ASSUME Observed, NEW h \in Handlers, NEW my \in HandlerRecords,
         handler' = [handler EXCEPT ![h] = my],
         UNCHANGED <<mail, mailbox, link, gone>>,
         pushes' \in [Messages -> {"new", "processing", "completed", "failed"}],
         faults' \in 0..MaxFaults,
         my.to = 0, my.more = NoLink, my.todo = {},
         my.cursor \in 0..Arrived, my.got \in 0..Arrived,
         my.pc = "claim" => my.push # Manual,
         my.pc = "linking" => my.link # NoLink,
         my.pc \in {"marking", "observed"} => my.link \in Linked,
         OnePage => my.after = NoLink,
         \/ my.cursor = 0
         \/ OnePage => \A l \in Known : UpTo(my.cursor, Replies[l], link[l].seen)
  PROVE  Observed'
<1>1. HandlerOK(my, Arrived, Linked)
  BY HandlerFacts DEF HandlerOK
<1>2. OnePage => Covers(my, Replies, link)
  BY HandlerFacts, CoversFresh
<1> QED
  BY <1>1, <1>2, HandlerGoes

(* A handler that begins, with a push and perhaps the mailbox's position.    *)
Begins(my) ==
  /\ my \in HandlerRecords
  /\ my.to = 0 /\ my.todo = {} /\ my.more = NoLink /\ my.got = 0
  /\ my.pc \notin {"marking", "observed", "linking"}
  /\ my.pc = "claim" => my.push # Manual
  /\ my.cursor \in {0, mailbox.cursor} /\ my.after \in {NoLink, mailbox.after}

(* The forms in which it begins.                                             *)
LEMMA Beginnings ==
  ASSUME TypeOK, NEW pc \in {"saving", "start", "list", "profile", "failing"},
         NEW push \in 0..MaxMail, NEW caught \in BOOLEAN
  PROVE  /\ Begins(Idle)
         /\ Begins([Idle EXCEPT !.pc = pc])
         /\ Begins([Idle EXCEPT !.pc = pc, !.push = push])
         /\ Begins([Idle EXCEPT !.pc = pc, !.push = push, !.caught = caught])
         /\ Begins([Idle EXCEPT !.pc = pc, !.cursor = mailbox.cursor])
         /\ push # Manual => Begins([Idle EXCEPT !.pc = "claim", !.push = push,
                                    !.cursor = mailbox.cursor, !.after = mailbox.after])
<1>0. /\ Idle \in HandlerRecords /\ Idle.cursor = 0 /\ Idle.to = 0 /\ Idle.got = 0
      /\ Idle.todo = {} /\ Idle.after = NoLink /\ Idle.more = NoLink /\ Idle.pc = "idle"
      /\ mailbox.cursor \in 0..MaxMail /\ mailbox.after \in Links \cup {NoLink}
  BY IdleFacts, MailboxTypes DEF MailboxRecords
<1>1. Begins(Idle)
  BY <1>0 DEF Begins
<1>2. Begins([Idle EXCEPT !.pc = pc])
  BY <1>0 DEF Begins, HandlerRecords
<1>3. Begins([Idle EXCEPT !.pc = pc, !.push = push])
  BY <1>0 DEF Begins, HandlerRecords
<1>4. Begins([Idle EXCEPT !.pc = pc, !.cursor = mailbox.cursor])
  BY <1>0 DEF Begins, HandlerRecords
<1>5. ASSUME push # Manual
      PROVE  Begins([Idle EXCEPT !.pc = "claim", !.push = push,
                      !.cursor = mailbox.cursor, !.after = mailbox.after])
  BY <1>0, <1>5 DEF Begins, HandlerRecords
<1>6. Begins([Idle EXCEPT !.pc = pc, !.push = push, !.caught = caught])
  BY <1>0 DEF Begins, HandlerRecords
<1> QED
  BY <1>1, <1>2, <1>3, <1>4, <1>5, <1>6

(* Pushes, refreshes and the resyncs of errors begin; handlers fail and die. *)
LEMMA BeginStep ==
  ASSUME Observed, NEW h \in Handlers,
         \/ \E m \in Messages : Push(h, m)
         \/ Refresh(h) \/ StartRefresh(h) \/ Gap(h) \/ ThreadGone(h) \/ FailPush(h)
         \/ CallFails(h) \/ Die(h)
  PROVE  Observed'
<1>0. /\ Arrived \in Nat /\ pushes \in [Messages -> {"new", "processing", "completed", "failed"}]
      /\ faults \in 0..MaxFaults /\ mailbox.cursor \in 0..Arrived /\ TypeOK
      /\ 0 \in 0..Arrived /\ handler[h].push \in 0..MaxMail /\ handler[h].caught \in BOOLEAN
  BY HandlerFacts, MailboxTypes DEF TypeOK, HandlerRecords
<1>1. OnePage => /\ mailbox.after = NoLink
                 /\ \A l \in Known : UpTo(mailbox.cursor, Replies[l], link[l].seen)
  BY HandlerFacts DEF MailboxCovers
<1>2. ASSUME NEW my, Begins(my), handler' = [handler EXCEPT ![h] = my],
             UNCHANGED <<mail, mailbox, link, gone>>,
             pushes' \in [Messages -> {"new", "processing", "completed", "failed"}],
             faults' \in 0..MaxFaults
      PROVE  Observed'
  <2>1. /\ my.cursor \in 0..Arrived /\ my.got \in 0..Arrived
        /\ OnePage => my.after = NoLink
        /\ \/ my.cursor = 0
           \/ OnePage => \A l \in Known : UpTo(my.cursor, Replies[l], link[l].seen)
    BY <1>0, <1>1, <1>2 DEF Begins
  <2> QED
    BY <1>2, <2>1, FreshStep DEF Begins
<1>5. ASSUME NEW m \in Messages, Push(h, m) PROVE Observed'
  <2>1. m \in 0..MaxMail /\ m # Manual
    BY MailboxAssumption DEF Messages, Manual
  <2>2. Begins([Idle EXCEPT !.pc = "claim", !.push = m, !.cursor = mailbox.cursor,
                            !.after = mailbox.after])
    BY <1>0, <2>1, Beginnings
  <2>3. /\ handler' = [handler EXCEPT ![h] = [Idle EXCEPT !.pc = "claim", !.push = m,
                           !.cursor = mailbox.cursor, !.after = mailbox.after]]
        /\ UNCHANGED <<mail, mailbox, pushes, link, faults, gone>>
    BY <1>5 DEF Push, Becomes
  <2> QED
    BY <1>0, <1>2, <2>2, <2>3
<1>6. ASSUME Refresh(h) \/ StartRefresh(h) PROVE Observed'
  <2>1. PICK my : Begins(my) /\ handler' = [handler EXCEPT ![h] = my]
    <3>1. \/ handler' = [handler EXCEPT ![h] = [Idle EXCEPT !.pc = "saving", !.cursor = mailbox.cursor]]
          \/ handler' = [handler EXCEPT ![h] = [Idle EXCEPT !.pc = "start"]]
          \/ handler' = [handler EXCEPT ![h] = [Idle EXCEPT !.pc = "profile"]]
          \/ handler' = [handler EXCEPT ![h] = [Idle EXCEPT !.pc = "list", !.cursor = mailbox.cursor]]
      BY <1>6 DEF Refresh, StartRefresh, Becomes
    <3> QED
      BY <1>0, <3>1, Beginnings
  <2>2. UNCHANGED <<mail, mailbox, pushes, link, faults, gone>>
    BY <1>6 DEF Refresh, StartRefresh
  <2> QED
    BY <1>0, <1>2, <2>1, <2>2
<1>7. ASSUME Gap(h) \/ ThreadGone(h) PROVE Observed'
  <2>1. PICK caught \in BOOLEAN, pc \in {"profile", "failing"} :
          handler' = [handler EXCEPT
            ![h] = [Idle EXCEPT !.pc = pc, !.push = handler[h].push, !.caught = caught]]
    BY <1>0, <1>7 DEF Gap, ThreadGone, Becomes
  <2>2. Begins([Idle EXCEPT !.pc = pc, !.push = handler[h].push, !.caught = caught])
    BY <1>0, Beginnings
  <2>3. UNCHANGED <<mail, mailbox, pushes, link, faults, gone>>
    BY <1>7 DEF Gap, ThreadGone
  <2> QED
    BY <1>0, <1>2, <2>1, <2>2, <2>3
<1>8. ASSUME FailPush(h) \/ CallFails(h) \/ Die(h) PROVE Observed'
  <2>1. PICK my : Begins(my) /\ handler' = [handler EXCEPT ![h] = my]
    <3>1. \/ handler' = [handler EXCEPT ![h] = [Idle EXCEPT !.pc = "failing", !.push = handler[h].push]]
          \/ handler' = [handler EXCEPT ![h] = Idle]
      BY <1>8 DEF FailPush, CallFails, Die, Becomes
    <3> QED
      BY <1>0, <3>1, Beginnings
  <2>2. faults' \in 0..MaxFaults /\ UNCHANGED <<mail, mailbox, link, gone>>
    BY <1>0, <1>8, MailboxAssumption DEF FailPush, CallFails, Die
  <2>3. pushes' \in [Messages -> {"new", "processing", "completed", "failed"}]
    BY <1>0, <1>8 DEF FailPush, CallFails, Die
  <2> QED
    BY <1>2, <2>1, <2>2, <2>3
<1> QED
  BY <1>5, <1>6, <1>7, <1>8

(* A push is claimed, and the handler goes on from what it read before.      *)
LEMMA ClaimStep ==
  ASSUME Observed, NEW h \in Handlers, ClaimPush(h)
  PROVE  Observed'
<1>0. /\ handler[h] \in HandlerRecords /\ HandlerOK(handler[h], Arrived, Linked)
      /\ OnePage => Covers(handler[h], Replies, link)
      /\ handler[h].pc = "claim" /\ UNCHANGED <<mail, mailbox, link, faults, gone>>
      /\ pushes \in [Messages -> {"new", "processing", "completed", "failed"}]
      /\ handler \in [Handlers -> HandlerRecords] /\ faults \in 0..MaxFaults
      /\ Arrived \in 0..MaxMail /\ 0 \in 0..Arrived /\ Arrived \in Nat
  BY HandlerFacts, MailboxTypes DEF ClaimPush, TypeOK
<1>1. pushes' \in [Messages -> {"new", "processing", "completed", "failed"}]
  BY <1>0 DEF ClaimPush
<1>2. CASE handler' = [handler EXCEPT ![h] = Idle]
  BY <1>0, <1>1, <1>2, IdleFacts, FreshStep
<1>3. CASE handler' = [handler EXCEPT
             ![h].pc = IF handler[h].after # NoLink THEN "profile" ELSE "list",
             ![h].after = NoLink, ![h].cursor = IF handler[h].after # NoLink THEN 0 ELSE @]
  <2> DEFINE pc == IF handler[h].after # NoLink THEN "profile" ELSE "list"
             cursor == IF handler[h].after # NoLink THEN 0 ELSE handler[h].cursor
             my == [handler[h] EXCEPT !.pc = pc, !.after = NoLink, !.cursor = cursor]
  <2>1. handler' = [handler EXCEPT ![h] = my]
    BY <1>0, <1>3
  <2>2. /\ pc \in {"profile", "list"} /\ cursor \in {0, handler[h].cursor}
        /\ cursor \in 0..MaxMail /\ cursor \in 0..Arrived
    BY <1>0, MailboxAssumption DEF HandlerOK, HandlerRecords
  <2> HIDE DEF pc, cursor
  <2>3. /\ my \in HandlerRecords /\ my.pc = pc /\ my.after = NoLink /\ my.cursor = cursor
        /\ my.to = handler[h].to /\ my.todo = handler[h].todo /\ my.more = handler[h].more
        /\ my.got = handler[h].got /\ my.link = handler[h].link
    BY <1>0, <2>2 DEF HandlerRecords
  <2> HIDE DEF my
  <2>4. HandlerOK(my, Arrived, Linked)
    BY <1>0, <2>2, <2>3 DEF HandlerOK
  <2>5. ASSUME OnePage PROVE Covers(my, Replies, link)
    <3> SUFFICES ASSUME NEW l \in Known
                 PROVE  /\ UpTo(cursor, Replies[l], link[l].seen)
                        /\ Pending(my, l, Replies[l], link[l].seen)
      BY <1>0, <2>3, <2>5 DEF Covers
    <3>1. /\ UpTo(handler[h].cursor, Replies[l], link[l].seen)
          /\ Pending(handler[h], l, Replies[l], link[l].seen)
      BY <1>0, <2>5 DEF Covers
    <3>2. \A m \in Replies[l] : ~(m <= 0)
      BY MailboxTypes DEF Observed
    <3> QED
      BY <1>0, <2>2, <2>3, <3>1, <3>2 DEF UpTo, Pending
  <2> QED
    BY <1>0, <1>1, <2>1, <2>3, <2>4, <2>5, HandlerGoes
<1> QED
  BY <1>2, <1>3 DEF ClaimPush, Becomes

(* A manual refresh stores what it read: a position that is covered.         *)
LEMMA SaveStep ==
  ASSUME Observed, NEW h \in Handlers, SaveMailbox(h)
  PROVE  Observed'
<1> DEFINE my == [Idle EXCEPT !.pc = "start"]
           state == [cursor |-> handler[h].cursor, after |-> NoLink, watching |-> FALSE]
<1>0. /\ handler[h] \in HandlerRecords /\ HandlerOK(handler[h], Arrived, Linked) /\ TypeOK
      /\ OnePage => Covers(handler[h], Replies, link)
      /\ handler \in [Handlers -> HandlerRecords] /\ Arrived \in Nat
  BY HandlerFacts, MailboxTypes
<1>1. /\ mailbox' = state /\ handler' = [handler EXCEPT ![h] = my]
      /\ UNCHANGED <<mail, pushes, link, faults, gone>>
  BY DEF SaveMailbox, Becomes
<1>2. my \in HandlerRecords /\ HandlerOK(my, Arrived, Linked) /\ my.to = 0 /\ my.more = NoLink
      /\ my.after = NoLink /\ my.cursor = 0
  BY <1>0, IdleFacts DEF HandlerRecords, HandlerOK
<1> HIDE DEF my
<1>3. /\ state \in MailboxRecords /\ state.cursor = handler[h].cursor /\ state.after = NoLink
      /\ state.cursor <= Arrived
  BY <1>0 DEF HandlerRecords, MailboxRecords, HandlerOK
<1> HIDE DEF state
<1>4. OnePage => MailboxCovers(state, Replies, link)
  BY <1>0, <1>3 DEF Covers, MailboxCovers
<1>5. OnePage => Covers(my, Replies, link)
  BY <1>0, <1>2, CoversFresh
<1>6. /\ handler'[h] = my /\ \A g \in Handlers : g # h => handler'[g] = handler[g]
      /\ handler' \in [Handlers -> HandlerRecords]
  BY <1>0, <1>1, <1>2
<1>7. TypeOK'
  BY <1>0, <1>1, <1>3, <1>6 DEF TypeOK, Arrived
<1>8. Linked' = Linked
  BY <1>1 DEF Linked
<1>9. \A l \in Links : link[l].seen <= link'[l].seen /\ LinkOK(l, link'[l])
  BY <1>1, MailboxTypes DEF Observed
<1>10. \A g \in Handlers :
         \/ handler'[g] = handler[g]
         \/ HandlerOK(handler'[g], Arrived, Linked') /\ (OnePage => Covers(handler'[g], Replies, link'))
  BY <1>1, <1>2, <1>5, <1>6, <1>8
<1>11. mailbox'.cursor <= Arrived /\ (OnePage => MailboxCovers(mailbox', Replies, link'))
  BY <1>1, <1>3, <1>4
<1> QED
  BY <1>1, <1>7, <1>9, <1>10, <1>11, ObservationStep

(* The history after a cursor names the thread of every later reply.         *)
LEMMA ListStep ==
  ASSUME Observed, NEW h \in Handlers, ListHistory(h)
  PROVE  Observed'
<1> DEFINE new == {m \in 1..Arrived : m > handler[h].cursor}
           todo == {mail[m] : m \in new} \cap Linked
           my == [Idle EXCEPT !.pc = "reading", !.push = handler[h].push, !.to = Arrived,
                              !.todo = todo]
<1>0. /\ handler[h] \in HandlerRecords /\ HandlerOK(handler[h], Arrived, Linked)
      /\ OnePage => Covers(handler[h], Replies, link)
      /\ Arrived \in 0..MaxMail /\ 0 \in 0..Arrived /\ Arrived \in Nat
      /\ Linked \subseteq Links
      /\ pushes \in [Messages -> {"new", "processing", "completed", "failed"}]
      /\ faults \in 0..MaxFaults
  BY HandlerFacts, MailboxTypes DEF TypeOK
<1>1. handler' = [handler EXCEPT ![h] = my] /\ UNCHANGED <<mail, mailbox, pushes, link, faults, gone>>
  BY DEF ListHistory, Becomes
<1>2. ASSUME NEW l \in Known, NEW m \in On(l), m > handler[h].cursor
      PROVE  l \in todo
  <2>1. m \in new /\ mail[m] = l /\ l \in Links /\ l \notin Unlinked
    BY <1>2 DEF On, Known
  <2>2. l \in Linked
    BY <2>1 DEF Observed, LinkOK, Linked
  <2> QED
    BY <2>1, <2>2
<1>3. todo \subseteq Linked
  OBVIOUS
<1> HIDE DEF todo
<1>4. /\ my \in HandlerRecords /\ my.pc = "reading" /\ my.to = Arrived /\ my.todo = todo
      /\ my.cursor = 0 /\ my.got = 0 /\ my.after = NoLink /\ my.more = NoLink
  BY <1>0, <1>3, IdleFacts DEF HandlerRecords
<1> HIDE DEF my
<1>5. HandlerOK(my, Arrived, Linked)
  BY <1>0, <1>3, <1>4 DEF HandlerOK
<1>6. ASSUME OnePage PROVE Covers(my, Replies, link)
  <2> SUFFICES ASSUME NEW l \in Known
               PROVE  /\ UpTo(0, Replies[l], link[l].seen)
                      /\ Pending(my, l, Replies[l], link[l].seen)
    BY <1>4 DEF Covers
  <2>1. /\ Replies[l] = On(l) /\ On(l) \in SUBSET (1..Arrived)
        /\ handler[h].cursor \in 0..Arrived
    BY <1>0, MailboxTypes DEF Observed, HandlerOK
  <2>2. UpTo(handler[h].cursor, Replies[l], link[l].seen)
    BY <1>0, <1>6 DEF Covers
  <2>3. \A m \in On(l) : ~(m <= 0) /\ (m <= handler[h].cursor \/ m > handler[h].cursor)
    BY <1>0, <2>1
  <2>4. UpTo(0, Replies[l], link[l].seen)
    BY <2>1, <2>3 DEF UpTo
  <2>5. \A m \in On(l) : link[l].seen >= m \/ l \in my.todo
    BY <1>2, <1>4, <2>1, <2>2, <2>3 DEF UpTo
  <2>6. Pending(my, l, Replies[l], link[l].seen)
    BY <2>1, <2>5 DEF Pending
  <2> QED
    BY <2>4, <2>6
<1> QED
  BY <1>0, <1>1, <1>4, <1>5, <1>6, HandlerGoes

(* A batch is of links; unless it is the rest of them, it has a last one.    *)
LEMMA BatchFacts ==
  ASSUME TypeOK, NEW after
  PROVE  /\ Batch(after) \subseteq Linked
         /\ ~(Remaining(after) \subseteq Batch(after)) => Greatest(Batch(after)) \in Links
<1> DEFINE rest == Remaining(after)
           batch == Batch(after)
<1>1. /\ rest \subseteq Linked /\ batch \subseteq rest /\ Linked \subseteq Links
      /\ IsFiniteSet(Linked) /\ Links \subseteq Nat /\ BatchSize \in Nat /\ BatchSize > 0
  BY MailboxTypes, MailboxAssumption DEF Remaining, Batch
<1>2. ASSUME ~(rest \subseteq batch) PROVE Greatest(batch) \in Links
  <2>1. rest # {} /\ rest \in SUBSET Nat
    BY <1>1, <1>2
  <2>2. Least(rest) \in rest /\ \A k \in rest : Least(rest) <= k
    BY <2>1, LeastFacts
  <2>3. {k \in rest : k < Least(rest)} = {}
    BY <2>1, <2>2
  <2>4. Cardinality({k \in rest : k < Least(rest)}) < BatchSize
    BY <1>1, <2>3, FS_EmptySet
  <2>5. Least(rest) \in batch
    BY <2>2, <2>4 DEF Batch
  <2>6. batch \in SUBSET Linked /\ batch \in SUBSET Nat /\ batch # {}
    BY <1>1, <2>5
  <2>7. IsFiniteSet(batch)
    BY <1>1, <2>6, FS_Subset
  <2>8. Greatest(batch) \in batch
    BY <2>6, <2>7, GreatestFacts
  <2> QED
    BY <1>1, <2>8
<1> QED
  BY <1>1, <1>2

(* One page that is large enough covers all linked threads.                  *)
LEMMA OnePageFacts ==
  ASSUME TypeOK, OnePage
  PROVE  Remaining(NoLink) = Linked /\ Batch(NoLink) = Linked
<1>1. Linked \subseteq Links /\ IsFiniteSet(Linked) /\ Links \subseteq Nat \ {0}
  BY MailboxTypes, MailboxAssumption
<1>2. Remaining(NoLink) = Linked
  <2>1. \A l \in Linked : l > NoLink
    BY <1>1 DEF NoLink
  <2> QED
    BY <2>1 DEF Remaining
<1>3. ASSUME NEW l \in Linked PROVE Cardinality({k \in Linked : k < l}) < BatchSize
  <2> DEFINE before == {k \in Linked : k < l}
  <2>1. before \in SUBSET Linked /\ l \notin before
    BY <1>1
  <2>2. /\ IsFiniteSet(before) /\ Cardinality(before) <= Cardinality(Linked)
        /\ Cardinality(Linked) # Cardinality(before)
    BY <1>1, <2>1, FS_Subset
  <2>3. Cardinality(before) \in Nat /\ Cardinality(Linked) \in Nat /\ BatchSize \in Nat
    BY <1>1, <2>2, FS_CardinalityType, MailboxAssumption
  <2> HIDE DEF before
  <2>4. Cardinality(before) < BatchSize
    BY <2>2, <2>3 DEF OnePage
  <2> QED
    BY <2>4 DEF before
<1>4. Batch(NoLink) = Linked
  BY <1>2, <1>3 DEF Batch
<1> QED
  BY <1>2, <1>4

(* A resync takes a batch; when one page is enough, all of the links.        *)
LEMMA ProfileStep ==
  ASSUME Observed, NEW h \in Handlers, Profile(h)
  PROVE  Observed'
<1> DEFINE batch == Batch(mailbox.after)
           last == Remaining(mailbox.after) \subseteq batch
           more == IF last THEN NoLink ELSE Greatest(batch)
           to == IF last THEN Arrived ELSE mailbox.cursor
           my == [Idle EXCEPT !.pc = "reading", !.push = handler[h].push, !.resync = TRUE,
                              !.todo = batch, !.caught = handler[h].caught, !.more = more,
                              !.to = to]
<1>0. /\ handler[h] \in HandlerRecords /\ TypeOK
      /\ OnePage => MailboxCovers(mailbox, Replies, link)
      /\ Arrived \in 0..MaxMail /\ 0 \in 0..Arrived /\ Arrived \in Nat
      /\ mailbox.cursor \in 0..Arrived /\ 0..Arrived \subseteq 0..MaxMail
      /\ Linked \subseteq Links
      /\ pushes \in [Messages -> {"new", "processing", "completed", "failed"}]
      /\ faults \in 0..MaxFaults
  BY HandlerFacts, MailboxTypes DEF TypeOK
<1>1. handler' = [handler EXCEPT ![h] = my] /\ UNCHANGED <<mail, mailbox, pushes, link, faults, gone>>
  BY DEF Profile, Becomes
<1>2. batch \subseteq Linked /\ more \in Links \cup {NoLink} /\ to \in 0..Arrived
  BY <1>0, BatchFacts
<1>3. OnePage => batch = Linked /\ more = NoLink
  BY <1>0, OnePageFacts DEF MailboxCovers
<1> HIDE DEF batch, more, to
<1>4. /\ my \in HandlerRecords /\ my.pc = "reading" /\ my.to = to /\ my.todo = batch
      /\ my.cursor = 0 /\ my.got = 0 /\ my.after = NoLink /\ my.more = more
  BY <1>0, <1>2, IdleFacts DEF HandlerRecords
<1> HIDE DEF my
<1>5. HandlerOK(my, Arrived, Linked)
  BY <1>0, <1>2, <1>4 DEF HandlerOK
<1>6. ASSUME OnePage PROVE Covers(my, Replies, link)
  <2> SUFFICES ASSUME NEW l \in Known
               PROVE  /\ UpTo(0, Replies[l], link[l].seen)
                      /\ Pending(my, l, Replies[l], link[l].seen)
    BY <1>3, <1>4, <1>6 DEF Covers
  <2>1. Replies[l] \in SUBSET (1..Arrived)
    BY MailboxTypes DEF Observed
  <2>2. l \in Linked
    BY DEF Observed, LinkOK, Linked, Known
  <2> QED
    BY <1>3, <1>4, <1>6, <2>1, <2>2 DEF UpTo, Pending
<1> QED
  BY <1>0, <1>1, <1>4, <1>5, <1>6, HandlerGoes

(* One link may only have been marked as doubtful.                           *)
LEMMA DoubtFacts ==
  ASSUME Observed, NEW l \in Links
  PROVE  \E record \in LinkRecords :
           /\ NeedsVerification(l) = [link EXCEPT ![l] = record]
           /\ record.seen = link[l].seen /\ record.linked = link[l].linked
           /\ record.last = link[l].last /\ record.read = link[l].read /\ LinkOK(l, record)
<1> DEFINE record == [link[l] EXCEPT !.verify = TRUE]
<1>0. link[l] \in LinkRecords /\ link \in [Links -> LinkRecords] /\ LinkOK(l, link[l])
  BY MailboxTypes DEF Observed
<1>1. /\ record \in LinkRecords /\ record.seen = link[l].seen /\ record.linked = link[l].linked
      /\ record.last = link[l].last /\ record.read = link[l].read
  BY <1>0 DEF LinkRecords
<1>2. NeedsVerification(l) = [link EXCEPT ![l] = record]
  BY <1>0 DEF NeedsVerification
<1> HIDE DEF record
<1>3. LinkOK(l, record)
  BY <1>0, <1>1 DEF LinkOK
<1> QED
  BY <1>1, <1>2, <1>3

(* A thread is read: what it holds now is no older than what is pending.     *)
LEMMA ReadStep ==
  ASSUME Observed, NEW h \in Handlers, ReadThread(h)
  PROVE  Observed'
<1> DEFINE my == handler[h]
           l == Least(my.todo)
<1>0. /\ my \in HandlerRecords /\ HandlerOK(my, Arrived, Linked) /\ TypeOK
      /\ OnePage => Covers(my, Replies, link)
      /\ Arrived \in 0..MaxMail /\ 0 \in 0..Arrived /\ Arrived \in Nat
      /\ 0..Arrived \subseteq 0..MaxMail /\ Linked \subseteq Links
      /\ pushes \in [Messages -> {"new", "processing", "completed", "failed"}]
      /\ faults \in 0..MaxFaults /\ NoLink \notin Links
  BY HandlerFacts, MailboxTypes DEF TypeOK
<1>1. /\ my.pc = "reading" /\ my.todo # {} /\ UNCHANGED <<mail, mailbox, pushes, faults, gone>>
  BY DEF ReadThread
<1>2. l \in my.todo /\ l \in Links /\ l \in Linked /\ my.todo \subseteq Links
  <2>1. my.todo \subseteq Linked /\ my.todo \in SUBSET Nat
    BY <1>0, MailboxAssumption DEF HandlerOK
  <2> QED
    BY <1>0, <1>1, <2>1, LeastFacts
<1>3. CASE /\ l \notin Long /\ UNCHANGED link
           /\ Becomes(h, [my EXCEPT !.pc = "marking", !.todo = @ \ {l}, !.link = l,
                                    !.got = Greatest(On(l))])
  <2> DEFINE got == Greatest(On(l))
             todo == my.todo \ {l}
             next == [my EXCEPT !.pc = "marking", !.todo = todo, !.link = l, !.got = got]
  <2>1. handler' = [handler EXCEPT ![h] = next]
    BY <1>0, <1>3 DEF Becomes
  <2>2. On(l) \in SUBSET (0..Arrived)
    BY <1>0, <1>2, MailboxTypes
  <2>3. got \in 0..Arrived /\ \A m \in On(l) : m <= got
    BY <1>0, <2>2, BoundedFacts
  <2>4. todo \subseteq my.todo /\ \A k \in my.todo : k # l => k \in todo
    OBVIOUS
  <2> HIDE DEF got, todo, l
  <2>5. /\ next \in HandlerRecords /\ next.pc = "marking" /\ next.todo = todo /\ next.link = l
        /\ next.got = got /\ next.cursor = my.cursor /\ next.to = my.to /\ next.push = my.push
        /\ next.after = my.after /\ next.more = my.more
    BY <1>0, <1>2, <2>3, <2>4 DEF HandlerRecords
  <2> HIDE DEF next, my
  <2>6. HandlerOK(next, Arrived, Linked)
    BY <1>0, <1>2, <2>3, <2>4, <2>5 DEF HandlerOK
  <2>7. ASSUME OnePage PROVE Covers(next, Replies, link)
    <3> SUFFICES ASSUME NEW k \in Known
                 PROVE  /\ UpTo(my.cursor, Replies[k], link[k].seen)
                        /\ Pending(next, k, Replies[k], link[k].seen)
      BY <1>0, <2>5, <2>7 DEF Covers
    <3>1. UpTo(my.cursor, Replies[k], link[k].seen) /\ Pending(my, k, Replies[k], link[k].seen)
      BY <1>0, <2>7 DEF Covers
    <3>2. k = l => Replies[k] = On(l)
      BY <1>2 DEF Replies
    <3>3. \A m \in Replies[k] : got >= m \/ k # l
      BY <2>3, <3>2, <2>2
    <3>4. Pending(next, k, Replies[k], link[k].seen)
      BY <1>1, <2>4, <2>5, <3>1, <3>3 DEF Pending
    <3> QED
      BY <3>1, <3>4
  <2> QED
    BY <1>0, <1>1, <1>3, <2>1, <2>5, <2>6, <2>7, HandlerGoes
<1>4. CASE /\ l \in Long /\ UNCHANGED link
           /\ Becomes(h, [my EXCEPT !.todo = @ \ {l}])
  <2> DEFINE todo == my.todo \ {l}
             next == [my EXCEPT !.todo = todo]
  <2>1. handler' = [handler EXCEPT ![h] = next]
    BY <1>0, <1>4 DEF Becomes
  <2>2. todo \subseteq my.todo /\ \A k \in my.todo : k # l => k \in todo
    OBVIOUS
  <2> HIDE DEF todo, l
  <2>3. /\ next \in HandlerRecords /\ next.pc = "reading" /\ next.todo = todo
        /\ next.link = my.link /\ next.push = my.push
        /\ next.got = my.got /\ next.cursor = my.cursor /\ next.to = my.to
        /\ next.after = my.after /\ next.more = my.more
    BY <1>0, <1>1, <1>2, <2>2 DEF HandlerRecords
  <2> HIDE DEF next, my
  <2>4. HandlerOK(next, Arrived, Linked)
    BY <1>0, <2>2, <2>3 DEF HandlerOK
  <2>5. ASSUME OnePage PROVE Covers(next, Replies, link)
    <3> SUFFICES ASSUME NEW k \in Known
                 PROVE  /\ UpTo(my.cursor, Replies[k], link[k].seen)
                        /\ Pending(next, k, Replies[k], link[k].seen)
      BY <1>0, <2>3, <2>5 DEF Covers
    <3>1. UpTo(my.cursor, Replies[k], link[k].seen) /\ Pending(my, k, Replies[k], link[k].seen)
      BY <1>0, <2>5 DEF Covers
    <3>2. k # l
      BY <1>4 DEF Known
    <3>3. Pending(next, k, Replies[k], link[k].seen)
      BY <1>1, <2>2, <2>3, <3>1, <3>2 DEF Pending
    <3> QED
      BY <3>1, <3>3
  <2> QED
    BY <1>0, <1>1, <1>4, <2>1, <2>3, <2>4, <2>5, HandlerGoes
<1>5. CASE /\ link' = NeedsVerification(l)
           /\ Becomes(h, [Idle EXCEPT !.pc = "failing", !.push = my.push])
  <2> DEFINE next == [Idle EXCEPT !.pc = "failing", !.push = my.push]
  <2>1. handler' = [handler EXCEPT ![h] = next]
    BY <1>5 DEF Becomes
  <2>2. /\ next \in HandlerRecords /\ next.pc = "failing" /\ next.to = 0 /\ next.todo = {}
        /\ next.more = NoLink /\ next.got = 0 /\ next.cursor = 0 /\ next.after = NoLink
    BY <1>0, IdleFacts DEF HandlerRecords
  <2>3. PICK record \in LinkRecords :
          /\ link' = [link EXCEPT ![l] = record] /\ record.seen = link[l].seen
          /\ record.linked = link[l].linked /\ LinkOK(l, record)
    BY <1>2, <1>5, DoubtFacts
  <2> HIDE DEF next, l, my
  <2>4. HandlerOK(next, Arrived, Linked)
    BY <1>0, <2>2 DEF HandlerOK
  <2>5. Covers(next, Replies, link')
    <3>1. \A k \in Known : \A m \in Replies[k] : ~(m <= 0)
      BY <1>0, MailboxTypes
    <3> QED
      BY <2>2, <3>1 DEF Covers, UpTo, Pending
  <2>6. link[l].seen <= record.seen
    BY <1>0, <1>2, <2>3, MailboxTypes
  <2> QED
    BY <1>1, <1>2, <2>1, <2>2, <2>3, <2>4, <2>5, <2>6, LinkGoes
<1> QED
  BY <1>3, <1>4, <1>5 DEF ReadThread

(* What was read is stored: the link is told at least that.                  *)
LEMMA MarkStep ==
  ASSUME Observed, NEW h \in Handlers, Mark(h)
  PROVE  Observed'
<1> DEFINE my == handler[h]
           l == my.link
           next == [my EXCEPT !.pc = "reading", !.link = NoLink, !.got = 0]
<1>0. /\ my \in HandlerRecords /\ HandlerOK(my, Arrived, Linked) /\ TypeOK
      /\ OnePage => Covers(my, Replies, link) /\ handler \in [Handlers -> HandlerRecords]
      /\ Arrived \in 0..MaxMail /\ 0 \in 0..Arrived /\ Arrived \in Nat /\ 0 \in 0..MaxMail
      /\ Linked \subseteq Links
      /\ pushes \in [Messages -> {"new", "processing", "completed", "failed"}]
      /\ faults \in 0..MaxFaults
  BY HandlerFacts, MailboxTypes DEF TypeOK
<1>1. /\ my.pc = "marking" /\ UNCHANGED <<mail, mailbox, pushes, faults, gone>>
      /\ handler' = [handler EXCEPT ![h] = next]
      /\ link' = IF my.got = 0 THEN link ELSE Attention(l, my.got)
  BY <1>0 DEF Mark
<1>2. l \in Linked /\ l \in Links /\ my.got \in 0..Arrived
  BY <1>0, <1>1 DEF HandlerOK
<1>3. /\ next \in HandlerRecords /\ next.pc = "reading" /\ next.link = NoLink /\ next.got = 0
      /\ next.todo = my.todo /\ next.cursor = my.cursor /\ next.to = my.to
      /\ next.after = my.after /\ next.more = my.more /\ next.push = my.push
  BY <1>0 DEF HandlerRecords
<1> HIDE DEF next
<1>4. HandlerOK(next, Arrived, Linked)
  BY <1>0, <1>3 DEF HandlerOK
<1>5. \A k \in Known : /\ k \in Links /\ link[k].seen \in Nat /\ Replies[k] \in SUBSET (1..Arrived)
  BY <1>0, MailboxTypes
<1>6. ASSUME NEW links, OnePage,
             \A k \in Known : links[k].seen \in Nat /\ link[k].seen <= links[k].seen
                              /\ (k = l => links[k].seen >= my.got)
      PROVE  Covers(next, Replies, links)
  <2> SUFFICES ASSUME NEW k \in Known
               PROVE  /\ UpTo(my.cursor, Replies[k], links[k].seen)
                      /\ Pending(next, k, Replies[k], links[k].seen)
    BY <1>0, <1>3, <1>6 DEF Covers
  <2>1. UpTo(my.cursor, Replies[k], link[k].seen) /\ Pending(my, k, Replies[k], link[k].seen)
    BY <1>0, <1>6 DEF Covers
  <2>2. \A m \in Replies[k] : link[k].seen >= m => links[k].seen >= m
    BY <1>2, <1>5, <1>6
  <2>5. \A m \in Replies[k] : k = l /\ my.got >= m => links[k].seen >= m
    BY <1>2, <1>5, <1>6
  <2>3. UpTo(my.cursor, Replies[k], links[k].seen)
    BY <2>1, <2>2 DEF UpTo
  <2>4. ASSUME NEW m \in Replies[k], m <= my.to
        PROVE  links[k].seen >= m \/ k \in my.todo
    BY <2>1, <2>2, <2>4, <2>5 DEF Pending
  <2>6. Pending(next, k, Replies[k], links[k].seen)
    BY <1>3, <2>4 DEF Pending
  <2> QED
    BY <2>3, <2>6
<1>7. CASE my.got = 0
  <2>1. OnePage => Covers(next, Replies, link)
    BY <1>5, <1>6, <1>7
  <2> QED
    BY <1>0, <1>1, <1>3, <1>4, <1>7, <2>1, HandlerGoes
<1>8. CASE my.got # 0
  <2>0. my.got \in 1..Arrived
    BY <1>0, <1>2, <1>8
  <2> HIDE DEF l
  <2>1. PICK record \in LinkRecords :
          /\ link' = [link EXCEPT ![l] = record] /\ link[l].seen <= record.seen
          /\ record.linked /\ LinkOK(l, record) /\ record.seen >= my.got
    BY <1>1, <1>2, <1>8, <2>0, StoredFacts
  <2>2. \A k \in Known : link'[k].seen \in Nat /\ link[k].seen <= link'[k].seen
                         /\ (k = l => link'[k].seen >= my.got)
    <3>1. record.seen \in Nat /\ link \in [Links -> LinkRecords]
      BY <1>0, MailboxTypes DEF LinkRecords
    <3> QED
      BY <1>5, <2>1, <3>1
  <2>3. OnePage => Covers(next, Replies, link')
    BY <1>6, <2>2
  <2> QED
    BY <1>1, <1>2, <1>3, <1>4, <2>1, <2>3, LinkGoes
<1> QED
  BY <1>7, <1>8

(* A handler that knows nothing covers itself, whatever the links say.       *)
LEMMA CoversNothing ==
  ASSUME TypeOK, NEW links
  PROVE  Covers(Idle, Replies, links)
<1>1. \A k \in Known : \A m \in Replies[k] : ~(m <= 0)
  BY MailboxTypes
<1>2. Idle.cursor = 0 /\ Idle.to = 0 /\ Idle.after = NoLink /\ Idle.more = NoLink
  BY MailboxTypes, IdleFacts
<1> QED
  BY <1>1, <1>2 DEF Covers, UpTo, Pending

(* One link changes, and no handler.                                         *)
LEMMA LinkOnly ==
  ASSUME Observed, UNCHANGED <<mail, mailbox, pushes, handler, faults, gone>>,
         NEW l \in Links, NEW record \in LinkRecords, link' = [link EXCEPT ![l] = record],
         link[l].seen = record.seen, link[l].linked = record.linked, LinkOK(l, record)
  PROVE  Observed'
<1>1. /\ link'[l] = record /\ \A k \in Links : k # l => link'[k] = link[k]
      /\ link' \in [Links -> LinkRecords]
  BY MailboxTypes DEF Observed
<1>2. TypeOK'
  BY <1>1 DEF Observed, TypeOK, Arrived
<1>3. \A k \in Links : /\ link[k].seen <= link'[k].seen
                       /\ link[k].linked => link'[k].linked
                       /\ LinkOK(k, link'[k])
  BY <1>1, MailboxTypes DEF Observed
<1> QED
  BY <1>2, <1>3, ObservationStep

(* A push is completed: everything it may complete is on the links.          *)
LEMMA CompleteStep ==
  ASSUME Observed, NEW h \in Handlers, CompletePush(h)
  PROVE  Observed'
<1> DEFINE my == handler[h]
           cursor == Greatest({mailbox.cursor, my.to})
           after == IF my.resync THEN my.more ELSE mailbox.after
           state == [cursor |-> cursor, after |-> after,
                     watching |-> after = NoLink /\ my.push # Manual]
<1>0. /\ my \in HandlerRecords /\ HandlerOK(my, Arrived, Linked) /\ TypeOK
      /\ OnePage => Covers(my, Replies, link) /\ MailboxCovers(mailbox, Replies, link)
      /\ handler \in [Handlers -> HandlerRecords] /\ mailbox.after \in Links \cup {NoLink}
      /\ mailbox.cursor \in 0..Arrived /\ Arrived \in Nat /\ 0..Arrived \subseteq 0..MaxMail
      /\ pushes \in [Messages -> {"new", "processing", "completed", "failed"}]
  BY HandlerFacts, MailboxTypes DEF TypeOK
<1>1. /\ my.pc = "reading" /\ my.todo = {} /\ UNCHANGED <<mail, link, faults, gone>>
      /\ mailbox' = state /\ handler' = [handler EXCEPT ![h] = Idle]
      /\ pushes' = IF my.push = Manual THEN pushes ELSE [pushes EXCEPT ![my.push] = "completed"]
  BY DEF CompletePush, Becomes
<1>2. pushes' \in [Messages -> {"new", "processing", "completed", "failed"}]
  BY <1>0, <1>1
<1>3. cursor \in 0..Arrived /\ cursor \in {mailbox.cursor, my.to}
  <2>1. {mailbox.cursor, my.to} \in SUBSET Nat /\ {mailbox.cursor, my.to} # {}
        /\ IsFiniteSet({mailbox.cursor, my.to})
    <3>1. IsFiniteSet({mailbox.cursor} \cup {my.to})
      BY FS_Singleton, FS_AddElement
    <3>2. {mailbox.cursor, my.to} = {mailbox.cursor} \cup {my.to}
      OBVIOUS
    <3>3. {mailbox.cursor, my.to} \subseteq 0..Arrived
      BY <1>0 DEF HandlerOK
    <3> QED
      BY SMTT(30), <1>0, <3>1, <3>2, <3>3
  <2>2. Greatest({mailbox.cursor, my.to}) \in {mailbox.cursor, my.to}
    BY <2>1, GreatestFacts
  <2> QED
    BY <1>0, <2>2 DEF HandlerOK
<1>4. after \in Links \cup {NoLink} /\ (OnePage => after = NoLink)
  BY <1>0 DEF HandlerRecords, Covers, MailboxCovers
<1> HIDE DEF cursor, after
<1>5. state \in MailboxRecords /\ state.cursor = cursor /\ state.after = after
  BY <1>0, <1>3, <1>4 DEF MailboxRecords
<1> HIDE DEF state
<1>6. ASSUME OnePage PROVE MailboxCovers(state, Replies, link)
  <2> SUFFICES ASSUME NEW l \in Known PROVE UpTo(cursor, Replies[l], link[l].seen)
    BY <1>4, <1>5, <1>6 DEF MailboxCovers
  <2>1. UpTo(mailbox.cursor, Replies[l], link[l].seen) /\ Pending(my, l, Replies[l], link[l].seen)
    BY <1>0, <1>6 DEF Covers, MailboxCovers
  <2>2. UpTo(my.to, Replies[l], link[l].seen)
    BY <1>1, <2>1 DEF Pending, UpTo
  <2> QED
    BY <1>3, <2>1, <2>2
<1>7. /\ handler'[h] = Idle /\ \A g \in Handlers : g # h => handler'[g] = handler[g]
      /\ handler' \in [Handlers -> HandlerRecords]
  BY <1>0, <1>1, IdleFacts
<1>8. TypeOK'
  BY <1>0, <1>1, <1>2, <1>5, <1>7 DEF TypeOK, Arrived
<1>9. \A l \in Links : link[l].seen <= link'[l].seen /\ LinkOK(l, link'[l])
  BY <1>1, MailboxTypes DEF Observed
<1>10. Linked' = Linked
  BY <1>1 DEF Linked
<1>11. \A g \in Handlers :
         \/ handler'[g] = handler[g]
         \/ HandlerOK(handler'[g], Arrived, Linked') /\ (OnePage => Covers(handler'[g], Replies, link'))
  BY <1>0, <1>7, <1>10, IdleFacts, CoversNothing
<1>12. mailbox'.cursor <= Arrived /\ (OnePage => MailboxCovers(mailbox', Replies, link'))
  BY <1>0, <1>1, <1>3, <1>5, <1>6
<1> QED
  BY <1>1, <1>8, <1>9, <1>11, <1>12, ObservationStep

(* Staff read a thread and its messages, or link another thread.             *)
LEMMA StaffStep ==
  ASSUME Observed,
         \/ \E l \in Links : MarkRead(l)
         \/ \E h \in Handlers, l \in Links : ObserveThread(h, l) \/ LinkThread(h, l)
         \/ \E h \in Handlers : StoreObservation(h) \/ SaveLink(h)
  PROVE  Observed'
<1>0. /\ TypeOK /\ link \in [Links -> LinkRecords] /\ handler \in [Handlers -> HandlerRecords]
      /\ Arrived \in Nat /\ 0 \in 0..Arrived /\ Linked \subseteq Links /\ NoLink \notin Links
      /\ pushes \in [Messages -> {"new", "processing", "completed", "failed"}]
      /\ faults \in 0..MaxFaults /\ Arrived \in 0..MaxMail /\ 0..Arrived \subseteq 0..MaxMail
      /\ \A l \in Links : LinkOK(l, link[l]) /\ link[l] \in LinkRecords
  BY MailboxTypes, MailboxAssumption DEF Observed, TypeOK
<1>1. ASSUME NEW l \in Links, MarkRead(l) PROVE Observed'
  <2> DEFINE record == [link[l] EXCEPT !.read = TRUE]
  <2>1. /\ link' = [link EXCEPT ![l] = record]
        /\ UNCHANGED <<mail, mailbox, pushes, handler, faults, gone>>
    BY <1>0, <1>1 DEF MarkRead
  <2>2. /\ record \in LinkRecords /\ record.seen = link[l].seen /\ record.linked = link[l].linked
        /\ record.last = link[l].last
    BY <1>0 DEF LinkRecords
  <2> HIDE DEF record
  <2>3. LinkOK(l, record)
    BY <1>0, <2>2 DEF LinkOK
  <2> QED
    BY <2>1, <2>2, <2>3, LinkOnly
<1>2. ASSUME NEW h \in Handlers, NEW l \in Links, NEW pc \in {"observed", "linking"},
             NEW got \in 0..Arrived, pc = "observed" => l \in Linked,
             handler' = [handler EXCEPT ![h] = [Idle EXCEPT !.pc = pc, !.link = l, !.got = got]],
             UNCHANGED <<mail, mailbox, pushes, link, faults, gone>>
      PROVE  Observed'
  <2> DEFINE my == [Idle EXCEPT !.pc = pc, !.link = l, !.got = got]
  <2>1. handler' = [handler EXCEPT ![h] = my]
    BY <1>2
  <2>2. /\ my \in HandlerRecords /\ my.pc = pc /\ my.link = l /\ my.got = got /\ my.cursor = 0
        /\ my.to = 0 /\ my.todo = {} /\ my.more = NoLink /\ my.after = NoLink
    BY <1>0, IdleFacts DEF HandlerRecords
  <2> HIDE DEF my
  <2>3. /\ my.cursor \in 0..Arrived /\ my.got \in 0..Arrived
        /\ my.pc # "claim" /\ my.link # NoLink
        /\ my.pc \in {"marking", "observed"} => my.link \in Linked
    BY <1>0, <1>2, <2>2
  <2> QED
    BY <1>0, <1>2, <2>1, <2>2, <2>3, FreshStep
<1>3. ASSUME NEW l \in Links PROVE Greatest(On(l)) \in 0..Arrived
  BY <1>0, MailboxTypes, BoundedFacts
<1>4. ASSUME NEW h \in Handlers, NEW l \in Links, ObserveThread(h, l) PROVE Observed'
  <2>1. CASE l \in Long \cup gone
    <3>1. PICK record \in LinkRecords :
            /\ link' = [link EXCEPT ![l] = record] /\ record.seen = link[l].seen
            /\ record.linked = link[l].linked /\ LinkOK(l, record)
      BY <1>4, <2>1, DoubtFacts DEF ObserveThread
    <3>2. UNCHANGED <<mail, mailbox, pushes, handler, faults, gone>>
      BY <1>4, <2>1 DEF ObserveThread
    <3> QED
      BY <3>1, <3>2, LinkOnly
  <2>2. CASE l \notin Long \cup gone
    <3>1. /\ handler' = [handler EXCEPT ![h] = [Idle EXCEPT !.pc = "observed", !.link = l,
                                                            !.got = Greatest(On(l))]]
          /\ UNCHANGED <<mail, mailbox, pushes, link, faults, gone>>
      BY <1>4, <2>2 DEF ObserveThread, Becomes
    <3>2. l \in Linked
      BY <1>4 DEF ObserveThread, Linked
    <3> QED
      BY <1>2, <1>3, <3>1, <3>2
  <2> QED
    BY <2>1, <2>2
<1>5. ASSUME NEW h \in Handlers, NEW l \in Links, LinkThread(h, l) PROVE Observed'
  <2> DEFINE got == IF l \in Long THEN 0 ELSE Greatest(On(l))
  <2>1. /\ handler' = [handler EXCEPT ![h] = [Idle EXCEPT !.pc = "linking", !.link = l, !.got = got]]
        /\ UNCHANGED <<mail, mailbox, pushes, link, faults, gone>>
    BY <1>5 DEF LinkThread, Becomes
  <2>2. got \in 0..Arrived
    BY <1>0, <1>3
  <2> HIDE DEF got
  <2> QED
    BY <1>2, <2>1, <2>2
<1>6. ASSUME NEW h \in Handlers, StoreObservation(h) PROVE Observed'
  <2> DEFINE l == handler[h].link
             got == handler[h].got
  <2>1. /\ l \in Linked /\ l \in Links /\ got \in 0..Arrived
        /\ handler' = [handler EXCEPT ![h] = Idle]
        /\ UNCHANGED <<mail, mailbox, pushes, faults, gone>>
        /\ link' = IF got = 0 THEN NeedsVerification(l) ELSE Observation(l, got)
    BY <1>0, <1>6, HandlerFacts DEF StoreObservation, HandlerOK, Becomes
  <2> HIDE DEF l, got
  <2>2. PICK record \in LinkRecords :
          /\ link' = [link EXCEPT ![l] = record] /\ link[l].seen <= record.seen
          /\ LinkOK(l, record) /\ record.linked
    <3>1. CASE got = 0
      <4>1. PICK record \in LinkRecords :
              /\ link' = [link EXCEPT ![l] = record] /\ record.seen = link[l].seen
              /\ record.linked = link[l].linked /\ LinkOK(l, record)
        BY <2>1, <3>1, DoubtFacts
      <4>2. link[l].seen <= record.seen /\ link[l].linked
        BY <1>0, <2>1, <4>1, MailboxTypes DEF Linked
      <4> QED
        BY <4>1, <4>2
    <3>2. CASE got # 0
      <4>1. got \in 1..Arrived
        BY <1>0, <2>1, <3>2
      <4> QED
        BY <2>1, <3>2, <4>1, StoredFacts
    <3> QED
      BY <3>1, <3>2
  <2>3. Idle \in HandlerRecords /\ HandlerOK(Idle, Arrived, Linked) /\ Covers(Idle, Replies, link')
    BY <1>0, IdleFacts, CoversNothing
  <2> QED
    BY <2>1, <2>2, <2>3, LinkGoes
<1>7. ASSUME NEW h \in Handlers, SaveLink(h) PROVE Observed'
  <2> DEFINE l == handler[h].link
             got == handler[h].got
             record == [link[l] EXCEPT !.linked = TRUE, !.seen = got, !.verify = (got = 0)]
  <2>1. /\ l \in Links \cup {NoLink} /\ l # NoLink /\ got \in 0..Arrived
        /\ handler' = [handler EXCEPT ![h] = Idle] /\ ~link[l].linked
        /\ UNCHANGED <<mail, mailbox, pushes, faults, gone>>
    BY <1>0, <1>7, HandlerFacts DEF SaveLink, HandlerOK, HandlerRecords, Becomes
  <2>2. link' = [link EXCEPT ![l] = record] /\ l \in Links
    BY <1>0, <1>7, <2>1 DEF SaveLink
  <2> HIDE DEF l, got
  <2>3. /\ record \in LinkRecords /\ record.linked /\ record.seen = got
        /\ record.last = link[l].last
    BY <1>0, <2>1, <2>2 DEF LinkRecords
  <2> HIDE DEF record
  <2>4. /\ link[l].seen = 0 /\ link[l].last <= link[l].seen /\ link[l].last \in 0..MaxMail
    BY <1>0, <2>1, <2>2, MailboxTypes DEF LinkOK
  <2>5. link[l].seen <= record.seen /\ LinkOK(l, record)
    BY <1>0, <2>1, <2>3, <2>4 DEF LinkOK
  <2> QED
    BY <1>0, <2>1, <2>2, <2>3, <2>5, IdleFacts, CoversNothing, LinkGoes
<1> QED
  BY <1>1, <1>4, <1>5, <1>6, <1>7

-----------------------------------------------------------------------------
(* The invariant and its consequences                                        *)

(* In the beginning nothing has arrived.                                     *)
LEMMA InitObserved == Init => Observed
<1> SUFFICES ASSUME Init PROVE Observed
  OBVIOUS
<1>0. mail = <<>> /\ Arrived = 0 /\ 0 \in 0..MaxMail /\ 0 \in 0..MaxFaults
  BY MailboxAssumption DEF Init, Arrived
<1>1. TypeOK
  <2>1. mail \in Seq(Links) /\ Arrived <= MaxMail
    BY <1>0, MailboxAssumption
  <2>2. mailbox \in MailboxRecords
    BY <1>0 DEF Init, MailboxRecords
  <2>3. link \in [Links -> LinkRecords]
    BY <1>0 DEF Init, LinkRecords
  <2>4. Idle \in HandlerRecords
    BY <1>0, IdleFacts
  <2> QED
    BY <1>0, <2>1, <2>2, <2>3, <2>4 DEF Init, TypeOK
<1>2. \A l \in Links : LinkOK(l, link[l])
  <2> SUFFICES ASSUME NEW l \in Links PROVE LinkOK(l, link[l])
    OBVIOUS
  <2>1. link[l].last = 0 /\ link[l].seen = 0
    BY DEF Init
  <2>2. l \notin Unlinked => link[l].linked
    BY DEF Init
  <2> QED
    BY <2>1, <2>2 DEF LinkOK
<1>3. \A h \in Handlers : HandlerOK(handler[h], Arrived, Linked)
  BY <1>0, IdleFacts DEF Init
<1>4. \A h \in Handlers : Covers(handler[h], Replies, link)
  BY <1>1, CoversNothing DEF Init
<1>5. MailboxCovers(mailbox, Replies, link)
  <2>1. \A k \in Known : \A m \in Replies[k] : ~(m <= 0)
    BY <1>1, MailboxTypes
  <2> QED
    BY <2>1 DEF Init, MailboxCovers, UpTo
<1>6. mailbox.cursor <= Arrived
  BY <1>0 DEF Init
<1> QED
  BY <1>1, <1>2, <1>3, <1>4, <1>5, <1>6 DEF Observed, Complete

(* Every step keeps the invariant.                                           *)
LEMMA NextObserved == Observed /\ [Next]_vars => Observed'
<1> SUFFICES ASSUME Observed, [Next]_vars PROVE Observed'
  OBVIOUS
<1>1. CASE UNCHANGED vars
  <2>1. UNCHANGED <<mail, mailbox, pushes, link, handler, faults, gone>>
    BY <1>1 DEF vars
  <2>2. TypeOK' /\ Linked' = Linked /\ Arrived' = Arrived /\ Replies' = Replies
    BY <2>1 DEF Observed, TypeOK, Linked, Arrived, Replies, On
  <2> QED
    BY <2>1, <2>2 DEF Observed, Complete, OnePage
<1>2. CASE \E l \in Links : Arrive(l) \/ Vanish(l)
  BY <1>2, ArriveStep, VanishStep
<1>3. CASE \/ \E l \in Links : MarkRead(l)
           \/ \E h \in Handlers, l \in Links : ObserveThread(h, l) \/ LinkThread(h, l)
           \/ \E h \in Handlers : StoreObservation(h) \/ SaveLink(h)
  BY <1>3, StaffStep
<1>4. ASSUME NEW h \in Handlers,
             \/ \E m \in Messages : Push(h, m)
             \/ Refresh(h) \/ StartRefresh(h) \/ Gap(h) \/ ThreadGone(h) \/ FailPush(h)
             \/ CallFails(h) \/ Die(h)
      PROVE  Observed'
  BY <1>4, BeginStep
<1>5. ASSUME NEW h \in Handlers,
             \/ SaveMailbox(h) \/ ClaimPush(h) \/ ListHistory(h) \/ Profile(h) \/ ReadThread(h)
             \/ Mark(h) \/ CompletePush(h)
      PROVE  Observed'
  BY <1>5, SaveStep, ClaimStep, ListStep, ProfileStep, ReadStep, MarkStep, CompleteStep
<1> QED
  BY <1>1, <1>2, <1>3, <1>4, <1>5 DEF Next, Serve, Fault

(* The inductive invariant of the observation holds of every behaviour.      *)
THEOREM ObservationKept == Spec => []Observed
BY InitObserved, NextObserved, PTL DEF Spec

(* MailboxInv of the run: no reply on a readable thread linked from the      *)
(* start is lost between the history, the resync and the stored cursor of    *)
(* processGmailPushNotification, while one page covers the linked threads.   *)
THEOREM NoReplyIsLost == Spec => []MailboxInv
<1>1. Observed => MailboxInv
  <2> SUFFICES ASSUME Observed, OnePage, NEW l \in Linked \ (Unlinked \cup Long),
                      NEW m \in Messages, m <= mailbox.cursor, m \in On(l)
               PROVE  link[l].seen >= m
    BY DEF MailboxInv, RepliesAreFound, OnePage, Observed
  <2>1. l \in Known /\ Replies[l] = On(l)
    BY MailboxTypes DEF Observed, Known
  <2> QED
    BY <2>1 DEF Observed, Complete, MailboxCovers, UpTo
<1> QED
  BY <1>1, ObservationKept, PTL

(* What a step does to a link: it is told more, and a reply that was read    *)
(* is raised again only for a newer one, or when a doubt ends.               *)
LEMMA ContactStep ==
  ASSUME Observed, [Next]_vars, NEW l \in Links
  PROVE  /\ link'[l].seen >= link[l].seen /\ link'[l].last >= link[l].last
         /\ link[l].read /\ ~link'[l].read =>
              link'[l].last > link[l].last \/ link[l].verify
<1>0. /\ link \in [Links -> LinkRecords] /\ link[l] \in LinkRecords /\ LinkOK(l, link[l])
      /\ link[l].seen \in Nat /\ link[l].last \in Nat /\ Linked \subseteq Links /\ Arrived \in Nat
      /\ NoLink \notin Links
  BY MailboxTypes DEF Observed
<1> DEFINE Goal == /\ link'[l].seen >= link[l].seen /\ link'[l].last >= link[l].last
                   /\ link[l].read /\ ~link'[l].read =>
                        link'[l].last > link[l].last \/ link[l].verify
<1>1. ASSUME link'[l] = link[l] PROVE Goal
  BY <1>0, <1>1
<1>2. ASSUME NEW k \in Links, link' = NeedsVerification(k) PROVE Goal
  <2>1. /\ link'[l].seen = link[l].seen /\ link'[l].last = link[l].last
        /\ link'[l].read = link[l].read
    BY <1>0, <1>2 DEF NeedsVerification, LinkRecords
  <2> QED
    BY <1>0, <2>1
<1>3. ASSUME NEW k \in Links, NEW m \in 1..Arrived, link' = Attention(k, m) PROVE Goal
  <2>1. CASE k # l \/ link' = link
    BY <1>0, <1>1, <1>3, <2>1 DEF Attention
  <2>2. CASE k = l /\ link' # link
    <3>1. m >= link[l].seen /\ (link[l].last # m \/ link[l].verify) /\ m \in Nat
      BY <1>0, <1>3, <2>2 DEF Attention
    <3>2. link'[l].seen = m /\ link'[l].last = m
      BY <1>0, <1>3, <2>2 DEF Attention, LinkRecords
    <3>3. link[l].last <= link[l].seen
      BY <1>0 DEF LinkOK
    <3> QED
      BY <1>0, <3>1, <3>2, <3>3
  <2> QED
    BY <2>1, <2>2
<1>4. ASSUME NEW k \in Links, NEW m \in 1..Arrived, link' = Observation(k, m) PROVE Goal
  <2>1. CASE k # l \/ link' = link
    BY <1>0, <1>1, <1>4, <2>1 DEF Observation
  <2>2. CASE k = l /\ link' # link
    <3>1. m >= link[l].seen /\ m \in Nat
      BY <1>0, <1>4, <2>2 DEF Observation
    <3>2. link'[l].seen = m /\ link'[l].last = link[l].last /\ link'[l].read = link[l].read
      BY <1>0, <1>4, <2>2 DEF Observation, LinkRecords
    <3> QED
      BY <1>0, <3>1, <3>2
  <2> QED
    BY <2>1, <2>2
<1>5. ASSUME NEW h \in Handlers, SaveLink(h) PROVE Goal
  <2> DEFINE k == handler[h].link
  <2>1. /\ ~link[k].linked /\ k \in Links /\ handler[h].got \in 0..Arrived
        /\ link' = [link EXCEPT ![k].linked = TRUE, ![k].seen = handler[h].got,
                                ![k].verify = (handler[h].got = 0)]
    BY <1>0, <1>5, HandlerFacts DEF SaveLink, HandlerOK, HandlerRecords
  <2> HIDE DEF k
  <2>2. CASE k # l
    BY <1>0, <1>1, <2>1, <2>2
  <2>3. CASE k = l
    <3>1. link[l].seen = 0
      BY <1>0, <2>1, <2>3 DEF LinkOK
    <3>2. /\ link'[l].seen = handler[h].got /\ link'[l].last = link[l].last
          /\ link'[l].read = link[l].read
      BY <1>0, <2>1, <2>3 DEF LinkRecords
    <3> QED
      BY <1>0, <2>1, <3>1, <3>2
  <2> QED
    BY <2>2, <2>3
<1>6. ASSUME NEW k \in Links, MarkRead(k) PROVE Goal
  <2>1. link' = [link EXCEPT ![k].read = TRUE]
    BY <1>6 DEF MarkRead
  <2>2. /\ link'[l].seen = link[l].seen /\ link'[l].last = link[l].last
        /\ link[l].read => link'[l].read
    BY <1>0, <2>1 DEF LinkRecords
  <2> QED
    BY <1>0, <2>2
<1>7. ASSUME NEW h \in Handlers, Mark(h) PROVE Goal
  <2>1. handler[h].link \in Linked /\ handler[h].got \in 0..Arrived
    BY <1>7, HandlerFacts DEF Mark, HandlerOK
  <2>2. CASE handler[h].got = 0
    BY <1>1, <1>7, <2>2 DEF Mark
  <2>3. CASE handler[h].got # 0
    <3>1. handler[h].got \in 1..Arrived /\ link' = Attention(handler[h].link, handler[h].got)
      BY <1>0, <1>7, <2>1, <2>3 DEF Mark
    <3> QED
      BY <1>0, <1>3, <2>1, <3>1
  <2> QED
    BY <2>2, <2>3
<1>8. ASSUME NEW h \in Handlers, StoreObservation(h) PROVE Goal
  <2>1. handler[h].link \in Linked /\ handler[h].got \in 0..Arrived
    BY <1>8, HandlerFacts DEF StoreObservation, HandlerOK
  <2>2. CASE handler[h].got = 0
    BY <1>0, <1>2, <1>8, <2>1, <2>2 DEF StoreObservation
  <2>3. CASE handler[h].got # 0
    <3>1. handler[h].got \in 1..Arrived /\ link' = Observation(handler[h].link, handler[h].got)
      BY <1>0, <1>8, <2>1, <2>3 DEF StoreObservation
    <3> QED
      BY <1>0, <1>4, <2>1, <3>1
  <2> QED
    BY <2>2, <2>3
<1>9. ASSUME NEW h \in Handlers, ReadThread(h) PROVE Goal
  <2>1. CASE UNCHANGED link
    BY <1>1, <2>1
  <2>2. CASE link' = NeedsVerification(Least(handler[h].todo))
    <3>1. handler[h].todo \in SUBSET Nat /\ handler[h].todo \subseteq Links /\ handler[h].todo # {}
      BY <1>0, <1>9, HandlerFacts, MailboxAssumption DEF ReadThread, HandlerOK
    <3>2. Least(handler[h].todo) \in Links
      BY <3>1, LeastFacts
    <3> QED
      BY <1>2, <2>2, <3>2
  <2> QED
    BY <1>9, <2>1, <2>2 DEF ReadThread
<1>10. ASSUME NEW h \in Handlers, NEW k \in Links, ObserveThread(h, k) PROVE Goal
  BY <1>1, <1>2, <1>10 DEF ObserveThread
<1>11. ASSUME UNCHANGED link PROVE Goal
  BY <1>1, <1>11
<1> HIDE DEF Goal
<1>12. ASSUME NEW h \in Handlers, \/ \E m \in Messages : Push(h, m)
                                 \/ \E k \in Links : LinkThread(h, k)
       PROVE  Goal
  BY <1>11, <1>12 DEF Push, LinkThread
<1>13. ASSUME NEW h \in Handlers,
              \/ Refresh(h) \/ StartRefresh(h) \/ Gap(h) \/ ThreadGone(h) \/ FailPush(h)
              \/ CallFails(h) \/ Die(h)
              \/ SaveMailbox(h) \/ ClaimPush(h) \/ ListHistory(h) \/ Profile(h) \/ CompletePush(h)
       PROVE  Goal
  BY <1>11, <1>13 DEF Refresh, StartRefresh, Gap, ThreadGone, FailPush, CallFails, Die,
                      SaveMailbox, ClaimPush, ListHistory, Profile, CompletePush
<1>14. ASSUME NEW k \in Links, Arrive(k) \/ Vanish(k) PROVE Goal
  BY <1>11, <1>14 DEF Arrive, Vanish
<1>15. ASSUME UNCHANGED vars PROVE Goal
  BY <1>11, <1>15 DEF vars
<1>16. Goal
  BY <1>5, <1>6, <1>7, <1>8, <1>9, <1>10, <1>12, <1>13, <1>14, <1>15 DEF Next, Serve, Fault
<1> QED
  BY <1>16 DEF Goal

(* ContactNeverGoesBack of the run: no interleaving of pushes, refreshes and *)
(* staff moves the contact of a link backwards, or raises a reply twice.     *)
THEOREM ContactIsMonotonic == Spec => ContactNeverGoesBack
<1>1. Observed /\ [Next]_vars =>
        [\A l \in Links :
           /\ link'[l].seen >= link[l].seen /\ link'[l].last >= link[l].last
           /\ link[l].read /\ ~link'[l].read =>
                link'[l].last > link[l].last \/ link[l].verify]_vars
  BY ContactStep
<1> QED
  BY <1>1, ObservationKept, PTL DEF Spec, ContactNeverGoesBack
=============================================================================
