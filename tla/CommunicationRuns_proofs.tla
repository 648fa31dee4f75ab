--------------------- MODULE CommunicationRuns_proofs ---------------------
(***************************************************************************)
(* Theorems about the two runs that go over the communications: the        *)
(* scheduled worker, and the retention run.                                *)
(*                                                                         *)
(* The worker (SequenceWorker), for every number of communications, runs   *)
(* and page sizes and every lease longer than the budget.  Leased says     *)
(* what the lease of a working run is: nobody else's, and as long as the   *)
(* run still has.  Rotation says what the run that claimed last knows of   *)
(* the communications still owed to this rotation: each is on its page or  *)
(* beyond it.                                                              *)
(*                                                                         *)
(* Retention (CommunicationRetention), for every set of records, runs and  *)
(* overlapping executions, and any number of deaths.  A run's plan is      *)
(* bounded when it is frozen and never changes; every execution carries a  *)
(* part of it; processed and failed candidates are disjoint parts of it.   *)
(* A record once retired stays so, under the run that retired it, which is *)
(* why the count of a run is exact.  What is needed is kept because its    *)
(* need and its retirement are decided in one transaction.                 *)
(***************************************************************************)
EXTENDS SequenceWorker, CommunicationRetention, TLAPS, FiniteSetTheorems,
        WellFoundedInduction

-----------------------------------------------------------------------------
(* Pages                                                                     *)

(* A set of naturals has a least element.                                    *)
LEMMA LeastExists ==
  ASSUME NEW S \in SUBSET Nat, S # {}
  PROVE  \E x \in S : \A y \in S : x <= y
<1>1. \E x \in S : \A y \in S : ~(<<y, x>> \in OpToRel(<, Nat))
  BY NatLessThanWellFounded, WFMin
<1>2. PICK x \in S : \A y \in S : ~(<<y, x>> \in OpToRel(<, Nat))
  BY <1>1
<1>3. \A y \in S : ~(y < x)
  BY <1>2 DEF OpToRel
<1> QED
  BY <1>3

(* Min is that element.                                                      *)
LEMMA MinFacts ==
  ASSUME NEW S \in SUBSET Nat, S # {}
  PROVE  Min(S) \in S /\ \A y \in S : Min(S) <= y
BY LeastExists DEF Min

(* A set of naturals within a bound has a greatest element, Max.             *)
LEMMA MaxFacts ==
  ASSUME NEW n \in Nat, NEW S \in SUBSET (0..n), S # {}
  PROVE  Max(S) \in S /\ \A y \in S : y <= Max(S)
<1> DEFINE T == {n - s : s \in S}
<1>1. T \in SUBSET Nat /\ T # {}
  <2>1. \A s \in S : s \in Nat /\ s <= n /\ n - s \in Nat
    OBVIOUS
  <2>2. PICK s \in S : TRUE
    OBVIOUS
  <2>3. n - s \in T
    BY <2>2
  <2> QED
    BY <2>1, <2>3
<1>2. PICK t \in T : \A u \in T : t <= u
  BY <1>1, LeastExists
<1>3. PICK s \in S : t = n - s
  BY <1>2
<1>4. \A y \in S : n - s <= n - y
  BY <1>2, <1>3
<1>5. \A y \in S : s >= y
  BY <1>4
<1> QED
  BY <1>5 DEF Max

(* The first ones of a set, up to a page.                                    *)
PageOf(after) == {s \in after : Cardinality({t \in after : t <= s}) <= PageLimit}

(* The page after a cursor: what is owed is on it or, when it was full,      *)
(* beyond its last one.                                                      *)
LEMMA PageFacts ==
  ASSUME NEW after \in SUBSET Communications, NEW page, NEW next,
         page = PageOf(after),
         next = IF Cardinality(page) = PageLimit THEN Max(page) ELSE 0
  PROVE  /\ page \subseteq after
         /\ next \in 0..Last
         /\ \A s \in after : s \in page \/ (next # 0 /\ s > next)
         /\ next # 0 => next \in page /\ \A t \in page : t <= next
<1> DEFINE Upto(s) == {t \in after : t <= s}
<1>0. /\ Last \in Nat /\ PageLimit \in Nat /\ PageLimit # 0
      /\ after \subseteq 1..Last /\ after \subseteq 0..Last /\ after \subseteq Nat
  BY WorkerAssumption DEF Communications
<1>1. IsFiniteSet(after)
  <2>1. IsFiniteSet(1..Last) /\ after \in SUBSET (1..Last)
    BY <1>0, FS_Interval
  <2> QED
    BY <2>1, FS_Subset
<1>2. page \in SUBSET after /\ IsFiniteSet(page) /\ Cardinality(page) \in Nat
  <2>1. page \in SUBSET after
    BY DEF PageOf
  <2> QED
    BY <1>1, <2>1, FS_Subset, FS_CardinalityType
<1>3. \A s \in after : IsFiniteSet(Upto(s)) /\ Cardinality(Upto(s)) \in Nat
  <2> TAKE s \in after
  <2>1. Upto(s) \in SUBSET after
    OBVIOUS
  <2> QED
    BY <1>1, <2>1, FS_Subset, FS_CardinalityType
<1>4. \A s, m \in after : s <= m => Cardinality(Upto(s)) <= Cardinality(Upto(m))
  <2> SUFFICES ASSUME NEW s \in after, NEW m \in after, s <= m
               PROVE  Cardinality(Upto(s)) <= Cardinality(Upto(m))
    OBVIOUS
  <2>1. Upto(s) \in SUBSET Upto(m)
    <3> SUFFICES ASSUME NEW t \in after, t <= s PROVE t <= m
      OBVIOUS
    <3>1. t \in Nat /\ s \in Nat /\ m \in Nat
      BY <1>0
    <3> QED
      BY <3>1
  <2> QED
    BY <1>3, <2>1, FS_Subset
<1>5. \A s \in after : s \in page <=> Cardinality(Upto(s)) <= PageLimit
  BY DEF PageOf
<1>6. CASE Cardinality(page) = PageLimit
  <2>1. page # {} /\ page \in SUBSET (0..Last)
    BY <1>0, <1>2, <1>6, FS_EmptySet
  <2>2. next = Max(page) /\ Max(page) \in page /\ \A y \in page : y <= Max(page)
    BY <1>0, <1>6, <2>1, MaxFacts
  <2> HIDE DEF Upto
  <2>3. next \in after /\ next \in Nat /\ next # 0 /\ next \in 0..Last
    <3>1. next \in after
      BY ONLY <1>2, <2>2
    <3>2. next \in 1..Last
      BY ONLY <1>0, <3>1
    <3> QED
      BY <1>0, <3>1, <3>2
  <2>4. ASSUME NEW s \in after, s \notin page PROVE s > next
    <3>1. CASE s <= next
      <4>1. Cardinality(Upto(s)) <= Cardinality(Upto(next))
        BY <1>4, <2>3, <3>1
      <4>2. Cardinality(Upto(next)) <= PageLimit
        BY <1>5, <2>2, <2>3
      <4>3. Cardinality(Upto(s)) <= PageLimit
        BY <1>0, <1>3, <2>3, <4>1, <4>2
      <4> QED
        BY <1>5, <2>4, <4>3
    <3>2. s \in Nat
      BY <1>0
    <3> QED
      BY <2>3, <3>1, <3>2
  <2>5. /\ page \subseteq after /\ next \in page /\ \A t \in page : t <= next
        /\ \A s \in after : s \in page \/ s > next
    BY ONLY <1>2, <2>2, <2>4
  <2> QED
    BY <2>3, <2>5
<1>7. CASE Cardinality(page) # PageLimit
  <2>1. next = 0 /\ 0 \in 0..Last
    BY <1>0, <1>7
  <2>2. after \subseteq page
    <3> SUFFICES ASSUME after \ page # {} PROVE FALSE
      OBVIOUS
    <3>1. after \ page \in SUBSET Nat
      BY <1>0
    <3>2. PICK s \in after \ page : \A y \in after \ page : s <= y
      BY <3>1, LeastExists
    <3>3. Upto(s) \in SUBSET (page \cup {s})
      <4> SUFFICES ASSUME NEW t \in after, t <= s, t \notin page PROVE t = s
        OBVIOUS
      <4>1. s <= t
        BY <3>2
      <4>2. t \in Nat /\ s \in Nat
        BY <1>0, <3>2
      <4> QED
        BY <4>1, <4>2
    <3>4. IsFiniteSet(page \cup {s}) /\ Cardinality(page \cup {s}) = Cardinality(page) + 1
      <4>1. s \notin page /\ IsFiniteSet(page)
        BY <1>2, <3>2
      <4> QED
        BY ONLY <4>1, FS_AddElement
    <3>5. Cardinality(Upto(s)) <= Cardinality(page) + 1
      <4>1. Cardinality(Upto(s)) <= Cardinality(page \cup {s})
        BY ONLY <3>3, <3>4, FS_Subset
      <4> QED
        BY <3>4, <4>1
    <3>6. Cardinality(Upto(s)) > PageLimit
      BY <1>0, <1>3, <1>5, <3>2
    <3> HIDE DEF Upto
    <3>7. Cardinality(page) >= PageLimit
      BY <1>0, <1>2, <1>3, <3>2, <3>5, <3>6
    <3>8. Cardinality(page) > PageLimit
      BY ONLY <1>0, <1>2, <1>7, <3>7
    <3>9. page # {} /\ page \in SUBSET (0..Last)
      <4>1. page \in SUBSET (0..Last)
        BY ONLY <1>0, <1>2
      <4>2. page # {}
        BY ONLY <1>0, <3>8, FS_EmptySet
      <4> QED
        BY <4>1, <4>2
    <3>10. PICK m \in page : \A y \in page : y <= m
      BY <1>0, <3>9, MaxFacts
    <3>11. page \in SUBSET Upto(m)
      BY <1>2, <3>10 DEF Upto
    <3>12. Cardinality(page) <= Cardinality(Upto(m))
      BY <1>2, <1>3, <3>10, <3>11, FS_Subset
    <3>13. Cardinality(Upto(m)) <= PageLimit
      BY <1>2, <1>5, <3>10
    <3> QED
      BY <1>0, <1>2, <1>3, <3>8, <3>10, <3>12, <3>13
  <2> QED
    BY <1>2, <2>1, <2>2
<1> QED
  BY <1>6, <1>7

-----------------------------------------------------------------------------
(* The lease and the rotation                                                *)

(* The lease of a run that works within it is its own, and what it has left. *)
Leased(r) ==
  run[r].pc # "idle" /\ run[r].elapsed < Lease =>
    worker.run = r /\ worker.lease = Lease - run[r].elapsed

(* The run that claimed last stands at the stored cursor or beyond, and what *)
(* is owed is on its page or after it.                                       *)
Rotation(r) ==
  worker.run = r =>
    /\ run[r].pc = "claimed" => run[r].cursor = worker.cursor
    /\ run[r].pc \in {"paging", "inspecting"} =>
         /\ run[r].cursor >= worker.cursor
         /\ run[r].next # 0 => run[r].next >= run[r].cursor
         /\ \A s \in owed :
              s > run[r].cursor /\ (s \in run[r].page \/ (run[r].next # 0 /\ s > run[r].next))
         /\ \A s \in run[r].page :
              s > run[r].cursor /\ (run[r].next # 0 => s <= run[r].next)

Sound == TypeOK /\ NoneSkipped /\ \A r \in Runs : Leased(r) /\ Rotation(r)

(* What no step does to the stored cursor, and where an inspection begins.   *)
Forward == worker'.cursor # 0 => worker'.cursor >= worker.cursor
UnderLease ==
  \A r \in Runs :
    run[r].pc = "paging" /\ run'[r].pc = "inspecting" => worker.run = r /\ worker.lease > 0

(* The numbers are numbers.                                                  *)
LEMMA NumberFacts ==
  ASSUME TypeOK
  PROVE  /\ Last \in Nat /\ Lease \in Nat /\ Budget \in Nat /\ Budget < Lease /\ Lease # 0
         /\ worker.cursor \in 0..Last /\ worker.lease \in 0..Lease /\ worker.lease \in Nat
         /\ \A r \in Runs :
              /\ run[r] \in RunRecords
              /\ run[r].cursor \in 0..Last /\ run[r].next \in 0..Last
              /\ run[r].elapsed \in 0..Lease /\ run[r].page \subseteq Communications
         /\ Communications \subseteq 1..Last /\ Communications \subseteq Nat
         /\ owed \subseteq Communications
BY WorkerAssumption DEF TypeOK, RunRecords, Communications

(* An idle run is one.                                                       *)
LEMMA IdleRun == Idle \in RunRecords /\ Idle.pc = "idle"
BY WorkerAssumption DEF Idle, RunRecords

(* A run that takes a new record.                                            *)
LEMMA RunFacts ==
  ASSUME TypeOK, NEW r \in Runs, NEW record \in RunRecords, run' = [run EXCEPT ![r] = record]
  PROVE  /\ run'[r] = record /\ \A q \in Runs : q # r => run'[q] = run[q]
         /\ run' \in [Runs -> RunRecords]
BY DEF TypeOK

(* One run moves and the worker document stays: only it has to be looked at. *)
LEMMA OneRunMoves ==
  ASSUME Sound, NEW r \in Runs, \A q \in Runs : q # r => run'[q] = run[q],
         UNCHANGED <<worker, skipped>>, owed' \subseteq owed,
         TypeOK', Leased(r)', Rotation(r)'
  PROVE  Sound' /\ Forward
<1>1. NoneSkipped' /\ Forward
  BY NumberFacts DEF Sound, NoneSkipped, Forward
<1>2. ASSUME NEW q \in Runs, q # r PROVE Leased(q)' /\ Rotation(q)'
  <2>1. Leased(q) /\ Rotation(q) /\ run'[q] = run[q] /\ worker' = worker
    BY <1>2 DEF Sound
  <2>2. Leased(q)'
    BY <2>1 DEF Leased
  <2>3. Rotation(q)'
    BY <2>1 DEF Rotation
  <2> QED
    BY <2>2, <2>3
<1> QED
  BY <1>1, <1>2 DEF Sound

(* No run works at first.                                                    *)
LEMMA InitSound == Init => Sound
<1> SUFFICES ASSUME Init PROVE Sound
  OBVIOUS
<1>1. /\ worker = [run |-> NoRun, cursor |-> 0, lease |-> 0] /\ open \subseteq Communications
      /\ owed = open /\ skipped = {} /\ \A r \in Runs : run[r] = Idle
      /\ run \in [Runs -> RunRecords]
  BY IdleRun DEF Init
<1>2. TypeOK
  <2>1. 0 \in 0..Last /\ 0 \in 0..Lease
    BY WorkerAssumption
  <2> QED
    BY <1>1, <2>1 DEF TypeOK
<1>3. NoneSkipped
  BY <1>1, <1>2, NumberFacts DEF NoneSkipped
<1>4. \A r \in Runs : Leased(r) /\ Rotation(r)
  BY <1>1, IdleRun DEF Leased, Rotation
<1> QED
  BY <1>2, <1>3, <1>4 DEF Sound

(* A claim: the lease was free, so nobody works within one.                  *)
LEMMA ClaimStep ==
  ASSUME Sound, NEW r \in Runs, Claim(r)
  PROVE  Sound' /\ Forward
<1> DEFINE record == [Idle EXCEPT !.pc = "claimed", !.cursor = worker.cursor]
<1>1. /\ TypeOK /\ worker.lease = 0 /\ UNCHANGED <<open, owed, skipped>>
      /\ run' = [run EXCEPT ![r] = record]
      /\ worker' = [worker EXCEPT !.run = r, !.lease = Lease]
  BY DEF Claim, Sound
<1>2. /\ record \in RunRecords /\ record.pc = "claimed" /\ record.cursor = worker.cursor
      /\ record.elapsed = 0
  <2>1. worker.cursor \in 0..Last
    BY <1>1, NumberFacts
  <2>2. Idle \in RunRecords /\ Idle.elapsed = 0
    BY IdleRun DEF Idle
  <2> QED
    BY <2>1, <2>2 DEF RunRecords
<1> HIDE DEF record
<1>3. /\ run'[r] = record /\ \A q \in Runs : q # r => run'[q] = run[q]
      /\ run' \in [Runs -> RunRecords]
  BY <1>1, <1>2, RunFacts
<1>4. /\ worker'.run = r /\ worker'.cursor = worker.cursor /\ worker'.lease = Lease
      /\ worker' \in [run: Runs \cup {NoRun}, cursor: 0..Last, lease: 0..Lease]
  <2>1. Lease \in 0..Lease /\ worker \in [run: Runs \cup {NoRun}, cursor: 0..Last, lease: 0..Lease]
    BY <1>1, NumberFacts DEF TypeOK
  <2> QED
    BY <1>1, <2>1
<1>5. TypeOK'
  BY <1>1, <1>3, <1>4 DEF TypeOK
<1>6. NoneSkipped' /\ Forward
  BY <1>1, <1>4, NumberFacts DEF Sound, NoneSkipped, Forward
<1>7. ASSUME NEW q \in Runs PROVE Leased(q)' /\ Rotation(q)'
  <2>1. CASE q = r
    BY <1>1, <1>2, <1>3, <1>4, <2>1, NumberFacts DEF Leased, Rotation
  <2>2. CASE q # r
    <3>1. ~(run[q].pc # "idle" /\ run[q].elapsed < Lease)
      BY <1>1, NumberFacts DEF Sound, Leased
    <3> QED
      BY <1>3, <1>4, <2>2, <3>1 DEF Leased, Rotation
  <2> QED
    BY <2>1, <2>2
<1> QED
  BY <1>5, <1>6, <1>7 DEF Sound

(* A page is read from the cursor the claim found.                           *)
LEMMA ReadPageStep ==
  ASSUME Sound, NEW r \in Runs, ReadPage(r)
  PROVE  Sound' /\ Forward
<1> PICK after \in SUBSET Communications : after = {s \in open : s > run[r].cursor}
  BY DEF Sound, TypeOK
<1> PICK page \in SUBSET after : page = PageOf(after)
  BY DEF PageOf
<1> PICK next : next = CursorAfter(page, run[r].cursor)
  OBVIOUS
<1>0. next = IF Cardinality(page) = PageLimit THEN Max(page) ELSE 0
  BY DEF CursorAfter
<1> DEFINE record == [run[r] EXCEPT !.pc = "paging", !.page = page, !.next = next]
<1>1. /\ TypeOK /\ run[r].pc = "claimed" /\ UNCHANGED <<worker, open, owed, skipped>>
      /\ run' = [run EXCEPT ![r] = record]
  BY DEF ReadPage, PageOf, Sound, TypeOK
<1>2. /\ next \in 0..Last
      /\ \A s \in after : s \in page \/ (next # 0 /\ s > next)
      /\ next # 0 => next \in page /\ \A t \in page : t <= next
  BY ONLY page = PageOf(after), after \in SUBSET Communications, <1>0, PageFacts
<1>3. /\ record \in RunRecords /\ record.pc = "paging" /\ record.cursor = run[r].cursor
      /\ record.page = page /\ record.next = next /\ record.elapsed = run[r].elapsed
  BY <1>1, <1>2, NumberFacts DEF RunRecords
<1> HIDE DEF record
<1>4. /\ run'[r] = record /\ \A q \in Runs : q # r => run'[q] = run[q]
      /\ run' \in [Runs -> RunRecords]
  BY <1>1, <1>3, RunFacts
<1>5. TypeOK'
  BY <1>1, <1>4 DEF TypeOK
<1>6. Leased(r)'
  BY <1>1, <1>3, <1>4 DEF Sound, Leased
<1>7. Rotation(r)'
  <2> SUFFICES ASSUME worker.run = r PROVE Rotation(r)'
    BY <1>1 DEF Rotation
  <2>1. run[r].cursor = worker.cursor
    BY <1>1 DEF Sound, Rotation
  <2>2. \A s \in owed : s \in after /\ s > run[r].cursor
    BY <1>1, <2>1 DEF Sound, NoneSkipped, TypeOK
  <2>3. \A s \in page : s > run[r].cursor
    OBVIOUS
  <2>4. next # 0 => next >= run[r].cursor
    <3>1. next # 0 => next > run[r].cursor
      BY <1>2, <2>3
    <3>2. next \in Nat /\ run[r].cursor \in Nat
      BY <1>1, <1>2, NumberFacts
    <3> QED
      BY <3>1, <3>2
  <2>5. run[r].cursor >= worker.cursor
    BY <1>1, <2>1, NumberFacts
  <2> QED
    BY <1>1, <1>2, <1>3, <1>4, <2>2, <2>3, <2>4, <2>5 DEF Rotation
<1> QED
  BY <1>1, <1>4, <1>5, <1>6, <1>7, OneRunMoves

(* The least of the page is inspected.                                       *)
LEMMA BeginStep ==
  ASSUME Sound, NEW r \in Runs, Begin(r)
  PROVE  Sound' /\ Forward /\ UnderLease
<1> PICK s : s = Min(run[r].page)
  OBVIOUS
<1> DEFINE record == [run[r] EXCEPT !.pc = "inspecting", !.cursor = s, !.page = @ \ {s}]
<1>1. /\ TypeOK /\ run[r].pc = "paging" /\ run[r].page # {} /\ run[r].elapsed < Budget
      /\ UNCHANGED <<worker, open, skipped>> /\ owed' = owed \ {s}
      /\ run' = [run EXCEPT ![r] = record]
  BY DEF Begin, Sound, TypeOK
<1>2. s \in run[r].page /\ \A t \in run[r].page : s <= t
  <2>1. run[r].page \in SUBSET Nat
    BY <1>1, NumberFacts
  <2> QED
    BY <1>1, <2>1, MinFacts
<1>3. s \in 0..Last /\ s \in Nat
  BY <1>1, <1>2, NumberFacts
<1>4. /\ record \in RunRecords /\ record.pc = "inspecting" /\ record.cursor = s
      /\ record.page = run[r].page \ {s} /\ record.next = run[r].next
      /\ record.elapsed = run[r].elapsed
  <2>1. run[r] \in RunRecords /\ run[r].page \ {s} \in SUBSET Communications
    BY <1>1, NumberFacts
  <2> QED
    BY <1>3, <2>1 DEF RunRecords
<1> HIDE DEF record
<1>5. /\ run'[r] = record /\ \A q \in Runs : q # r => run'[q] = run[q]
      /\ run' \in [Runs -> RunRecords]
  BY <1>1, <1>4, RunFacts
<1>6. TypeOK'
  BY <1>1, <1>5 DEF TypeOK
<1>7. Leased(r) /\ Leased(r)' /\ worker.run = r /\ worker.lease > 0
  <2>1. run[r].elapsed < Lease /\ Leased(r)
    BY <1>1, NumberFacts DEF Sound
  <2>2. worker.run = r /\ worker.lease = Lease - run[r].elapsed
    BY <1>1, <2>1 DEF Leased
  <2> QED
    BY <1>1, <1>4, <1>5, <2>1, <2>2, NumberFacts DEF Leased
<1>8. Rotation(r)'
  <2>1. /\ run[r].cursor >= worker.cursor
        /\ \A t \in owed :
             t > run[r].cursor /\ (t \in run[r].page \/ (run[r].next # 0 /\ t > run[r].next))
        /\ \A t \in run[r].page :
             t > run[r].cursor /\ (run[r].next # 0 => t <= run[r].next)
    BY <1>1, <1>7 DEF Sound, Rotation
  <2>2. s > run[r].cursor /\ (run[r].next # 0 => s <= run[r].next)
    BY <1>2, <2>1
  <2>3. s >= worker.cursor /\ (run[r].next # 0 => run[r].next >= s)
    BY <1>1, <1>3, <2>1, <2>2, NumberFacts
  <2>4. \A t \in run[r].page \ {s} : t > s
    BY <1>1, <1>2, <1>3, NumberFacts
  <2>5. \A t \in owed \ {s} :
          t > s /\ (t \in run[r].page \ {s} \/ (run[r].next # 0 /\ t > run[r].next))
    BY <1>1, <1>3, <2>1, <2>2, <2>4, NumberFacts
  <2> QED
    BY <1>1, <1>4, <1>5, <2>1, <2>3, <2>4, <2>5 DEF Rotation
<1>9. UnderLease
  BY <1>5, <1>7 DEF UnderLease
<1> QED
  BY <1>1, <1>5, <1>6, <1>7, <1>8, <1>9, OneRunMoves

(* An inspection ends, or a run.                                             *)
LEMMA EndStep ==
  ASSUME Sound, NEW r \in Runs, Inspect(r) \/ Die(r)
  PROVE  Sound' /\ Forward
<1> DEFINE record == IF Inspect(r) THEN [run[r] EXCEPT !.pc = "paging"] ELSE Idle
<1>1. /\ TypeOK /\ run[r] \in RunRecords /\ UNCHANGED <<worker, open, owed, skipped>>
      /\ run' = [run EXCEPT ![r] = record]
  BY NumberFacts DEF Inspect, Die, Sound, TypeOK
<1>2. /\ record \in RunRecords
      /\ \/ record.pc = "idle"
         \/ /\ run[r].pc = "inspecting" /\ record.pc = "paging"
            /\ record.cursor = run[r].cursor /\ record.page = run[r].page
            /\ record.next = run[r].next /\ record.elapsed = run[r].elapsed
  BY <1>1, IdleRun DEF Inspect, RunRecords
<1> HIDE DEF record
<1>3. /\ run'[r] = record /\ \A q \in Runs : q # r => run'[q] = run[q]
      /\ run' \in [Runs -> RunRecords]
  BY <1>1, <1>2, RunFacts
<1>4. TypeOK'
  BY <1>1, <1>3 DEF TypeOK
<1>5. Leased(r)' /\ Rotation(r)'
  <2>1. Leased(r) /\ Rotation(r) /\ worker' = worker /\ owed' = owed
    BY <1>1 DEF Sound
  <2> QED
    BY <1>2, <1>3, <2>1 DEF Leased, Rotation
<1> QED
  BY <1>1, <1>3, <1>4, <1>5, OneRunMoves

(* A finish by the run whose claim stands moves the cursor no further than   *)
(* what is owed; at the end of a rotation nothing is.                        *)
LEMMA FinishStep ==
  ASSUME Sound, NEW r \in Runs, Finish(r)
  PROVE  Sound' /\ Forward
<1>1. /\ TypeOK /\ run[r].pc = "paging" /\ run' = [run EXCEPT ![r] = Idle] /\ open' = open
  BY DEF Finish, LoopEnds, Sound
<1>2. /\ run'[r].pc = "idle" /\ \A q \in Runs : q # r => run'[q] = run[q]
      /\ run' \in [Runs -> RunRecords]
  BY <1>1, IdleRun, RunFacts
<1>3. CASE worker.run # r
  <2>1. UNCHANGED <<worker, owed, skipped>>
    BY <1>3 DEF Finish
  <2>2. TypeOK' /\ Leased(r)' /\ Rotation(r)'
    BY <1>1, <1>2, <1>3, <2>1 DEF TypeOK, Leased, Rotation
  <2> QED
    BY <1>2, <2>1, <2>2, OneRunMoves
<1>4. CASE worker.run = r
  <2> PICK cursor : cursor = NewCursor(r)
    OBVIOUS
  <2>1. worker' = [run |-> r, cursor |-> cursor, lease |-> 0]
    BY <1>4 DEF Finish
  <2>2. /\ run[r].cursor >= worker.cursor
        /\ run[r].next # 0 => run[r].next >= run[r].cursor
        /\ \A s \in owed :
             s > run[r].cursor /\ (s \in run[r].page \/ (run[r].next # 0 /\ s > run[r].next))
    BY <1>1, <1>4 DEF Sound, Rotation
  <2>3. /\ cursor \in 0..Last
        /\ cursor # 0 => cursor >= worker.cursor /\ \A s \in owed : s > cursor
    BY <1>1, <2>2, NumberFacts DEF NewCursor
  <2>4. /\ skipped' = {} /\ owed' \subseteq open
        /\ \A s \in owed' : s > cursor
    <3>1. CASE run[r].page = {} /\ cursor = 0
      <4>1. owed = {}
        BY <2>2, <3>1 DEF NewCursor
      <4> QED
        BY <1>1, <1>4, <3>1, <4>1, NumberFacts DEF Finish, Sound, NoneSkipped, TypeOK
    <3>2. CASE ~(run[r].page = {} /\ cursor = 0)
      <4>1. owed' = owed /\ skipped' = skipped
        BY <1>4, <3>2 DEF Finish
      <4>2. \A s \in owed : s > cursor
        <5>1. CASE cursor # 0
          BY <2>3, <5>1
        <5>2. CASE cursor = 0
          BY <1>1, <5>2, NumberFacts
        <5> QED
          BY <5>1, <5>2
      <4> QED
        BY <4>1, <4>2 DEF Sound, NoneSkipped, TypeOK
    <3> QED
      BY <3>1, <3>2
  <2>5. /\ worker'.run = r /\ worker'.cursor = cursor /\ worker'.lease = 0
        /\ worker' \in [run: Runs \cup {NoRun}, cursor: 0..Last, lease: 0..Lease]
    BY <1>1, <2>1, <2>3, NumberFacts
  <2>6. TypeOK'
    BY <1>1, <1>2, <2>4, <2>5 DEF TypeOK
  <2>7. NoneSkipped' /\ Forward
    BY <2>3, <2>4, <2>5 DEF NoneSkipped, Forward
  <2>8. ASSUME NEW q \in Runs PROVE Leased(q)' /\ Rotation(q)'
    <3>1. CASE q = r
      BY <1>2, <3>1 DEF Leased, Rotation
    <3>2. CASE q # r
      BY <1>2, <1>4, <2>5, <3>2 DEF Sound, Leased, Rotation
    <3> QED
      BY <3>1, <3>2
  <2> QED
    BY <2>6, <2>7, <2>8 DEF Sound
<1> QED
  BY <1>3, <1>4

(* Time passes for the lease and its run alike.                              *)
LEMMA TickStep ==
  ASSUME Sound, Tick
  PROVE  Sound' /\ Forward /\ UnderLease
<1>1. /\ TypeOK /\ UNCHANGED <<open, owed, skipped>>
      /\ worker' = [worker EXCEPT !.lease = IF @ = 0 THEN 0 ELSE @ - 1]
  BY DEF Tick, Sound
<1>2. /\ worker'.run = worker.run /\ worker'.cursor = worker.cursor
      /\ worker'.lease = IF worker.lease = 0 THEN 0 ELSE worker.lease - 1
      /\ worker' \in [run: Runs \cup {NoRun}, cursor: 0..Last, lease: 0..Lease]
  <2> DEFINE left == IF worker.lease = 0 THEN 0 ELSE worker.lease - 1
  <2>1. left \in 0..Lease
    BY <1>1, NumberFacts
  <2>2. worker' = [worker EXCEPT !.lease = left]
    BY <1>1
  <2> HIDE DEF left
  <2>3. /\ worker'.run = worker.run /\ worker'.cursor = worker.cursor /\ worker'.lease = left
        /\ worker' \in [run: Runs \cup {NoRun}, cursor: 0..Last, lease: 0..Lease]
    BY <1>1, <2>1, <2>2 DEF TypeOK
  <2> QED
    BY <2>3 DEF left
<1>3. ASSUME NEW r \in Runs
      PROVE  /\ run'[r] \in RunRecords
             /\ run'[r].pc = run[r].pc /\ run'[r].cursor = run[r].cursor
             /\ run'[r].page = run[r].page /\ run'[r].next = run[r].next
             /\ run[r].pc # "idle" /\ run'[r].elapsed < Lease =>
                  run'[r].elapsed = run[r].elapsed + 1
  <2>1. run[r] \in RunRecords /\ run[r].elapsed \in 0..Lease /\ Lease \in Nat
    BY <1>1, NumberFacts
  <2>2. run'[r] = IF run[r].pc = "idle" \/ run[r].elapsed = Lease THEN run[r]
                  ELSE [run[r] EXCEPT !.elapsed = @ + 1]
    BY DEF Tick
  <2>3. CASE run[r].pc = "idle" \/ run[r].elapsed = Lease
    BY <2>1, <2>2, <2>3
  <2>4. CASE ~(run[r].pc = "idle" \/ run[r].elapsed = Lease)
    <3>1. run[r].elapsed + 1 \in 0..Lease
      BY <2>1, <2>4
    <3>2. run'[r] = [run[r] EXCEPT !.elapsed = run[r].elapsed + 1]
      BY <2>2, <2>4
    <3> QED
      BY <2>1, <3>1, <3>2 DEF RunRecords
  <2> QED
    BY <2>3, <2>4
<1>4. run' \in [Runs -> RunRecords]
  BY <1>3 DEF Tick
<1>5. TypeOK'
  BY <1>1, <1>2, <1>4 DEF TypeOK
<1>6. NoneSkipped' /\ Forward /\ UnderLease
  BY <1>1, <1>2, <1>3, NumberFacts DEF Sound, NoneSkipped, Forward, UnderLease
<1>7. ASSUME NEW r \in Runs PROVE Leased(r)' /\ Rotation(r)'
  <2>1. Leased(r)'
    <3> SUFFICES ASSUME run'[r].pc # "idle", run'[r].elapsed < Lease
                 PROVE  worker'.run = r /\ worker'.lease = Lease - run'[r].elapsed
      BY DEF Leased
    <3>1. /\ run[r].pc # "idle" /\ run'[r].elapsed = run[r].elapsed + 1
          /\ run[r].elapsed \in 0..Lease /\ Lease \in Nat
      BY <1>1, <1>3, NumberFacts
    <3>2. worker.run = r /\ worker.lease = Lease - run[r].elapsed
      BY <3>1 DEF Sound, Leased
    <3> QED
      BY <1>2, <3>1, <3>2
  <2>2. Rotation(r)'
    <3>1. Rotation(r) /\ owed' = owed
      BY <1>1 DEF Sound
    <3> QED
      BY <1>2, <1>3, <3>1 DEF Rotation
  <2> QED
    BY <2>1, <2>2
<1> QED
  BY <1>5, <1>6, <1>7 DEF Sound

(* Communications open and close.                                            *)
LEMMA OpenStep ==
  ASSUME Sound, NEW s \in Communications, Opened(s) \/ Closed(s)
  PROVE  Sound' /\ Forward
<1>1. /\ TypeOK /\ UNCHANGED <<worker, run, skipped>> /\ owed' \subseteq owed
      /\ owed' \subseteq open' /\ open' \subseteq Communications
  BY DEF Opened, Closed, Sound, TypeOK
<1>2. TypeOK'
  BY <1>1 DEF TypeOK
<1>3. NoneSkipped' /\ Forward
  BY <1>1, NumberFacts DEF Sound, NoneSkipped, Forward
<1>4. \A r \in Runs : Leased(r)' /\ Rotation(r)'
  BY <1>1 DEF Sound, Leased, Rotation
<1> QED
  BY <1>2, <1>3, <1>4 DEF Sound

(* Any step at all.                                                          *)
LEMMA NextSound == Sound /\ [Next]_vars => Sound' /\ Forward /\ UnderLease
<1> SUFFICES ASSUME Sound, [Next]_vars PROVE Sound' /\ Forward /\ UnderLease
  OBVIOUS
<1>1. ASSUME NEW r \in Runs, Begin(r) PROVE Sound' /\ Forward /\ UnderLease
  BY <1>1, BeginStep
<1>2. CASE Tick
  BY <1>2, TickStep
<1>3. ASSUME NEW r \in Runs, Claim(r) \/ ReadPage(r) \/ Inspect(r) \/ Finish(r) \/ Die(r)
      PROVE  Sound' /\ Forward /\ UnderLease
  <2>1. Sound' /\ Forward
    BY <1>3, ClaimStep, ReadPageStep, EndStep, FinishStep
  <2>2. /\ \A q \in Runs : q # r => run'[q] = run[q]
        /\ run'[r].pc # "inspecting"
    <3>0. run \in [Runs -> RunRecords]
      BY DEF Sound, TypeOK
    <3>1. CASE Claim(r)
      BY <3>0, <3>1 DEF Claim, Idle
    <3>2. CASE ReadPage(r)
      <4> DEFINE after == {s \in open : s > run[r].cursor}
                 page == {s \in after : Cardinality({t \in after : t <= s}) <= PageLimit}
                 record == [run[r] EXCEPT !.pc = "paging", !.page = page,
                                          !.next = CursorAfter(page, run[r].cursor)]
      <4>1. run' = [run EXCEPT ![r] = record]
        BY <3>0, <3>2 DEF ReadPage
      <4>2. record.pc = "paging"
        BY <3>0 DEF RunRecords
      <4> HIDE DEF record
      <4> QED
        BY <3>0, <4>1, <4>2
    <3>3. CASE Inspect(r)
      <4>1. run' = [run EXCEPT ![r] = [run[r] EXCEPT !.pc = "paging"]]
        BY <3>0, <3>3 DEF Inspect
      <4> QED
        BY <3>0, <4>1 DEF RunRecords
    <3>4. CASE Finish(r) \/ Die(r)
      BY <3>0, <3>4, IdleRun DEF Finish, Die
    <3> QED
      BY <1>3, <3>1, <3>2, <3>3, <3>4
  <2>3. UnderLease
    BY <2>2 DEF UnderLease
  <2> QED
    BY <2>1, <2>3
<1>4. ASSUME NEW s \in Communications, Opened(s) \/ Closed(s)
      PROVE  Sound' /\ Forward /\ UnderLease
  BY <1>4, OpenStep DEF Opened, Closed, UnderLease
<1>5. CASE UNCHANGED vars
  <2>1. UNCHANGED <<worker, run, open, owed, skipped>>
    BY <1>5 DEF vars
  <2>2. Sound'
    BY <2>1 DEF Sound, TypeOK, NoneSkipped, Leased, Rotation
  <2>3. Forward /\ UnderLease
    BY <2>1, NumberFacts DEF Sound, Forward, UnderLease
  <2> QED
    BY <2>2, <2>3
<1> QED
  BY <1>1, <1>2, <1>3, <1>4, <1>5 DEF Next, Step

(* Lease and rotation, in every reachable state.                             *)
THEOREM WorkerStaysSound == Spec => []Sound
<1>1. Sound /\ [Next]_vars => Sound'
  BY NextSound
<1> QED
  BY <1>1, InitSound, PTL DEF Spec

(* Two runs never work within their lease at once.                           *)
THEOREM LeaseStaysExclusive == Spec => []WorkerInv
<1>1. Sound => WorkerInv
  BY DEF Sound, Leased, WorkerInv, LeaseIsExclusive
<1> QED
  BY <1>1, WorkerStaysSound, PTL

(* No page, crash or late finish passes over a communication that is open.   *)
THEOREM NoneIsSkipped == Spec => []NoneSkipped
<1>1. Sound => NoneSkipped
  BY DEF Sound
<1> QED
  BY <1>1, WorkerStaysSound, PTL

(* No inspection begins without the lease.                                   *)
THEOREM InspectionsHoldLease == Spec => BeginsUnderLease
<1>1. Sound /\ [Next]_vars =>
        [\A r \in Runs :
           run[r].pc = "paging" /\ run'[r].pc = "inspecting"
           => worker.run = r /\ worker.lease > 0]_vars
  BY NextSound DEF UnderLease
<1> QED
  BY <1>1, WorkerStaysSound, PTL DEF Spec, BeginsUnderLease

(* No run sets the rotation back.                                            *)
THEOREM RotationGoesForward == Spec => CursorMovesForward
<1>1. Sound /\ [Next]_vars => [worker'.cursor # 0 => worker'.cursor >= worker.cursor]_vars
  BY NextSound DEF Forward
<1> QED
  BY <1>1, WorkerStaysSound, PTL DEF Spec, CursorMovesForward

-----------------------------------------------------------------------------
(* Retention                                                                 *)

Busy == {"resolving", "working", "recording"}
RetiredBy(r) == {d \in Docs : docs[d].by = r}

DocOK(d, record) ==
  /\ record.by # NoCleanup => record.state = "retired"
  /\ record.state = "uploading" => d \in Files

(* A stored run, with the records it retired, at a time.                     *)
RunOK(cleanup, retired, now) ==
  /\ cleanup.started <= now
  /\ IsFiniteSet(cleanup.plan) /\ Cardinality(cleanup.plan) <= Limit
  /\ cleanup.processed \cup cleanup.failed \subseteq cleanup.plan
  /\ cleanup.processed \cap cleanup.failed = {}
  /\ cleanup.status = "new" => cleanup.plan = {}
  /\ cleanup.status = "completed" => cleanup.processed \cup cleanup.failed = cleanup.plan
  /\ cleanup.deleted = Cardinality(retired) /\ cleanup.deleted <= Cardinality(cleanup.processed)

(* An execution, with the stored runs, at a time.                            *)
ExecOK(execution, stored, now) ==
  /\ execution.pc # "idle" => execution.run \in Cleanups /\ execution.now <= now
  /\ execution.pc = "listed" => IsFiniteSet(execution.left) /\ Cardinality(execution.left) <= Limit
  /\ execution.pc \in Busy =>
       /\ stored[execution.run].status # "new"
       /\ execution.left \cup execution.missing \subseteq stored[execution.run].plan

ParentsAreKnown ==
  \A s \in Seqs : seq[s].unresolved # NoKid => ParentOf[seq[s].unresolved] = s

RecordsInv == NeededIsKept /\ ParentsAreKnown /\ \A d \in Docs : DocOK(d, docs[d])
CleanupInv ==
  /\ \A r \in Cleanups : RunOK(runs[r], RetiredBy(r), clock)
  /\ \A e \in Executors : ExecOK(exec[e], runs, clock)
Retention == RetentionTypeOK /\ RecordsInv /\ CleanupInv

-----------------------------------------------------------------------------
(* Records                                                                   *)

(* What types say about one record, sequence, run and execution.             *)
LEMMA RetentionTypes ==
  ASSUME RetentionTypeOK
  PROVE  /\ docs \in [Docs -> DocRecords] /\ seq \in [Seqs -> SeqRecords]
         /\ runs \in [Cleanups -> CleanupRecords] /\ exec \in [Executors -> ExecRecords]
         /\ \A d \in Docs : docs[d] \in DocRecords /\ docs[d].anchor \in Time
         /\ \A s \in Seqs : seq[s] \in SeqRecords /\ seq[s].unresolved \in Kids \cup {NoKid}
                            /\ seq[s].refs \subseteq Files
         /\ \A r \in Cleanups : runs[r] \in CleanupRecords
         /\ \A e \in Executors : exec[e] \in ExecRecords
BY DEF RetentionTypeOK, DocRecords, SeqRecords

(* Expiries are times, and every time has one.                               *)
LEMMA ExpiryFacts ==
  ASSUME NEW d \in Docs, NEW anchor \in Time, NEW suspended \in BOOLEAN
  PROVE  Expiry(d, anchor, suspended) \in {Never} \cup Nat
BY RetentionAssumption DEF Expiry, PeriodOf, Time

(* The three kinds of records are apart and finitely many.                   *)
LEMMA KindFacts ==
  /\ IsFiniteSet(Docs)
  /\ Seqs \subseteq Docs /\ Files \subseteq Docs /\ Kids \subseteq Docs
  /\ Seqs \cap Files = {} /\ Seqs \cap Kids = {} /\ Files \cap Kids = {}
  /\ \A k \in Kids : ParentOf[k] \in Seqs
BY RetentionAssumption DEF Docs

(* The records change and no record is retired: the runs keep their counts.  *)
LEMMA RecordsChange ==
  ASSUME Retention, UNCHANGED <<runs, exec, deaths>>,
         clock' \in Time, clock <= clock',
         docs' \in [Docs -> DocRecords], seq' \in [Seqs -> SeqRecords],
         \A d \in Docs : docs'[d].by = docs[d].by,
         RecordsInv'
  PROVE  Retention'
<1>1. RetentionTypeOK'
  BY DEF Retention, RetentionTypeOK
<1>2. \A r \in Cleanups : RetiredBy(r)' = RetiredBy(r)
  BY DEF RetiredBy
<1>3. ASSUME NEW r \in Cleanups PROVE RunOK(runs[r], RetiredBy(r), clock')
  <2>1. runs[r].started \in Int /\ clock \in Int /\ clock' \in Int
    BY DEF Retention, RetentionTypeOK, CleanupRecords, Time
  <2> QED
    BY <2>1 DEF Retention, CleanupInv, RunOK
<1>4. ASSUME NEW e \in Executors PROVE ExecOK(exec[e], runs, clock')
  <2>1. exec[e].now \in Int /\ clock \in Int /\ clock' \in Int
    BY DEF Retention, RetentionTypeOK, ExecRecords, Time
  <2> QED
    BY <2>1 DEF Retention, CleanupInv, ExecOK
<1>5. CleanupInv'
  BY <1>2, <1>3, <1>4 DEF CleanupInv
<1> QED
  BY <1>1, <1>5 DEF Retention

(* One record changes that is neither retired nor taken away.                *)
LEMMA OneDocChanges ==
  ASSUME Retention, NEW d \in Docs, NEW record \in DocRecords,
         docs' = [docs EXCEPT ![d] = record], record.by = docs[d].by,
         docs[d].state \in {"none", "uploading", "live"},
         docs[d].state = "live" => record.state = "live",
         d \notin Files => record.state = docs[d].state,
         UNCHANGED <<clock, seq, runs, exec, deaths>>
  PROVE  Retention'
<1>1. /\ docs'[d] = record /\ \A c \in Docs : c # d => docs'[c] = docs[c]
      /\ docs' \in [Docs -> DocRecords]
  BY DEF Retention, RetentionTypeOK
<1>2. \A c \in Docs : DocOK(c, docs'[c])
  BY <1>1 DEF Retention, RecordsInv, DocOK
<1>3. NeededIsKept'
  <2> SUFFICES ASSUME NEW s \in Seqs
               PROVE  /\ docs'[s].state = "live" => \A f \in seq[s].refs : docs'[f].state = "live"
                      /\ seq[s].unresolved # NoKid =>
                           docs'[s].state = "live" /\ docs'[seq[s].unresolved].state = "live"
    BY DEF NeededIsKept
  <2>1. /\ docs[s].state = "live" => \A f \in seq[s].refs : docs[f].state = "live"
        /\ seq[s].unresolved # NoKid =>
             docs[s].state = "live" /\ docs[seq[s].unresolved].state = "live"
    BY DEF Retention, RecordsInv, NeededIsKept
  <2>2. /\ s \in Docs /\ s \notin Files /\ seq[s].refs \subseteq Docs
        /\ seq[s].unresolved # NoKid => seq[s].unresolved \in Docs
    BY KindFacts, RetentionTypes DEF Retention
  <2>3. \A c \in Docs : docs[c].state = "live" => docs'[c].state = "live"
    BY <1>1
  <2>4. docs'[s].state = "live" => docs[s].state = "live"
    BY <1>1, <2>2
  <2> QED
    BY <2>1, <2>2, <2>3, <2>4
<1>4. RecordsInv'
  BY <1>2, <1>3 DEF Retention, RecordsInv, ParentsAreKnown
<1> QED
  BY <1>1, <1>4, RecordsChange DEF Retention, RetentionTypeOK, Time

(* A sequence is written: it is on record, with the files it names and the   *)
(* occurrence it waits for.                                                  *)
LEMMA SequenceChanges ==
  ASSUME Retention, NEW s \in Seqs, NEW record \in SeqRecords, StoreSequence(s, record),
         docs[s].state \in {"none", "live"},
         \A f \in record.refs : docs[f].state = "live",
         record.unresolved \in {seq[s].unresolved, NoKid},
         UNCHANGED <<clock, runs, exec, deaths>>
  PROVE  Retention'
<1> DEFINE act == record.unresolved # NoKid \/ ~record.finished
           settled == docs[s].state = "live" /\ ~docs[s].op
           anchor == IF ~act /\ settled THEN docs[s].anchor ELSE clock
           expires == Expiry(s, anchor, act \/ docs[s].hold)
           doc == [docs[s] EXCEPT !.state = "live", !.op = act, !.anchor = anchor,
                                  !.expires = expires]
<1>0. /\ s \in Docs /\ docs[s] \in DocRecords /\ docs \in [Docs -> DocRecords]
      /\ seq \in [Seqs -> SeqRecords] /\ clock \in Time
  BY KindFacts, RetentionTypes DEF Retention, RetentionTypeOK
<1>1. act \in BOOLEAN /\ anchor \in Time /\ expires \in {Never} \cup Nat
  <2>1. record.finished \in BOOLEAN /\ docs[s].hold \in BOOLEAN /\ docs[s].anchor \in Time
    BY <1>0 DEF SeqRecords, DocRecords
  <2>2. act \in BOOLEAN /\ anchor \in Time /\ (act \/ docs[s].hold) \in BOOLEAN
    BY <1>0, <2>1
  <2> QED
    BY <1>0, <2>1, <2>2, ExpiryFacts
<1>2. /\ seq' = [seq EXCEPT ![s] = record]
      /\ docs' = [docs EXCEPT ![s] = doc]
  BY <1>0 DEF StoreSequence
<1> HIDE DEF act, settled, anchor, expires
<1>3. doc \in DocRecords /\ doc.state = "live" /\ doc.by = docs[s].by
  BY <1>0, <1>1 DEF DocRecords
<1> HIDE DEF doc
<1>4. /\ docs'[s] = doc /\ \A c \in Docs : c # s => docs'[c] = docs[c]
      /\ docs' \in [Docs -> DocRecords]
      /\ seq'[s] = record /\ \A q \in Seqs : q # s => seq'[q] = seq[q]
      /\ seq' \in [Seqs -> SeqRecords]
  BY <1>0, <1>2, <1>3
<1>5. \A c \in Docs : DocOK(c, docs'[c])
  BY <1>0, <1>3, <1>4 DEF Retention, RecordsInv, DocOK
<1>6. ParentsAreKnown'
  BY <1>4 DEF Retention, RecordsInv, ParentsAreKnown
<1>7. NeededIsKept'
  <2> SUFFICES ASSUME NEW q \in Seqs
               PROVE  /\ docs'[q].state = "live" => \A f \in seq'[q].refs : docs'[f].state = "live"
                      /\ seq'[q].unresolved # NoKid =>
                           docs'[q].state = "live" /\ docs'[seq'[q].unresolved].state = "live"
    BY DEF NeededIsKept
  <2>1. /\ docs[q].state = "live" => \A f \in seq[q].refs : docs[f].state = "live"
        /\ seq[q].unresolved # NoKid =>
             docs[q].state = "live" /\ docs[seq[q].unresolved].state = "live"
    BY DEF Retention, RecordsInv, NeededIsKept
  <2>2. \A c \in Docs : docs[c].state = "live" => docs'[c].state = "live"
    BY <1>3, <1>4
  <2>3. /\ seq[q].refs \subseteq Docs /\ record.refs \subseteq Docs /\ q \in Docs
        /\ seq[q].unresolved # NoKid => seq[q].unresolved \in Docs
    BY KindFacts, RetentionTypes DEF Retention, SeqRecords
  <2>4. CASE q = s
    BY <1>3, <1>4, <2>1, <2>2, <2>3, <2>4
  <2>5. CASE q # s
    BY <1>4, <2>1, <2>2, <2>3, <2>5
  <2> QED
    BY <2>4, <2>5
<1>8. RecordsInv'
  BY <1>5, <1>6, <1>7 DEF RecordsInv
<1>9. \A c \in Docs : docs'[c].by = docs[c].by
  BY <1>3, <1>4
<1> QED
  BY <1>4, <1>8, <1>9, RecordsChange DEF Retention, RetentionTypeOK, Time

(* An occurrence is recorded, and its sequence waits for it.                 *)
LEMMA OccurrenceStep ==
  ASSUME Retention, NEW k \in Kids, ClaimOccurrence(k)
  PROVE  Retention'
<1> DEFINE s == ParentOf[k]
           kid == [docs[k] EXCEPT !.state = "live", !.anchor = clock,
                                  !.expires = Expiry(k, clock, FALSE)]
           doc == [docs[s] EXCEPT !.op = TRUE, !.anchor = clock, !.expires = Never]
           record == [seq[s] EXCEPT !.unresolved = k]
<1>0. /\ s \in Seqs /\ s \in Docs /\ k \in Docs /\ k # s /\ k \notin Files /\ s \notin Files
      /\ docs[s] \in DocRecords /\ docs[k] \in DocRecords /\ docs \in [Docs -> DocRecords]
      /\ seq \in [Seqs -> SeqRecords] /\ seq[s] \in SeqRecords /\ clock \in Time
  BY KindFacts, RetentionTypes DEF Retention, RetentionTypeOK
<1>1. /\ docs[s].state = "live" /\ docs[k].state = "none"
      /\ UNCHANGED <<clock, runs, exec, deaths>>
      /\ seq' = [seq EXCEPT ![s] = record]
  BY <1>0 DEF ClaimOccurrence
<1>2. /\ docs'[k] = kid /\ docs'[s] = doc
      /\ \A c \in Docs : c \notin {k, s} => docs'[c] = docs[c]
      /\ docs' = [c \in Docs |-> docs'[c]]
  BY <1>0 DEF ClaimOccurrence
<1>3. kid \in DocRecords /\ kid.state = "live" /\ kid.by = docs[k].by
  <2>1. Expiry(k, clock, FALSE) \in {Never} \cup Nat
    BY <1>0, ExpiryFacts
  <2> QED
    BY <1>0, <2>1 DEF DocRecords
<1>4. doc \in DocRecords /\ doc.state = "live" /\ doc.by = docs[s].by
  BY <1>0, <1>1 DEF DocRecords
<1>5. record \in SeqRecords /\ record.refs = seq[s].refs /\ record.unresolved = k
  BY <1>0 DEF SeqRecords
<1> HIDE DEF kid, doc, record
<1>6. docs' \in [Docs -> DocRecords]
  <2>1. \A c \in Docs : docs'[c] \in DocRecords
    BY <1>0, <1>2, <1>3, <1>4
  <2> QED
    BY <1>2, <2>1
<1>7. /\ seq'[s] = record /\ \A q \in Seqs : q # s => seq'[q] = seq[q]
      /\ seq' \in [Seqs -> SeqRecords]
  BY <1>0, <1>1, <1>5
<1>8. \A c \in Docs : DocOK(c, docs'[c])
  BY <1>0, <1>1, <1>2, <1>3, <1>4 DEF Retention, RecordsInv, DocOK
<1>9. ParentsAreKnown'
  BY <1>5, <1>7 DEF Retention, RecordsInv, ParentsAreKnown
<1>10. NeededIsKept'
  <2> SUFFICES ASSUME NEW q \in Seqs
               PROVE  /\ docs'[q].state = "live" => \A f \in seq'[q].refs : docs'[f].state = "live"
                      /\ seq'[q].unresolved # NoKid =>
                           docs'[q].state = "live" /\ docs'[seq'[q].unresolved].state = "live"
    BY DEF NeededIsKept
  <2>1. /\ docs[q].state = "live" => \A f \in seq[q].refs : docs[f].state = "live"
        /\ seq[q].unresolved # NoKid =>
             docs[q].state = "live" /\ docs[seq[q].unresolved].state = "live"
    BY DEF Retention, RecordsInv, NeededIsKept
  <2>2. \A c \in Docs : docs[c].state = "live" => docs'[c].state = "live"
    BY <1>2, <1>3, <1>4
  <2>3. /\ seq[q].refs \subseteq Docs /\ q \in Docs /\ q # k
        /\ seq[q].unresolved # NoKid => seq[q].unresolved \in Docs
    BY KindFacts, RetentionTypes DEF Retention
  <2>4. CASE q = s
    BY <1>1, <1>2, <1>3, <1>4, <1>5, <1>7, <2>1, <2>2, <2>3, <2>4
  <2>5. CASE q # s
    BY <1>2, <1>7, <2>1, <2>2, <2>3, <2>5
  <2> QED
    BY <2>4, <2>5
<1>11. RecordsInv'
  BY <1>8, <1>9, <1>10 DEF RecordsInv
<1>12. \A c \in Docs : docs'[c].by = docs[c].by
  BY <1>2, <1>3, <1>4
<1> QED
  BY <1>1, <1>6, <1>7, <1>11, <1>12, RecordsChange DEF Retention, RetentionTypeOK, Time

(* Whatever happens to the records, and time.                                *)
LEMMA RecordSteps ==
  ASSUME Retention, RecordStep \/ ClockTicks
  PROVE  Retention'
<1>1. CASE ClockTicks
  <2>1. clock' \in Time /\ clock <= clock'
    BY <1>1, RetentionAssumption DEF ClockTicks, Retention, RetentionTypeOK, Time
  <2>2. UNCHANGED <<docs, seq, runs, exec, deaths>>
    BY <1>1 DEF ClockTicks
  <2>3. RecordsInv'
    BY <2>2 DEF Retention, RecordsInv, NeededIsKept, ParentsAreKnown
  <2> QED
    BY <2>1, <2>2, <2>3, RecordsChange DEF Retention, RetentionTypeOK
<1>2. ASSUME NEW f \in Files, Upload(f) PROVE Retention'
  <2> DEFINE record == [docs[f] EXCEPT !.state = "uploading", !.op = TRUE, !.anchor = clock]
  <2>0. f \in Docs /\ docs[f] \in DocRecords /\ docs \in [Docs -> DocRecords] /\ clock \in Time
    BY KindFacts, RetentionTypes DEF Retention, RetentionTypeOK
  <2>1. record \in DocRecords /\ record.state = "uploading" /\ record.by = docs[f].by
    BY <2>0 DEF DocRecords
  <2>2. docs' = [docs EXCEPT ![f] = record] /\ docs[f].state = "none"
    BY <1>2, <2>0 DEF Upload
  <2>3. UNCHANGED <<clock, seq, runs, exec, deaths>>
    BY <1>2 DEF Upload
  <2> HIDE DEF record
  <2> QED
    BY <2>0, <2>1, <2>2, <2>3, OneDocChanges
<1>3. ASSUME NEW f \in Files, PublishReady(f) PROVE Retention'
  <2> DEFINE expires == Expiry(f, docs[f].anchor, docs[f].hold)
             record == [docs[f] EXCEPT !.state = "live", !.op = FALSE, !.expires = expires]
  <2>0. f \in Docs /\ docs[f] \in DocRecords /\ docs \in [Docs -> DocRecords]
    BY KindFacts, RetentionTypes DEF Retention
  <2>4. expires \in {Never} \cup Nat
    BY <2>0, ExpiryFacts DEF DocRecords
  <2>2. docs' = [docs EXCEPT ![f] = record] /\ docs[f].state \in {"uploading", "live"}
    BY <1>3, <2>0 DEF PublishReady
  <2> HIDE DEF expires
  <2>1. record \in DocRecords /\ record.state = "live" /\ record.by = docs[f].by
    BY <2>0, <2>4 DEF DocRecords
  <2>3. UNCHANGED <<clock, seq, runs, exec, deaths>>
    BY <1>3 DEF PublishReady
  <2> HIDE DEF record
  <2> QED
    BY <2>0, <2>1, <2>2, <2>3, OneDocChanges
<1>4. ASSUME NEW s \in Seqs, NEW refs \in SUBSET Files, NEW finished \in BOOLEAN,
             WriteSequence(s, refs, finished)
      PROVE  Retention'
  <2> DEFINE record == [seq[s] EXCEPT !.refs = refs, !.finished = finished]
  <2>0. seq[s] \in SeqRecords
    BY RetentionTypes DEF Retention
  <2>1. record \in SeqRecords /\ record.refs = refs /\ record.unresolved = seq[s].unresolved
    BY <2>0 DEF SeqRecords
  <2>2. /\ StoreSequence(s, record) /\ docs[s].state \in {"none", "live"}
        /\ \A f \in refs : docs[f].state = "live"
        /\ UNCHANGED <<clock, runs, exec, deaths>>
    BY <1>4 DEF WriteSequence
  <2> HIDE DEF record
  <2> QED
    BY <2>1, <2>2, SequenceChanges
<1>5. ASSUME NEW k \in Kids, ClaimOccurrence(k) PROVE Retention'
  BY <1>5, OccurrenceStep
<1>6. ASSUME NEW s \in Seqs, NEW finished \in BOOLEAN, SettleOccurrence(s, finished)
      PROVE  Retention'
  <2> DEFINE record == [seq[s] EXCEPT !.unresolved = NoKid, !.finished = finished]
  <2>0. seq[s] \in SeqRecords
    BY RetentionTypes DEF Retention
  <2>1. record \in SeqRecords /\ record.refs = seq[s].refs /\ record.unresolved = NoKid
    BY <2>0 DEF SeqRecords
  <2>2. StoreSequence(s, record) /\ UNCHANGED <<clock, runs, exec, deaths>>
    BY <1>6 DEF SettleOccurrence
  <2>3. docs[s].state = "live" /\ \A f \in seq[s].refs : docs[f].state = "live"
    BY <1>6 DEF SettleOccurrence, Retention, RecordsInv, NeededIsKept
  <2> HIDE DEF record
  <2> QED
    BY <2>1, <2>2, <2>3, SequenceChanges
<1>7. ASSUME NEW d \in Docs, NEW hold \in BOOLEAN, DecideHold(d, hold) PROVE Retention'
  <2> DEFINE decisions == docs[d].decisions + 1
             expires == Expiry(d, docs[d].anchor, hold \/ docs[d].op)
             record == [docs[d] EXCEPT !.hold = hold, !.decisions = decisions,
                                       !.expires = expires]
  <2>0. docs[d] \in DocRecords /\ docs \in [Docs -> DocRecords]
    BY RetentionTypes DEF Retention
  <2>4. expires \in {Never} \cup Nat
    <3>1. docs[d].op \in BOOLEAN /\ docs[d].anchor \in Time
      BY <2>0 DEF DocRecords
    <3>2. (hold \/ docs[d].op) \in BOOLEAN
      BY <3>1
    <3> QED
      BY <3>1, <3>2, ExpiryFacts
  <2>5. decisions \in 0..MaxDecisions
    BY <1>7, <2>0, RetentionAssumption DEF DecideHold, DocRecords
  <2>2. docs' = [docs EXCEPT ![d] = record] /\ docs[d].state \in {"uploading", "live"}
    BY <1>7, <2>0 DEF DecideHold
  <2> HIDE DEF expires, decisions
  <2>1. record \in DocRecords /\ record.state = docs[d].state /\ record.by = docs[d].by
    BY <2>0, <2>4, <2>5 DEF DocRecords
  <2>3. UNCHANGED <<clock, seq, runs, exec, deaths>>
    BY <1>7 DEF DecideHold
  <2> HIDE DEF record
  <2> QED
    BY <2>0, <2>1, <2>2, <2>3, OneDocChanges
<1> QED
  BY <1>1, <1>2, <1>3, <1>4, <1>5, <1>6, <1>7 DEF RecordStep

-----------------------------------------------------------------------------
(* Executions                                                                *)

(* What a stored run and an execution satisfy.                               *)
LEMMA CleanupFacts ==
  ASSUME Retention
  PROVE  /\ \A r \in Cleanups : runs[r] \in CleanupRecords /\ RunOK(runs[r], RetiredBy(r), clock)
         /\ \A e \in Executors :
              /\ exec[e] \in ExecRecords /\ ExecOK(exec[e], runs, clock)
              /\ exec[e].left \subseteq Hashes /\ exec[e].missing \subseteq Hashes
              /\ exec[e].pc # "idle" => exec[e].run \in Cleanups
BY RetentionTypes DEF Retention, CleanupInv, ExecRecords, ExecOK

(* One run and one execution go on; the frozen plans stay.                   *)
LEMMA ExecutionGoes ==
  ASSUME Retention, NEW e \in Executors, NEW r \in Cleanups,
         UNCHANGED <<clock, docs, seq>>, deaths' \in 0..MaxDeaths,
         NEW cleanup \in CleanupRecords, NEW execution \in ExecRecords,
         runs' = [runs EXCEPT ![r] = cleanup], exec' = [exec EXCEPT ![e] = execution],
         RunOK(cleanup, RetiredBy(r), clock),
         runs[r].status # "new" => cleanup.status # "new" /\ cleanup.plan = runs[r].plan,
         ExecOK(execution, runs', clock)
  PROVE  Retention'
<1>1. /\ runs'[r] = cleanup /\ \A q \in Cleanups : q # r => runs'[q] = runs[q]
      /\ runs' \in [Cleanups -> CleanupRecords]
      /\ exec'[e] = execution /\ \A g \in Executors : g # e => exec'[g] = exec[g]
      /\ exec' \in [Executors -> ExecRecords]
  BY RetentionTypes DEF Retention
<1>2. RetentionTypeOK' /\ RecordsInv'
  BY <1>1 DEF Retention, RetentionTypeOK, RecordsInv, NeededIsKept, ParentsAreKnown
<1>3. \A q \in Cleanups : RunOK(runs'[q], RetiredBy(q)', clock')
  BY ZenonT(30), <1>1, CleanupFacts DEF RetiredBy
<1>4. ASSUME NEW g \in Executors PROVE ExecOK(exec'[g], runs', clock')
  <2>1. CASE g = e
    BY <1>1, <2>1
  <2>2. CASE g # e
    <3>1. exec'[g] = exec[g] /\ ExecOK(exec[g], runs, clock)
      BY <1>1, <2>2, CleanupFacts
    <3>2. exec[g].pc \in Busy => exec[g].run \in Cleanups
      BY <3>1 DEF ExecOK, Busy
    <3> QED
      BY <1>1, <3>1, <3>2 DEF ExecOK
  <2> QED
    BY <2>1, <2>2
<1> QED
  BY <1>2, <1>3, <1>4 DEF Retention, CleanupInv

(* An execution goes on and leaves the runs alone.                           *)
LEMMA ExecutionOnly ==
  ASSUME Retention, NEW e \in Executors,
         UNCHANGED <<clock, docs, seq, runs>>, deaths' \in 0..MaxDeaths,
         NEW execution \in ExecRecords,
         exec' = [exec EXCEPT ![e] = execution],
         ExecOK(execution, runs, clock)
  PROVE  Retention'
<1>1. /\ exec'[e] = execution /\ \A g \in Executors : g # e => exec'[g] = exec[g]
      /\ exec' \in [Executors -> ExecRecords]
  BY RetentionTypes DEF Retention
<1>2. RetentionTypeOK' /\ RecordsInv'
  BY <1>1 DEF Retention, RetentionTypeOK, RecordsInv, NeededIsKept, ParentsAreKnown
<1>3. \A q \in Cleanups : RunOK(runs'[q], RetiredBy(q)', clock')
  BY CleanupFacts DEF RetiredBy
<1>4. \A g \in Executors : ExecOK(exec'[g], runs', clock')
  BY <1>1, CleanupFacts
<1> QED
  BY <1>2, <1>3, <1>4 DEF Retention, CleanupInv

(* The idle execution is one.                                                *)
LEMMA IdleExecFacts ==
  IdleExec \in ExecRecords /\ \A stored, now : ExecOK(IdleExec, stored, now)
<1>1. 0 \in Time
  BY RetentionAssumption DEF Time
<1> QED
  BY <1>1 DEF IdleExec, ExecRecords, ExecOK, Busy

(* A candidate that is not accounted for has failed; what was accounted for   *)
(* stays.                                                                    *)
LEMMA FailureFacts ==
  ASSUME NEW cleanup \in CleanupRecords, NEW retired, NEW now \in Time,
         RunOK(cleanup, retired, now),
         NEW missing \in SUBSET cleanup.plan, cleanup.status # "completed"
  PROVE  LET failing == [cleanup EXCEPT !.failed = cleanup.failed \cup (missing \ cleanup.processed)] IN
         /\ failing \in CleanupRecords /\ RunOK(failing, retired, now)
         /\ failing.status = cleanup.status /\ failing.plan = cleanup.plan
<1> DEFINE more == cleanup.failed \cup (missing \ cleanup.processed)
           failing == [cleanup EXCEPT !.failed = more]
<1>1. cleanup.plan \subseteq Hashes /\ more \subseteq cleanup.plan /\ cleanup.processed \cap more = {}
  BY DEF CleanupRecords, RunOK
<1> HIDE DEF more
<1>2. failing \in CleanupRecords
  BY <1>1 DEF CleanupRecords
<1>3. /\ failing.status = cleanup.status /\ failing.plan = cleanup.plan
      /\ failing.processed = cleanup.processed /\ failing.deleted = cleanup.deleted
      /\ failing.started = cleanup.started /\ failing.failed = more
  BY DEF CleanupRecords
<1> HIDE DEF failing
<1>4. RunOK(failing, retired, now)
  BY <1>1, <1>3 DEF RunOK
<1> QED
  BY <1>2, <1>3, <1>4 DEF failing, more

(* A listing names records by their hashes, no more than it found.           *)
LEMMA ListedFacts ==
  ASSUME NEW found \in SUBSET Docs, Cardinality(found) <= Limit,
         \A d \in found : HashOf(d) \in Hashes
  PROVE  /\ {HashOf(d) : d \in found} \in SUBSET Hashes
         /\ IsFiniteSet({HashOf(d) : d \in found})
         /\ Cardinality({HashOf(d) : d \in found}) <= Limit
<1> DEFINE listed == {HashOf(d) : d \in found}
           f == [d \in found |-> HashOf(d)]
<1>1. IsFiniteSet(found)
  BY KindFacts, FS_Subset
<1>2. f \in Surjection(found, listed)
  BY DEF Surjection
<1>3. IsFiniteSet(listed) /\ Cardinality(listed) <= Cardinality(found)
  BY <1>1, <1>2, FS_Surjection
<1>4. Cardinality(found) \in Nat /\ Cardinality(listed) \in Nat /\ Limit \in Nat
  BY <1>1, <1>3, FS_CardinalityType, RetentionAssumption
<1> QED
  BY <1>3, <1>4

(* Listing and freezing the plan.                                            *)
LEMMA PlanStep ==
  ASSUME Retention, NEW e \in Executors, (\E r \in Cleanups : List(e, r)) \/ Initialize(e)
  PROVE  Retention'
<1>0. /\ deaths \in 0..MaxDeaths /\ clock \in Time
      /\ runs \in [Cleanups -> CleanupRecords] /\ exec \in [Executors -> ExecRecords]
  BY RetentionTypes DEF Retention, RetentionTypeOK
<1>1. ASSUME NEW r \in Cleanups, List(e, r) PROVE Retention'
  <2> DEFINE now == IF runs[r].status = "new" THEN clock ELSE runs[r].started
  <2>1. PICK found \in SUBSET Docs :
          /\ Cardinality(found) <= Limit
          /\ exec' = [exec EXCEPT ![e] =
               [pc |-> "listed", run |-> r, now |-> now,
                left |-> {HashOf(d) : d \in found}, missing |-> {}]]
    BY <1>1 DEF List
  <2> DEFINE listed == {HashOf(d) : d \in found}
             execution == [pc |-> "listed", run |-> r, now |-> now, left |-> listed,
                           missing |-> {}]
  <2>2. now \in Time /\ now <= clock
    BY <1>0, CleanupFacts DEF CleanupRecords, RunOK, Time
  <2>3. \A d \in found : HashOf(d) \in Hashes
    BY RetentionTypes DEF Retention, HashOf, Hashes
  <2>4. /\ listed \in SUBSET Hashes /\ IsFiniteSet(listed) /\ Cardinality(listed) <= Limit
    BY <2>1, <2>3, ListedFacts
  <2> HIDE DEF now, listed
  <2>5. /\ execution \in ExecRecords /\ execution.pc = "listed" /\ execution.run = r
        /\ execution.now = now /\ execution.left = listed
    BY <2>2, <2>4 DEF ExecRecords
  <2>6. exec' = [exec EXCEPT ![e] = execution]
    BY <2>1 DEF listed, now
  <2>7. UNCHANGED <<clock, docs, seq, runs, deaths>>
    BY <1>1 DEF List
  <2> HIDE DEF execution
  <2>8. ExecOK(execution, runs, clock)
    BY <2>2, <2>4, <2>5 DEF ExecOK, Busy
  <2> QED
    BY <1>0, <2>5, <2>6, <2>7, <2>8, ExecutionOnly
<1>2. CASE Initialize(e)
  <2> DEFINE r == exec[e].run
             plan == IF runs[r].status = "new" THEN exec[e].left ELSE runs[r].plan
             left == IF runs[r].status = "completed" THEN {} ELSE exec[e].left \cap plan
             missing == IF runs[r].status = "completed" THEN {} ELSE plan \ left
             execution == [exec[e] EXCEPT !.pc = "resolving", !.left = left, !.missing = missing]
  <2>0. /\ exec[e].pc = "listed" /\ UNCHANGED <<clock, docs, seq, deaths>>
        /\ exec' = [exec EXCEPT ![e] = execution]
    BY <1>0, <1>2 DEF Initialize
  <2>1. /\ r \in Cleanups /\ runs[r] \in CleanupRecords /\ RunOK(runs[r], RetiredBy(r), clock)
        /\ exec[e] \in ExecRecords /\ exec[e].left \subseteq Hashes
        /\ exec[e].now <= clock /\ exec[e].now \in Time
        /\ IsFiniteSet(exec[e].left) /\ Cardinality(exec[e].left) <= Limit
    BY <2>0, CleanupFacts DEF ExecOK, ExecRecords
  <2>2. plan \subseteq Hashes /\ left \subseteq plan /\ missing \subseteq plan
    BY <2>1 DEF CleanupRecords
  <2>3. /\ runs[r].status # "new" => plan = runs[r].plan
        /\ runs[r].status = "new" => plan = exec[e].left
    OBVIOUS
  <2>4. UNCHANGED runs \/ runs[r].status = "new"
    BY <1>2 DEF Initialize
  <2>5. runs[r].status = "new" =>
          runs' = [runs EXCEPT ![r] = [runs[r] EXCEPT !.status = "open",
                     !.started = exec[e].now, !.plan = plan]]
    BY <1>0, <1>2 DEF Initialize
  <2> HIDE DEF plan, left, missing
  <2>6. /\ execution \in ExecRecords /\ execution.pc = "resolving" /\ execution.run = r
        /\ execution.now = exec[e].now /\ execution.left = left /\ execution.missing = missing
    BY <2>1, <2>2 DEF ExecRecords
  <2> HIDE DEF execution
  <2>7. CASE runs[r].status # "new"
    <3>1. UNCHANGED runs
      BY <2>4, <2>7
    <3>2. ExecOK(execution, runs, clock)
      BY <2>1, <2>2, <2>3, <2>6, <2>7 DEF ExecOK, Busy
    <3> QED
      BY <1>0, <2>0, <2>6, <3>1, <3>2, ExecutionOnly
  <2>8. CASE runs[r].status = "new"
    <3> DEFINE cleanup == [runs[r] EXCEPT !.status = "open", !.started = exec[e].now, !.plan = plan]
    <3>1. runs' = [runs EXCEPT ![r] = cleanup]
      BY <2>5, <2>8
    <3>2. /\ cleanup \in CleanupRecords /\ cleanup.status = "open" /\ cleanup.plan = plan
          /\ cleanup.started = exec[e].now /\ cleanup.processed = runs[r].processed
          /\ cleanup.failed = runs[r].failed /\ cleanup.deleted = runs[r].deleted
      BY <2>1, <2>2 DEF CleanupRecords
    <3> HIDE DEF cleanup
    <3>3. RunOK(cleanup, RetiredBy(r), clock)
      <4>1. runs[r].processed \cup runs[r].failed \subseteq {}
        BY <2>1, <2>8 DEF RunOK
      <4> QED
        BY <2>1, <2>3, <2>8, <3>2, <4>1 DEF RunOK
    <3>4. runs'[r] = cleanup
      BY <1>0, <2>1, <3>1
    <3>5. ExecOK(execution, runs', clock)
      BY <2>1, <2>2, <2>6, <3>2, <3>4 DEF ExecOK, Busy
    <3> QED
      BY <1>0, <2>0, <2>1, <2>6, <2>8, <3>1, <3>2, <3>3, <3>5, ExecutionGoes
  <2> QED
    BY <2>7, <2>8
<1> QED
  BY <1>1, <1>2

(* Failures are recorded, the run is audited, executions break off.          *)
LEMMA AccountStep ==
  ASSUME Retention, NEW e \in Executors,
         \/ RecordUnresolved(e) \/ RecordFailure(e) \/ WriteAudit(e) \/ ExecutionDies(e)
         \/ \E h \in Hashes : DeleteFails(e, h)
  PROVE  Retention'
<1> DEFINE r == exec[e].run
<1>0. /\ deaths \in 0..MaxDeaths /\ clock \in Time
      /\ runs \in [Cleanups -> CleanupRecords] /\ exec \in [Executors -> ExecRecords]
  BY RetentionTypes DEF Retention, RetentionTypeOK
<1>1. /\ exec[e] \in ExecRecords /\ ExecOK(exec[e], runs, clock)
      /\ exec[e].left \subseteq Hashes /\ exec[e].missing \subseteq Hashes
  BY CleanupFacts
<1>2. r \in Cleanups /\ runs[r] \in CleanupRecords /\ RunOK(runs[r], RetiredBy(r), clock)
  BY CleanupFacts DEF RecordUnresolved, RecordFailure, WriteAudit, ExecutionDies, DeleteFails
<1>3. ASSUME ExecutionDies(e) PROVE Retention'
  <2>1. deaths' \in 0..MaxDeaths
    BY <1>0, <1>3, RetentionAssumption DEF ExecutionDies
  <2>2. exec' = [exec EXCEPT ![e] = IdleExec] /\ UNCHANGED <<clock, docs, seq, runs>>
    BY <1>3 DEF ExecutionDies
  <2> QED
    BY <2>1, <2>2, IdleExecFacts, ExecutionOnly
<1>4. ASSUME NEW h \in Hashes, DeleteFails(e, h) PROVE Retention'
  <2> DEFINE execution == [exec[e] EXCEPT !.pc = "recording", !.missing = {h}]
  <2>1. /\ exec' = [exec EXCEPT ![e] = execution] /\ UNCHANGED <<clock, docs, seq, runs, deaths>>
        /\ exec[e].pc = "working" /\ h \in exec[e].left
    BY <1>0, <1>4 DEF DeleteFails
  <2>2. /\ execution \in ExecRecords /\ execution.pc = "recording" /\ execution.run = r
        /\ execution.now = exec[e].now /\ execution.left = exec[e].left
        /\ execution.missing = {h}
    BY <1>1 DEF ExecRecords
  <2> HIDE DEF execution
  <2>3. ExecOK(execution, runs, clock)
    BY <1>1, <2>1, <2>2 DEF ExecOK, Busy
  <2> QED
    BY <1>0, <2>1, <2>2, <2>3, ExecutionOnly
<1>5. ASSUME NEW pc \in {"resolving", "recording"}, exec[e].pc = pc,
             NEW left \in SUBSET exec[e].left,
             exec' = [exec EXCEPT ![e] = [exec[e] EXCEPT !.pc = "working", !.missing = {},
                                                         !.left = left]],
             runs' = IF runs[r].status = "completed" THEN runs
                     ELSE [runs EXCEPT ![r].failed = @ \cup (exec[e].missing \ runs[r].processed)],
             UNCHANGED <<clock, docs, seq, deaths>>
      PROVE  Retention'
  <2> DEFINE execution == [exec[e] EXCEPT !.pc = "working", !.missing = {}, !.left = left]
  <2>1. /\ execution \in ExecRecords /\ execution.pc = "working" /\ execution.run = r
        /\ execution.now = exec[e].now /\ execution.left = left /\ execution.missing = {}
    BY <1>1, <1>5 DEF ExecRecords
  <2>2. exec' = [exec EXCEPT ![e] = execution]
    BY <1>5
  <2> HIDE DEF execution
  <2>3. /\ runs[r].status # "new" /\ exec[e].left \subseteq runs[r].plan
        /\ exec[e].missing \subseteq runs[r].plan /\ exec[e].now <= clock
    BY <1>1, <1>5 DEF ExecOK, Busy
  <2>4. ASSUME NEW stored, stored[r].status # "new", stored[r].plan = runs[r].plan
        PROVE  ExecOK(execution, stored, clock)
    BY <1>2, <2>1, <2>3, <2>4 DEF ExecOK, Busy
  <2>5. CASE runs[r].status = "completed"
    <3>1. UNCHANGED runs /\ ExecOK(execution, runs, clock)
      BY <1>5, <2>3, <2>4, <2>5
    <3> QED
      BY <1>0, <1>5, <2>1, <2>2, <3>1, ExecutionOnly
  <2>6. CASE runs[r].status # "completed"
    <3> DEFINE failing == [runs[r] EXCEPT !.failed =
                              runs[r].failed \cup (exec[e].missing \ runs[r].processed)]
    <3>1. /\ failing \in CleanupRecords /\ RunOK(failing, RetiredBy(r), clock)
          /\ failing.status = runs[r].status /\ failing.plan = runs[r].plan
      BY <1>0, <1>2, <2>3, <2>6, FailureFacts
    <3>2. runs' = [runs EXCEPT ![r] = failing]
      BY <1>0, <1>2, <1>5, <2>6
    <3> HIDE DEF failing
    <3>3. runs'[r] = failing
      BY <1>0, <1>2, <3>2
    <3>4. ExecOK(execution, runs', clock)
      BY <2>3, <2>4, <3>1, <3>3
    <3> QED
      BY <1>0, <1>2, <1>5, <2>1, <2>2, <3>1, <3>2, <3>4, ExecutionGoes
  <2> QED
    BY <2>5, <2>6
<1>6. ASSUME RecordUnresolved(e) PROVE Retention'
  <2>1. exec' = [exec EXCEPT ![e] = [exec[e] EXCEPT !.pc = "working", !.missing = {},
                                                    !.left = exec[e].left]]
    <3>1. [exec[e] EXCEPT !.pc = "working", !.missing = {}, !.left = exec[e].left] =
            [exec[e] EXCEPT !.pc = "working", !.missing = {}]
      BY <1>1 DEF ExecRecords
    <3> QED
      BY <1>0, <1>6, <3>1 DEF RecordUnresolved
  <2> QED
    BY <1>5, <1>6, <2>1 DEF RecordUnresolved
<1>7. ASSUME RecordFailure(e) PROVE Retention'
  <2>1. exec' = [exec EXCEPT ![e] = [exec[e] EXCEPT !.pc = "working", !.missing = {},
                                                    !.left = exec[e].left \ exec[e].missing]]
    BY <1>0, <1>1, <1>7 DEF RecordFailure, ExecRecords
  <2>2. exec[e].pc = "recording" /\ UNCHANGED <<clock, docs, seq, deaths>>
    BY <1>7 DEF RecordFailure
  <2>3. runs' = IF runs[r].status = "completed" THEN runs
                ELSE [runs EXCEPT ![r].failed = @ \cup (exec[e].missing \ runs[r].processed)]
    BY <1>7 DEF RecordFailure
  <2>4. exec[e].left \ exec[e].missing \in SUBSET exec[e].left
    OBVIOUS
  <2> HIDE DEF r
  <2> QED
    BY <1>5, <2>1, <2>2, <2>3, <2>4
<1>8. ASSUME WriteAudit(e) PROVE Retention'
  <2>1. exec' = [exec EXCEPT ![e] = IdleExec] /\ UNCHANGED <<clock, docs, seq, deaths>>
        /\ exec[e].pc = "working"
    BY <1>8 DEF WriteAudit
  <2>2. CASE UNCHANGED runs
    BY <1>0, <2>1, <2>2, IdleExecFacts, ExecutionOnly
  <2>3. CASE /\ runs[r].plan = runs[r].processed \cup runs[r].failed
             /\ runs' = [runs EXCEPT ![r].status = "completed"]
    <3> DEFINE cleanup == [runs[r] EXCEPT !.status = "completed"]
    <3>1. /\ cleanup \in CleanupRecords /\ cleanup.status = "completed" /\ cleanup.plan = runs[r].plan
          /\ cleanup.started = runs[r].started /\ cleanup.processed = runs[r].processed
          /\ cleanup.failed = runs[r].failed /\ cleanup.deleted = runs[r].deleted
      BY <1>2 DEF CleanupRecords
    <3>2. runs' = [runs EXCEPT ![r] = cleanup]
      BY <1>0, <1>2, <2>3
    <3> HIDE DEF cleanup
    <3>3. RunOK(cleanup, RetiredBy(r), clock)
      BY <1>2, <2>3, <3>1 DEF RunOK
    <3> QED
      BY <1>0, <1>2, <2>1, <3>1, <3>2, <3>3, IdleExecFacts, ExecutionGoes
  <2> QED
    BY <1>8, <2>2, <2>3 DEF WriteAudit
<1> QED
  BY <1>3, <1>4, <1>6, <1>7, <1>8

(* The run with one more candidate processed and n more records retired.     *)
Processed(cleanup, h, n) ==
  [cleanup EXCEPT !.processed = cleanup.processed \cup {h}, !.deleted = cleanup.deleted + n]

(* One more candidate is processed, and perhaps one more record retired: the *)
(* count keeps up with the records, and both with the bounded plan.          *)
LEMMA ProcessedFacts ==
  ASSUME NEW cleanup \in CleanupRecords, NEW retired \in SUBSET Docs, NEW now \in Time,
         RunOK(cleanup, retired, now), IsFiniteSet(retired),
         NEW h \in cleanup.plan, h \notin cleanup.processed \cup cleanup.failed,
         cleanup.status # "completed",
         NEW n \in {0, 1}, NEW d \in Docs, n = 1 => d \notin retired
  PROVE  /\ Processed(cleanup, h, n) \in CleanupRecords
         /\ RunOK(Processed(cleanup, h, n), IF n = 1 THEN retired \cup {d} ELSE retired, now)
         /\ Processed(cleanup, h, n).status = cleanup.status /\ Processed(cleanup, h, n).plan = cleanup.plan
<1> DEFINE done == cleanup.processed \cup {h}
           count == cleanup.deleted + n
           all == IF n = 1 THEN retired \cup {d} ELSE retired
           next == [cleanup EXCEPT !.processed = done, !.deleted = count]
<1>0. next = Processed(cleanup, h, n)
  BY DEF Processed
<1>1. /\ cleanup.plan \subseteq Hashes /\ cleanup.deleted \in Nat /\ IsFiniteSet(cleanup.plan)
      /\ Cardinality(cleanup.plan) <= Limit /\ cleanup.deleted = Cardinality(retired)
      /\ cleanup.deleted <= Cardinality(cleanup.processed) /\ cleanup.processed \subseteq cleanup.plan
  BY RetentionAssumption DEF CleanupRecords, RunOK
<1>2. done \in SUBSET cleanup.plan /\ h \notin cleanup.processed
  BY <1>1
<1>3. IsFiniteSet(done) /\ Cardinality(done) <= Cardinality(cleanup.plan)
  BY <1>1, <1>2, FS_Subset
<1>4. IsFiniteSet(cleanup.processed) /\ cleanup.processed \in SUBSET cleanup.plan
  BY <1>1, FS_Subset
<1>5. Cardinality(done) = Cardinality(cleanup.processed) + 1
  BY <1>2, <1>4, FS_AddElement
<1>6. /\ Cardinality(cleanup.processed) \in Nat /\ Cardinality(done) \in Nat
      /\ Cardinality(cleanup.plan) \in Nat /\ Limit \in Nat
  BY <1>1, <1>3, <1>4, FS_CardinalityType, RetentionAssumption
<1>7. count = Cardinality(all)
  <2>1. CASE n = 1
    BY <1>1, <2>1, FS_AddElement
  <2>2. CASE n = 0
    BY <1>1, <2>2
  <2> QED
    BY <2>1, <2>2
<1> HIDE DEF done, all
<1>8. count \in 0..Limit /\ count <= Cardinality(done)
  BY <1>1, <1>3, <1>5, <1>6
<1> HIDE DEF count
<1>9. next \in CleanupRecords
  BY <1>1, <1>2, <1>8 DEF CleanupRecords
<1>10. /\ next.status = cleanup.status /\ next.plan = cleanup.plan /\ next.processed = done
       /\ next.deleted = count /\ next.started = cleanup.started /\ next.failed = cleanup.failed
  BY DEF CleanupRecords
<1>11. done \cup cleanup.failed \subseteq cleanup.plan /\ done \cap cleanup.failed = {}
  BY <1>2 DEF RunOK, done
<1> HIDE DEF next
<1>12. cleanup.status # "new"
  BY DEF RunOK
<1>13. RunOK(next, all, now)
  BY <1>7, <1>8, <1>10, <1>11, <1>12 DEF RunOK
<1> QED
  BY <1>0, <1>9, <1>10, <1>13 DEF all

(* A record is retired: nobody needs it, and it counts for no other run.     *)
LEMMA RetiredFacts ==
  ASSUME Retention, NEW d \in Docs, NEW r \in Cleanups, docs' = Retire(r, d),
         docs[d].state \in {"uploading", "live"}, ~Retained(d), UNCHANGED seq
  PROVE  /\ docs' \in [Docs -> DocRecords] /\ RecordsInv'
         /\ d \notin RetiredBy(r) /\ RetiredBy(r)' = RetiredBy(r) \cup {d}
         /\ \A q \in Cleanups : q # r => RetiredBy(q)' = RetiredBy(q)
<1> DEFINE record == [docs[d] EXCEPT !.state = "retired", !.by = r]
<1>0. docs[d] \in DocRecords /\ docs \in [Docs -> DocRecords]
  BY RetentionTypes DEF Retention
<1>1. docs' = [docs EXCEPT ![d] = record]
  BY <1>0 DEF Retire
<1>2. record \in DocRecords /\ record.state = "retired" /\ record.by = r
  BY <1>0 DEF DocRecords
<1> HIDE DEF record
<1>3. /\ docs'[d] = record /\ \A c \in Docs : c # d => docs'[c] = docs[c]
      /\ docs' \in [Docs -> DocRecords]
  BY <1>0, <1>1, <1>2
<1>4. docs[d].by = NoCleanup /\ NoCleanup \notin Cleanups
  BY RetentionAssumption DEF Retention, RecordsInv, DocOK
<1>5. d \notin RetiredBy(r) /\ RetiredBy(r)' = RetiredBy(r) \cup {d}
  BY <1>2, <1>3, <1>4 DEF RetiredBy
<1>6. ASSUME NEW q \in Cleanups, q # r PROVE RetiredBy(q)' = RetiredBy(q)
  BY <1>2, <1>3, <1>4, <1>6 DEF RetiredBy
<1>7. \A c \in Docs : DocOK(c, docs'[c])
  BY <1>2, <1>3 DEF Retention, RecordsInv, DocOK
<1>8. NeededIsKept'
  <2> SUFFICES ASSUME NEW s \in Seqs
               PROVE  /\ docs'[s].state = "live" => \A f \in seq[s].refs : docs'[f].state = "live"
                      /\ seq[s].unresolved # NoKid =>
                           docs'[s].state = "live" /\ docs'[seq[s].unresolved].state = "live"
    BY DEF NeededIsKept
  <2>1. /\ docs[s].state = "live" => \A f \in seq[s].refs : docs[f].state = "live"
        /\ seq[s].unresolved # NoKid =>
             /\ docs[s].state = "live" /\ docs[seq[s].unresolved].state = "live"
             /\ ParentOf[seq[s].unresolved] = s
    BY DEF Retention, RecordsInv, NeededIsKept, ParentsAreKnown
  <2>2. /\ s \in Docs /\ seq[s].refs \subseteq Files
        /\ seq[s].unresolved # NoKid => seq[s].unresolved \in Kids
    BY KindFacts, RetentionTypes DEF Retention
  <2>3. ASSUME docs'[s].state = "live", NEW f \in seq[s].refs PROVE docs'[f].state = "live"
    <3>1. docs[s].state = "live" /\ docs[f].state = "live" /\ f \in Files /\ f \in Docs
      BY <1>2, <1>3, <2>1, <2>2, <2>3, KindFacts
    <3>2. f # d
      BY <2>3, <3>1 DEF Retained
    <3> QED
      BY <1>3, <3>1, <3>2
  <2>4. ASSUME seq[s].unresolved # NoKid
        PROVE  docs'[s].state = "live" /\ docs'[seq[s].unresolved].state = "live"
    <3>1. Protects(s)
      BY <2>1, <2>4 DEF Protects, Active
    <3>2. s # d /\ seq[s].unresolved # d
      BY <2>1, <2>2, <2>4, <3>1 DEF Retained
    <3> QED
      BY <1>3, <2>1, <2>2, <2>4, <3>2, KindFacts
  <2> QED
    BY <2>3, <2>4
<1>9. RecordsInv'
  BY <1>7, <1>8 DEF Retention, RecordsInv, ParentsAreKnown
<1> QED
  BY <1>3, <1>5, <1>6, <1>9

(* A run goes on with an execution and retires a record.                     *)
LEMMA ExecutionRetires ==
  ASSUME Retention, NEW e \in Executors, NEW r \in Cleanups, NEW d \in Docs,
         UNCHANGED <<clock, seq, deaths>>,
         docs' = Retire(r, d), docs[d].state \in {"uploading", "live"}, ~Retained(d),
         NEW cleanup \in CleanupRecords, NEW execution \in ExecRecords,
         runs' = [runs EXCEPT ![r] = cleanup], exec' = [exec EXCEPT ![e] = execution],
         RunOK(cleanup, RetiredBy(r) \cup {d}, clock),
         cleanup.status = runs[r].status, cleanup.plan = runs[r].plan,
         ExecOK(execution, runs', clock)
  PROVE  Retention'
<1>0. docs' \in [Docs -> DocRecords] /\ RecordsInv' /\ RetiredBy(r)' = RetiredBy(r) \cup {d}
      /\ \A q \in Cleanups : q # r => RetiredBy(q)' = RetiredBy(q)
  BY RetiredFacts
<1>1. /\ runs'[r] = cleanup /\ \A q \in Cleanups : q # r => runs'[q] = runs[q]
      /\ runs' \in [Cleanups -> CleanupRecords]
      /\ exec'[e] = execution /\ \A g \in Executors : g # e => exec'[g] = exec[g]
      /\ exec' \in [Executors -> ExecRecords]
  BY RetentionTypes DEF Retention
<1>2. RetentionTypeOK'
  BY <1>0, <1>1 DEF Retention, RetentionTypeOK
<1>3. \A q \in Cleanups : RunOK(runs'[q], RetiredBy(q)', clock')
  BY <1>0, <1>1, CleanupFacts
<1>4. ASSUME NEW g \in Executors PROVE ExecOK(exec'[g], runs', clock')
  <2>1. CASE g = e
    BY <1>1, <2>1
  <2>2. CASE g # e
    <3>1. exec'[g] = exec[g] /\ ExecOK(exec[g], runs, clock)
      BY <1>1, <2>2, CleanupFacts
    <3>2. exec[g].pc \in Busy => exec[g].run \in Cleanups
      BY <3>1 DEF ExecOK, Busy
    <3> QED
      BY <1>1, <3>1, <3>2 DEF ExecOK
  <2> QED
    BY <2>1, <2>2
<1> QED
  BY <1>0, <1>2, <1>3, <1>4 DEF Retention, CleanupInv

(* The transaction about one candidate, answered or not.                     *)
LEMMA DeleteStep ==
  ASSUME Retention, NEW e \in Executors, NEW h \in Hashes, NEW answered \in BOOLEAN,
         DeleteIfEligible(e, h, answered)
  PROVE  Retention'
<1> DEFINE r == exec[e].run
           execution == IF answered
                          THEN [exec[e] EXCEPT !.left = exec[e].left \ {h}]
                          ELSE [exec[e] EXCEPT !.pc = "recording", !.missing = {h}]
<1>0. /\ deaths \in 0..MaxDeaths /\ clock \in Time
      /\ runs \in [Cleanups -> CleanupRecords] /\ exec \in [Executors -> ExecRecords]
  BY RetentionTypes DEF Retention, RetentionTypeOK
<1>1. /\ exec[e] \in ExecRecords /\ ExecOK(exec[e], runs, clock)
      /\ exec[e].pc = "working" /\ h \in exec[e].left /\ UNCHANGED <<clock, seq, deaths>>
  BY CleanupFacts DEF DeleteIfEligible
<1>2. r \in Cleanups /\ runs[r] \in CleanupRecords /\ RunOK(runs[r], RetiredBy(r), clock)
  BY <1>1, CleanupFacts
<1>3. exec' = [exec EXCEPT ![e] = execution]
  <2>1. CASE answered
    BY <1>0, <2>1 DEF DeleteIfEligible
  <2>2. CASE ~answered
    BY <1>0, <2>2 DEF DeleteIfEligible
  <2> QED
    BY <2>1, <2>2
<1>4. /\ execution \in ExecRecords /\ execution.pc \in {"working", "recording"}
      /\ execution.run = r /\ execution.now = exec[e].now
      /\ execution.left \subseteq exec[e].left /\ execution.missing \subseteq exec[e].missing \cup {h}
  <2>1. CASE answered
    BY <1>1, <2>1 DEF ExecRecords
  <2>2. CASE ~answered
    BY <1>1, <2>2 DEF ExecRecords
  <2> QED
    BY <2>1, <2>2
<1> HIDE DEF execution
<1>5. /\ runs[r].status # "new" /\ h \in runs[r].plan /\ exec[e].now <= clock
      /\ exec[e].left \subseteq runs[r].plan /\ exec[e].missing \subseteq runs[r].plan
  BY <1>1 DEF ExecOK, Busy
<1>6. ASSUME NEW stored, stored[r].status # "new", stored[r].plan = runs[r].plan
      PROVE  ExecOK(execution, stored, clock)
  BY <1>2, <1>4, <1>5, <1>6 DEF ExecOK, Busy
<1>7. CASE runs[r].status = "completed" \/ Accounted(r, h)
  <2>1. UNCHANGED <<docs, runs>>
    BY <1>7 DEF DeleteIfEligible
  <2>2. ExecOK(execution, runs, clock)
    BY <1>5, <1>6
  <2> QED
    BY <1>0, <1>1, <1>3, <1>4, <2>1, <2>2, ExecutionOnly
<1>8. CASE ~(runs[r].status = "completed" \/ Accounted(r, h))
  <2> DEFINE n == IF Retires(e, h) THEN 1 ELSE 0
             d == h[1]
             cleanup == [runs[r] EXCEPT !.processed = runs[r].processed \cup {h},
                                    !.deleted = runs[r].deleted + n]
  <2>1. /\ docs' = IF Retires(e, h) THEN Retire(r, d) ELSE docs
        /\ runs' = [runs EXCEPT ![r] = cleanup]
    BY <1>0, <1>2, <1>8 DEF DeleteIfEligible
  <2>2. d \in Docs /\ n \in {0, 1}
    BY DEF Hashes
  <2>3. Retires(e, h) => docs[d].state \in {"uploading", "live"} /\ ~Retained(d)
    BY DEF Retires, Eligible
  <2>4. n = 1 => d \notin RetiredBy(r)
    BY <1>2, <2>2, <2>3, RetentionAssumption
       DEF Retention, RecordsInv, DocOK, RetiredBy
  <2>5. IsFiniteSet(RetiredBy(r))
    <3>1. RetiredBy(r) \in SUBSET Docs
      BY DEF RetiredBy
    <3> QED
      BY <3>1, KindFacts, FS_Subset
  <2>6. h \notin runs[r].processed \cup runs[r].failed /\ runs[r].status # "completed"
    BY <1>8 DEF Accounted
  <2>7. n = 1 <=> Retires(e, h)
    <3>1. CASE Retires(e, h)
      BY <3>1
    <3>2. CASE ~Retires(e, h)
      BY <3>2
    <3> QED
      BY <3>1, <3>2
  <2>12. RunOK(runs[r], RetiredBy(r), clock) /\ runs[r] \in CleanupRecords
    BY <1>2
  <2> HIDE DEF n, r, d
  <2>8. /\ cleanup \in CleanupRecords
        /\ RunOK(cleanup, IF n = 1 THEN RetiredBy(r) \cup {d} ELSE RetiredBy(r), clock)
        /\ cleanup.status = runs[r].status /\ cleanup.plan = runs[r].plan
    <3> DEFINE stored == runs[r]
               retired == RetiredBy(r)
    <3>1. /\ stored \in CleanupRecords /\ RunOK(stored, retired, clock)
          /\ h \in stored.plan /\ h \notin stored.processed \cup stored.failed
          /\ stored.status # "completed" /\ clock \in Time
          /\ n \in {0, 1} /\ d \in Docs /\ (n = 1 => d \notin retired)
          /\ retired \in SUBSET Docs /\ IsFiniteSet(retired)
      BY <1>0, <1>5, <2>2, <2>4, <2>5, <2>6, <2>12 DEF RetiredBy
    <3> HIDE DEF stored, retired
    <3>2. /\ Processed(stored, h, n) \in CleanupRecords
          /\ RunOK(Processed(stored, h, n), IF n = 1 THEN retired \cup {d} ELSE retired, clock)
          /\ Processed(stored, h, n).status = stored.status
          /\ Processed(stored, h, n).plan = stored.plan
      BY ONLY ZenonT(30), <3>1, ProcessedFacts
    <3> QED
      BY <3>2 DEF stored, retired, Processed
  <2> HIDE DEF cleanup
  <2>9. ExecOK(execution, runs', clock)
    <3>1. runs'[r] = cleanup
      BY <1>0, <1>2, <2>1
    <3> QED
      BY <1>5, <1>6, <2>8, <3>1
  <2>10. CASE Retires(e, h)
    <3>1. docs' = Retire(r, d) /\ RunOK(cleanup, RetiredBy(r) \cup {d}, clock)
      BY <2>1, <2>7, <2>8, <2>10
    <3> QED
      BY <1>1, <1>2, <1>3, <1>4, <2>1, <2>2, <2>3, <2>8, <2>9, <2>10, <3>1, ExecutionRetires
  <2>11. CASE ~Retires(e, h)
    <3>1. UNCHANGED docs /\ RunOK(cleanup, RetiredBy(r), clock)
      BY <2>1, <2>7, <2>8, <2>11
    <3> QED
      BY <1>0, <1>1, <1>2, <1>3, <1>4, <1>5, <2>1, <2>8, <2>9, <3>1, ExecutionGoes
  <2> QED
    BY <2>10, <2>11
<1> QED
  BY <1>7, <1>8

-----------------------------------------------------------------------------
(* The invariant and its consequences                                        *)

(* In the beginning there are no records and no runs.                        *)
LEMMA InitRetention == RetentionInit => Retention
<1> SUFFICES ASSUME RetentionInit PROVE Retention
  OBVIOUS
<1>0. 0 \in Time /\ 0 \in 0..MaxDecisions /\ 0 \in 0..MaxDeaths /\ 0 \in 0..Limit
      /\ NoCleanup \notin Cleanups
  BY RetentionAssumption DEF Time
<1>1. RetentionTypeOK
  <2>1. NoDoc \in DocRecords
    BY <1>0 DEF NoDoc, DocRecords
  <2>2. IdleExec \in ExecRecords
    BY IdleExecFacts
  <2>3. [refs |-> {}, finished |-> FALSE, unresolved |-> NoKid] \in SeqRecords
    BY DEF SeqRecords
  <2>4. [status |-> "new", started |-> 0, plan |-> {}, processed |-> {}, failed |-> {},
         deleted |-> 0] \in CleanupRecords
    BY <1>0 DEF CleanupRecords
  <2> QED
    BY <1>0, <2>1, <2>2, <2>3, <2>4 DEF RetentionInit, RetentionTypeOK
<1>2. RecordsInv
  BY KindFacts DEF RetentionInit, RecordsInv, NeededIsKept, ParentsAreKnown, DocOK, NoDoc
<1>3. ASSUME NEW r \in Cleanups PROVE RunOK(runs[r], RetiredBy(r), clock)
  <2>1. RetiredBy(r) = {}
    BY <1>0 DEF RetentionInit, RetiredBy, NoDoc
  <2>2. IsFiniteSet({}) /\ Cardinality({}) = 0
    BY FS_EmptySet
  <2> QED
    <3> DEFINE cleanup == runs[r]
    <3>1. /\ cleanup.status = "new" /\ cleanup.started = 0 /\ cleanup.plan = {} /\ cleanup.processed = {}
          /\ cleanup.failed = {} /\ cleanup.deleted = 0 /\ clock = 0
      BY DEF RetentionInit
    <3>2. Limit \in Nat
      BY RetentionAssumption
    <3> HIDE DEF cleanup
    <3>3. RunOK(cleanup, {}, clock)
      BY <2>2, <3>1, <3>2 DEF RunOK
    <3> QED
      BY <2>1, <3>3 DEF cleanup
<1>4. ASSUME NEW e \in Executors PROVE ExecOK(exec[e], runs, clock)
  BY IdleExecFacts DEF RetentionInit
<1> QED
  BY <1>1, <1>2, <1>3, <1>4 DEF Retention, CleanupInv

(* Every step keeps the invariant.                                           *)
LEMMA NextRetention == Retention /\ [RetentionNext]_retentionVars => Retention'
<1> SUFFICES ASSUME Retention, [RetentionNext]_retentionVars PROVE Retention'
  OBVIOUS
<1>1. CASE UNCHANGED retentionVars
  BY <1>1 DEF retentionVars, Retention, RetentionTypeOK, RecordsInv, NeededIsKept,
              ParentsAreKnown, CleanupInv, RetiredBy
<1>2. CASE RecordStep \/ ClockTicks
  BY <1>2, RecordSteps
<1>3. ASSUME NEW e \in Executors, (\E r \in Cleanups : List(e, r)) \/ ExecStep(e) \/ Fault(e)
      PROVE  Retention'
  <2>1. CASE (\E r \in Cleanups : List(e, r)) \/ Initialize(e)
    BY <2>1, PlanStep
  <2>2. CASE \/ RecordUnresolved(e) \/ RecordFailure(e) \/ WriteAudit(e) \/ ExecutionDies(e)
             \/ \E h \in Hashes : DeleteFails(e, h)
    BY <2>2, AccountStep
  <2>3. CASE \E h \in Hashes, answered \in BOOLEAN : DeleteIfEligible(e, h, answered)
    BY <2>3, DeleteStep
  <2> QED
    BY <1>3, <2>1, <2>2, <2>3 DEF ExecStep, Fault
<1> QED
  BY <1>1, <1>2, <1>3 DEF RetentionNext

(* The inductive invariant of retention holds of every behaviour.            *)
THEOREM RetentionKept == RetentionSpec => []Retention
BY InitRetention, NextRetention, PTL DEF RetentionSpec

(* RetentionInv of the run: what is still on record has the files, the       *)
(* occurrence and the sequence it needs, although retention-store.ts retires *)
(* from plans that are older than the writes it races.                       *)
THEOREM NeededStaysOnRecord == RetentionSpec => []RetentionInv
<1>1. Retention => RetentionInv
  BY DEF Retention, RecordsInv, RetentionInv
<1> QED
  BY <1>1, RetentionKept, PTL

(* Processed and failed candidates are apart, and together at most the plan. *)
LEMMA CountFacts == Retention => CountsAreExact
<1> SUFFICES ASSUME Retention, NEW r \in Cleanups
             PROVE  /\ runs[r].deleted = Cardinality({d \in Docs : docs[d].by = r})
                    /\ runs[r].deleted + Cardinality(runs[r].failed) <= Cardinality(runs[r].plan)
                    /\ Cardinality(runs[r].plan) <= Limit
                    /\ runs[r].status = "completed" =>
                         /\ runs[r].processed \cup runs[r].failed = runs[r].plan
                         /\ runs[r].processed \cap runs[r].failed = {}
  BY DEF CountsAreExact
<1> DEFINE processed == runs[r].processed
           failed == runs[r].failed
           plan == runs[r].plan
<1>1. RunOK(runs[r], RetiredBy(r), clock)
  BY DEF Retention, CleanupInv
<1>2. /\ IsFiniteSet(plan) /\ processed \cup failed \in SUBSET plan /\ processed \cap failed = {}
      /\ processed \in SUBSET plan /\ failed \in SUBSET plan
      /\ runs[r].deleted <= Cardinality(processed)
  BY <1>1 DEF RunOK
<1>3. /\ IsFiniteSet(processed) /\ IsFiniteSet(failed)
      /\ Cardinality(processed \cup failed) <= Cardinality(plan)
  BY <1>2, FS_Subset
<1>4. Cardinality(processed \cup failed) = Cardinality(processed) + Cardinality(failed) - 0
  BY <1>2, <1>3, FS_Union, FS_EmptySet
<1>5. /\ Cardinality(processed) \in Nat /\ Cardinality(failed) \in Nat
      /\ Cardinality(plan) \in Nat /\ runs[r].deleted \in Int
  BY <1>2, <1>3, FS_CardinalityType, CleanupFacts DEF CleanupRecords
<1> HIDE DEF processed, failed, plan
<1>6. runs[r].deleted + Cardinality(failed) <= Cardinality(plan)
  BY <1>2, <1>3, <1>4, <1>5
<1> QED
  BY <1>1, <1>6 DEF RunOK, RetiredBy, failed, plan

(* CountsAreExact of the run: the audited counts are the records retired,    *)
(* with answers lost, executions overlapping and commands repeated.          *)
THEOREM AuditsCountWhatHappened == RetentionSpec => []CountsAreExact
BY CountFacts, RetentionKept, PTL

(* No record is retired but by the transaction of deleteIfEligible.          *)
LEMMA OnlyDeletesRetire ==
  ASSUME Retention, [RetentionNext]_retentionVars, NEW d \in Docs,
         docs[d].state # "retired", docs'[d].state = "retired"
  PROVE  \E e \in Executors : Eligible(d, exec[e].now) /\ exec[e].pc = "working"
<1>0. docs \in [Docs -> DocRecords] /\ Files \subseteq Docs /\ Seqs \subseteq Docs /\ Kids \subseteq Docs
  BY KindFacts, RetentionTypes DEF Retention
<1>1. ASSUME UNCHANGED docs PROVE FALSE
  BY <1>1
<1>2. ASSUME NEW f \in Files, Upload(f) \/ PublishReady(f) PROVE FALSE
  <2>1. CASE d = f
    <3>1. docs[d] \in DocRecords
      BY RetentionTypes DEF Retention
    <3>2. CASE Upload(f)
      BY <1>0, <2>1, <3>1, <3>2 DEF Upload, DocRecords
    <3>3. CASE PublishReady(f)
      BY <1>0, <2>1, <3>1, <3>3 DEF PublishReady, DocRecords
    <3> QED
      BY <1>2, <3>2, <3>3
  <2>2. CASE d # f
    BY <1>0, <1>2, <2>2 DEF Upload, PublishReady
  <2> QED
    BY <2>1, <2>2
<1>3. ASSUME NEW s \in Seqs, NEW record, StoreSequence(s, record) PROVE FALSE
  BY <1>0, <1>3 DEF StoreSequence
<1>4. ASSUME NEW k \in Kids, ClaimOccurrence(k) PROVE FALSE
  <2>1. PICK s \in Docs : s = ParentOf[k]
    BY <1>0, KindFacts
  <2>2. docs[s].state = "live"
    BY <1>4, <2>1 DEF ClaimOccurrence
  <2>3. \/ docs'[d] = docs[d] \/ docs'[d].state = "live" \/ docs'[d].state = docs[d].state
    <3>1. docs' = [docs EXCEPT
             ![k].state = "live", ![k].anchor = clock, ![k].expires = Expiry(k, clock, FALSE),
             ![s].op = TRUE, ![s].anchor = clock, ![s].expires = Never]
      BY <1>4, <2>1 DEF ClaimOccurrence
    <3>2. CASE d = s
      BY <1>0, <1>4, <2>2, <3>1, <3>2, RetentionTypes DEF Retention, DocRecords
    <3>3. CASE d # s
      BY <1>0, <3>1, <3>3, RetentionTypes DEF Retention, DocRecords
    <3> QED
      BY <3>2, <3>3
  <2> QED
    BY <2>3
<1>5. ASSUME NEW c \in Docs, NEW hold \in BOOLEAN, DecideHold(c, hold) PROVE FALSE
  BY <1>0, <1>5 DEF DecideHold
<1>6. ASSUME NEW e \in Executors, NEW h \in Hashes, NEW answered \in BOOLEAN,
             DeleteIfEligible(e, h, answered)
      PROVE  Eligible(d, exec[e].now) /\ exec[e].pc = "working"
  <2>1. /\ Retires(e, h) /\ docs' = Retire(exec[e].run, h[1]) /\ exec[e].pc = "working"
    BY <1>1, <1>6 DEF DeleteIfEligible
  <2>2. h[1] = d
    BY <1>0, <2>1 DEF Retire
  <2> QED
    BY <2>1, <2>2 DEF Retires
<1>7. ASSUME ClockTicks PROVE FALSE
  BY <1>1, <1>7 DEF ClockTicks
<1>8. ASSUME NEW e \in Executors,
             \/ \E r \in Cleanups : List(e, r)
             \/ Initialize(e) \/ RecordUnresolved(e) \/ RecordFailure(e) \/ WriteAudit(e)
             \/ ExecutionDies(e) \/ \E h \in Hashes : DeleteFails(e, h)
      PROVE  FALSE
  BY <1>1, <1>8 DEF List, Initialize, RecordUnresolved, RecordFailure, WriteAudit,
                    ExecutionDies, DeleteFails
<1>9. CASE UNCHANGED retentionVars
  BY <1>1, <1>9 DEF retentionVars
<1>10. ASSUME RecordStep PROVE FALSE
  BY <1>2, <1>3, <1>4, <1>5, <1>10 DEF RecordStep, WriteSequence, SettleOccurrence
<1>11. ASSUME NEW e \in Executors, ExecStep(e) \/ Fault(e)
       PROVE  Eligible(d, exec[e].now) /\ exec[e].pc = "working"
  BY <1>6, <1>8, <1>11 DEF ExecStep, Fault
<1> QED
  BY <1>7, <1>8, <1>9, <1>10, <1>11 DEF RetentionNext

(* HeldIsKept of the run: a legal hold placed, or a use begun, between the   *)
(* listing and the delete stands.                                            *)
THEOREM HoldsStand == RetentionSpec => HeldIsKept
<1> DEFINE Kept == \A d \in Docs : docs[d].state # "retired" /\ docs'[d].state = "retired" =>
                     /\ ~docs[d].hold /\ ~docs[d].op
                     /\ docs[d].anchor + PeriodOf(d) <= clock
<1>1. Retention /\ [RetentionNext]_retentionVars => Kept
  <2> SUFFICES ASSUME Retention, [RetentionNext]_retentionVars, NEW d \in Docs,
                      docs[d].state # "retired", docs'[d].state = "retired"
               PROVE  /\ ~docs[d].hold /\ ~docs[d].op
                      /\ docs[d].anchor + PeriodOf(d) <= clock
    OBVIOUS
  <2>1. PICK e \in Executors : Eligible(d, exec[e].now) /\ exec[e].pc = "working"
    BY OnlyDeletesRetire
  <2>2. exec[e].now <= clock /\ exec[e].now \in Int /\ clock \in Int
    BY <2>1, CleanupFacts DEF ExecOK, ExecRecords, Time, Retention, RetentionTypeOK
  <2>3. docs[d].anchor + PeriodOf(d) \in Int
    BY RetentionTypes, RetentionAssumption DEF Retention, PeriodOf, Time
  <2> QED
    BY <2>1, <2>2, <2>3 DEF Eligible
<1>2. Kept => [Kept]_retentionVars
  OBVIOUS
<1> QED
  BY <1>1, <1>2, RetentionKept, PTL DEF RetentionSpec, HeldIsKept
=============================================================================
