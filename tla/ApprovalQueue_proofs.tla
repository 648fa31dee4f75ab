------------------------ MODULE ApprovalQueue_proofs ------------------------
(***************************************************************************)
(* Theorems about the Approval Queue, for every set of triggers, staff     *)
(* members and action identities and any number of items.                  *)
(*                                                                         *)
(* Every step rewrites one open item, or adds one for a trigger that has    *)
(* none open, and takes at most one ledger transaction with it.  What an   *)
(* item says holds of the item and its ledger record alone: an item that   *)
(* is ready has both owners, which makes the one who may approve it its    *)
(* approver; and a linked item's record, once recorded, never awaits a     *)
(* decision again and never leaves a final state.                          *)
(***************************************************************************)
EXTENDS ApprovalQueue, ActionExecution_proofs, WellFoundedInduction

Agrees(status, state) ==
  /\ state # "None"
  /\ status = "Approved" => state # "Awaiting Admin"
  /\ status = "Returned" => state = "Returned"
  /\ status \in {"Disabled", "Closed"} => state = "Revoked"
  /\ status # "Denied"

ItemOK(item, records) ==
  /\ item.status = "Ready for Approval" => Owned(item.assignee, item.approver)
  /\ item.status = "Approved" /\ ~Admin(item.by) =>
       item.by = item.approver /\ item.by # item.assignee
  /\ item.key \in Ids => Agrees(item.status, records[item.key].state)

PreparedAreRecorded ==
  \A a \in Actors : preparing[a] \in Ids => ledger[preparing[a]].state # "None"

(* Nobody prepared what has no record.                                       *)
BareRecords == \A id \in Ids : ledger[id].state = "None" => ledger[id].preparer = NoActor

ApprovalInv ==
  /\ LedgerInv
  /\ BareRecords
  /\ TypeOK
  /\ OneOpenItemPerTrigger
  /\ \A i \in Numbers : ItemOK(items[i], ledger)
  /\ PreparedAreRecorded

(* What a step may not do to an item that is closed.                         *)
DecisionsStand ==
  \A i \in Numbers : items[i].status \in Terminal =>
    items'[i].status = items[i].status /\ items'[i].by = items[i].by

-----------------------------------------------------------------------------
(* Items                                                                     *)

(* The lowest number of a set of items is one of them.                       *)
LEMMA MinFacts ==
  ASSUME NEW S \in SUBSET Numbers, S # {}
  PROVE  Min(S) \in S
<1>0. S \in SUBSET Nat
  BY QueueAssumption DEF Numbers
<1>1. \E x \in S : \A y \in S : ~(<<y, x>> \in OpToRel(<, Nat))
  BY <1>0, NatLessThanWellFounded, WFMin
<1>2. PICK x \in S : \A y \in S : ~(<<y, x>> \in OpToRel(<, Nat))
  BY <1>1
<1>3. \A y \in S : ~(y < x)
  BY <1>0, <1>2 DEF OpToRel
<1>4. \A y \in S : x <= y
  BY <1>0, <1>3
<1> QED
  BY <1>4 DEF Min

(* No item is one.                                                           *)
LEMMA NoItemFacts == NoItem \in ItemRecords /\ NoItem.status = "None" /\ NoItem.key \notin Keys
<1>1. 0 \in 0..MaxItems
  BY QueueAssumption
<1> QED
  BY <1>1, QueueAssumption DEF NoItem, ItemRecords, Owners, Keys

(* A ledger transaction leaves what the items say true.                      *)
LEMMA LedgerFacts ==
  ASSUME ApprovalInv, [LedgerNext]_ledgerVars
  PROVE  /\ LedgerInv' /\ BareRecords'
         /\ \A id \in Ids : ledger[id].state # "None" => ledger'[id].state # "None"
         /\ \A item \in ItemRecords : ItemOK(item, ledger) => ItemOK(item, ledger')
<1>1. LedgerInv'
  BY LedgerInvStep DEF ApprovalInv
<1>0. BareRecords'
  <2>1. CASE LedgerNext
    <3>0. PICK id \in Ids : \E record : Stores(id, record) /\ RecordOK(id, record)
      BY <2>1, TransactionStores DEF ApprovalInv
    <3>1. PICK record : Stores(id, record)
      BY <3>0
    <3>2. \A i \in Ids : ledger'[i] = ledger[i] \/ ledger'[i].state # "None"
      BY <3>1 DEF Stores, Write, ApprovalInv, TypeOK, LedgerTypeOK
    <3> QED
      BY <3>2 DEF ApprovalInv, BareRecords
  <2>2. CASE UNCHANGED ledgerVars
    BY <2>2 DEF ledgerVars, ApprovalInv, BareRecords
  <2> QED
    BY <2>1, <2>2
<1>2. ASSUME NEW id \in Ids, ledger[id].state # "None"
      PROVE  /\ ledger[id].state \in FinalStates => ledger'[id] = ledger[id]
             /\ \/ ledger'[id].state = ledger[id].state
                \/ ledger'[id].state \notin {"None", "Awaiting Admin", "Ready"}
  <2>1. CASE LedgerNext
    BY <1>2, <2>1, StepAdvances DEF ApprovalInv
  <2>2. CASE UNCHANGED ledgerVars
    BY <2>2 DEF ledgerVars
  <2> QED
    BY <2>1, <2>2
<1>3. ASSUME NEW item \in ItemRecords, ItemOK(item, ledger) PROVE ItemOK(item, ledger')
  <2>1. ASSUME item.key \in Ids PROVE Agrees(item.status, ledger'[item.key].state)
    BY <1>2, <1>3, <2>1 DEF ItemOK, Agrees, FinalStates, WithdrawnStates
  <2> QED
    BY <1>3, <2>1 DEF ItemOK
<1> QED
  BY <1>0, <1>1, <1>2, <1>3

(* Items whose contents are in order are in order together.                  *)
LEMMA ItemsStep ==
  ASSUME ApprovalInv, [LedgerNext]_ledgerVars,
         items' \in [Numbers -> ItemRecords],
         \A i \in Numbers : items'[i] = items[i] \/ ItemOK(items'[i], ledger'),
         OneOpenItemPerTrigger',
         preparing' \in [Actors -> Ids \cup {NoActor}],
         \A a \in Actors : preparing'[a] \in Ids => ledger'[preparing'[a]].state # "None",
         candidates' \subseteq Numbers
  PROVE  ApprovalInv'
<1>1. LedgerInv' /\ BareRecords' /\ \A item \in ItemRecords : ItemOK(item, ledger) => ItemOK(item, ledger')
  BY LedgerFacts
<1>2. TypeOK'
  BY <1>1 DEF TypeOK, LedgerInv
<1>3. \A i \in Numbers : ItemOK(items'[i], ledger')
  BY <1>1 DEF ApprovalInv, TypeOK
<1> QED
  BY <1>1, <1>2, <1>3 DEF ApprovalInv, PreparedAreRecorded

(* A step that leaves the items alone.                                       *)
LEMMA OtherStep ==
  ASSUME ApprovalInv, [LedgerNext]_ledgerVars, UNCHANGED items,
         preparing' \in [Actors -> Ids \cup {NoActor}],
         \A a \in Actors : preparing'[a] \in Ids => ledger'[preparing'[a]].state # "None",
         candidates' \subseteq Numbers
  PROVE  ApprovalInv' /\ DecisionsStand
<1>1. OneOpenItemPerTrigger' /\ items' \in [Numbers -> ItemRecords]
  BY DEF ApprovalInv, TypeOK, OneOpenItemPerTrigger, Open
<1>2. ApprovalInv'
  BY <1>1, ItemsStep
<1> QED
  BY <1>2 DEF DecisionsStand

(* An open item is rewritten under the same trigger.                         *)
LEMMA OneItemStep ==
  ASSUME ApprovalInv, [LedgerNext]_ledgerVars,
         NEW i \in Numbers, NEW record \in ItemRecords,
         Open(i), record.key = items[i].key,
         items' = [items EXCEPT ![i] = record],
         ItemOK(record, ledger'),
         UNCHANGED candidates,
         \A a \in Actors : preparing'[a] \in {preparing[a], NoActor},
         preparing' \in [Actors -> Ids \cup {NoActor}]
  PROVE  ApprovalInv' /\ DecisionsStand
<1>1. /\ items'[i] = record /\ \A j \in Numbers : j # i => items'[j] = items[j]
      /\ items' \in [Numbers -> ItemRecords]
  BY DEF ApprovalInv, TypeOK
<1>2. OneOpenItemPerTrigger'
  BY <1>1 DEF ApprovalInv, OneOpenItemPerTrigger, Open
<1>3. \A a \in Actors : preparing'[a] \in Ids => ledger'[preparing'[a]].state # "None"
  BY LedgerFacts, QueueAssumption DEF ApprovalInv, PreparedAreRecorded
<1>4. ApprovalInv'
  BY <1>1, <1>2, <1>3, ItemsStep DEF ApprovalInv, TypeOK
<1> QED
  BY <1>1, <1>4 DEF DecisionsStand, Open

(* Nothing is asked at first.                                                *)
LEMMA InitQueue == Init => ApprovalInv
<1> SUFFICES ASSUME Init PROVE ApprovalInv
  OBVIOUS
<1>1. LedgerInv
  BY LedgerInvInit DEF Init
<1>2. TypeOK
  BY <1>1, NoItemFacts DEF Init, TypeOK, LedgerInv
<1>3. \A i \in Numbers : items[i] = NoItem
  BY DEF Init
<1>4. OneOpenItemPerTrigger /\ \A i \in Numbers : ItemOK(items[i], ledger)
  BY <1>3, NoItemFacts DEF OneOpenItemPerTrigger, Open, ItemOK, Keys
<1>5. PreparedAreRecorded /\ BareRecords
  BY QueueAssumption DEF Init, PreparedAreRecorded, BareRecords, LedgerInit, NoRecord
<1> QED
  BY <1>1, <1>2, <1>4, <1>5 DEF ApprovalInv

-----------------------------------------------------------------------------
(* Creation                                                                  *)

(* An item is refreshed, or one more is created where none was open.         *)
LEMMA PutStep ==
  ASSUME ApprovalInv, NEW k \in Keys, NEW high \in BOOLEAN,
         NEW assignee \in Owners, NEW approver \in Owners,
         k \in Ids => ledger[k].state # "None",
         PutItem(k, high, assignee, approver), UNCHANGED <<ledgerVars, candidates>>,
         \A a \in Actors : preparing'[a] \in {preparing[a], NoActor},
         preparing' \in [Actors -> Ids \cup {NoActor}]
  PROVE  ApprovalInv' /\ DecisionsStand
<1>0. \A to, ap \in Owners, b \in BOOLEAN :
        RiskFor(b, to, ap) \in {"Low", "High", "Blocked"}
  BY DEF RiskFor
<1>1. CASE OpenOfKey(k) # {}
  <2> DEFINE i == Min(OpenOfKey(k))
             to == IF assignee = NoActor THEN items[i].assignee ELSE assignee
             ap == IF approver = NoActor THEN items[i].approver ELSE approver
             status == IF items[i].status = "Returned" THEN ReadyOrBlocked(to, ap)
                       ELSE items[i].status
             risk == RiskFor(high, to, ap)
             record == [items[i] EXCEPT !.risk = risk, !.high = high, !.assignee = to,
                                        !.approver = ap, !.status = status]
  <2>1. i \in OpenOfKey(k)
    BY <1>1, MinFacts DEF OpenOfKey, OfKey
  <2>2. /\ i \in Numbers /\ Open(i) /\ items[i].key = k
        /\ items[i] \in ItemRecords /\ ItemOK(items[i], ledger)
    BY <2>1 DEF OpenOfKey, OfKey, ApprovalInv, TypeOK
  <2>3. to \in Owners /\ ap \in Owners /\ (Owned(items[i].assignee, items[i].approver) => Owned(to, ap))
    BY <2>2 DEF ItemRecords, Owned
  <2>4. status \in Statuses /\ status \notin Terminal
    BY <2>2 DEF Open, ItemRecords, Statuses, ReadyOrBlocked, Terminal
  <2>5. items' = [items EXCEPT ![i] = record]
    BY <1>1, <2>2 DEF PutItem, ApprovalInv, TypeOK
  <2>6. risk \in {"Low", "High", "Blocked"}
    BY <1>0, <2>3
  <2>7. status = "Ready for Approval" => Owned(to, ap)
    BY <2>2, <2>3 DEF ReadyOrBlocked, ItemOK
  <2>8. status = "Returned" => items[i].status = "Returned"
    BY DEF ReadyOrBlocked
  <2> HIDE DEF i, to, ap, status, risk
  <2>10. /\ record \in ItemRecords /\ record.key = k /\ record.status = status
         /\ record.assignee = to /\ record.approver = ap
    BY <2>2, <2>3, <2>4, <2>6 DEF ItemRecords
  <2> HIDE DEF record
  <2>9. ItemOK(record, ledger')
    BY <2>2, <2>4, <2>7, <2>8, <2>10 DEF ItemOK, Agrees, Terminal, ledgerVars
  <2> QED
    BY <2>2, <2>5, <2>9, <2>10, OneItemStep
<1>2. CASE OpenOfKey(k) = {}
  <2> DEFINE old == IF ClosedOfKey(k) = {} THEN 0 ELSE Min(ClosedOfKey(k))
             record == [NoItem EXCEPT !.key = k, !.high = high,
                          !.status = ReadyOrBlocked(assignee, approver),
                          !.risk = RiskFor(high, assignee, approver),
                          !.assignee = assignee, !.approver = approver, !.supersedes = old]
  <2>1. PICK n \in Numbers :
          /\ items[n].status = "None"
          /\ items' = [i \in Numbers |->
               IF i = n THEN record
               ELSE IF i = old THEN [items[i] EXCEPT !.supersededBy = n] ELSE items[i]]
    BY <1>2 DEF PutItem
  <2>2. old \in 0..MaxItems
    <3>1. ClosedOfKey(k) # {} => Min(ClosedOfKey(k)) \in Numbers
      BY MinFacts DEF ClosedOfKey, OfKey
    <3> QED
      BY <3>1, QueueAssumption DEF Numbers
  <2>3. /\ record \in ItemRecords /\ record.key = k /\ record.assignee = assignee
        /\ record.approver = approver /\ record.status = ReadyOrBlocked(assignee, approver)
    BY ZenonT(30), <1>0, <2>2, NoItemFacts DEF ItemRecords, ReadyOrBlocked, Statuses
  <2>4. ItemOK(record, ledger')
    BY <2>3 DEF ItemOK, Agrees, ReadyOrBlocked, ledgerVars
  <2>5. n \in 0..MaxItems
    BY QueueAssumption DEF Numbers
  <2> HIDE DEF old, record
  <2>6. ASSUME NEW i \in Numbers, i # n
        PROVE  /\ items'[i] \in ItemRecords /\ items'[i].key = items[i].key
               /\ items'[i].status = items[i].status /\ items'[i].by = items[i].by
               /\ ItemOK(items'[i], ledger')
    <3>1. items[i] \in ItemRecords /\ ItemOK(items[i], ledger)
      BY DEF ApprovalInv, TypeOK
    <3>2. items'[i] \in {items[i], [items[i] EXCEPT !.supersededBy = n]}
      BY <2>1, <2>6
    <3>3. /\ items'[i] \in ItemRecords /\ items'[i].key = items[i].key
          /\ items'[i].status = items[i].status /\ items'[i].by = items[i].by
          /\ items'[i].assignee = items[i].assignee /\ items'[i].approver = items[i].approver
      BY <2>5, <3>1, <3>2 DEF ItemRecords
    <3> QED
      BY <3>1, <3>3 DEF ItemOK, ledgerVars
  <2>7. items'[n] = record
    BY <2>1
  <2>8. items' \in [Numbers -> ItemRecords]
    <3>1. \A i \in Numbers : items'[i] \in ItemRecords
      BY <2>3, <2>6, <2>7
    <3> QED
      BY <2>1, <3>1
  <2>9. OneOpenItemPerTrigger'
    <3>1. \A i \in Numbers : i # n => (Open(i)' <=> Open(i))
      BY <2>6 DEF Open
    <3>2. \A i \in Numbers : i # n /\ Open(i) => items[i].key # k
      BY <1>2 DEF OpenOfKey, OfKey
    <3> QED
      BY <2>3, <2>6, <2>7, <3>1, <3>2 DEF OneOpenItemPerTrigger, ApprovalInv
  <2>10. \A a \in Actors : preparing'[a] \in Ids => ledger'[preparing'[a]].state # "None"
    BY QueueAssumption DEF ApprovalInv, PreparedAreRecorded, ledgerVars
  <2>11. ApprovalInv'
    BY <2>4, <2>6, <2>7, <2>8, <2>9, <2>10, ItemsStep DEF ApprovalInv, TypeOK
  <2>12. DecisionsStand
    BY <2>1, <2>6 DEF DecisionsStand, Terminal
  <2> QED
    BY <2>11, <2>12
<1> QED
  BY <1>1, <1>2

(* Every way in which an item comes to the queue.                            *)
LEMMA CreationStep ==
  ASSUME ApprovalInv,
         \/ \E k \in Plain, high \in BOOLEAN, to, ap \in Owners : Raise(k, high, to, ap)
         \/ \E a \in Actors : Prepares(a) \/ DieBetween(a)
  PROVE  ApprovalInv' /\ DecisionsStand
<1>1. ASSUME NEW k \in Plain, NEW high \in BOOLEAN, NEW to \in Owners, NEW ap \in Owners,
             Raise(k, high, to, ap)
      PROVE  ApprovalInv' /\ DecisionsStand
  BY <1>1, PutStep, QueueAssumption DEF Raise, Keys, ledgerVars, ApprovalInv, TypeOK
<1>2. ASSUME NEW a \in Actors, NEW id \in Ids, NEW p \in Previews, PrepareAction(a, id, p)
      PROVE  ApprovalInv' /\ DecisionsStand
  <2>1. UNCHANGED <<items, candidates>> /\ candidates' \subseteq Numbers
    BY <1>2 DEF PrepareAction, ApprovalInv, TypeOK
  <2>2. /\ [LedgerNext]_ledgerVars
        /\ ledger'[id].state # "None"
    <3>1. CASE Prepare(a, id, p)
      <4> DEFINE record == [NoRecord EXCEPT
                   !.state = IF High(id) THEN "Awaiting Admin" ELSE "Ready",
                   !.preparer = a, !.preview = p]
      <4>1. ledger' = [ledger EXCEPT ![id] = record]
        BY <3>1 DEF Prepare, Write
      <4>2. record.state # "None"
        BY DEF NoRecord
      <4> HIDE DEF record
      <4>3. ledger'[id] = record
        BY <4>1 DEF ApprovalInv, TypeOK, LedgerTypeOK
      <4> QED
        BY <3>1, <4>2, <4>3 DEF LedgerNext
    <3>2. CASE ledger[id].preparer = a /\ UNCHANGED ledgerVars
      BY <3>2, NullAssumption DEF ledgerVars, ApprovalInv, BareRecords
    <3> QED
      BY <1>2, <3>1, <3>2 DEF PrepareAction
  <2>3. /\ preparing' \in [Actors -> Ids \cup {NoActor}]
        /\ \A b \in Actors : preparing'[b] \in {preparing[b], id, NoActor}
    BY <1>2 DEF PrepareAction, ApprovalInv, TypeOK
  <2>4. \A b \in Actors : preparing'[b] \in Ids => ledger'[preparing'[b]].state # "None"
    BY <2>2, <2>3, LedgerFacts, QueueAssumption DEF ApprovalInv, PreparedAreRecorded
  <2> QED
    BY <2>1, <2>2, <2>3, <2>4, OtherStep
<1>3. ASSUME NEW a \in Actors, NEW admin \in Actors, QueueAction(a, admin)
      PROVE  ApprovalInv' /\ DecisionsStand
  <2> DEFINE k == preparing[a]
  <2>1. k \in Ids /\ ledger[k].state # "None"
    BY <1>3 DEF QueueAction, ApprovalInv, TypeOK, PreparedAreRecorded
  <2>2. /\ preparing' \in [Actors -> Ids \cup {NoActor}]
        /\ \A b \in Actors : preparing'[b] \in {preparing[b], NoActor}
    BY <1>3 DEF QueueAction, ApprovalInv, TypeOK
  <2>3. PutItem(k, TRUE, a, admin) /\ UNCHANGED <<ledgerVars, candidates>>
    BY <1>3 DEF QueueAction
  <2> QED
    BY <2>1, <2>2, <2>3, PutStep DEF Keys, Owners
<1>4. ASSUME NEW a \in Actors, DieBetween(a)
      PROVE  ApprovalInv' /\ DecisionsStand
  <2>1. /\ preparing' \in [Actors -> Ids \cup {NoActor}]
        /\ \A b \in Actors : preparing'[b] \in {preparing[b], NoActor}
        /\ UNCHANGED <<ledgerVars, items, candidates>>
    BY <1>4 DEF DieBetween, ApprovalInv, TypeOK
  <2>2. \A b \in Actors : preparing'[b] \in Ids => ledger'[preparing'[b]].state # "None"
    BY <2>1, QueueAssumption DEF ApprovalInv, PreparedAreRecorded, ledgerVars
  <2> QED
    BY <2>1, <2>2, OtherStep DEF ApprovalInv, TypeOK
<1> QED
  BY <1>1, <1>2, <1>3, <1>4 DEF Prepares

-----------------------------------------------------------------------------
(* Decisions                                                                 *)

(* What a ledger transaction makes of the linked record.                     *)
LEMMA LinkedFacts ==
  ASSUME ApprovalInv, NEW a \in Actors, NEW id \in Ids
  PROVE  /\ \A p \in Previews : Approve(a, id, p) => LedgerNext /\ ledger'[id].state = "Approved"
         /\ Return(a, id) => LedgerNext /\ ledger'[id].state = "Returned"
         /\ Revoke(a, id) => LedgerNext /\ ledger'[id].state = "Revoked"
<1>1. ledger[id] \in Records /\ ledger \in [Ids -> Records]
  BY DEF ApprovalInv, TypeOK, LedgerTypeOK
<1>2. ASSUME NEW record, Write(id, record) PROVE ledger'[id] = record
  BY <1>1, <1>2 DEF Write
<1>3. ASSUME NEW p \in Previews, Approve(a, id, p) PROVE ledger'[id].state = "Approved"
  <2>1. PICK record : Write(id, record) /\ record.state = "Approved"
    <3> DEFINE approval == [by |-> a, preview |-> p,
                            basis |-> IF Admin(a) THEN "admin" ELSE "staff_confirmation"]
               record == [ledger[id] EXCEPT !.state = "Approved", !.approval = approval]
    <3>1. Write(id, record)
      BY <1>3 DEF Approve
    <3>2. record.state = "Approved"
      BY <1>1 DEF Records
    <3> HIDE DEF record
    <3> QED
      BY <3>1, <3>2
  <2> QED
    BY <1>2, <2>1
<1>4. ASSUME NEW to, Withdraw(a, id, to) PROVE ledger'[id].state = to
  <2> DEFINE record == [ledger[id] EXCEPT !.state = to, !.approval = NoApproval]
  <2>1. Write(id, record) /\ record.state = to
    BY <1>1, <1>4 DEF Withdraw, Records
  <2> HIDE DEF record
  <2> QED
    BY <1>2, <2>1
<1> QED
  BY <1>3, <1>4 DEF LedgerNext, Return, Revoke

(* Whoever decides about an item, or assigns or snoozes it.                  *)
LEMMA DecisionStep ==
  ASSUME ApprovalInv, NEW a \in Actors, NEW i \in Numbers, Decides(a, i)
  PROVE  ApprovalInv' /\ DecisionsStand
<1>0. /\ items[i] \in ItemRecords /\ ItemOK(items[i], ledger)
      /\ items \in [Numbers -> ItemRecords]
  BY DEF ApprovalInv, TypeOK
<1>1. ASSUME NEW record \in ItemRecords, record.key = items[i].key, Open(i),
             items' = [items EXCEPT ![i] = record], UNCHANGED <<preparing, candidates>>,
             [LedgerNext]_ledgerVars, ItemOK(record, ledger')
      PROVE  ApprovalInv' /\ DecisionsStand
  BY <1>1, OneItemStep DEF ApprovalInv, TypeOK
<1>2. ASSUME NEW confirmed \in BOOLEAN, ApproveItem(a, i, confirmed)
      PROVE  ApprovalInv' /\ DecisionsStand
  <2> DEFINE record == [items[i] EXCEPT !.status = "Approved", !.by = a, !.confirmed = confirmed]
  <2>1. /\ record \in ItemRecords /\ record.status = "Approved" /\ record.by = a
        /\ record.key = items[i].key /\ record.assignee = items[i].assignee
        /\ record.approver = items[i].approver
    BY <1>0 DEF ItemRecords, Owners, Statuses, Terminal
  <2>2. /\ items' = [items EXCEPT ![i] = record]
        /\ Open(i) /\ UNCHANGED <<preparing, candidates>>
    BY <1>0, <1>2 DEF ApproveItem, Decide
  <2>3. ~Admin(a) => a = items[i].approver /\ a # items[i].assignee
    BY <1>0, <1>2 DEF ApproveItem, MayApprove, ItemOK, Owned
  <2>4. /\ [LedgerNext]_ledgerVars
        /\ Linked(i) => ledger'[items[i].key].state = "Approved"
    BY <1>2, LinkedFacts DEF ApproveItem, ApproveLinked, Linked, ledgerVars
  <2> HIDE DEF record
  <2>5. ItemOK(record, ledger')
    BY <2>1, <2>3, <2>4 DEF ItemOK, Agrees, Linked
  <2> QED
    BY <1>1, <2>1, <2>2, <2>4, <2>5
<1>3. CASE ReturnItem(a, i)
  <2> DEFINE record == [items[i] EXCEPT !.status = "Returned"]
  <2>1. /\ record \in ItemRecords /\ record.status = "Returned" /\ record.key = items[i].key
    BY <1>0 DEF ItemRecords, Statuses
  <2>2. /\ items' = [items EXCEPT ![i] = record]
        /\ Open(i) /\ UNCHANGED <<preparing, candidates>>
    BY <1>0, <1>3 DEF ReturnItem
  <2>3. /\ [LedgerNext]_ledgerVars
        /\ Linked(i) => ledger'[items[i].key].state = "Returned"
    BY <1>3, LinkedFacts DEF ReturnItem, Linked, ledgerVars
  <2> HIDE DEF record
  <2>4. ItemOK(record, ledger')
    BY <2>1, <2>3 DEF ItemOK, Agrees, Linked
  <2> QED
    BY <1>1, <2>1, <2>2, <2>3, <2>4
<1>4. CASE DenyItem(a, i)
  <2> DEFINE record == [items[i] EXCEPT !.status = "Denied", !.by = a, !.confirmed = FALSE]
  <2>1. /\ record \in ItemRecords /\ record.status = "Denied" /\ record.key = items[i].key
    BY <1>0 DEF ItemRecords, Owners, Statuses, Terminal
  <2>2. /\ items' = [items EXCEPT ![i] = record]
        /\ Open(i) /\ ~Linked(i) /\ UNCHANGED <<preparing, candidates, ledgerVars>>
    BY <1>0, <1>4 DEF DenyItem, Decide
  <2> HIDE DEF record
  <2>3. ItemOK(record, ledger')
    BY <2>1, <2>2 DEF ItemOK, Linked
  <2> QED
    BY <1>1, <2>1, <2>2, <2>3
<1>5. CASE SnoozeItem(a, i)
  <2> DEFINE record == [items[i] EXCEPT !.status = "Snoozed"]
  <2>1. /\ record \in ItemRecords /\ record.status = "Snoozed" /\ record.key = items[i].key
    BY <1>0 DEF ItemRecords, Statuses
  <2>2. /\ items' = [items EXCEPT ![i] = record]
        /\ Open(i) /\ UNCHANGED <<preparing, candidates, ledgerVars>>
    BY <1>0, <1>5 DEF SnoozeItem, OnlyItem
  <2> HIDE DEF record
  <2>3. ItemOK(record, ledger')
    BY <1>0, <2>1, <2>2 DEF ItemOK, Agrees, ledgerVars
  <2> QED
    BY <1>1, <2>1, <2>2, <2>3
<1>6. ASSUME NEW status \in {"Disabled", "Closed"}, StopItem(a, i, status)
      PROVE  ApprovalInv' /\ DecisionsStand
  <2> DEFINE record == [items[i] EXCEPT !.status = status, !.by = a, !.confirmed = FALSE]
  <2>1. /\ record \in ItemRecords /\ record.status = status /\ record.key = items[i].key
    BY ZenonT(30), <1>0 DEF ItemRecords, Owners, Statuses, Terminal
  <2>2. /\ items' = [items EXCEPT ![i] = record]
        /\ Open(i) /\ UNCHANGED <<preparing, candidates>>
    BY <1>0, <1>6 DEF StopItem, Decide
  <2>3. /\ [LedgerNext]_ledgerVars
        /\ Linked(i) => ledger'[items[i].key].state = "Revoked"
    BY <1>6, LinkedFacts DEF StopItem, Linked, ledgerVars
  <2> HIDE DEF record
  <2>4. ItemOK(record, ledger')
    BY <2>1, <2>3 DEF ItemOK, Agrees, Linked
  <2> QED
    BY <1>1, <2>1, <2>2, <2>3, <2>4
<1>7. ASSUME NEW assignee \in Owners, NEW approver \in Owners, AssignItem(a, i, assignee, approver)
      PROVE  ApprovalInv' /\ DecisionsStand
  <2> DEFINE to == IF assignee = NoActor THEN items[i].assignee ELSE assignee
             ap == IF approver = NoActor THEN items[i].approver ELSE approver
             status == IF items[i].status = "Blocked" THEN ReadyOrBlocked(to, ap)
                       ELSE items[i].status
             record == [items[i] EXCEPT !.assignee = to, !.approver = ap, !.status = status]
  <2>1. /\ items' = [items EXCEPT ![i] = record]
        /\ Open(i) /\ UNCHANGED <<preparing, candidates, ledgerVars>>
    BY <1>0, <1>7 DEF AssignItem, OnlyItem
  <2>2. /\ to \in Owners /\ ap \in Owners
        /\ Owned(items[i].assignee, items[i].approver) => Owned(to, ap)
    BY <1>0 DEF ItemRecords, Owned
  <2>3. /\ status \in Statuses /\ status \notin Terminal
        /\ status = "Ready for Approval" => Owned(to, ap)
        /\ status = "Returned" => items[i].status = "Returned"
    <3>1. status \in {items[i].status, "Ready for Approval", "Blocked"}
      BY DEF ReadyOrBlocked
    <3>2. items[i].status \in Statuses /\ items[i].status \notin Terminal
      BY <1>0, <2>1 DEF Open, ItemRecords
    <3>3. status \in Statuses /\ status \notin Terminal
      BY <3>1, <3>2 DEF Statuses, Terminal
    <3>4. status = "Ready for Approval" => Owned(to, ap)
      BY <1>0, <2>2 DEF ReadyOrBlocked, ItemOK
    <3>5. status = "Returned" => items[i].status = "Returned"
      BY <3>1
    <3> QED
      BY <3>3, <3>4, <3>5
  <2> HIDE DEF to, ap, status
  <2>4. /\ record \in ItemRecords /\ record.key = items[i].key /\ record.status = status
        /\ record.assignee = to /\ record.approver = ap
    BY <1>0, <2>2, <2>3 DEF ItemRecords
  <2> HIDE DEF record
  <2>5. ItemOK(record, ledger')
    BY <1>0, <2>1, <2>3, <2>4 DEF ItemOK, Agrees, Terminal, ledgerVars
  <2> QED
    BY <1>1, <2>1, <2>4, <2>5
<1> QED
  BY <1>2, <1>3, <1>4, <1>5, <1>6, <1>7 DEF Decides

(* The scheduler wakes what still sleeps.                                    *)
LEMMA WakeStep ==
  ASSUME ApprovalInv, SchedulerReads \/ \E i \in Numbers : Wake(i)
  PROVE  ApprovalInv' /\ DecisionsStand
<1>1. CASE SchedulerReads
  <2>1. candidates' \subseteq Numbers /\ UNCHANGED <<ledgerVars, items, preparing>>
    BY <1>1 DEF SchedulerReads
  <2> QED
    BY <2>1, OtherStep DEF ApprovalInv, TypeOK, PreparedAreRecorded, ledgerVars
<1>2. ASSUME NEW i \in Numbers, Wake(i) PROVE ApprovalInv' /\ DecisionsStand
  <2>0. /\ items[i] \in ItemRecords /\ ItemOK(items[i], ledger)
        /\ items \in [Numbers -> ItemRecords]
        /\ candidates' \subseteq Numbers /\ UNCHANGED <<ledgerVars, preparing>>
    BY <1>2 DEF Wake, ApprovalInv, TypeOK
  <2>1. CASE items[i].status # "Snoozed"
    <3>1. UNCHANGED items
      <4>1. items' = [items EXCEPT ![i].status = items[i].status]
        BY <1>2, <2>1 DEF Wake
      <4>2. [items[i] EXCEPT !.status = items[i].status] = items[i]
        BY <2>0 DEF ItemRecords
      <4> QED
        BY <2>0, <4>1, <4>2
    <3> QED
      BY <2>0, <3>1, OtherStep DEF ApprovalInv, TypeOK, PreparedAreRecorded, ledgerVars
  <2>2. CASE items[i].status = "Snoozed"
    <3> DEFINE record == [items[i] EXCEPT !.status = Awake(i)]
    <3>1. items' = [items EXCEPT ![i] = record]
      BY <1>2, <2>2 DEF Wake
    <3>2. /\ Awake(i) \in {"Blocked", "Ready for Approval"}
          /\ Awake(i) = "Ready for Approval" => Owned(items[i].assignee, items[i].approver)
      BY DEF Awake, ReadyOrBlocked
    <3>3. /\ record \in ItemRecords /\ record.key = items[i].key /\ record.status = Awake(i)
          /\ record.assignee = items[i].assignee /\ record.approver = items[i].approver
      BY <2>0, <3>2 DEF ItemRecords, Statuses
    <3> HIDE DEF record
    <3>4. /\ items'[i] = record /\ \A j \in Numbers : j # i => items'[j] = items[j]
          /\ items' \in [Numbers -> ItemRecords]
      BY <2>0, <3>1, <3>3
    <3>5. ItemOK(record, ledger')
      BY <2>0, <2>2, <3>2, <3>3 DEF ItemOK, Agrees, ledgerVars
    <3>6. OneOpenItemPerTrigger'
      <4>1. Open(i)
        BY <2>2 DEF Open, Terminal
      <4> QED
        BY <3>3, <3>4, <4>1 DEF ApprovalInv, OneOpenItemPerTrigger, Open
    <3>7. /\ preparing' \in [Actors -> Ids \cup {NoActor}]
          /\ \A a \in Actors : preparing'[a] \in Ids => ledger'[preparing'[a]].state # "None"
      BY <2>0 DEF ApprovalInv, TypeOK, PreparedAreRecorded, ledgerVars
    <3>8. ApprovalInv'
      BY <2>0, <3>4, <3>5, <3>6, <3>7, ItemsStep
    <3> QED
      BY <2>2, <3>4, <3>8 DEF DecisionsStand, Terminal
  <2> QED
    BY <2>1, <2>2
<1> QED
  BY <1>1, <1>2

(* Every step keeps it, and lets decisions stand.                            *)
LEMMA NextQueue ==
  ASSUME ApprovalInv, [Next]_vars
  PROVE  ApprovalInv' /\ DecisionsStand
<1>1. CASE ExecutionStep
  <2>1. LedgerNext
    BY <1>1 DEF ExecutionStep, LedgerNext
  <2>2. UNCHANGED queueVars
    BY <1>1 DEF ExecutionStep
  <2> QED
    BY <2>1, <2>2, LedgerFacts, OtherStep DEF queueVars, ApprovalInv, TypeOK, PreparedAreRecorded
<1>2. CASE UNCHANGED vars
  BY <1>2, LedgerFacts, OtherStep
    DEF vars, queueVars, ApprovalInv, TypeOK, PreparedAreRecorded
<1> QED
  BY <1>1, <1>2, CreationStep, DecisionStep, WakeStep DEF Next

-----------------------------------------------------------------------------
(* What follows                                                              *)

(* The queue is in order in every reachable state.                           *)
THEOREM QueueKept == Spec => []ApprovalInv
<1>1. ApprovalInv /\ [Next]_vars => ApprovalInv'
  BY NextQueue
<1> QED
  BY <1>1, InitQueue, PTL DEF Spec

(* Two submissions of one trigger never make two open items.                 *)
THEOREM OneItemAsks == Spec => []QueueInv
<1>1. ApprovalInv => QueueInv
  BY DEF ApprovalInv, QueueInv
<1> QED
  BY <1>1, QueueKept, PTL

(* What an item says was decided about its execution is what the ledger      *)
(* holds.                                                                    *)
THEOREM QueueAndLedgerAgree == Spec => []DecisionsAgree
<1>1. ApprovalInv => DecisionsAgree
  BY DEF ApprovalInv, DecisionsAgree, ItemOK, Agrees, Linked
<1> QED
  BY <1>1, QueueKept, PTL

(* An item approved by somebody other than an Admin was approved by its      *)
(* approver, who was not the one it was assigned to.                         *)
THEOREM ApproversAreOthers == Spec => []NobodyApprovesOwnWork
<1>1. ApprovalInv => NobodyApprovesOwnWork
  BY DEF ApprovalInv, NobodyApprovesOwnWork, ItemOK
<1> QED
  BY <1>1, QueueKept, PTL

(* A closed item keeps its status and who decided it.                        *)
THEOREM DecisionsAreForever == Spec => ClosedStaysClosed
<1>1. ApprovalInv /\ [Next]_vars =>
        [\A i \in Numbers : items[i].status \in Terminal =>
           /\ items'[i].status = items[i].status
           /\ items'[i].by = items[i].by]_vars
  BY NextQueue DEF DecisionsStand
<1> QED
  BY <1>1, QueueKept, PTL DEF Spec, ClosedStaysClosed

-----------------------------------------------------------------------------
(* The queue and the ledger                                                  *)

(* A preparation, a raised review, or the death between, takes at most one   *)
(* transaction of the ledger.                                                *)
LEMMA CreationsAreTransactions ==
  ASSUME NEW a \in Actors, Prepares(a) \/ DieBetween(a)
  PROVE  [LedgerNext]_ledgerVars
<1>1. ASSUME NEW id \in Ids, NEW p \in Previews, PrepareAction(a, id, p)
      PROVE  [LedgerNext]_ledgerVars
  <2>1. CASE Prepare(a, id, p)
    BY <2>1 DEF LedgerNext
  <2>2. CASE UNCHANGED ledgerVars
    BY <2>2
  <2> QED
    BY <1>1, <2>1, <2>2 DEF PrepareAction
<1>2. ASSUME NEW admin \in Actors, QueueAction(a, admin) PROVE [LedgerNext]_ledgerVars
  BY <1>2 DEF QueueAction
<1> QED
  BY <1>1, <1>2 DEF Prepares, DieBetween

(* So does a decision about an item.                                         *)
LEMMA DecisionsAreTransactions ==
  ASSUME NEW a \in Actors, NEW i \in Numbers, Decides(a, i)
  PROVE  [LedgerNext]_ledgerVars
<1>1. ASSUME NEW confirmed \in BOOLEAN, ApproveItem(a, i, confirmed)
      PROVE  [LedgerNext]_ledgerVars
  <2>1. CASE Linked(i)
    <3>1. PICK p \in Previews : Approve(a, items[i].key, p)
      BY <1>1, <2>1 DEF ApproveItem, ApproveLinked
    <3> QED
      BY <2>1, <3>1 DEF LedgerNext, Linked
  <2>2. CASE ~Linked(i)
    BY <1>1, <2>2 DEF ApproveItem
  <2> QED
    BY <2>1, <2>2
<1>2. ASSUME ReturnItem(a, i) PROVE [LedgerNext]_ledgerVars
  BY <1>2 DEF ReturnItem, LedgerNext, Linked
<1>3. ASSUME NEW status \in {"Disabled", "Closed"}, StopItem(a, i, status)
      PROVE  [LedgerNext]_ledgerVars
  BY <1>3 DEF StopItem, LedgerNext, Linked
<1>4. ASSUME DenyItem(a, i) \/ SnoozeItem(a, i) PROVE [LedgerNext]_ledgerVars
  BY <1>4 DEF DenyItem, SnoozeItem, OnlyItem
<1>5. ASSUME NEW to \in Owners, NEW ap \in Owners, AssignItem(a, i, to, ap)
      PROVE  [LedgerNext]_ledgerVars
  BY <1>5 DEF AssignItem, OnlyItem
<1> QED
  BY <1>1, <1>2, <1>3, <1>4, <1>5 DEF Decides

(* Preparations, decisions and the execution meanwhile use the ledger only   *)
(* through its transactions, one at a time: every behaviour of the queue is  *)
(* one of the ledger's, and all its theorems hold beside the queue.          *)
THEOREM QueueImplementsLedger == Spec => LedgerSpec
<1>1. Init => LedgerInit
  BY DEF Init
<1>2. [Next]_vars => [LedgerNext]_ledgerVars
  <2> SUFFICES ASSUME [Next]_vars PROVE [LedgerNext]_ledgerVars
    OBVIOUS
  <2>1. CASE UNCHANGED vars
    BY <2>1 DEF vars, ledgerVars
  <2>2. CASE \E k \in Plain, high \in BOOLEAN, to, ap \in Owners : Raise(k, high, to, ap)
    BY <2>2 DEF Raise
  <2>3. CASE SchedulerReads \/ \E i \in Numbers : Wake(i)
    BY <2>3 DEF SchedulerReads, Wake
  <2>4. CASE ExecutionStep
    BY <2>4 DEF ExecutionStep, LedgerNext
  <2> QED
    BY <2>1, <2>2, <2>3, <2>4, CreationsAreTransactions, DecisionsAreTransactions DEF Next
<1> QED
  BY <1>1, <1>2, PTL DEF Spec, LedgerSpec

(* So the history of an action beside the queue shows one claim at most, in  *)
(* its place.                                                                *)
THEOREM HistoriesBesideQueue == Spec => []HistoryIsLawful
BY QueueImplementsLedger, HistoriesAreLawful, PTL

(* A withdrawn or closed action stays so beside the queue, and is never      *)
(* bound to another person or preview.                                       *)
THEOREM ActionsBesideQueue == Spec => FinalIsForever /\ IdentityIsForever
BY QueueImplementsLedger, FinalStaysFinal, IdentityStays, PTL
=============================================================================
