--------------------------- MODULE ApprovalQueue ---------------------------
(***************************************************************************)
(* The Approval Queue: lib/firestore/approval-queue.ts, its scheduler       *)
(* approval-queue-scheduled-notifications.ts, and the preparation of a       *)
(* consequential action in lib/execution/service.ts, which writes the       *)
(* execution ledger and then the queue in two transactions.                 *)
(*                                                                         *)
(* An item asks for a decision.  Items of one trigger key are merged while   *)
(* one is open and linked when the earlier ones are closed.  An item whose   *)
(* trigger key is an action identity is linked to that ledger record, and a  *)
(* decision about it is taken in both documents by one transaction.  The     *)
(* bulk form runs the same transition, one transaction per item.            *)
(***************************************************************************)
EXTENDS ActionExecution, FiniteSetsExt

CONSTANTS
  Plain,      \* trigger keys of ordinary reviews
  MaxItems    \* bound on the items ever created

ASSUME QueueAssumption ==
  Plain \cap Ids = {} /\ NoActor \notin Plain \cup Ids /\ MaxItems \in Nat

VARIABLES
  items,      \* [1..MaxItems -> ItemRecords], in the order of their ids
  preparing,  \* [Actors -> Ids \cup {NoActor}]: recorded, not queued yet
  candidates  \* the items the scheduler read as due to wake up

queueVars == <<items, preparing, candidates>>
vars == <<ledgerVars, queueVars>>

Keys == Plain \cup Ids
Numbers == 1..MaxItems
Owners == Actors \cup {NoActor}

Terminal == {"Approved", "Disabled", "Denied", "Closed"}
Statuses == {"Ready for Approval", "Blocked", "Snoozed", "Returned"} \cup Terminal

ItemRecords ==
  [key: Keys \cup {NoActor}, status: Statuses \cup {"None"}, risk: {"Low", "High", "Blocked"},
   high: BOOLEAN, assignee: Owners, approver: Owners, by: Owners, confirmed: BOOLEAN,
   supersedes: 0..MaxItems, supersededBy: 0..MaxItems]

NoItem ==
  [key |-> NoActor, status |-> "None", risk |-> "Low", high |-> FALSE,
   assignee |-> NoActor, approver |-> NoActor, by |-> NoActor, confirmed |-> FALSE,
   supersedes |-> 0, supersededBy |-> 0]

Init ==
  /\ LedgerInit
  /\ items = [i \in Numbers |-> NoItem]
  /\ preparing = [a \in Actors |-> NoActor]
  /\ candidates = {}

-----------------------------------------------------------------------------
(* Helpers                                                                   *)

Linked(i) == items[i].key \in Ids
Open(i) == items[i].status \notin Terminal \cup {"None"}
OfKey(k) == {i \in Numbers : items[i].key = k}

(* Mutant: only an item that awaits a decision counts as a duplicate.        *)
ReadyOfKey(k) == {i \in OfKey(k) : items[i].status \in {"Ready for Approval", "Blocked"}}

OpenOfKey(k) == {i \in OfKey(k) : Open(i)}
ClosedOfKey(k) == {i \in OfKey(k) : items[i].status \in Terminal}

Sees(a, i) == Admin(a) \/ a \in {items[i].assignee, items[i].approver}
MayApproveAtAll(a) == RoleOf[a] \in {"Approver", "Admin"}

(* Mutant: the designated approver may approve what is assigned to them.     *)
MayApproveOwn(a, i) ==
  /\ MayApproveAtAll(a)
  /\ Admin(a) \/ items[i].approver \in {a, NoActor}

(* assertCanApprove                                                          *)
MayApprove(a, i) ==
  /\ MayApproveAtAll(a)
  /\ \/ Admin(a)
     \/ items[i].assignee # a /\ items[i].approver \in {a, NoActor}

Owned(assignee, approver) == assignee # NoActor /\ approver # NoActor

(* classifyQueueRisk: a missing owner hides every other signal.              *)
RiskFor(high, assignee, approver) ==
  IF ~Owned(assignee, approver) THEN "Blocked" ELSE IF high THEN "High" ELSE "Low"

(* The status of a new item, of a refreshed Returned one and of one unblocked *)
ReadyOrBlocked(assignee, approver) ==
  IF Owned(assignee, approver) THEN "Ready for Approval" ELSE "Blocked"

(* A High action needs an Admin's decision unless staff confirm it.          *)
Queued(id) == High(id) /\ id \notin StaffConfirmed

OnlyItem(i, record) ==
  /\ items' = [items EXCEPT ![i] = record]
  /\ UNCHANGED <<ledgerVars, preparing, candidates>>

-----------------------------------------------------------------------------
(* Creation                                                                  *)

(* createApprovalQueueItem: refresh the open item of this key, or create one *)
(* and link it to a closed one; a missing owner keeps the item's.            *)
PutItem(k, high, assignee, approver) ==
  IF OpenOfKey(k) # {}
    THEN LET i == Min(OpenOfKey(k))
             to == IF assignee = NoActor THEN items[i].assignee ELSE assignee
             ap == IF approver = NoActor THEN items[i].approver ELSE approver
         IN items' = [items EXCEPT
              ![i].risk = RiskFor(high, to, ap), ![i].high = high,
              ![i].assignee = to, ![i].approver = ap,
              ![i].status = IF @ = "Returned" THEN ReadyOrBlocked(to, ap) ELSE @]
    ELSE \E n \in Numbers :
           LET old == IF ClosedOfKey(k) = {} THEN 0 ELSE Min(ClosedOfKey(k)) IN
           /\ items[n].status = "None" /\ \A j \in 1..(n - 1) : items[j].status # "None"
           /\ items' = [i \in Numbers |->
                IF i = n
                  THEN [NoItem EXCEPT !.key = k, !.high = high,
                          !.status = ReadyOrBlocked(assignee, approver),
                          !.risk = RiskFor(high, assignee, approver),
                          !.assignee = assignee, !.approver = approver,
                          !.supersedes = old]
                ELSE IF i = old THEN [items[i] EXCEPT !.supersededBy = n]
                ELSE items[i]]

(* An ordinary review, raised by any staff member.                           *)
Raise(k, high, assignee, approver) ==
  /\ k \in Plain
  /\ PutItem(k, high, assignee, approver)
  /\ UNCHANGED <<ledgerVars, preparing, candidates>>

(* Mutant: a preparation that finds its record leaves the queue alone.       *)
PrepareOnce(a, id, p) ==
  /\ preparing[a] = NoActor
  /\ Prepare(a, id, p)
  /\ preparing' = [preparing EXCEPT ![a] = IF Queued(id) THEN id ELSE NoActor]
  /\ UNCHANGED <<items, candidates>>

(* prepareActionExecution, first transaction: record the action or find the  *)
(* very record.  A High one goes on to the queue.                            *)
PrepareAction(a, id, p) ==
  /\ preparing[a] = NoActor
  /\ \/ Prepare(a, id, p)
     \/ /\ ledger[id].preparer = a /\ ledger[id].preview = p
        /\ UNCHANGED ledgerVars
  /\ preparing' = [preparing EXCEPT ![a] = IF Queued(id) THEN id ELSE NoActor]
  /\ UNCHANGED <<items, candidates>>

(* Its second transaction: the linked item, for the Admin it names.          *)
QueueAction(a, admin) ==
  /\ preparing[a] # NoActor
  /\ Admin(admin)
  /\ PutItem(preparing[a], TRUE, a, admin)
  /\ preparing' = [preparing EXCEPT ![a] = NoActor]
  /\ UNCHANGED <<ledgerVars, candidates>>

(* The request dies between the two.                                         *)
DieBetween(a) ==
  /\ preparing[a] # NoActor
  /\ preparing' = [preparing EXCEPT ![a] = NoActor]
  /\ UNCHANGED <<ledgerVars, items, candidates>>

-----------------------------------------------------------------------------
(* Transitions: transitionApprovalQueueItem and its bulk form                *)

(* The item's own part of a decision that closes it.                         *)
Decide(a, i, status, confirmed) ==
  /\ items' = [items EXCEPT ![i].status = status, ![i].by = a, ![i].confirmed = confirmed]
  /\ UNCHANGED <<preparing, candidates>>

(* syncLinkedActionExecution for an approval                                 *)
ApproveLinked(a, i) ==
  \E p \in Previews : ledger[items[i].key].preview = p /\ Approve(a, items[i].key, p)

(* Mutant: a linked approval is left to the execution's own page.            *)
ApproveItemAlone(a, i, confirmed) ==
  /\ Open(i) /\ Sees(a, i)
  /\ items[i].status = "Ready for Approval"
  /\ items[i].risk = "High" => confirmed
  /\ MayApprove(a, i)
  /\ UNCHANGED ledgerVars
  /\ Decide(a, i, "Approved", confirmed)

ApproveItem(a, i, confirmed) ==
  /\ Open(i) /\ Sees(a, i)
  /\ items[i].status = "Ready for Approval"
  /\ items[i].risk = "High" => confirmed
  /\ MayApprove(a, i)
  /\ IF Linked(i) THEN ApproveLinked(a, i) ELSE UNCHANGED ledgerVars
  /\ Decide(a, i, "Approved", confirmed)

ReturnItem(a, i) ==
  /\ Open(i) /\ Sees(a, i)
  /\ IF Linked(i) THEN Return(a, items[i].key) ELSE UNCHANGED ledgerVars
  /\ items' = [items EXCEPT ![i].status = "Returned"]
  /\ UNCHANGED <<preparing, candidates>>

DenyItem(a, i) ==
  /\ Open(i) /\ Sees(a, i) /\ ~Linked(i)
  /\ items[i].status = "Ready for Approval"
  /\ MayApprove(a, i)
  /\ UNCHANGED ledgerVars
  /\ Decide(a, i, "Denied", FALSE)

(* planAssign: only an Admin; a missing owner filled unblocks.               *)
AssignItem(a, i, assignee, approver) ==
  LET to == IF assignee = NoActor THEN items[i].assignee ELSE assignee
      ap == IF approver = NoActor THEN items[i].approver ELSE approver
  IN /\ Open(i) /\ Admin(a)
     /\ assignee # NoActor \/ approver # NoActor
     /\ OnlyItem(i, [items[i] EXCEPT !.assignee = to, !.approver = ap,
          !.status = IF @ = "Blocked" THEN ReadyOrBlocked(to, ap) ELSE @])

SnoozeItem(a, i) ==
  /\ Open(i) /\ Sees(a, i)
  /\ OnlyItem(i, [items[i] EXCEPT !.status = "Snoozed"])

(* Disable and close, both Admin's, withdraw the linked execution.           *)
StopItem(a, i, status) ==
  /\ Open(i) /\ Admin(a)
  /\ IF Linked(i) THEN Revoke(a, items[i].key) ELSE UNCHANGED ledgerVars
  /\ Decide(a, i, status, FALSE)

-----------------------------------------------------------------------------
(* The scheduler                                                             *)

(* It reads the collection and picks the snoozed items whose date has come,  *)
SchedulerReads ==
  /\ candidates = {}
  /\ candidates' \in SUBSET {i \in Numbers : items[i].status = "Snoozed"}
  /\ UNCHANGED <<ledgerVars, items, preparing>>

Awake(i) ==
  IF items[i].risk = "Blocked" THEN "Blocked"
  ELSE ReadyOrBlocked(items[i].assignee, items[i].approver)

(* Mutant: the transaction relies on that read.                              *)
WakeStale(i) ==
  /\ i \in candidates
  /\ items' = [items EXCEPT ![i].status = Awake(i)]
  /\ candidates' = candidates \ {i}
  /\ UNCHANGED <<ledgerVars, preparing>>

(* and wakes them one transaction each, those that are still snoozed.        *)
Wake(i) ==
  /\ i \in candidates
  /\ items' = [items EXCEPT ![i].status = IF @ = "Snoozed" THEN Awake(i) ELSE @]
  /\ candidates' = candidates \ {i}
  /\ UNCHANGED <<ledgerVars, preparing>>

-----------------------------------------------------------------------------
(* The execution meanwhile                                                   *)

ExecutionStep ==
  /\ \E a \in Actors, id \in Ids :
       \/ \E p \in Previews : Claim(a, id, p)
       \/ \E o \in Outcomes : Finish(a, id, o[1], o[2])
  /\ UNCHANGED queueVars

Prepares(a) ==
  \/ \E id \in Ids, p \in Previews : PrepareAction(a, id, p)
  \/ \E admin \in Actors : QueueAction(a, admin)

Decides(a, i) ==
  \/ \E confirmed \in BOOLEAN : ApproveItem(a, i, confirmed)
  \/ ReturnItem(a, i)
  \/ DenyItem(a, i)
  \/ SnoozeItem(a, i)
  \/ \E status \in {"Disabled", "Closed"} : StopItem(a, i, status)
  \/ \E to, ap \in Owners : AssignItem(a, i, to, ap)

Next ==
  \/ \E a \in Actors : Prepares(a) \/ DieBetween(a)
  \/ \E k \in Plain, high \in BOOLEAN, to, ap \in Owners : Raise(k, high, to, ap)
  \/ \E a \in Actors, i \in Numbers : Decides(a, i)
  \/ SchedulerReads
  \/ \E i \in Numbers : Wake(i)
  \/ ExecutionStep

Spec == Init /\ [][Next]_vars

(* The preparer tries again, and not every attempt dies between its writes.  *)
FairSpec ==
  /\ Spec
  /\ \A a \in Actors :
       /\ WF_vars(\E id \in Ids, p \in Previews : PrepareAction(a, id, p))
       /\ SF_vars(\E admin \in Actors : QueueAction(a, admin))

-----------------------------------------------------------------------------
(* Properties                                                                *)

TypeOK ==
  /\ LedgerTypeOK
  /\ items \in [Numbers -> ItemRecords]
  /\ preparing \in [Actors -> Ids \cup {NoActor}]
  /\ candidates \subseteq Numbers

(* Two submissions of one trigger, also while it is snoozed or returned, make *)
(* one open item, never two decisions about the same thing.                   *)
OneOpenItemPerTrigger ==
  \A i, j \in Numbers : Open(i) /\ Open(j) /\ items[i].key = items[j].key => i = j

(* Types, and one open item at most for a trigger.                           *)
QueueInv == TypeOK /\ OneOpenItemPerTrigger

(* Whoever decides, assigns and refreshes in what order: an item approved by *)
(* somebody other than an Admin was approved by its designated approver, who *)
(* was not the one it was assigned to.                                       *)
NobodyApprovesOwnWork ==
  \A i \in Numbers :
    items[i].status = "Approved" /\ ~Admin(items[i].by) =>
      items[i].by = items[i].approver /\ items[i].by # items[i].assignee

(* The queue and the execution never drift: what an item says was decided    *)
(* about its linked execution is what the ledger holds, until a later item   *)
(* withdraws an approval.                                                    *)
DecisionsAgree ==
  \A i \in Numbers : Linked(i) =>
    LET state == ledger[items[i].key].state IN
    /\ items[i].status = "Approved" => state # "Awaiting Admin"
    /\ items[i].status = "Returned" => state = "Returned"
    /\ items[i].status \in {"Disabled", "Closed"} => state = "Revoked"
    /\ items[i].status # "Denied"

(* A closed item stays closed and keeps its decision, although the scheduler *)
(* may hold a read in which it was snoozed and although its trigger fires    *)
(* again.                                                                    *)
ClosedStaysClosed ==
  [][\A i \in Numbers : items[i].status \in Terminal =>
       /\ items'[i].status = items[i].status
       /\ items'[i].by = items[i].by]_vars

(* A consequential action that waits for an Admin eventually stands in the   *)
(* queue, also when its preparation died between its two writes.             *)
PreparedIsQueued ==
  \A id \in Ids :
    (ledger[id].state = "Awaiting Admin" /\ Queued(id))
      ~> (OfKey(id) # {} \/ ledger[id].state # "Awaiting Admin")

-----------------------------------------------------------------------------
(* Claims the code does not keep                                             *)

(* "how an item linked to an execution is turned down": an open linked item  *)
(* can be disabled, which needs a ledger record that can be revoked.         *)
LinkedCanBeTurnedDown ==
  \A i \in Numbers : Linked(i) /\ Open(i) =>
    ledger[items[i].key].state \in {"Awaiting Admin", "Approved"}

(* "link the new item to it": an item and the one that supersedes it name    *)
(* each other.                                                               *)
SupersessionLinksAgree ==
  \A i, j \in Numbers : items[j].supersedes = i => items[i].supersededBy = j

(* No approval of a review with High signals without its confirmation.       *)
HighIsConfirmed ==
  \A i \in Numbers :
    items[i].status = "Approved" /\ items[i].high => items[i].confirmed
=============================================================================
