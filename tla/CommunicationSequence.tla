----------------------- MODULE CommunicationSequence -----------------------
(***************************************************************************)
(* One scheduled workflow communication and everyone who acts on it:       *)
(* lib/gmail-hub/sequence-store.ts (the documents and their transactions), *)
(* sequence-service.ts (staff operations, dispatch and reconciliation) and *)
(* sequence-worker.ts (the scheduled observer).                            *)
(*                                                                         *)
(* Staff save, authorize, pause, transfer and cancel while any number of   *)
(* dispatchers (the worker, an overlapping worker whose lease expired, the *)
(* route that sends at once) try to send the next message.  A dispatcher   *)
(* reads, asks Gmail and writes in separate awaits, and may die anywhere.  *)
(*                                                                         *)
(* Draft wording, recipients and source facts are compared by hash only,   *)
(* so each is a model value.  A schedule is reduced to how many messages   *)
(* it allows in total: every wait for a due time is a dispatcher that does *)
(* not run yet.                                                            *)
(***************************************************************************)
EXTENDS Naturals, FiniteSets

CONSTANTS
  Staff,        \* managed senders
  Drafts,       \* contents of the editor
  Sources,      \* hashes of the material source facts and recipients
  Dispatchers,  \* invocations of dispatch or reconcile that may overlap
  MaxVersion,   \* bound on the sequence's version
  MaxRevision,  \* bound on authorizations
  MaxSends,     \* bound on the messages of one sequence
  NoAuth, NoOcc

ASSUME BoundsAssumption ==
  /\ MaxVersion \in Nat \ {0}
  /\ MaxRevision \in Nat
  /\ MaxSends \in Nat

Revisions == 1..MaxRevision
Occurrences == Revisions \X (0..(MaxSends - 1))
Authorizations ==
  [revision: Revisions, draft: Drafts, sender: Staff, source: Sources,
   limit: 1..MaxSends]

ASSUME NullsAssumption == NoAuth \notin Authorizations /\ NoOcc \notin Occurrences

VARIABLES
  seq,      \* the sequence document
  occ,      \* [Occurrences -> OccStates]: one document per admitted attempt
  mail,     \* [Occurrences -> Mails]: what Gmail did with the attempt
  source,   \* the current source facts
  replied,  \* a reply newer than the authorization is not yet observed
  review,   \* [Staff -> reviews]: authorizations between their read and write
  disp      \* [Dispatchers -> DispRecords]

vars == <<seq, occ, mail, source, replied, review, disp>>

SeqStates ==
  {"draft", "active", "paused", "needs_reconciliation", "completed", "cancelled"}
Finished == {"completed", "cancelled"}
OccStates == {"none", "claimed", "ambiguous", "sent", "refused"}
Mails == {"none", "inflight", "delivered", "rejected"}

Sequences ==
  [version: 1..MaxVersion, state: SeqStates, draft: Drafts, responsible: Staff,
   auth: Authorizations \cup {NoAuth}, due: BOOLEAN, count: 0..MaxSends,
   unresolved: Occurrences \cup {NoOcc}]

NoReview == [version |-> 0, auth |-> NoAuth]

Steps ==
  {"idle", "loaded", "barred", "observed", "ready", "claimed", "cleared", "sent",
   "readback", "settle", "found", "watch"}
Outcomes == {"none", "sent", "refused", "ambiguous"}

(* What a dispatcher carries across its awaits: the basis it prepared for,   *)
(* the revision its last observation returned, its attempt and its outcome.  *)
DispRecords ==
  [pc: Steps, version: 0..MaxVersion, revision: 0..MaxRevision, count: 0..MaxSends,
   sender: Staff \cup {NoAuth}, source: Sources \cup {NoAuth}, seen: 0..MaxRevision,
   occ: Occurrences \cup {NoOcc}, outcome: Outcomes]

Idle ==
  [pc |-> "idle", version |-> 0, revision |-> 0, count |-> 0, sender |-> NoAuth,
   source |-> NoAuth, seen |-> 0, occ |-> NoOcc, outcome |-> "none"]

Goto(d, pc) == disp' = [disp EXCEPT ![d].pc = pc]
Done(d) == disp' = [disp EXCEPT ![d] = Idle]
ToSettle(d, outcome) ==
  disp' = [disp EXCEPT ![d].pc = "settle", ![d].outcome = outcome]

RevisionOf(s) == IF s.auth = NoAuth THEN 0 ELSE s.auth.revision

(* A stop keeps an unresolved attempt visible as needing reconciliation.     *)
StoppedState(s) == IF s.unresolved # NoOcc THEN "needs_reconciliation" ELSE "paused"

(* store.write: compare-and-set on the version, which every write raises.    *)
Write(expected, next) ==
  /\ seq.version = expected
  /\ seq.version < MaxVersion
  /\ seq' = [next EXCEPT !.version = expected + 1]

-----------------------------------------------------------------------------
(* Staff                                                                     *)

(* Mutant: saving new wording leaves the schedule running.                   *)
SaveKeepsSchedule(draft) ==
  /\ seq.state \notin Finished
  /\ Write(seq.version, [seq EXCEPT !.draft = draft])
  /\ UNCHANGED <<occ, mail, source, replied, review, disp>>

Save(draft) ==
  /\ seq.state \notin Finished
  /\ Write(seq.version, [seq EXCEPT
       !.draft = draft,
       !.state = IF seq.unresolved = NoOcc /\ seq.auth = NoAuth
                 THEN "draft" ELSE StoppedState(seq),
       !.due = FALSE])
  /\ UNCHANGED <<occ, mail, source, replied, review, disp>>

(* authorize before its write: the responsible sender reviews the current    *)
(* draft and source, and the new authorization is computed from this read.   *)
(* A resumed schedule keeps its limit, or is a one-off follow-up.  Resume    *)
(* observes first; a reply it finds raises the version, which WorkerObserves *)
(* does, and its write is then refused.                                      *)
Review(p, action, limit) ==
  /\ review[p] = NoReview
  /\ seq.responsible = p
  /\ seq.unresolved = NoOcc
  /\ seq.state \notin Finished
  /\ RevisionOf(seq) < MaxRevision
  /\ action = "resume" =>
       /\ seq.auth # NoAuth
       /\ seq.state = "paused"
       /\ ~replied
       /\ limit \in {seq.auth.limit, seq.count + 1}
  /\ limit > seq.count \/ limit = 1
  /\ review' = [review EXCEPT ![p] =
       [version |-> seq.version,
        auth |-> [revision |-> RevisionOf(seq) + 1, draft |-> seq.draft,
                  sender |-> p, source |-> source, limit |-> limit]]]
  /\ UNCHANGED <<seq, occ, mail, source, replied, disp>>

(* Mutant: the write relies on the first check of the unresolved attempt.    *)
MayAuthorizeUnresolved(p) ==
  seq.responsible = p /\ seq.draft = review[p].auth.draft

(* The write checks the stored record once more, but not that it is open,    *)
(* and a reply older than the approval no longer counts.                     *)
MayAuthorize(p) ==
  /\ seq.unresolved = NoOcc
  /\ seq.responsible = p
  /\ seq.draft = review[p].auth.draft

Authorize(p) ==
  /\ review[p] # NoReview
  /\ \/ /\ MayAuthorize(p)
        /\ Write(review[p].version, [seq EXCEPT
             !.state = "active", !.auth = review[p].auth, !.due = TRUE])
        /\ replied' \in {replied, FALSE}
     \/ /\ ~MayAuthorize(p) \/ seq.version # review[p].version
        /\ UNCHANGED <<seq, replied>>
  /\ review' = [review EXCEPT ![p] = NoReview]
  /\ UNCHANGED <<occ, mail, source, disp>>

(* control: pause, cancel and transfer.                                      *)
Control(action, target) ==
  /\ seq.state \notin Finished
  /\ target # seq.responsible => action = "transfer"
  /\ Write(seq.version, [seq EXCEPT
       !.state = IF action = "cancel" THEN "cancelled" ELSE StoppedState(seq),
       !.responsible = target,
       !.due = FALSE])
  /\ UNCHANGED <<occ, mail, source, replied, review, disp>>

-----------------------------------------------------------------------------
(* Observing incoming mail                                                   *)

(* store.observe with evidence read under one revision; a newer              *)
(* authorization makes it void.                                              *)
Observed(revision) ==
  IF /\ RevisionOf(seq) = revision
     /\ replied
     /\ seq.state \in {"active", "paused", "needs_reconciliation"}
     /\ seq.version < MaxVersion
  THEN [seq EXCEPT
          !.version = @ + 1,
          !.state = IF @ = "needs_reconciliation" THEN @ ELSE "paused",
          !.due = FALSE]
  ELSE seq

(* The worker's own pass over every authorized open sequence.                *)
WorkerObserves ==
  /\ seq.auth # NoAuth
  /\ replied
  /\ seq' = Observed(RevisionOf(seq))
  /\ replied' = FALSE
  /\ UNCHANGED <<occ, mail, source, review, disp>>

-----------------------------------------------------------------------------
(* Dispatch                                                                  *)

(* Without its approved sender still responsible, the run can only pause.    *)
Load(d) ==
  /\ disp[d].pc = "idle"
  /\ seq.state = "active"
  /\ seq.due
  /\ seq.unresolved = NoOcc
  /\ disp' = [disp EXCEPT ![d] =
       [Idle EXCEPT !.pc = IF seq.auth.sender = seq.responsible THEN "loaded" ELSE "barred",
                    !.version = seq.version, !.seen = RevisionOf(seq),
                    !.revision = RevisionOf(seq), !.count = seq.count,
                    !.sender = seq.responsible, !.source = seq.auth.source]]
  /\ UNCHANGED <<seq, occ, mail, source, replied, review>>

(* The approved sender or the runtime gate is gone, or the source facts have *)
(* changed: a compare-and-set pause, given up when the record moved on.  It  *)
(* does not look at the state it overwrites.                                 *)
PauseForChange(d) ==
  /\ disp[d].pc \in {"loaded", "barred"}
  /\ \/ /\ Write(disp[d].version, [seq EXCEPT !.state = "paused", !.due = FALSE])
     \/ seq.version # disp[d].version /\ UNCHANGED seq
  /\ Done(d)
  /\ UNCHANGED <<occ, mail, source, replied, review>>

(* dispatch observes twice, before and after it prepared the message;        *)
(* reconcile observes once, after it settled.                                *)
Observe(d) ==
  LET next == Observed(disp[d].seen)
  IN  /\ disp[d].pc \in {"loaded", "observed", "watch"}
      /\ disp[d].pc = "loaded" => source = disp[d].source
      /\ seq' = next
      /\ replied' = (replied /\ RevisionOf(seq) # disp[d].seen)
      /\ IF next.state = "active" /\ disp[d].pc # "watch"
         THEN disp' = [disp EXCEPT
                ![d].pc = IF @ = "loaded" THEN "observed" ELSE "ready",
                ![d].seen = RevisionOf(next)]
         ELSE Done(d)
      /\ UNCHANGED <<occ, mail, source, review>>

(* store.claim: one attempt may be admitted, on the very basis prepared, and *)
(* its document excludes a second admission for ever.                        *)
NextOccurrence == <<RevisionOf(seq), seq.count>>

Claimable(d) ==
  /\ seq.state = "active"
  /\ seq.due
  /\ seq.unresolved = NoOcc
  /\ seq.auth # NoAuth
  /\ seq.auth.revision = disp[d].revision
  /\ seq.auth.source = disp[d].source
  /\ seq.count = disp[d].count
  /\ seq.auth.sender = disp[d].sender
  /\ seq.auth.sender = seq.responsible
  /\ seq.count < seq.auth.limit
  /\ occ[NextOccurrence] = "none"

Claim(d) ==
  /\ disp[d].pc = "ready"
  /\ IF Claimable(d)
     THEN \/ /\ occ' = [occ EXCEPT ![NextOccurrence] = "claimed"]
             /\ seq' = [seq EXCEPT !.unresolved = NextOccurrence]
             /\ disp' = [disp EXCEPT ![d].pc = "claimed", ![d].occ = NextOccurrence]
          \/ \* the schedule's end date has passed
             /\ seq' = [seq EXCEPT !.state = "completed", !.due = FALSE]
             /\ Done(d)
             /\ UNCHANGED occ
     ELSE Done(d) /\ UNCHANGED <<seq, occ>>
  /\ UNCHANGED <<mail, source, replied, review>>

(* canDispatch: the last look before Gmail is called.                        *)
CanDispatch(d) ==
  /\ seq.state = "active"
  /\ seq.unresolved = disp[d].occ
  /\ RevisionOf(seq) = disp[d].occ[1]
  /\ seq.responsible = disp[d].sender

(* The runtime gate, checked first, may refuse as well.                      *)
LastCheck(d) ==
  /\ disp[d].pc = "claimed"
  /\ \/ CanDispatch(d) /\ Goto(d, "cleared")
     \/ ToSettle(d, "refused")
  /\ UNCHANGED <<seq, occ, mail, source, replied, review>>

Send(d) ==
  /\ disp[d].pc = "cleared"
  /\ mail' = [mail EXCEPT ![disp[d].occ] = "inflight"]
  /\ Goto(d, "sent")
  /\ UNCHANGED <<seq, occ, source, replied, review>>

(* sendWorkflowMessage returns, is refused, or its answer is lost.           *)
SendReturns(d) ==
  LET m == mail[disp[d].occ]
  IN  /\ disp[d].pc = "sent"
      /\ \/ m = "delivered" /\ Goto(d, "readback")
         \/ m = "rejected" /\ ToSettle(d, "refused")
         \/ ToSettle(d, "ambiguous")
      /\ UNCHANGED <<seq, occ, mail, source, replied, review>>

(* findWorkflowMessage finds the message or nothing, or throws; a refused    *)
(* read takes the same branch as a refused send.                             *)
Readback(d) ==
  /\ disp[d].pc = "readback"
  /\ \E outcome \in {"sent", "ambiguous", "refused"} : ToSettle(d, outcome)
  /\ UNCHANGED <<seq, occ, mail, source, replied, review>>

-----------------------------------------------------------------------------
(* Settling                                                                  *)

(* Mutant: a confirmed send continues the schedule, whatever stopped it.     *)
SentStateForgetsStop(last) == IF last THEN "completed" ELSE "active"

(* A pause, cancel or transfer ordered after the claim stays in force.       *)
SentState(last) ==
  CASE seq.state = "active" -> IF last THEN "completed" ELSE "active"
    [] seq.state = "needs_reconciliation" -> "paused"
    [] OTHER -> seq.state

UnsentState(outcome) ==
  IF seq.state \notin {"active", "needs_reconciliation"} THEN seq.state
  ELSE IF outcome = "ambiguous" THEN "needs_reconciliation" ELSE "paused"

(* Mutant: an attempt without a known outcome no longer holds the sequence.  *)
SettleForgetsAttempt(o, outcome) ==
  IF outcome = "sent"
  THEN [seq EXCEPT !.state = SentState(TRUE), !.count = @ + 1, !.due = FALSE,
                   !.unresolved = NoOcc]
  ELSE [seq EXCEPT !.state = "paused", !.due = FALSE, !.unresolved = NoOcc]

SettleRecord(o, outcome) ==
  LET count == seq.count + 1
      state == SentState(count >= seq.auth.limit)
  IN  IF outcome = "sent"
      THEN [seq EXCEPT !.state = state, !.count = count, !.due = (state = "active"),
                       !.unresolved = NoOcc]
      ELSE [seq EXCEPT !.state = UnsentState(outcome), !.due = FALSE,
                       !.unresolved = IF outcome = "ambiguous" THEN o ELSE NoOcc]

(* store.settle: idempotent once terminal, refused when the sequence no      *)
(* longer waits for this attempt.                                            *)
CanSettle(o) == occ[o] \notin {"sent", "refused"} /\ seq.unresolved = o

Settle(d) ==
  LET o == disp[d].occ
      outcome == disp[d].outcome
  IN  /\ disp[d].pc \in {"settle", "found"}
      /\ IF CanSettle(o)
         THEN /\ seq' = SettleRecord(o, outcome)
              /\ occ' = [occ EXCEPT ![o] = outcome]
         ELSE UNCHANGED <<seq, occ>>
      /\ IF disp[d].pc = "found" /\ occ'[o] = "sent"
         THEN disp' = [disp EXCEPT ![d] =
                [Idle EXCEPT !.pc = "watch", !.seen = RevisionOf(seq)]]
         ELSE Done(d)
      /\ UNCHANGED <<mail, source, replied, review>>

(* The settling write itself fails: dispatch's catch block settles again,    *)
(* as unknown.                                                               *)
SettleThrows(d) ==
  /\ disp[d].pc = "settle"
  /\ disp[d].outcome = "sent"
  /\ ToSettle(d, "ambiguous")
  /\ UNCHANGED <<seq, occ, mail, source, replied, review>>

(* Mutant: an attempt whose run died before its outcome cannot be looked up. *)
ReconcileAmbiguousOnly(d) ==
  /\ disp[d].pc = "idle"
  /\ seq.unresolved # NoOcc
  /\ occ[seq.unresolved] = "ambiguous"
  /\ mail[seq.unresolved] = "delivered"
  /\ disp' = [disp EXCEPT ![d] =
       [Idle EXCEPT !.pc = "found", !.occ = seq.unresolved, !.outcome = "sent"]]
  /\ UNCHANGED <<seq, occ, mail, source, replied, review>>

(* reconcile: look the unresolved attempt up by its message id; finding      *)
(* nothing changes nothing.                                                  *)
Reconcile(d) ==
  /\ disp[d].pc = "idle"
  /\ seq.unresolved # NoOcc
  /\ occ[seq.unresolved] \in {"claimed", "ambiguous"}
  /\ RevisionOf(seq) = seq.unresolved[1]
  /\ mail[seq.unresolved] = "delivered"
  /\ disp' = [disp EXCEPT ![d] =
       [Idle EXCEPT !.pc = "found", !.occ = seq.unresolved, !.outcome = "sent"]]
  /\ UNCHANGED <<seq, occ, mail, source, replied, review>>

(* The invocation dies, or a read it needs is unavailable.                   *)
Stop(d) ==
  /\ disp[d].pc # "idle"
  /\ Done(d)
  /\ UNCHANGED <<seq, occ, mail, source, replied, review>>

-----------------------------------------------------------------------------
(* The outside world                                                         *)

(* External: Gmail handles an accepted call at any later moment.             *)
Gmail(o) ==
  /\ mail[o] = "inflight"
  /\ \E m \in {"delivered", "rejected"} : mail' = [mail EXCEPT ![o] = m]
  /\ UNCHANGED <<seq, occ, source, replied, review, disp>>

(* External: a person or a bounce answers after the authorization.           *)
ReplyArrives ==
  /\ seq.auth # NoAuth
  /\ ~replied
  /\ replied' = TRUE
  /\ UNCHANGED <<seq, occ, mail, source, review, disp>>

(* External: recipients or source facts change in their own system.          *)
SourceChanges ==
  /\ \E s \in Sources \ {source} : source' = s
  /\ UNCHANGED <<seq, occ, mail, replied, review, disp>>

Init ==
  /\ seq \in [version: {1}, state: {"draft"}, draft: Drafts, responsible: Staff,
              auth: {NoAuth}, due: {FALSE}, count: {0}, unresolved: {NoOcc}]
  /\ occ = [o \in Occurrences |-> "none"]
  /\ mail = [o \in Occurrences |-> "none"]
  /\ source \in Sources
  /\ replied = FALSE
  /\ review = [p \in Staff |-> NoReview]
  /\ disp = [d \in Dispatchers |-> Idle]

StaffActs ==
  \/ \E draft \in Drafts : Save(draft)
  \/ \E p \in Staff, action \in {"send", "resume"}, limit \in 1..MaxSends :
       Review(p, action, limit)
  \/ \E p \in Staff : Authorize(p)
  \/ \E action \in {"pause", "cancel", "transfer"}, p \in Staff : Control(action, p)

Dispatch(d) ==
  \/ Observe(d) \/ Claim(d) \/ LastCheck(d) \/ Send(d) \/ SendReturns(d)
  \/ Readback(d) \/ Settle(d)

Next ==
  \/ StaffActs
  \/ WorkerObserves
  \/ \E d \in Dispatchers :
       \/ Load(d) \/ PauseForChange(d) \/ Dispatch(d) \/ SettleThrows(d)
       \/ Reconcile(d) \/ Stop(d)
  \/ \E o \in Occurrences : Gmail(o)
  \/ ReplyArrives
  \/ SourceChanges

Spec == Init /\ [][Next]_vars

(* Fairness: Gmail handles what it accepted, somebody keeps opening the      *)
(* unresolved attempt, and not every such look-up dies before it settles.    *)
Fairness ==
  /\ \A o \in Occurrences : WF_vars(Gmail(o))
  /\ SF_vars(\E d \in Dispatchers : Reconcile(d))
  /\ SF_vars(\E d \in Dispatchers : disp[d].pc = "found" /\ Settle(d))
  /\ \A d \in Dispatchers : WF_vars(Dispatch(d))

FairSpec == Spec /\ Fairness

-----------------------------------------------------------------------------
TypeOK ==
  /\ seq \in Sequences
  /\ occ \in [Occurrences -> OccStates]
  /\ mail \in [Occurrences -> Mails]
  /\ source \in Sources
  /\ replied \in BOOLEAN
  /\ DOMAIN review = Staff
  /\ \A p \in Staff :
       \/ review[p] = NoReview
       \/ review[p].version \in 1..MaxVersion /\ review[p].auth \in Authorizations
  /\ disp \in [Dispatchers -> DispRecords]

(* A sequence that may send on its own holds an authorization of the very    *)
(* draft it shows, given by the sender who is responsible for it now.        *)
ActiveIsReviewed ==
  seq.state = "active" =>
    /\ seq.auth # NoAuth
    /\ seq.auth.draft = seq.draft
    /\ seq.auth.sender = seq.responsible

(* A stopped sequence starts again only through a new authorization; no      *)
(* settlement, observation or late dispatcher can undo a stop.               *)
OnlyReviewReactivates ==
  [][(seq.state # "active" /\ seq'.state = "active") =>
       RevisionOf(seq') = RevisionOf(seq) + 1]_vars

Open(o) == occ[o] \in {"claimed", "ambiguous"}

(* The record names exactly the one attempt whose outcome is not known, and  *)
(* keeps the authorization and the count that attempt was made under.        *)
UnresolvedIsExact ==
  \A o \in Occurrences :
    /\ Open(o) <=> seq.unresolved = o
    /\ Open(o) => o = <<RevisionOf(seq), seq.count>>

(* The confirmed count is the number of sent attempts, numbered without a    *)
(* gap, and each of them reached Gmail.                                      *)
CountMatches ==
  LET sent == {o \in Occurrences : occ[o] = "sent"}
  IN  /\ Cardinality(sent) = seq.count
      /\ {o[2] : o \in sent} = 0..(seq.count - 1)
      /\ \A o \in sent : mail[o] = "delivered"

(* A message is attempted again under a later authorization only after its   *)
(* earlier attempt was recorded as refused: never while it is unknown.       *)
AnotherCopyNeedsRefusal ==
  \A o1, o2 \in Occurrences :
    (o1[2] = o2[2] /\ o1[1] < o2[1] /\ occ[o2] # "none") =>
      occ[o1] \in {"none", "refused"}

(* While Gmail may still deliver a message, the record waits for it.         *)
InflightIsAwaited ==
  \A o \in Occurrences : mail[o] = "inflight" => seq.unresolved = o

(* What the sequence record says of its attempts is what was attempted.      *)
RecordIsExact == TypeOK /\ UnresolvedIsExact /\ CountMatches /\ InflightIsAwaited

(* A delivered message is eventually settled, whichever run died after it.   *)
DeliveredIsEventuallySettled ==
  \A o \in Occurrences : mail[o] = "delivered" ~> occ[o] \in {"sent", "refused"}
=============================================================================
