-------------------- MODULE CommunicationSequence_proofs --------------------
(***************************************************************************)
(* Theorems about one scheduled communication, for every set of staff,     *)
(* drafts, source facts and overlapping dispatchers.                       *)
(*                                                                         *)
(* SequenceInv joins what the runs check (the record names its one open    *)
(* attempt, counts what was sent, and is active only as reviewed) with     *)
(* what makes that inductive: a review computed from the record as it is   *)
(* raises its revision by one, no attempt is of a later revision than the  *)
(* record, a dispatcher is alone with the attempt it claimed, and knows of *)
(* Gmail what its step says.                                               *)
(***************************************************************************)
EXTENDS CommunicationSequence, TLAPS, FiniteSetTheorems

Sending == {"claimed", "cleared", "sent", "readback", "settle"}

(* What a dispatcher knows of the attempt it carries.                        *)
Knows(d) ==
  /\ disp[d].pc \in Sending \cup {"found"} =>
       disp[d].occ \in Occurrences /\ occ[disp[d].occ] # "none"
  /\ disp[d].pc \in {"claimed", "cleared"} =>
       occ[disp[d].occ] = "claimed" /\ mail[disp[d].occ] = "none"
  /\ disp[d].pc = "readback" => mail[disp[d].occ] = "delivered"
  /\ disp[d].pc = "found" => mail[disp[d].occ] = "delivered" /\ disp[d].outcome = "sent"
  /\ disp[d].pc = "settle" =>
       /\ disp[d].outcome # "none"
       /\ disp[d].outcome = "sent" => mail[disp[d].occ] = "delivered"
       /\ disp[d].outcome = "refused" => mail[disp[d].occ] # "inflight"

Sole ==
  \A d, e \in Dispatchers :
    disp[d].pc \in Sending /\ disp[e].pc \in Sending /\ disp[d].occ = disp[e].occ => d = e

DispatchInv == (\A d \in Dispatchers : Knows(d)) /\ Sole

(* A review is of its own reviewer; one whose write can still succeed is of  *)
(* the next revision.                                                        *)
ReviewInv ==
  \A p \in Staff : review[p] # NoReview =>
    /\ review[p].auth \in Authorizations /\ review[p].auth.sender = p
    /\ review[p].version <= seq.version
    /\ review[p].version = seq.version => review[p].auth.revision = RevisionOf(seq) + 1

SentOnes == {o \in Occurrences : occ[o] = "sent"}

Attempts ==
  \A o \in Occurrences :
    /\ occ[o] # "none" => o[1] <= RevisionOf(seq)
    /\ occ[o] = "none" => mail[o] = "none"

RecordInv ==
  /\ UnresolvedIsExact
  /\ CountMatches /\ IsFiniteSet(SentOnes)
  /\ AnotherCopyNeedsRefusal
  /\ InflightIsAwaited
  /\ Attempts

SequenceInv == TypeOK /\ ActiveIsReviewed /\ ReviewInv /\ RecordInv /\ DispatchInv

-----------------------------------------------------------------------------
(* Records                                                                   *)

(* An attempt is of a revision and has a place in the count.                 *)
LEMMA OccurrenceFacts ==
  ASSUME NEW o \in Occurrences
  PROVE  /\ o[1] \in Revisions /\ o[2] \in 0..(MaxSends - 1)
         /\ o = <<o[1], o[2]>>
         /\ o[1] \in Nat /\ o[2] \in Nat /\ o[1] # 0 /\ o[2] < MaxSends
BY BoundsAssumption DEF Occurrences, Revisions

(* The fields of the record have their types.                                *)
LEMMA SeqFields ==
  ASSUME TypeOK
  PROVE  /\ seq.version \in 1..MaxVersion /\ seq.state \in SeqStates
         /\ seq.draft \in Drafts /\ seq.responsible \in Staff
         /\ seq.auth \in Authorizations \cup {NoAuth}
         /\ seq.due \in BOOLEAN /\ seq.count \in 0..MaxSends
         /\ seq.unresolved \in Occurrences \cup {NoOcc}
         /\ RevisionOf(seq) \in 0..MaxRevision
         /\ seq.auth # NoAuth => RevisionOf(seq) = seq.auth.revision /\ RevisionOf(seq) # 0
         /\ seq.version \in Nat /\ RevisionOf(seq) \in Nat /\ seq.count \in Nat
BY BoundsAssumption, NullsAssumption DEF TypeOK, Sequences, RevisionOf, Authorizations, Revisions

(* What every step but a review's write, a claim and a settlement does to    *)
(* the record: nothing, or it stops it.                                      *)
Calm ==
  /\ seq' \in Sequences
  /\ seq'.auth = seq.auth /\ seq'.count = seq.count /\ seq'.unresolved = seq.unresolved
  /\ seq'.version >= seq.version
  /\ seq' = seq \/ seq'.state # "active"

(* A write that stops the record, of new wording or of a new sender.         *)
LEMMA WriteIsCalm ==
  ASSUME TypeOK, NEW expected, NEW state \in SeqStates, state # "active",
         NEW draft \in Drafts, NEW responsible \in Staff, NEW next,
         next = [seq EXCEPT !.state = state, !.draft = draft, !.responsible = responsible,
                            !.due = FALSE],
         Write(expected, next)
  PROVE  Calm
<1>1. seq \in Sequences /\ seq.version \in 1..MaxVersion /\ seq.version < MaxVersion
  BY DEF TypeOK, Sequences, Write
<1>2. next \in Sequences
  BY <1>1 DEF Sequences
<1>3. /\ next.auth = seq.auth /\ next.count = seq.count /\ next.unresolved = seq.unresolved
      /\ next.state = state
  BY <1>1 DEF Sequences
<1>4. seq' = [next EXCEPT !.version = seq.version + 1] /\ seq.version + 1 \in 1..MaxVersion
  BY <1>1, BoundsAssumption DEF Write
<1>5. /\ seq' \in Sequences
      /\ seq'.auth = next.auth /\ seq'.count = next.count /\ seq'.unresolved = next.unresolved
      /\ seq'.state = next.state /\ seq'.version = seq.version + 1
  BY <1>2, <1>4 DEF Sequences
<1> QED
  BY <1>1, <1>3, <1>5 DEF Calm

(* Saving, stopping, transferring and pausing are calm.                      *)
LEMMA StaffIsCalm ==
  ASSUME TypeOK,
         \/ \E draft \in Drafts : Save(draft)
         \/ \E action \in {"pause", "cancel", "transfer"}, p \in Staff : Control(action, p)
         \/ \E d \in Dispatchers : PauseForChange(d)
  PROVE  Calm
<1>0. /\ seq \in Sequences /\ seq.state \in SeqStates /\ seq.draft \in Drafts
      /\ seq.responsible \in Staff
  BY DEF TypeOK, Sequences
<1>1. StoppedState(seq) \in SeqStates /\ StoppedState(seq) # "active"
  BY DEF StoppedState, SeqStates
<1>2. ASSUME NEW draft \in Drafts, Save(draft) PROVE Calm
  <2> DEFINE state == IF seq.unresolved = NoOcc /\ seq.auth = NoAuth
                      THEN "draft" ELSE StoppedState(seq)
             next == [seq EXCEPT !.draft = draft, !.state = state, !.due = FALSE]
  <2>1. state \in SeqStates /\ state # "active"
    BY <1>1 DEF SeqStates
  <2>2. Write(seq.version, next)
    BY <1>2 DEF Save
  <2> HIDE DEF state
  <2>3. next = [seq EXCEPT !.state = state, !.draft = draft, !.responsible = seq.responsible,
                           !.due = FALSE]
    BY <1>0 DEF Sequences
  <2> HIDE DEF next
  <2> QED
    BY <1>0, <2>1, <2>2, <2>3, WriteIsCalm
<1>3. ASSUME NEW action \in {"pause", "cancel", "transfer"}, NEW p \in Staff, Control(action, p)
      PROVE  Calm
  <2> DEFINE state == IF action = "cancel" THEN "cancelled" ELSE StoppedState(seq)
             next == [seq EXCEPT !.state = state, !.responsible = p, !.due = FALSE]
  <2>1. state \in SeqStates /\ state # "active"
    BY <1>1 DEF SeqStates
  <2>2. Write(seq.version, next)
    BY <1>3 DEF Control
  <2> HIDE DEF state
  <2>3. next = [seq EXCEPT !.state = state, !.draft = seq.draft, !.responsible = p, !.due = FALSE]
    BY <1>0 DEF Sequences
  <2> HIDE DEF next
  <2> QED
    BY <1>0, <2>1, <2>2, <2>3, WriteIsCalm
<1>4. ASSUME NEW d \in Dispatchers, PauseForChange(d) PROVE Calm
  <2> DEFINE next == [seq EXCEPT !.state = "paused", !.due = FALSE]
  <2>1. CASE Write(disp[d].version, next)
    <3>1. next = [seq EXCEPT !.state = "paused", !.draft = seq.draft,
                             !.responsible = seq.responsible, !.due = FALSE]
      BY <1>0 DEF Sequences
    <3>2. "paused" \in SeqStates /\ "paused" # "active"
      BY DEF SeqStates
    <3> HIDE DEF next
    <3> QED
      BY <1>0, <2>1, <3>1, <3>2, WriteIsCalm
  <2>2. CASE UNCHANGED seq
    BY <1>0, <2>2, SeqFields DEF Calm
  <2> QED
    BY <1>4, <2>1, <2>2 DEF PauseForChange
<1> QED
  BY <1>2, <1>3, <1>4

(* An observation stops the record or leaves it.                             *)
LEMMA ObservedIsCalm ==
  ASSUME TypeOK, NEW revision, seq' = Observed(revision)
  PROVE  Calm
<1>0. seq \in Sequences /\ seq.version \in 1..MaxVersion /\ seq.state \in SeqStates
  BY DEF TypeOK, Sequences
<1>1. CASE seq' = seq
  BY <1>0, <1>1 DEF Calm
<1>2. CASE seq' # seq
  <2> DEFINE state == IF seq.state = "needs_reconciliation" THEN seq.state ELSE "paused"
  <2>1. /\ seq.version < MaxVersion
        /\ seq' = [seq EXCEPT !.version = seq.version + 1, !.state = state, !.due = FALSE]
    BY <1>2 DEF Observed
  <2>2. state \in SeqStates /\ state # "active" /\ seq.version + 1 \in 1..MaxVersion
    BY <1>0, <2>1, BoundsAssumption DEF SeqStates
  <2> HIDE DEF state
  <2>3. seq' \in Sequences
    BY <1>0, <2>1, <2>2 DEF Sequences
  <2>4. /\ seq'.auth = seq.auth /\ seq'.count = seq.count /\ seq'.unresolved = seq.unresolved
        /\ seq'.version = seq.version + 1 /\ seq'.state = state
    BY <1>0, <2>1 DEF Sequences
  <2> QED
    BY <1>0, <2>2, <2>3, <2>4 DEF Calm
<1> QED
  BY <1>1, <1>2

(* The steps of a dispatcher's own record.                                   *)
LEMMA GotoFacts ==
  ASSUME TypeOK, NEW d \in Dispatchers, NEW pc \in Steps, Goto(d, pc)
  PROVE  /\ disp'[d].pc = pc /\ disp'[d].occ = disp[d].occ
         /\ disp'[d].outcome = disp[d].outcome
         /\ \A e \in Dispatchers : e # d => disp'[e] = disp[e]
         /\ disp' \in [Dispatchers -> DispRecords]
<1> DEFINE record == [disp[d] EXCEPT !.pc = pc]
<1>1. disp[d] \in DispRecords /\ disp \in [Dispatchers -> DispRecords]
  BY DEF TypeOK
<1>2. /\ record \in DispRecords /\ record.pc = pc /\ record.occ = disp[d].occ
      /\ record.outcome = disp[d].outcome
  BY <1>1 DEF DispRecords
<1>3. disp' = [disp EXCEPT ![d] = record]
  BY <1>1 DEF Goto
<1> HIDE DEF record
<1> QED
  BY <1>1, <1>2, <1>3

(* It goes to settle with an outcome.                                        *)
LEMMA ToSettleFacts ==
  ASSUME TypeOK, NEW d \in Dispatchers, NEW outcome \in Outcomes, ToSettle(d, outcome)
  PROVE  /\ disp'[d].pc = "settle" /\ disp'[d].occ = disp[d].occ
         /\ disp'[d].outcome = outcome
         /\ \A e \in Dispatchers : e # d => disp'[e] = disp[e]
         /\ disp' \in [Dispatchers -> DispRecords]
<1> DEFINE record == [disp[d] EXCEPT !.pc = "settle", !.outcome = outcome]
<1>1. disp[d] \in DispRecords /\ disp \in [Dispatchers -> DispRecords]
  BY DEF TypeOK
<1>2. /\ record \in DispRecords /\ record.pc = "settle" /\ record.occ = disp[d].occ
      /\ record.outcome = outcome
  BY <1>1 DEF DispRecords, Steps
<1>3. disp' = [disp EXCEPT ![d] = record]
  BY <1>1 DEF ToSettle
<1> HIDE DEF record
<1> QED
  BY <1>1, <1>2, <1>3

(* It takes a record of its own, or is done.                                 *)
LEMMA FreshFacts ==
  ASSUME TypeOK, NEW d \in Dispatchers, NEW record \in DispRecords,
         disp' = [disp EXCEPT ![d] = record]
  PROVE  /\ disp'[d] = record
         /\ \A e \in Dispatchers : e # d => disp'[e] = disp[e]
         /\ disp' \in [Dispatchers -> DispRecords]
BY DEF TypeOK

(* The idle record is one.                                                   *)
LEMMA IdleFacts ==
  /\ Idle \in DispRecords /\ Idle.pc = "idle"
  /\ 0 \in 0..MaxVersion /\ 0 \in 0..MaxRevision /\ 0 \in 0..MaxSends
<1>1. 0 \in 0..MaxVersion /\ 0 \in 0..MaxRevision /\ 0 \in 0..MaxSends
  BY BoundsAssumption
<1> QED
  BY <1>1 DEF Idle, DispRecords, Steps, Outcomes

(* A dispatcher that ends is idle.                                           *)
LEMMA DoneFacts ==
  ASSUME TypeOK, NEW d \in Dispatchers, Done(d)
  PROVE  /\ disp'[d].pc = "idle"
         /\ \A e \in Dispatchers : e # d => disp'[e] = disp[e]
         /\ disp' \in [Dispatchers -> DispRecords]
BY IdleFacts, FreshFacts DEF Done

-----------------------------------------------------------------------------
(* What calm steps keep                                                      *)

(* The revision moves with the authorization only.                           *)
LEMMA CalmRevision == Calm => RevisionOf(seq)' = RevisionOf(seq)
BY DEF Calm, RevisionOf

(* The record and its attempts say what they said.                           *)
LEMMA CalmRecord ==
  ASSUME RecordInv, Calm, UNCHANGED <<occ, mail>>
  PROVE  RecordInv'
<1>1. RevisionOf(seq)' = RevisionOf(seq) /\ SentOnes' = SentOnes
  BY CalmRevision DEF SentOnes
<1>2. /\ seq'.count = seq.count /\ seq'.unresolved = seq.unresolved
      /\ occ' = occ /\ mail' = mail
  BY DEF Calm
<1>3. UnresolvedIsExact' /\ InflightIsAwaited' /\ AnotherCopyNeedsRefusal' /\ Attempts'
  BY <1>1, <1>2
    DEF RecordInv, UnresolvedIsExact, Open, InflightIsAwaited, AnotherCopyNeedsRefusal, Attempts
<1>4. CountMatches'
  BY <1>2 DEF RecordInv, CountMatches
<1> QED
  BY <1>1, <1>3, <1>4 DEF RecordInv

(* So does its review, and reviews under way are as new as they were.        *)
LEMMA CalmReviews ==
  ASSUME TypeOK, ActiveIsReviewed, ReviewInv, Calm, UNCHANGED review
  PROVE  ActiveIsReviewed' /\ ReviewInv'
<1>1. RevisionOf(seq)' = RevisionOf(seq)
  BY CalmRevision
<1>2. ActiveIsReviewed'
  BY DEF Calm, ActiveIsReviewed
<1>3. ReviewInv'
  <2> SUFFICES ASSUME NEW p \in Staff, review[p] # NoReview
               PROVE  /\ review[p].version <= seq'.version
                      /\ review[p].version = seq'.version =>
                           review[p].auth.revision = RevisionOf(seq) + 1
    BY <1>1 DEF ReviewInv
  <2>1. /\ review[p].version <= seq.version
        /\ review[p].version = seq.version => review[p].auth.revision = RevisionOf(seq) + 1
    BY DEF ReviewInv
  <2>2. review[p].version \in Nat /\ seq.version \in Nat /\ seq'.version \in Nat
    BY BoundsAssumption DEF TypeOK, Calm, Sequences
  <2> QED
    BY <2>1, <2>2 DEF Calm
<1> QED
  BY <1>2, <1>3

(* Attempts and Gmail at rest: who only moves one dispatcher, to a step it   *)
(* knows enough for.                                                         *)
LEMMA MovedDispatch ==
  ASSUME DispatchInv, UNCHANGED <<occ, mail>>, NEW d \in Dispatchers,
         \A e \in Dispatchers : e # d => disp'[e] = disp[e],
         disp'[d].pc \in Sending =>
           disp[d].pc \in Sending /\ disp'[d].occ = disp[d].occ,
         Knows(d)'
  PROVE  DispatchInv'
<1>1. \A e \in Dispatchers : Knows(e)'
  BY DEF DispatchInv, Knows
<1>2. Sole'
  BY DEF DispatchInv, Sole
<1> QED
  BY <1>1, <1>2 DEF DispatchInv

(* A dispatcher that carries no attempt knows nothing of one.                *)
LEMMA RestingDispatch ==
  ASSUME DispatchInv, UNCHANGED <<occ, mail>>, NEW d \in Dispatchers,
         \A e \in Dispatchers : e # d => disp'[e] = disp[e],
         disp'[d].pc \notin Sending \cup {"found"}
  PROVE  DispatchInv'
<1>1. Knows(d)'
  BY DEF Knows, Sending
<1> QED
  BY <1>1, MovedDispatch

(* Nothing happens to dispatchers and attempts.                              *)
LEMMA QuietDispatch == DispatchInv /\ UNCHANGED <<occ, mail, disp>> => DispatchInv'
BY DEF DispatchInv, Knows, Sole

-----------------------------------------------------------------------------
(* The steps                                                                 *)

(* An empty record.                                                          *)
LEMMA InitSequence == Init => SequenceInv
<1> SUFFICES ASSUME Init PROVE SequenceInv
  OBVIOUS
<1>1. TypeOK
  <2>1. seq \in Sequences
    <3>1. 1 \in 1..MaxVersion /\ 0 \in 0..MaxSends
      BY BoundsAssumption
    <3> QED
      BY <3>1 DEF Init, Sequences, SeqStates
  <2>2. disp \in [Dispatchers -> DispRecords]
    BY IdleFacts DEF Init
  <2> QED
    BY <2>1, <2>2 DEF Init, TypeOK, OccStates, Mails
<1>2. /\ seq.state = "draft" /\ seq.count = 0 /\ seq.unresolved = NoOcc
      /\ \A o \in Occurrences : occ[o] = "none" /\ mail[o] = "none"
  BY DEF Init
<1>3. SentOnes = {}
  BY <1>2 DEF SentOnes
<1>4. CountMatches /\ IsFiniteSet(SentOnes)
  BY <1>2, <1>3, FS_EmptySet DEF CountMatches, SentOnes
<1>5. RecordInv
  BY <1>2, <1>4, NullsAssumption
    DEF RecordInv, UnresolvedIsExact, Open, AnotherCopyNeedsRefusal, InflightIsAwaited, Attempts
<1>6. ActiveIsReviewed /\ ReviewInv
  BY <1>2 DEF ActiveIsReviewed, ReviewInv, Init
<1>7. DispatchInv
  BY IdleFacts DEF Init, DispatchInv, Knows, Sole, Sending
<1> QED
  BY <1>1, <1>5, <1>6, <1>7 DEF SequenceInv

(* Calm steps of staff and of the worker's own observation.                  *)
LEMMA StaffStep ==
  ASSUME SequenceInv,
         \/ \E draft \in Drafts : Save(draft)
         \/ \E action \in {"pause", "cancel", "transfer"}, p \in Staff : Control(action, p)
         \/ WorkerObserves
  PROVE  SequenceInv' /\ Calm
<1>1. Calm
  BY StaffIsCalm, ObservedIsCalm DEF WorkerObserves, SequenceInv
<1>2. UNCHANGED <<occ, mail, source, review, disp>> /\ replied' \in {replied, FALSE}
  BY DEF Save, Control, WorkerObserves
<1>3. TypeOK'
  BY <1>1, <1>2 DEF Calm, TypeOK, SequenceInv
<1> QED
  BY <1>1, <1>2, <1>3, CalmRecord, CalmReviews, QuietDispatch DEF SequenceInv

(* A review that is computed.                                                *)
LEMMA ReviewStep ==
  ASSUME SequenceInv, NEW p \in Staff, NEW action, NEW limit \in 1..MaxSends,
         Review(p, action, limit)
  PROVE  SequenceInv' /\ Calm
<1> DEFINE auth == [revision |-> RevisionOf(seq) + 1, draft |-> seq.draft, sender |-> p,
                    source |-> source, limit |-> limit]
           record == [version |-> seq.version, auth |-> auth]
<1>1. /\ seq.version \in 1..MaxVersion /\ seq.draft \in Drafts /\ source \in Sources
      /\ RevisionOf(seq) \in 0..MaxRevision /\ RevisionOf(seq) < MaxRevision
  BY SeqFields DEF SequenceInv, TypeOK, Review
<1>2. auth \in Authorizations /\ auth.sender = p /\ auth.revision = RevisionOf(seq) + 1
  BY <1>1, BoundsAssumption DEF Authorizations, Revisions
<1>3. /\ UNCHANGED <<seq, occ, mail, source, replied, disp>>
      /\ review' = [review EXCEPT ![p] = record]
  BY DEF Review
<1> HIDE DEF auth
<1>4. /\ DOMAIN review' = Staff /\ review'[p] = record
      /\ \A q \in Staff : q # p => review'[q] = review[q]
  BY <1>3 DEF SequenceInv, TypeOK
<1>5. Calm
  BY <1>1, <1>3, BoundsAssumption DEF Calm, SequenceInv, TypeOK
<1>6. TypeOK'
  BY <1>1, <1>2, <1>3, <1>4 DEF SequenceInv, TypeOK
<1>7. ReviewInv'
  <2>1. RevisionOf(seq)' = RevisionOf(seq)
    BY <1>3 DEF RevisionOf
  <2> QED
    BY <1>1, <1>2, <1>3, <1>4, <2>1, BoundsAssumption DEF SequenceInv, ReviewInv
<1>8. ActiveIsReviewed'
  BY <1>3 DEF SequenceInv, ActiveIsReviewed
<1> QED
  BY <1>3, <1>5, <1>6, <1>7, <1>8, CalmRecord, QuietDispatch DEF SequenceInv

(* The write of a review: it is void, or the first of the next revision.     *)
LEMMA AuthorizeStep ==
  ASSUME SequenceInv, NEW p \in Staff, Authorize(p)
  PROVE  /\ SequenceInv'
         /\ Calm \/ RevisionOf(seq)' = RevisionOf(seq) + 1
<1>1. UNCHANGED <<occ, mail, source, disp>> /\ replied' \in BOOLEAN
  BY DEF Authorize, SequenceInv, TypeOK
<1>2. /\ DOMAIN review' = Staff /\ review'[p] = NoReview
      /\ \A q \in Staff : q # p => review'[q] = review[q]
  BY DEF Authorize, SequenceInv, TypeOK
<1>3. CASE UNCHANGED seq
  <2>1. Calm
    BY <1>3, SeqFields DEF Calm, SequenceInv, TypeOK
  <2>2. TypeOK'
    BY <1>1, <1>2, <1>3 DEF SequenceInv, TypeOK
  <2>3. ReviewInv'
    BY <1>2, <1>3 DEF SequenceInv, ReviewInv, RevisionOf
  <2>4. ActiveIsReviewed'
    BY <1>3 DEF SequenceInv, ActiveIsReviewed
  <2> QED
    BY <1>1, <2>1, <2>2, <2>3, <2>4, CalmRecord, QuietDispatch DEF SequenceInv
<1>4. CASE /\ MayAuthorize(p)
           /\ Write(review[p].version,
                    [seq EXCEPT !.state = "active", !.auth = review[p].auth, !.due = TRUE])
  <2> DEFINE auth == review[p].auth
             v == seq.version
  <2>1. /\ auth \in Authorizations /\ auth.sender = p
        /\ auth.revision = RevisionOf(seq) + 1
        /\ v < MaxVersion /\ v \in 1..MaxVersion /\ seq \in Sequences
    BY <1>4 DEF Authorize, SequenceInv, ReviewInv, Write, TypeOK, Sequences
  <2>2. seq' = [[seq EXCEPT !.state = "active", !.auth = auth, !.due = TRUE]
                  EXCEPT !.version = v + 1]
    BY <1>4 DEF Write
  <2>3. seq.unresolved = NoOcc /\ seq.responsible = p /\ seq.draft = auth.draft
    BY <1>4 DEF MayAuthorize
  <2> HIDE DEF auth, v
  <2>4. v + 1 \in 1..MaxVersion
    BY <2>1, BoundsAssumption
  <2>5. seq' \in Sequences
    BY <2>1, <2>2, <2>4 DEF Sequences, SeqStates
  <2>6. /\ seq'.version = v + 1 /\ seq'.auth = auth /\ seq'.count = seq.count
        /\ seq'.unresolved = NoOcc /\ seq'.draft = auth.draft /\ seq'.responsible = p
    BY <2>1, <2>2, <2>3 DEF Sequences
  <2>7. auth # NoAuth
    BY <2>1, NullsAssumption
  <2>8. RevisionOf(seq)' = RevisionOf(seq) + 1
    BY <2>1, <2>6, <2>7 DEF RevisionOf
  <2>9. TypeOK'
    BY <1>1, <1>2, <2>5 DEF SequenceInv, TypeOK
  <2>10. ActiveIsReviewed'
    BY <2>1, <2>6, <2>7 DEF ActiveIsReviewed
  <2>11. ReviewInv'
    <3> SUFFICES ASSUME NEW q \in Staff, review'[q] # NoReview
                 PROVE  /\ review'[q].auth \in Authorizations /\ review'[q].auth.sender = q
                        /\ review'[q].version < seq'.version
      BY <2>5, <2>9, BoundsAssumption DEF ReviewInv, TypeOK, Sequences
    <3>1. review'[q] = review[q] /\ review[q] # NoReview
      BY <1>2
    <3>2. review[q].version <= v /\ review[q].version \in Nat /\ v \in Nat
      BY <3>1, BoundsAssumption DEF v, SequenceInv, ReviewInv, TypeOK, Sequences
    <3> QED
      BY <2>6, <3>1, <3>2 DEF SequenceInv, ReviewInv
  <2>12. RecordInv'
    <3>1. SentOnes' = SentOnes /\ occ' = occ /\ mail' = mail /\ seq'.count = seq.count
      BY <1>1, <2>6 DEF SentOnes
    <3>2. /\ UnresolvedIsExact' /\ InflightIsAwaited'
      BY <2>3, <2>6, <3>1, NullsAssumption
        DEF SequenceInv, RecordInv, UnresolvedIsExact, Open, InflightIsAwaited
    <3>3. AnotherCopyNeedsRefusal'
      BY <3>1 DEF SequenceInv, RecordInv, AnotherCopyNeedsRefusal
    <3>4. Attempts'
      <4>1. RevisionOf(seq) \in Nat
        BY SeqFields DEF SequenceInv
      <4> QED
        BY <2>8, <3>1, <4>1, OccurrenceFacts DEF SequenceInv, RecordInv, Attempts
    <3>5. CountMatches'
      BY <3>1 DEF SequenceInv, RecordInv, CountMatches
    <3> QED
      BY <3>1, <3>2, <3>3, <3>4, <3>5 DEF SequenceInv, RecordInv
  <2> QED
    BY <1>1, <2>8, <2>9, <2>10, <2>11, <2>12, QuietDispatch DEF SequenceInv
<1> QED
  BY <1>3, <1>4 DEF Authorize

(* A dispatcher that stops the record or ends on what it observed.           *)
LEMMA ObserveStep ==
  ASSUME SequenceInv, NEW d \in Dispatchers, PauseForChange(d) \/ Observe(d)
  PROVE  SequenceInv' /\ Calm
<1>1. Calm
  BY StaffIsCalm, ObservedIsCalm DEF Observe, SequenceInv
<1>2. UNCHANGED <<occ, mail, source, review>> /\ replied' \in BOOLEAN
  BY DEF PauseForChange, Observe, SequenceInv, TypeOK
<1>3. RevisionOf(seq)' = RevisionOf(seq) /\ RevisionOf(seq) \in 0..MaxRevision
  BY <1>1, CalmRevision, SeqFields DEF SequenceInv
<1>4. /\ disp' \in [Dispatchers -> DispRecords]
      /\ disp'[d].pc \in {"idle", "observed", "ready"}
      /\ \A e \in Dispatchers : e # d => disp'[e] = disp[e]
  <2>1. CASE Done(d)
    BY <2>1, DoneFacts DEF SequenceInv
  <2>2. CASE ~Done(d)
    <3> DEFINE pc == IF disp[d].pc = "loaded" THEN "observed" ELSE "ready"
               record == [disp[d] EXCEPT !.pc = pc, !.seen = RevisionOf(seq)']
    <3>1. disp[d] \in DispRecords /\ disp \in [Dispatchers -> DispRecords]
      BY DEF SequenceInv, TypeOK
    <3>2. disp' = [disp EXCEPT ![d].pc = IF @ = "loaded" THEN "observed" ELSE "ready",
                               ![d].seen = RevisionOf(seq)']
      BY <2>2 DEF PauseForChange, Observe, RevisionOf
    <3>3. disp' = [disp EXCEPT ![d] = record]
      BY <3>1, <3>2
    <3>4. pc \in {"observed", "ready"} /\ pc \in Steps
      BY DEF Steps
    <3> HIDE DEF pc
    <3>5. record \in DispRecords /\ record.pc = pc
      BY <1>3, <3>1, <3>4 DEF DispRecords
    <3> HIDE DEF record
    <3> QED
      BY <3>3, <3>4, <3>5, FreshFacts DEF SequenceInv
  <2> QED
    BY <2>1, <2>2
<1>5. TypeOK'
  BY <1>1, <1>2, <1>4 DEF SequenceInv, TypeOK, Calm
<1>6. DispatchInv'
  BY <1>2, <1>4, RestingDispatch DEF SequenceInv, Sending
<1> QED
  BY <1>1, <1>2, <1>5, <1>6, CalmRecord, CalmReviews DEF SequenceInv

(* What leaves the record alone keeps what is said of it.                    *)
LEMMA StillRecord ==
  ASSUME SequenceInv, UNCHANGED <<seq, occ, mail, source, replied, review>>,
         disp' \in [Dispatchers -> DispRecords]
  PROVE  TypeOK' /\ ActiveIsReviewed' /\ ReviewInv' /\ RecordInv' /\ Calm
<1>1. Calm
  BY SeqFields DEF Calm, SequenceInv, TypeOK
<1>2. TypeOK'
  BY DEF SequenceInv, TypeOK
<1> QED
  BY <1>1, <1>2, CalmRecord, CalmReviews DEF SequenceInv

(* A dispatch that begins, or ends where it is.                              *)
LEMMA LoadStep ==
  ASSUME SequenceInv, NEW d \in Dispatchers, Load(d) \/ Stop(d)
  PROVE  SequenceInv' /\ Calm
<1>0. UNCHANGED <<seq, occ, mail, source, replied, review>>
  BY DEF Load, Stop
<1>1. /\ disp' \in [Dispatchers -> DispRecords]
      /\ disp'[d].pc \in {"idle", "loaded", "barred"}
      /\ \A e \in Dispatchers : e # d => disp'[e] = disp[e]
  <2>1. CASE Stop(d)
    BY <2>1, DoneFacts DEF Stop, SequenceInv
  <2>2. CASE Load(d)
    <3> DEFINE record ==
          [Idle EXCEPT !.pc = IF seq.auth.sender = seq.responsible THEN "loaded" ELSE "barred",
                       !.version = seq.version, !.seen = RevisionOf(seq),
                       !.revision = RevisionOf(seq), !.count = seq.count,
                       !.sender = seq.responsible, !.source = seq.auth.source]
    <3>1. disp' = [disp EXCEPT ![d] = record]
      BY <2>2 DEF Load
    <3>2. seq.auth \in Authorizations
      BY <2>2, SeqFields DEF Load, SequenceInv, ActiveIsReviewed
    <3>3. /\ seq.version \in 0..MaxVersion /\ RevisionOf(seq) \in 0..MaxRevision
          /\ seq.count \in 0..MaxSends /\ seq.responsible \in Staff
          /\ seq.auth.source \in Sources
      BY <3>2, SeqFields, BoundsAssumption DEF SequenceInv, Authorizations
    <3>4. record.pc \in {"loaded", "barred"}
      BY DEF Idle
    <3>5. record \in DispRecords
      BY <3>3, IdleFacts DEF Idle, DispRecords, Steps
    <3> HIDE DEF record
    <3> QED
      BY <3>1, <3>4, <3>5, FreshFacts DEF SequenceInv
  <2> QED
    BY <2>1, <2>2
<1>2. DispatchInv'
  BY <1>0, <1>1, RestingDispatch DEF SequenceInv, Sending
<1> QED
  BY <1>0, <1>1, <1>2, StillRecord DEF SequenceInv

(* A dispatcher with an attempt that learns what became of it.               *)
LEMMA LearnStep ==
  ASSUME SequenceInv, NEW d \in Dispatchers,
         LastCheck(d) \/ SendReturns(d) \/ Readback(d) \/ SettleThrows(d)
  PROVE  SequenceInv' /\ Calm
<1>0. UNCHANGED <<seq, occ, mail, source, replied, review>>
  BY DEF LastCheck, SendReturns, Readback, SettleThrows
<1>1. Knows(d) /\ disp[d].pc \in Sending
  BY DEF SequenceInv, DispatchInv, LastCheck, SendReturns, Readback, SettleThrows, Sending
<1>2. /\ disp' \in [Dispatchers -> DispRecords]
      /\ disp'[d].occ = disp[d].occ
      /\ \A e \in Dispatchers : e # d => disp'[e] = disp[e]
      /\ \/ disp'[d].pc = "cleared" /\ disp[d].pc = "claimed"
         \/ disp'[d].pc = "readback" /\ mail[disp[d].occ] = "delivered"
         \/ /\ disp'[d].pc = "settle" /\ disp'[d].outcome \in {"sent", "refused", "ambiguous"}
            /\ disp'[d].outcome = "sent" => mail[disp[d].occ] = "delivered"
            /\ disp'[d].outcome = "refused" => mail[disp[d].occ] # "inflight"
  <2>0. /\ "cleared" \in Steps /\ "readback" \in Steps
        /\ "sent" \in Outcomes /\ "refused" \in Outcomes /\ "ambiguous" \in Outcomes
    BY DEF Steps, Outcomes
  <2>1. CASE Goto(d, "cleared") /\ disp[d].pc = "claimed"
    BY <2>0, <2>1, GotoFacts DEF SequenceInv
  <2>2. CASE Goto(d, "readback") /\ mail[disp[d].occ] = "delivered"
    BY <2>0, <2>2, GotoFacts DEF SequenceInv
  <2>3. CASE ToSettle(d, "ambiguous")
    BY <2>0, <2>3, ToSettleFacts DEF SequenceInv
  <2>4. CASE ToSettle(d, "refused") /\ mail[disp[d].occ] # "inflight"
    BY <2>0, <2>4, ToSettleFacts DEF SequenceInv
  <2>5. CASE ToSettle(d, "sent") /\ mail[disp[d].occ] = "delivered"
    BY <2>0, <2>5, ToSettleFacts DEF SequenceInv
  <2> QED
    BY <1>1, <2>1, <2>2, <2>3, <2>4, <2>5
      DEF LastCheck, SendReturns, Readback, SettleThrows, Knows
<1>3. Knows(d)'
  BY <1>0, <1>1, <1>2 DEF Knows, Sending
<1>4. DispatchInv'
  BY <1>0, <1>1, <1>2, <1>3, MovedDispatch DEF SequenceInv
<1> QED
  BY <1>0, <1>2, <1>4, StillRecord DEF SequenceInv

(* A look-up that finds the message.                                         *)
LEMMA ReconcileStep ==
  ASSUME SequenceInv, NEW d \in Dispatchers, Reconcile(d)
  PROVE  SequenceInv' /\ Calm
<1> DEFINE record == [Idle EXCEPT !.pc = "found", !.occ = seq.unresolved, !.outcome = "sent"]
<1>0. UNCHANGED <<seq, occ, mail, source, replied, review>>
  BY DEF Reconcile
<1>1. /\ seq.unresolved \in Occurrences /\ occ[seq.unresolved] # "none"
      /\ mail[seq.unresolved] = "delivered"
      /\ disp' = [disp EXCEPT ![d] = record]
  BY SeqFields DEF Reconcile, SequenceInv
<1>2. /\ record.pc = "found" /\ record.occ = seq.unresolved /\ record.outcome = "sent"
      /\ record \in DispRecords
  BY <1>1, IdleFacts DEF Idle, DispRecords, Steps, Outcomes
<1> HIDE DEF record
<1>3. /\ disp'[d] = record /\ disp' \in [Dispatchers -> DispRecords]
      /\ \A e \in Dispatchers : e # d => disp'[e] = disp[e]
  BY <1>1, <1>2, FreshFacts DEF SequenceInv
<1>4. Knows(d)'
  BY <1>0, <1>1, <1>2, <1>3 DEF Knows, Sending
<1>5. DispatchInv'
  BY <1>0, <1>2, <1>3, <1>4, MovedDispatch DEF SequenceInv, Sending
<1> QED
  BY <1>0, <1>3, <1>5, StillRecord DEF SequenceInv

(* The mail of an attempt moves: it stays out of the record unless it is     *)
(* under way.                                                                *)
LEMMA MailRecord ==
  ASSUME SequenceInv, UNCHANGED <<seq, occ>>, NEW o \in Occurrences, NEW m \in Mails,
         occ[o] # "none", mail[o] # "delivered",
         m = "inflight" => seq.unresolved = o,
         mail' = [mail EXCEPT ![o] = m]
  PROVE  RecordInv'
<1>1. /\ mail'[o] = m /\ \A x \in Occurrences : x # o => mail'[x] = mail[x]
      /\ RevisionOf(seq)' = RevisionOf(seq) /\ SentOnes' = SentOnes
  BY DEF SequenceInv, TypeOK, RevisionOf, SentOnes
<1>2. UnresolvedIsExact' /\ AnotherCopyNeedsRefusal' /\ Attempts' /\ InflightIsAwaited'
  BY <1>1
    DEF SequenceInv, RecordInv, UnresolvedIsExact, Open, InflightIsAwaited,
        AnotherCopyNeedsRefusal, Attempts
<1>3. CountMatches'
  BY <1>1 DEF SequenceInv, RecordInv, CountMatches
<1> QED
  BY <1>1, <1>2, <1>3 DEF SequenceInv, RecordInv

(* The call is made: only this run carries the attempt, still claimed.       *)
LEMMA SendStep ==
  ASSUME SequenceInv, NEW d \in Dispatchers, Send(d)
  PROVE  SequenceInv' /\ Calm
<1> PICK o \in Occurrences : o = disp[d].occ
  BY DEF SequenceInv, DispatchInv, Knows, Send, Sending
<1>0. /\ UNCHANGED <<seq, occ, source, replied, review>> /\ Goto(d, "sent")
      /\ mail' = [mail EXCEPT ![o] = "inflight"] /\ disp[d].pc = "cleared"
  BY DEF Send
<1>1. occ[o] = "claimed" /\ mail[o] = "none"
  BY <1>0 DEF SequenceInv, DispatchInv, Knows
<1>2. seq.unresolved = o
  BY <1>1 DEF SequenceInv, RecordInv, UnresolvedIsExact, Open
<1>3. RecordInv'
  BY <1>0, <1>1, <1>2, MailRecord DEF Mails
<1>4. /\ disp'[d].pc = "sent" /\ disp'[d].occ = o
      /\ \A e \in Dispatchers : e # d => disp'[e] = disp[e]
      /\ disp' \in [Dispatchers -> DispRecords]
  BY <1>0, GotoFacts DEF Steps, SequenceInv
<1>5. Calm
  BY <1>0, SeqFields DEF Calm, SequenceInv, TypeOK
<1>6. TypeOK'
  BY <1>0, <1>4 DEF SequenceInv, TypeOK, Mails
<1>7. mail'[o] = "inflight" /\ \A x \in Occurrences : x # o => mail'[x] = mail[x]
  BY <1>0 DEF SequenceInv, TypeOK
<1>8. \A e \in Dispatchers : Knows(e)'
  <2>1. Knows(d)'
    BY <1>0, <1>1, <1>4 DEF Knows, Sending
  <2>2. ASSUME NEW e \in Dispatchers, e # d PROVE Knows(e)'
    <3>1. CASE disp[e].pc \notin Sending \cup {"found"}
      BY <1>0, <1>4, <2>2, <3>1 DEF Knows, Sending
    <3>2. CASE disp[e].pc \in Sending \cup {"found"}
      <4>1. Knows(e) /\ disp[e].occ \in Occurrences
        BY <3>2 DEF SequenceInv, DispatchInv, Knows
      <4>2. disp[e].occ # o
        BY <1>0, <1>1, <2>2, <3>2, <4>1 DEF SequenceInv, DispatchInv, Knows, Sole, Sending
      <4> QED
        BY <1>0, <1>4, <1>7, <2>2, <4>1, <4>2 DEF Knows
    <3> QED
      BY <3>1, <3>2
  <2> QED
    BY <2>1, <2>2
<1>9. Sole'
  BY <1>0, <1>4 DEF SequenceInv, DispatchInv, Sole, Sending
<1> QED
  BY <1>0, <1>3, <1>5, <1>6, <1>8, <1>9, CalmReviews DEF SequenceInv, DispatchInv

(* An attempt is admitted: its place in the count is free of every earlier   *)
(* one but the refused.                                                      *)
LEMMA AdmitStep ==
  ASSUME SequenceInv, NEW d \in Dispatchers, NEW o, o = NextOccurrence,
         disp[d].pc = "ready", Claimable(d),
         occ' = [occ EXCEPT ![o] = "claimed"],
         seq' = [seq EXCEPT !.unresolved = o],
         disp' = [disp EXCEPT ![d].pc = "claimed", ![d].occ = o],
         UNCHANGED <<mail, source, replied, review>>
  PROVE  SequenceInv' /\ (seq.state # "active" => seq'.state # "active")
<1>1. /\ seq.auth \in Authorizations /\ seq.unresolved = NoOcc /\ seq.count < seq.auth.limit
      /\ occ[o] = "none" /\ seq \in Sequences
  BY SeqFields DEF Claimable, SequenceInv, TypeOK
<1>2. /\ RevisionOf(seq) \in Revisions /\ seq.count \in 0..(MaxSends - 1)
      /\ RevisionOf(seq) \in Nat /\ seq.count \in Nat
  BY <1>1, SeqFields, BoundsAssumption, NullsAssumption
    DEF SequenceInv, Authorizations, RevisionOf, Revisions
<1>3. /\ o \in Occurrences /\ o = <<RevisionOf(seq), seq.count>>
      /\ o[1] = RevisionOf(seq) /\ o[2] = seq.count
  BY <1>2 DEF NextOccurrence, Occurrences
<1> HIDE DEF NextOccurrence
<1>4. /\ seq' \in Sequences /\ seq'.unresolved = o /\ seq'.auth = seq.auth
      /\ seq'.count = seq.count /\ seq'.state = seq.state /\ seq'.draft = seq.draft
      /\ seq'.version = seq.version /\ seq'.responsible = seq.responsible
  BY <1>1, <1>3 DEF Sequences
<1>5. RevisionOf(seq)' = RevisionOf(seq)
  BY <1>4 DEF RevisionOf
<1>6. /\ occ'[o] = "claimed" /\ \A x \in Occurrences : x # o => occ'[x] = occ[x]
      /\ occ' \in [Occurrences -> OccStates]
  BY <1>3 DEF SequenceInv, TypeOK, OccStates
<1>7. /\ disp'[d].pc = "claimed" /\ disp'[d].occ = o
      /\ \A e \in Dispatchers : e # d => disp'[e] = disp[e]
      /\ disp' \in [Dispatchers -> DispRecords]
  <2> DEFINE record == [disp[d] EXCEPT !.pc = "claimed", !.occ = o]
  <2>1. disp[d] \in DispRecords /\ disp \in [Dispatchers -> DispRecords]
    BY DEF SequenceInv, TypeOK
  <2>2. record \in DispRecords /\ record.pc = "claimed" /\ record.occ = o
    BY <1>3, <2>1 DEF DispRecords, Steps
  <2>3. disp' = [disp EXCEPT ![d] = record]
    BY <2>1
  <2> HIDE DEF record
  <2> QED
    BY <2>1, <2>2, <2>3
<1>8. TypeOK'
  BY <1>4, <1>6, <1>7 DEF SequenceInv, TypeOK
<1>9. ActiveIsReviewed' /\ ReviewInv'
  BY <1>4, <1>5 DEF SequenceInv, ActiveIsReviewed, ReviewInv
<1>10. SentOnes' = SentOnes /\ mail[o] = "none"
  BY <1>1, <1>3, <1>6 DEF SentOnes, SequenceInv, RecordInv, Attempts
<1>11. UnresolvedIsExact' /\ InflightIsAwaited'
  <2>1. \A x \in Occurrences : ~Open(x)
    BY <1>1, NullsAssumption DEF SequenceInv, RecordInv, UnresolvedIsExact
  <2> QED
    BY <1>1, <1>3, <1>4, <1>5, <1>6, <1>10, <2>1, NullsAssumption
      DEF SequenceInv, RecordInv, UnresolvedIsExact, Open, InflightIsAwaited
<1>12. CountMatches'
  BY <1>4, <1>10 DEF SentOnes, SequenceInv, RecordInv, CountMatches
<1>13. Attempts'
  BY <1>1, <1>2, <1>3, <1>5, <1>6 DEF SequenceInv, RecordInv, Attempts
<1>14. AnotherCopyNeedsRefusal'
  <2> SUFFICES ASSUME NEW o1 \in Occurrences, NEW o2 \in Occurrences,
                      o1[2] = o2[2], o1[1] < o2[1], occ'[o2] # "none"
               PROVE  occ'[o1] \in {"none", "refused"}
    BY DEF AnotherCopyNeedsRefusal
  <2>1. CASE o2 # o /\ o1 # o
    BY <1>6, <2>1 DEF SequenceInv, RecordInv, AnotherCopyNeedsRefusal
  <2>2. CASE o1 = o
    <3>1. o2 # o /\ occ[o2] # "none"
      BY <1>2, <1>3, <1>6, <2>2
    <3>2. o2[1] <= RevisionOf(seq)
      BY <3>1 DEF SequenceInv, RecordInv, Attempts
    <3> QED
      BY <1>2, <1>3, <2>2, <3>2, OccurrenceFacts
  <2>3. CASE o2 = o
    <3>1. o1 # o /\ o1[2] = seq.count
      BY <1>2, <1>3, <2>3
    <3>2. ~Open(o1)
      BY <1>1, NullsAssumption DEF SequenceInv, RecordInv, UnresolvedIsExact
    <3>3. occ[o1] # "sent"
      <4> SUFFICES ASSUME occ[o1] = "sent" PROVE FALSE
        OBVIOUS
      <4>1. o1[2] \in 0..(seq.count - 1)
        BY DEF SequenceInv, RecordInv, CountMatches
      <4> QED
        BY <1>2, <3>1, <4>1
    <3> QED
      BY <1>6, <3>1, <3>2, <3>3 DEF Open, SequenceInv, TypeOK, OccStates
  <2> QED
    BY <2>1, <2>2, <2>3
<1>15. RecordInv'
  BY <1>10, <1>11, <1>12, <1>13, <1>14 DEF SequenceInv, RecordInv
<1>16. \A e \in Dispatchers : Knows(e)'
  <2>1. Knows(d)'
    BY <1>3, <1>6, <1>7, <1>10 DEF Knows, Sending
  <2>2. ASSUME NEW e \in Dispatchers, e # d PROVE Knows(e)'
    <3>1. CASE disp[e].pc \notin Sending \cup {"found"}
      BY <1>7, <2>2, <3>1 DEF Knows, Sending
    <3>2. CASE disp[e].pc \in Sending \cup {"found"}
      <4>1. Knows(e) /\ disp[e].occ \in Occurrences /\ disp[e].occ # o
        BY <1>1, <3>2 DEF SequenceInv, DispatchInv, Knows
      <4> QED
        BY <1>6, <1>7, <2>2, <4>1 DEF Knows
    <3> QED
      BY <3>1, <3>2
  <2> QED
    BY <2>1, <2>2
<1>17. Sole'
  BY <1>1, <1>7 DEF SequenceInv, DispatchInv, Knows, Sole
<1> QED
  BY <1>4, <1>8, <1>9, <1>15, <1>16, <1>17 DEF SequenceInv, DispatchInv

(* A claim admits one attempt, ends a schedule whose time is over, or leaves.*)
LEMMA ClaimStep ==
  ASSUME SequenceInv, NEW d \in Dispatchers, Claim(d)
  PROVE  SequenceInv' /\ (seq.state # "active" => seq'.state # "active")
<1>1. CASE /\ Claimable(d)
           /\ occ' = [occ EXCEPT ![NextOccurrence] = "claimed"]
           /\ seq' = [seq EXCEPT !.unresolved = NextOccurrence]
           /\ disp' = [disp EXCEPT ![d].pc = "claimed", ![d].occ = NextOccurrence]
  BY <1>1, AdmitStep DEF Claim
<1>2. CASE /\ Done(d) /\ UNCHANGED occ
           /\ seq' = [seq EXCEPT !.state = "completed", !.due = FALSE] \/ UNCHANGED seq
  <2>1. /\ disp' \in [Dispatchers -> DispRecords] /\ disp'[d].pc = "idle"
        /\ \A e \in Dispatchers : e # d => disp'[e] = disp[e]
        /\ UNCHANGED <<occ, mail, source, replied, review>>
    BY <1>2, DoneFacts DEF SequenceInv, Claim
  <2>2. seq \in Sequences /\ seq.version \in Nat
    BY SeqFields DEF SequenceInv, TypeOK
  <2>3. Calm
    <3>1. CASE UNCHANGED seq
      BY <2>2, <3>1 DEF Calm
    <3>2. CASE seq' = [seq EXCEPT !.state = "completed", !.due = FALSE]
      <4>1. seq' \in Sequences
        BY <2>2, <3>2 DEF Sequences, SeqStates
      <4>2. /\ seq'.auth = seq.auth /\ seq'.count = seq.count
            /\ seq'.unresolved = seq.unresolved /\ seq'.version = seq.version
            /\ seq'.state = "completed"
        BY <2>2, <3>2 DEF Sequences
      <4> QED
        BY <2>2, <4>1, <4>2 DEF Calm
    <3> QED
      BY <1>2, <3>1, <3>2
  <2>4. TypeOK'
    BY <2>1, <2>3 DEF SequenceInv, TypeOK, Calm
  <2>5. DispatchInv'
    BY <2>1, RestingDispatch DEF SequenceInv, Sending
  <2> QED
    BY <2>1, <2>3, <2>4, <2>5, CalmRecord, CalmReviews DEF SequenceInv, Calm
<1> QED
  BY <1>1, <1>2 DEF Claim

(* What a settlement makes of the record.                                    *)
LEMMA SettledRecord ==
  ASSUME SequenceInv, NEW o \in Occurrences, NEW outcome \in {"sent", "refused", "ambiguous"},
         CanSettle(o), seq' = SettleRecord(o, outcome)
  PROVE  /\ seq' \in Sequences
         /\ seq'.auth = seq.auth /\ seq'.draft = seq.draft
         /\ seq'.responsible = seq.responsible /\ seq'.version = seq.version
         /\ seq'.count = IF outcome = "sent" THEN seq.count + 1 ELSE seq.count
         /\ seq'.unresolved = IF outcome = "ambiguous" THEN o ELSE NoOcc
         /\ seq.state # "active" => seq'.state # "active"
<1>1. seq \in Sequences /\ seq.state \in SeqStates /\ seq.count \in 0..MaxSends
  BY DEF SequenceInv, TypeOK, Sequences
<1>2. seq.unresolved = o /\ o = <<RevisionOf(seq), seq.count>>
  BY DEF CanSettle, SequenceInv, RecordInv, UnresolvedIsExact
<1>3. seq.count + 1 \in 0..MaxSends
  BY <1>1, <1>2, OccurrenceFacts, BoundsAssumption
<1>4. CASE outcome = "sent"
  <2> DEFINE state == SentState(seq.count + 1 >= seq.auth.limit)
  <2>1. state \in SeqStates /\ (seq.state # "active" => state # "active")
    BY <1>1 DEF SentState, SeqStates
  <2>2. seq' = [seq EXCEPT !.state = state, !.count = seq.count + 1,
                           !.due = (state = "active"), !.unresolved = NoOcc]
    BY <1>4 DEF SettleRecord
  <2> HIDE DEF state
  <2> QED
    BY <1>1, <1>3, <1>4, <2>1, <2>2 DEF Sequences
<1>5. CASE outcome # "sent"
  <2> DEFINE state == UnsentState(outcome)
             next == IF outcome = "ambiguous" THEN o ELSE NoOcc
  <2>1. state \in SeqStates /\ state # "active" /\ next \in Occurrences \cup {NoOcc}
    BY <1>1 DEF UnsentState, SeqStates
  <2>2. seq' = [seq EXCEPT !.state = state, !.due = FALSE, !.unresolved = next]
    BY <1>5 DEF SettleRecord
  <2>3. next = IF outcome = "ambiguous" THEN o ELSE NoOcc
    OBVIOUS
  <2> HIDE DEF state, next
  <2> QED
    BY <1>1, <1>5, <2>1, <2>2, <2>3 DEF Sequences
<1> QED
  BY <1>4, <1>5

(* A settlement gives the one open attempt its outcome.                      *)
LEMMA SettledAttempts ==
  ASSUME SequenceInv, NEW o \in Occurrences, NEW outcome \in {"sent", "refused", "ambiguous"},
         CanSettle(o), seq' = SettleRecord(o, outcome),
         occ' = [occ EXCEPT ![o] = outcome], UNCHANGED mail,
         outcome = "sent" => mail[o] = "delivered",
         outcome = "refused" => mail[o] # "inflight"
  PROVE  RecordInv'
<1>1. /\ seq'.auth = seq.auth
      /\ seq'.count = IF outcome = "sent" THEN seq.count + 1 ELSE seq.count
      /\ seq'.unresolved = IF outcome = "ambiguous" THEN o ELSE NoOcc
  BY SettledRecord
<1>2. RevisionOf(seq)' = RevisionOf(seq)
  BY <1>1 DEF RevisionOf
<1>3. /\ occ'[o] = outcome /\ \A x \in Occurrences : x # o => occ'[x] = occ[x]
      /\ mail' = mail
  BY DEF SequenceInv, TypeOK
<1>4. /\ Open(o) /\ o = <<RevisionOf(seq), seq.count>> /\ o[2] = seq.count
      /\ \A x \in Occurrences : x # o => ~Open(x)
      /\ seq.count \in Nat
  BY SeqFields, OccurrenceFacts DEF CanSettle, SequenceInv, RecordInv, UnresolvedIsExact
<1>5. UnresolvedIsExact'
  BY <1>1, <1>2, <1>3, <1>4, NullsAssumption
    DEF UnresolvedIsExact, Open
<1>6. InflightIsAwaited'
  BY <1>1, <1>3, <1>4 DEF CanSettle, SequenceInv, RecordInv, InflightIsAwaited
<1>7. Attempts'
  BY <1>2, <1>3, <1>4 DEF Open, SequenceInv, RecordInv, Attempts
<1>8. AnotherCopyNeedsRefusal'
  BY <1>3, <1>4 DEF Open, SequenceInv, RecordInv, AnotherCopyNeedsRefusal
<1>9. CountMatches' /\ IsFiniteSet(SentOnes)'
  <2>1. IsFiniteSet(SentOnes) /\ o \notin SentOnes
    BY <1>4 DEF Open, SequenceInv, RecordInv, SentOnes
  <2>2. CASE outcome # "sent"
    <3>1. SentOnes' = SentOnes /\ seq'.count = seq.count
      BY <1>1, <1>3, <1>4, <2>2 DEF SentOnes, Open
    <3> QED
      BY <1>3, <2>1, <3>1 DEF SentOnes, SequenceInv, RecordInv, CountMatches
  <2>3. CASE outcome = "sent"
    <3>1. SentOnes' = SentOnes \cup {o} /\ seq'.count = seq.count + 1
      BY <1>1, <1>3, <2>3 DEF SentOnes
    <3>2. IsFiniteSet(SentOnes)' /\ Cardinality(SentOnes)' = Cardinality(SentOnes) + 1
      BY <2>1, <3>1, FS_AddElement
    <3>3. /\ Cardinality(SentOnes) = seq.count
          /\ {x[2] : x \in SentOnes} = 0..(seq.count - 1)
          /\ \A x \in SentOnes : mail[x] = "delivered"
      BY DEF SentOnes, SequenceInv, RecordInv, CountMatches
    <3>4. {x[2] : x \in SentOnes'} = {x[2] : x \in SentOnes} \cup {seq.count}
      BY <1>4, <3>1
    <3>5. (0..(seq.count - 1)) \cup {seq.count} = 0..((seq.count + 1) - 1)
      BY <1>4
    <3>6. {x[2] : x \in SentOnes'} = 0..(seq'.count - 1)
      BY <3>1, <3>3, <3>4, <3>5
    <3>7. \A x \in SentOnes' : mail'[x] = "delivered"
      BY <1>3, <2>3, <3>1, <3>3
    <3>8. CountMatches'
      BY <3>1, <3>2, <3>3, <3>6, <3>7 DEF CountMatches, SentOnes
    <3> QED
      BY <3>2, <3>8
  <2> QED
    BY <2>2, <2>3
<1> QED
  BY <1>5, <1>6, <1>7, <1>8, <1>9 DEF RecordInv

(* A run settles its attempt, or finds it settled.                           *)
LEMMA SettleStep ==
  ASSUME SequenceInv, NEW d \in Dispatchers, Settle(d)
  PROVE  SequenceInv' /\ (seq.state # "active" => seq'.state # "active")
<1> PICK o \in Occurrences : o = disp[d].occ
  BY DEF SequenceInv, DispatchInv, Knows, Settle, Sending
<1> PICK outcome \in {"sent", "refused", "ambiguous"} : outcome = disp[d].outcome
  BY DEF SequenceInv, DispatchInv, Knows, Settle, TypeOK, DispRecords, Outcomes
<1>0. /\ UNCHANGED <<mail, source, replied, review>>
      /\ disp[d].pc \in {"settle", "found"} /\ disp[d].occ = o
      /\ outcome = "sent" => mail[o] = "delivered"
      /\ outcome = "refused" => mail[o] # "inflight"
      /\ occ[o] # "none"
  BY DEF Settle, SequenceInv, DispatchInv, Knows, Sending
<1>1. /\ disp' \in [Dispatchers -> DispRecords] /\ disp'[d].pc \in {"idle", "watch"}
      /\ \A e \in Dispatchers : e # d => disp'[e] = disp[e]
  <2> DEFINE record == [Idle EXCEPT !.pc = "watch", !.seen = RevisionOf(seq)]
  <2>1. CASE Done(d)
    BY <2>1, DoneFacts DEF SequenceInv
  <2>2. CASE ~Done(d)
    <3>1. disp' = [disp EXCEPT ![d] = record]
      BY <2>2 DEF Settle
    <3>2. RevisionOf(seq) \in 0..MaxRevision
      BY SeqFields DEF SequenceInv
    <3>3. record \in DispRecords /\ record.pc = "watch"
      BY <3>2, IdleFacts DEF Idle, DispRecords, Steps
    <3> HIDE DEF record
    <3> QED
      BY <3>1, <3>3, FreshFacts DEF SequenceInv
  <2> QED
    BY <2>1, <2>2
<1>2. CASE ~CanSettle(o)
  <2>1. UNCHANGED <<seq, occ>>
    BY <1>0, <1>2 DEF Settle
  <2>2. DispatchInv'
    BY <1>0, <1>1, <2>1, RestingDispatch DEF SequenceInv, Sending
  <2> QED
    BY <1>0, <1>1, <2>1, <2>2, StillRecord DEF SequenceInv
<1>3. CASE CanSettle(o)
  <2>1. seq' = SettleRecord(o, outcome) /\ occ' = [occ EXCEPT ![o] = outcome]
    BY <1>0, <1>3 DEF Settle
  <2>2. /\ seq' \in Sequences
        /\ seq'.auth = seq.auth /\ seq'.draft = seq.draft
        /\ seq'.responsible = seq.responsible /\ seq'.version = seq.version
        /\ seq.state # "active" => seq'.state # "active"
    BY <1>3, <2>1, SettledRecord
  <2>3. RecordInv'
    BY <1>0, <1>3, <2>1, SettledAttempts
  <2>4. /\ occ'[o] = outcome /\ \A x \in Occurrences : x # o => occ'[x] = occ[x]
        /\ occ' \in [Occurrences -> OccStates]
    BY <2>1 DEF SequenceInv, TypeOK, OccStates
  <2>5. TypeOK'
    BY <1>0, <1>1, <2>2, <2>4 DEF SequenceInv, TypeOK
  <2>6. RevisionOf(seq)' = RevisionOf(seq)
    BY <2>2 DEF RevisionOf
  <2>7. ActiveIsReviewed' /\ ReviewInv'
    BY <1>0, <2>2, <2>6 DEF SequenceInv, ActiveIsReviewed, ReviewInv
  <2>8. ASSUME NEW e \in Dispatchers PROVE Knows(e)'
    <3>1. CASE disp'[e].pc \notin Sending \cup {"found"}
      BY <3>1 DEF Knows, Sending
    <3>2. CASE disp'[e].pc \in Sending \cup {"found"}
      <4>1. e # d /\ disp'[e] = disp[e]
        BY <1>1, <3>2 DEF Sending
      <4>2. Knows(e) /\ disp[e].occ \in Occurrences
        BY <3>2, <4>1 DEF SequenceInv, DispatchInv, Knows
      <4>3. disp[e].occ = o => disp[e].pc \notin {"claimed", "cleared"}
        BY <1>0, <4>1 DEF SequenceInv, DispatchInv, Knows, Sole, Sending
      <4> QED
        BY <1>0, <2>4, <4>1, <4>2, <4>3 DEF Knows
    <3> QED
      BY <3>1, <3>2
  <2>9. Sole'
    BY <1>1 DEF SequenceInv, DispatchInv, Sole, Sending
  <2> QED
    BY <2>2, <2>3, <2>5, <2>7, <2>8, <2>9 DEF SequenceInv, DispatchInv
<1> QED
  BY <1>2, <1>3

(* Gmail handles what it accepted.                                           *)
LEMMA GmailStep ==
  ASSUME SequenceInv, NEW o \in Occurrences, Gmail(o)
  PROVE  SequenceInv' /\ Calm
<1>0. UNCHANGED <<seq, occ, source, replied, review, disp>> /\ mail[o] = "inflight"
  BY DEF Gmail
<1> PICK m \in {"delivered", "rejected"} : mail' = [mail EXCEPT ![o] = m]
  BY DEF Gmail
<1>1. occ[o] # "none"
  BY <1>0 DEF SequenceInv, RecordInv, Attempts
<1>2. RecordInv'
  BY <1>0, <1>1, MailRecord DEF Mails
<1>3. Calm
  BY <1>0, SeqFields DEF Calm, SequenceInv, TypeOK
<1>4. TypeOK'
  BY <1>0 DEF SequenceInv, TypeOK, Mails
<1>5. mail'[o] = m /\ \A x \in Occurrences : x # o => mail'[x] = mail[x]
  BY DEF SequenceInv, TypeOK
<1>6. DispatchInv'
  BY <1>0, <1>5 DEF SequenceInv, DispatchInv, Knows, Sole
<1> QED
  BY <1>0, <1>2, <1>3, <1>4, <1>6, CalmReviews DEF SequenceInv

(* Replies and source facts change outside.                                  *)
LEMMA OutsideStep ==
  ASSUME SequenceInv, ReplyArrives \/ SourceChanges
  PROVE  SequenceInv' /\ Calm
<1>1. UNCHANGED <<seq, occ, mail, review, disp>> /\ source' \in Sources /\ replied' \in BOOLEAN
  BY DEF ReplyArrives, SourceChanges, SequenceInv, TypeOK
<1>2. Calm
  BY <1>1, SeqFields DEF Calm, SequenceInv, TypeOK
<1>3. TypeOK'
  BY <1>1 DEF SequenceInv, TypeOK
<1> QED
  BY <1>1, <1>2, <1>3, CalmRecord, CalmReviews, QuietDispatch DEF SequenceInv

-----------------------------------------------------------------------------
(* A step that makes a stopped record active.                                *)
Reactivates == seq.state # "active" /\ seq'.state = "active"

(* Every step keeps the invariant, and none but a review reactivates.        *)
LEMMA NextSequence ==
  SequenceInv /\ [Next]_vars =>
    SequenceInv' /\ (Reactivates => RevisionOf(seq') = RevisionOf(seq) + 1)
<1> SUFFICES ASSUME SequenceInv, [Next]_vars
             PROVE  SequenceInv' /\ (Reactivates => RevisionOf(seq)' = RevisionOf(seq) + 1)
  BY DEF RevisionOf
<1>0. Calm => ~Reactivates
  BY DEF Calm, Reactivates
<1>1. CASE \/ \E draft \in Drafts : Save(draft)
           \/ \E action \in {"pause", "cancel", "transfer"}, p \in Staff : Control(action, p)
           \/ WorkerObserves
  BY <1>0, <1>1, StaffStep
<1>2. CASE \E p \in Staff, action \in {"send", "resume"}, limit \in 1..MaxSends :
             Review(p, action, limit)
  BY <1>0, <1>2, ReviewStep
<1>3. CASE \E p \in Staff : Authorize(p)
  BY <1>0, <1>3, AuthorizeStep
<1>4. CASE \E d \in Dispatchers :
             Load(d) \/ Stop(d) \/ PauseForChange(d) \/ Observe(d) \/ LastCheck(d)
               \/ SendReturns(d) \/ Readback(d) \/ SettleThrows(d) \/ Reconcile(d) \/ Send(d)
  BY <1>0, <1>4, LoadStep, ObserveStep, LearnStep, ReconcileStep, SendStep
<1>5. CASE \E d \in Dispatchers : Claim(d) \/ Settle(d)
  BY <1>5, ClaimStep, SettleStep DEF Reactivates
<1>6. CASE (\E o \in Occurrences : Gmail(o)) \/ ReplyArrives \/ SourceChanges
  BY <1>0, <1>6, GmailStep, OutsideStep
<1>7. CASE UNCHANGED vars
  <2>1. SequenceInv'
    <3>1. UNCHANGED <<seq, occ, mail, source, replied, review, disp>>
      BY <1>7 DEF vars
    <3> QED
      BY <3>1, StillRecord, QuietDispatch DEF SequenceInv, TypeOK
  <2> QED
    BY <1>7, <2>1 DEF vars, Reactivates
<1> QED
  BY <1>1, <1>2, <1>3, <1>4, <1>5, <1>6, <1>7 DEF Next, StaffActs, Dispatch

(* The whole invariant, in every reachable state.                            *)
THEOREM SequenceKept == Spec => []SequenceInv
<1>1. SequenceInv /\ [Next]_vars => SequenceInv'
  BY NextSequence
<1> QED
  BY <1>1, InitSequence, PTL DEF Spec

(* The record names its one open attempt, counts what was sent without a gap *)
(* and waits for every message Gmail may still deliver.                      *)
THEOREM RecordStaysExact == Spec => []RecordIsExact
<1>1. SequenceInv => RecordIsExact
  BY DEF SequenceInv, RecordInv, RecordIsExact
<1> QED
  BY <1>1, SequenceKept, PTL

(* An active sequence holds a review of its draft by its responsible sender. *)
THEOREM ActiveStaysReviewed == Spec => []ActiveIsReviewed
<1>1. SequenceInv => ActiveIsReviewed
  BY DEF SequenceInv
<1> QED
  BY <1>1, SequenceKept, PTL

(* No message is attempted again while an earlier attempt may have reached   *)
(* its reader.                                                               *)
THEOREM CopiesNeedRefusal == Spec => []AnotherCopyNeedsRefusal
<1>1. SequenceInv => AnotherCopyNeedsRefusal
  BY DEF SequenceInv, RecordInv
<1> QED
  BY <1>1, SequenceKept, PTL

(* No settlement, observation or late run restarts a stopped sequence.       *)
THEOREM StopsNeedReview == Spec => OnlyReviewReactivates
<1>1. SequenceInv /\ [Next]_vars =>
        [(seq.state # "active" /\ seq'.state = "active") =>
           RevisionOf(seq') = RevisionOf(seq) + 1]_vars
  BY NextSequence DEF Reactivates
<1> QED
  BY <1>1, SequenceKept, PTL DEF Spec, OnlyReviewReactivates
=============================================================================
