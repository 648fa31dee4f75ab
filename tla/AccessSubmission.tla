-------------------------- MODULE AccessSubmission --------------------------
(***************************************************************************)
(* How a staff member files access requests: previewAccessRequest and      *)
(* submitAccessRequest of access/request-service.ts over savePreviewAttempt *)
(* and commitAccessRequest of access/request-store-firestore.ts.           *)
(*                                                                         *)
(* A preview is stored as an attempt, at most one for an intent and a few   *)
(* for a person.  Submitting an attempt creates a request, or joins the    *)
(* active one for the same intent, and leaves an index entry that answers  *)
(* every repetition.  Submits of one attempt overlap and lose their        *)
(* answers.  What Admins do with a request is AccessApply's subject; here  *)
(* a request is active or closed.                                          *)
(***************************************************************************)
EXTENDS Integers, FiniteSets

CONSTANTS
  Intents,
  Submitters,   \* server invocations for one person
  MaxAttempts,  \* bound on the attempts previewed
  OpenLimit,    \* open attempts a person may have
  MaxChanges    \* bound on the changes of the person's access

ASSUME SubmissionAssumption ==
  MaxAttempts \in Nat /\ OpenLimit \in Nat \ {0} /\ MaxChanges \in Nat

VARIABLES
  attempt,    \* the stored attempts: a set of AttemptRecords
  previewOf,  \* [Intents -> the attempt the preview pointer names, or None]
  active,     \* [Intents -> the request the active pointer names, or None]
  requests,    \* [requests filed -> FiledRecords]
  index,      \* [attempts indexed -> IndexRecords]
  issued,     \* attempts issued so far: an attempt's number is its age
  access,     \* the person's access, as the number of its last change
  submitter   \* [Submitters -> SubmitterRecords]

filingVars == <<attempt, previewOf, active, requests, index, issued, access, submitter>>

Attempts == 1..MaxAttempts
None == 0

AttemptRecords == [id: Attempts, intent: Intents, base: 0..MaxChanges, open: BOOLEAN]
(* A request has the number of the attempt that created it.                  *)
FiledRecords == [intent: Intents, open: BOOLEAN]
IndexRecords == [created: BOOLEAN, request: Attempts]
Answers == {"none", "filed", "not_committed"}
SubmitterRecords ==
  [pc: {"idle", "reading", "committing"}, id: Attempts \cup {None},
   answer: Answers, told: Attempts \cup {None}]

NoSubmit == [pc |-> "idle", id |-> None, answer |-> "none", told |-> None]

FilingInit ==
  /\ attempt = {}
  /\ previewOf = [i \in Intents |-> None]
  /\ active = [i \in Intents |-> None]
  /\ requests = <<>>
  /\ index = <<>>
  /\ issued = 0 /\ access = 0
  /\ submitter = [s \in Submitters |-> NoSubmit]

Stored(id) == {a \in attempt : a.id = id}
OpenOnes(S) == {a \in S : a.open}
Oldest(S, n) == {a \in S : Cardinality({b \in S : b.id <= a.id}) <= n}
With(f, k, v) == [x \in DOMAIN f \cup {k} |-> IF x = k THEN v ELSE f[x]]

-----------------------------------------------------------------------------
(* Previews                                                                  *)

(* Mutant: every preview is stored anew and only the crowd is cut.           *)
SavePreviewAgain(i) ==
  LET kept == OpenOnes(attempt)
      crowded == Oldest(kept, Cardinality(kept) - OpenLimit)
  IN /\ issued < MaxAttempts
     /\ issued' = issued + 1
     /\ attempt' = (attempt \ crowded) \cup
          {[id |-> issued + 1, intent |-> i, base |-> access, open |-> TRUE]}
     /\ previewOf' = [previewOf EXCEPT ![i] = issued + 1]
     /\ UNCHANGED <<active, requests, index, access, submitter>>

(* savePreviewAttempt, some time after no active request was found for the   *)
(* intent: one may have been filed since.  The same open preview is used *)
(* again; another of the intent is replaced; the oldest open ones beyond the *)
(* limit go, and then expired ones, at most OpenLimit in one call.           *)
SavePreviewAttempt(i) ==
  LET reuse == {a \in Stored(previewOf[i]) : a.open /\ a.base = access}
      replaced == {a \in attempt : a.intent = i} \ reuse
      kept == OpenOnes(attempt \ replaced)
      limit == IF reuse = {} THEN OpenLimit - 1 ELSE OpenLimit
      crowded == Oldest(kept, Cardinality(kept) - limit)
      expired == (attempt \ replaced) \ kept
      old == Oldest(expired, OpenLimit - Cardinality(replaced \cup crowded))
      left == attempt \ (replaced \cup crowded \cup old)
  IN /\ \/ /\ reuse # {}
           /\ attempt' = left
           /\ UNCHANGED <<previewOf, issued>>
        \/ /\ reuse = {} /\ issued < MaxAttempts
           /\ issued' = issued + 1
           /\ attempt' = left \cup
                {[id |-> issued + 1, intent |-> i, base |-> access, open |-> TRUE]}
           /\ previewOf' = [previewOf EXCEPT ![i] = issued + 1]
     /\ UNCHANGED <<active, requests, index, access, submitter>>

Expire(a) ==
  /\ a.open
  /\ attempt' = (attempt \ {a}) \cup {[a EXCEPT !.open = FALSE]}
  /\ UNCHANGED <<previewOf, active, requests, index, issued, access, submitter>>

ChangeAccess ==
  /\ access < MaxChanges
  /\ access' = access + 1
  /\ UNCHANGED <<attempt, previewOf, active, requests, index, issued, submitter>>

-----------------------------------------------------------------------------
(* Submits                                                                   *)

Answered(s, answer, told) ==
  submitter' = [submitter EXCEPT ![s] =
    [pc |-> "idle", id |-> submitter[s].id, answer |-> answer, told |-> told]]

(* submitAccessRequest looks the attempt up in the index.                    *)
Submit(s, id) ==
  /\ submitter[s].pc = "idle" /\ id <= issued
  /\ submitter' = [submitter EXCEPT ![s] =
       IF id \in DOMAIN index
         THEN [pc |-> "idle", id |-> id, answer |-> "filed", told |-> index[id].request]
         ELSE [NoSubmit EXCEPT !.pc = "reading", !.id = id]]
  /\ UNCHANGED <<attempt, previewOf, active, requests, index, issued, access>>

(* Then it reads the preview, which must be open and still say what the      *)
(* person's access makes of it.                                              *)
ReadPreview(s) ==
  LET found == {a \in Stored(submitter[s].id) : a.open /\ a.base = access} IN
  /\ submitter[s].pc = "reading"
  /\ \/ found = {} /\ Answered(s, "not_committed", None)
     \/ found # {} /\ submitter' = [submitter EXCEPT ![s].pc = "committing"]
  /\ UNCHANGED <<attempt, previewOf, active, requests, index, issued, access>>

(* Mutant: a request is created whatever is active.                          *)
JoinsNone(i) == FALSE

(* An intent's active request takes the attempt in.                          *)
Joins(i) == active[i] # None /\ requests[active[i]].open

(* Mutant: the index entry is not looked at, the preview is kept.            *)
CommitBlind(s) ==
  LET id == submitter[s].id
      a == CHOOSE b \in Stored(id) : TRUE
      filed == IF Joins(a.intent) THEN active[a.intent] ELSE id
  IN /\ submitter[s].pc = "committing" /\ Stored(id) # {}
     /\ requests' = IF Joins(a.intent) THEN requests
                   ELSE With(requests, id, [intent |-> a.intent, open |-> TRUE])
     /\ active' = IF Joins(a.intent) THEN active ELSE [active EXCEPT ![a.intent] = id]
     /\ index' = With(index, id, [created |-> ~Joins(a.intent), request |-> filed])
     /\ Answered(s, "filed", filed)
     /\ UNCHANGED <<attempt, previewOf, issued, access>>

(* commitAccessRequest.  A conflict is answered when the attempt is gone.    *)
Commit(s) ==
  LET id == submitter[s].id
      a == CHOOSE b \in Stored(id) : TRUE
      filed == IF Joins(a.intent) THEN active[a.intent] ELSE id
  IN /\ submitter[s].pc = "committing"
     /\ \/ /\ id \in DOMAIN index
           /\ Answered(s, "filed", index[id].request)
           /\ UNCHANGED <<attempt, previewOf, active, requests, index>>
        \/ /\ id \notin DOMAIN index /\ Stored(id) = {}
           /\ Answered(s, "none", None)
           /\ UNCHANGED <<attempt, previewOf, active, requests, index>>
        \/ /\ id \notin DOMAIN index /\ Stored(id) # {}
           /\ requests' = IF Joins(a.intent) THEN requests
                         ELSE With(requests, id, [intent |-> a.intent, open |-> TRUE])
           /\ active' = IF Joins(a.intent) THEN active ELSE [active EXCEPT ![a.intent] = id]
           /\ index' = With(index, id, [created |-> ~Joins(a.intent), request |-> filed])
           /\ attempt' = attempt \ {a}
           /\ previewOf' = [previewOf EXCEPT ![a.intent] = IF @ = id THEN None ELSE @]
           /\ Answered(s, "filed", filed)
     /\ UNCHANGED <<issued, access>>

(* The answer is lost, or the invocation dies; the person may submit again.  *)
Lose(s) ==
  /\ submitter[s] # NoSubmit
  /\ submitter' = [submitter EXCEPT ![s] = NoSubmit]
  /\ UNCHANGED <<attempt, previewOf, active, requests, index, issued, access>>

(* cancelPendingRequest, and every decision that ends a request: the pointer *)
(* of its intent is deleted with it.                                         *)
Close(r) ==
  /\ requests[r].open
  /\ requests' = [requests EXCEPT ![r].open = FALSE]
  /\ active' = [active EXCEPT ![requests[r].intent] = None]
  /\ UNCHANGED <<attempt, previewOf, index, issued, access, submitter>>

-----------------------------------------------------------------------------

FilingNext ==
  \/ \E i \in Intents : SavePreviewAttempt(i)
  \/ \E a \in attempt : Expire(a)
  \/ ChangeAccess
  \/ \E s \in Submitters, id \in Attempts : Submit(s, id)
  \/ \E s \in Submitters : ReadPreview(s) \/ Commit(s) \/ Lose(s)
  \/ \E r \in DOMAIN requests : Close(r)

FilingSpec == FilingInit /\ [][FilingNext]_filingVars

-----------------------------------------------------------------------------
(* Properties                                                                *)

FilingTypeOK ==
  /\ attempt \subseteq AttemptRecords
  /\ previewOf \in [Intents -> Attempts \cup {None}]
  /\ active \in [Intents -> Attempts \cup {None}]
  /\ DOMAIN requests \subseteq Attempts
  /\ \A r \in DOMAIN requests : requests[r] \in FiledRecords
  /\ DOMAIN index \subseteq Attempts /\ \A a \in DOMAIN index : index[a] \in IndexRecords
  /\ issued \in 0..MaxAttempts /\ access \in 0..MaxChanges
  /\ submitter \in [Submitters -> SubmitterRecords]

(* However submits overlap, an intent has at most one active request, and    *)
(* the active pointer names exactly that one; "inconsistent" is never thrown. *)
PointerIsExact ==
  \A i \in Intents :
    {r \in DOMAIN requests : requests[r].open /\ requests[r].intent = i} =
      {active[i]} \ {None}

(* The request an attempt was filed under is there and is of its kind: the   *)
(* index never leads a repetition into a conflict.                           *)
IndexIsExact ==
  \A a \in DOMAIN index :
    /\ index[a].request \in DOMAIN requests
    /\ index[a].created <=> index[a].request = a

(* The requests are those that attempts created.                             *)
RequestsAreIndexed ==
  \A r \in DOMAIN requests : r \in DOMAIN index /\ index[r].created

(* What the store holds of a person's requests fits together, after every    *)
(* order of commits, closings and lost answers.                              *)
FilingInv == FilingTypeOK /\ PointerIsExact /\ IndexIsExact /\ RequestsAreIndexed

(* The stored attempts of a person stay few, whatever expires when: the read *)
(* of savePreviewAttempt never meets the size at which it gives up.          *)
StorageIsBounded ==
  /\ Cardinality(attempt) <= OpenLimit
  /\ \A a, b \in attempt : a.intent = b.intent => a = b

(* An attempt is answered with the same request every time.                  *)
AnswersAgree ==
  [][\A a \in DOMAIN index : a \in DOMAIN index' /\ index'[a] = index[a]]_filingVars

-----------------------------------------------------------------------------
(* A claim the code does not keep                                            *)

(* "Proved no-commit": who is told that nothing was committed can rely on    *)
(* it.                                                                       *)
NotCommittedIsTrue ==
  [][\A s \in Submitters :
       submitter'[s] # submitter[s] /\ submitter'[s].answer = "not_committed"
         => submitter'[s].id \notin DOMAIN index']_filingVars
=============================================================================
