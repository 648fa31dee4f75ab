------------------------- MODULE ExecutionAttempts -------------------------
(***************************************************************************)
(* The requests that spend the one attempt of a ledger record.             *)
(*                                                                         *)
(* Sources: executePreparedAction (lib/execution/service.ts), the external *)
(* bridge (lib/external-execution/s20-bridge.ts), the Gmail label effect   *)
(* (lib/gmail-hub/service.ts, lib/firestore/gmail-label-effects.ts) and    *)
(* the fence of older Vendor attempts                                      *)
(* (lib/firestore/vendor-lifecycle-executions.ts).                         *)
(*                                                                         *)
(* A request is one server invocation.  Every await is a point where other *)
(* requests run and where the process may disappear, so each transaction   *)
(* or provider round trip is an action and the values a request carries    *)
(* across an await live in its own record.  The provider is external: it   *)
(* applies or refuses a call at any later moment, and its answer may be    *)
(* lost or come too late.                                                  *)
(***************************************************************************)
EXTENDS ActionExecution

CONSTANTS
  Requests,    \* server invocations that may run at the same time
  Channel,     \* [Ids -> Channels]: which feature executes the identity
  DependsOn,   \* [Ids -> SUBSET Ids]: definition.dependsOn in the same workflow
  NoId

Channels == {"bridge", "label", "vendor"}

ASSUME ChannelAssumption == Channel \in [Ids -> Channels]
ASSUME DependsOnAssumption == DependsOn \in [Ids -> SUBSET Ids]
ASSUME NoIdAssumption == NoId \notin Ids

VARIABLES
  req,      \* [Requests -> ReqRecords]: where each invocation is
  marker,   \* [Ids -> Markers]: the feature's own provider-start document
  calls,    \* [Ids -> Nat]: provider mutations issued under the identity
  world     \* [Ids -> Worlds]: what the provider did with them

vars == <<ledger, activity, req, marker, calls, world>>

Markers == {"none", "prepared", "provider_started", "settled", "fenced"}

(* "present": the intended labels are on the thread without this attempt.    *)
Worlds == {"untouched", "inflight", "applied", "refused", "present"}
Effective == {"applied", "present"}

Steps ==
  {"idle", "admitted", "saved", "claimed", "started", "called", "answered",
   "recorded", "reading", "lookup", "receipt"}
Answers == {"none", "applied", "refused", "unknown"}

ReqRecords ==
  [pc: Steps, actor: Actors \cup {NoActor}, id: Ids \cup {NoId},
   preview: Previews \cup {NoPreview}, seen: States \cup {"None"},
   answer: Answers]

Idle ==
  [pc |-> "idle", actor |-> NoActor, id |-> NoId, preview |-> NoPreview,
   seen |-> "None", answer |-> "none"]

(* Label and Vendor executors keep their own document beside the ledger.     *)
Marked(id) == Channel[id] # "bridge"

Goto(r, pc) == req' = [req EXCEPT ![r].pc = pc]
Done(r) == req' = [req EXCEPT ![r] = Idle]
Answered(r, answer) ==
  req' = [req EXCEPT ![r].pc = "answered", ![r].answer = answer]

-----------------------------------------------------------------------------
(* Executing a prepared action                                               *)

(* Mutant: dependencies need to be claimed only, not succeeded.              *)
AdmitEarly(r, a, id, p) ==
  /\ req[r].pc = "idle"
  /\ ledger[id].state # "None"
  /\ CanExecute(a, id)
  /\ \A d \in DependsOn[id] : ledger[d].attempts = 1
  /\ req' = [req EXCEPT ![r] =
       [Idle EXCEPT !.pc = "admitted", !.actor = a, !.id = id, !.preview = p]]
  /\ UNCHANGED <<ledgerVars, marker, calls, world>>

(* assertExternalDependencies: what must be done first is done.              *)
DependenciesMet(id) == \A d \in DependsOn[id] : ledger[d].state = "Succeeded"

(* A label request runs only as the identity's preparer, answers at once     *)
(* when the effect is already settled, and reconciles a consumed attempt.    *)
LabelMayRun(a, id) ==
  /\ a = ledger[id].preparer
  /\ marker[id] # "settled"
  /\ ledger[id].attempts = 0

(* Everything checked before the claim: the record is visible to the actor,  *)
(* its dependencies succeeded, classification and runtime gate allow the     *)
(* key.                                                                      *)
Admit(r, a, id, p) ==
  /\ req[r].pc = "idle"
  /\ ledger[id].state # "None"
  /\ CanExecute(a, id)
  /\ DependenciesMet(id)
  /\ Channel[id] = "label" => LabelMayRun(a, id)
  /\ req' = [req EXCEPT ![r] =
       [Idle EXCEPT !.pc = "admitted", !.actor = a, !.id = id, !.preview = p]]
  /\ UNCHANGED <<ledgerVars, marker, calls, world>>

(* assertUnclaimedActionExecution: withdrawn and attempted records refuse.   *)
Unclaimed(id) ==
  /\ ledger[id].state \in {"Ready", "Awaiting Admin", "Approved"}
  /\ ledger[id].attempts = 0

(* persistPrepared: the immutable snapshot is created only while the attempt *)
(* is unclaimed; an identical snapshot already there is accepted as it is.   *)
SavePrepared(r) ==
  LET id == req[r].id
  IN  /\ req[r].pc = "admitted"
      /\ Marked(id)
      /\ IF marker[id] = "none"
         THEN /\ Unclaimed(id)
              /\ marker' = [marker EXCEPT ![id] = "prepared"]
         ELSE UNCHANGED marker
      /\ Goto(r, "saved")
      /\ UNCHANGED <<ledgerVars, calls, world>>

ReadyToClaim(r) ==
  \/ req[r].pc = "saved"
  \/ req[r].pc = "admitted" /\ ~Marked(req[r].id)

ClaimAttempt(r) ==
  /\ ReadyToClaim(r)
  /\ Claim(req[r].actor, req[r].id, req[r].preview)
  /\ Goto(r, "claimed")
  /\ UNCHANGED <<marker, calls, world>>

(* Mutant: the claim alone is taken as the right to start.                   *)
CanStartOnClaim(r) == ledger[req[r].id].claimant = req[r].actor

(* markProviderStarted: only the exact claimant of a record still Executing  *)
(* may start its provider ledger.  A refusal here reaches the executor's     *)
(* catch block as an unknown outcome.                                        *)
CanStart(r) ==
  LET id == req[r].id
  IN  /\ marker[id] \in {"prepared", "provider_started"}
      /\ ledger[id].state = "Executing"
      /\ ledger[id].attempts = 1
      /\ ledger[id].claimant = req[r].actor

StartProvider(r) ==
  LET id == req[r].id
  IN  /\ req[r].pc = "claimed"
      /\ Marked(id)
      /\ IF CanStart(r)
         THEN marker' = [marker EXCEPT ![id] = "provider_started"] /\ Goto(r, "started")
         ELSE UNCHANGED marker /\ Answered(r, "unknown")
      /\ UNCHANGED <<ledgerVars, calls, world>>

(* A thread that got its labels after the snapshot was taken is asked for    *)
(* them once more.                                                           *)
CallProvider(r) ==
  LET id == req[r].id
  IN  /\ \/ req[r].pc = "started"
         \/ req[r].pc = "claimed" /\ ~Marked(id)
      /\ calls' = [calls EXCEPT ![id] = @ + 1]
      /\ world' = [world EXCEPT ![id] = IF @ = "untouched" THEN "inflight" ELSE @]
      /\ Goto(r, "called")
      /\ UNCHANGED <<ledgerVars, marker>>

(* The label executor issues no mutation when the snapshot shows the thread  *)
(* needs none.                                                               *)
ConfirmPresent(r) ==
  /\ req[r].pc = "started"
  /\ world[req[r].id] = "present"
  /\ Answered(r, "applied")
  /\ UNCHANGED <<ledgerVars, marker, calls, world>>

(* External: a person gives the thread the intended labels in Gmail, before  *)
(* the attempt gets there.                                                   *)
LabelByHand(id) ==
  /\ Channel[id] = "label"
  /\ world[id] = "untouched"
  /\ world' = [world EXCEPT ![id] = "present"]
  /\ UNCHANGED <<ledgerVars, req, marker, calls>>

(* External: the provider processes a call whenever it gets to it.           *)
Land(id) ==
  /\ world[id] = "inflight"
  /\ \E w \in {"applied", "refused"} : world' = [world EXCEPT ![id] = w]
  /\ UNCHANGED <<ledgerVars, req, marker, calls>>

(* What the provider can say of a call, given what it did: a call for labels *)
(* already there may be granted or refused.                                  *)
Replies(w) ==
  CASE w = "applied" -> {"applied"}
    [] w = "refused" -> {"refused"}
    [] w = "present" -> {"applied", "refused"}
    [] OTHER -> {}

(* External: the executor returns a receipt, a definitive refusal, or throws *)
(* because the answer was lost or late.                                      *)
ProviderAnswers(r) ==
  /\ req[r].pc = "called"
  /\ \E answer \in {"unknown"} \cup Replies(world[req[r].id]) : Answered(r, answer)
  /\ UNCHANGED <<ledgerVars, marker, calls, world>>

OutcomeOf(answer) ==
  CASE answer = "applied" -> <<"Succeeded", "applied">>
    [] answer = "refused" -> <<"Failed", "refused">>
    [] OTHER -> <<"Needs reconciliation", "unknown">>

RecordOutcome(r) ==
  LET outcome == OutcomeOf(req[r].answer)
  IN  /\ req[r].pc = "answered"
      /\ Finish(req[r].actor, req[r].id, outcome[1], outcome[2])
      /\ IF Channel[req[r].id] = "label" /\ req[r].answer = "applied"
         THEN Goto(r, "recorded")
         ELSE Done(r)
      /\ UNCHANGED <<marker, calls, world>>

(* completeActionExecution throws inside the try block (a storage error, or  *)
(* a reconciliation got there first): the catch block takes it as unknown.   *)
RecordThrows(r) ==
  /\ req[r].pc = "answered"
  /\ req[r].answer = "applied"
  /\ Answered(r, "unknown")
  /\ UNCHANGED <<ledgerVars, marker, calls, world>>

(* markSettled after a recorded label success.                               *)
SettleLabel(r) ==
  /\ req[r].pc = "recorded"
  /\ marker' = [marker EXCEPT ![req[r].id] = "settled"]
  /\ Done(r)
  /\ UNCHANGED <<ledgerVars, calls, world>>

(* The process or its connection dies between two awaits.                    *)
Stop(r) ==
  /\ req[r].pc # "idle"
  /\ Done(r)
  /\ UNCHANGED <<ledgerVars, marker, calls, world>>

-----------------------------------------------------------------------------
(* Reconciling an attempt already consumed                                   *)

(* The state read here decides later which closing transaction runs.         *)
ReadForReconcile(r, a, id) ==
  /\ req[r].pc = "idle"
  /\ ledger[id].state \in {"Needs reconciliation", "Executing"}
  /\ ledger[id].attempts = 1
  /\ CanExecute(a, id)
  /\ Channel[id] = "label" =>
       a = ledger[id].preparer /\ marker[id] = "provider_started"
  /\ req' = [req EXCEPT ![r] =
       [Idle EXCEPT !.pc = IF Channel[id] = "vendor" THEN "reading" ELSE "lookup",
                    !.actor = a, !.id = id, !.seen = ledger[id].state]]
  /\ UNCHANGED <<ledgerVars, marker, calls, world>>

(* Mutant: the fence closes any attempt it finds.                            *)
FenceStarted(r) ==
  LET id == req[r].id
  IN  /\ req[r].pc = "reading"
      /\ marker[id] \in {"prepared", "provider_started"}
      /\ Resolve(req[r].actor, id, "Succeeded", "not_applicable", TRUE)
      /\ marker' = [marker EXCEPT ![id] = "fenced"]
      /\ Done(r)
      /\ UNCHANGED <<calls, world>>

(* fencePreparedAttempt: in one transaction, an attempt whose provider start *)
(* was never recorded is fenced and its ledger record closed.                *)
Fence(r) ==
  LET id == req[r].id
  IN  /\ req[r].pc = "reading"
      /\ \/ /\ marker[id] = "provider_started"
            /\ Goto(r, "lookup")
            /\ UNCHANGED <<ledgerVars, marker>>
         \/ /\ marker[id] = "prepared"
            /\ Resolve(req[r].actor, id, "Succeeded", "not_applicable", TRUE)
            /\ marker' = [marker EXCEPT ![id] = "fenced"]
            /\ Done(r)
      /\ UNCHANGED <<calls, world>>

(* Mutant: a call the provider accepted is read back as applied.             *)
LookupAccepted(r) ==
  /\ req[r].pc = "lookup"
  /\ world[req[r].id] \in {"inflight", "applied"}
  /\ req' = [req EXCEPT ![r].pc = "receipt", ![r].answer = "applied"]
  /\ UNCHANGED <<ledgerVars, marker, calls, world>>

(* External readback; finding nothing refuses the request.  The label        *)
(* path marks its own document settled before it closes the ledger record.   *)
Lookup(r) ==
  LET id == req[r].id
  IN  /\ req[r].pc = "lookup"
      /\ world[id] \in Effective
      /\ marker' = IF Channel[id] = "label" /\ marker[id] = "provider_started"
                   THEN [marker EXCEPT ![id] = "settled"] ELSE marker
      /\ req' = [req EXCEPT ![r].pc = "receipt", ![r].answer = "applied"]
      /\ UNCHANGED <<ledgerVars, calls, world>>

(* Mutant: every reconciliation uses the plain variant.                      *)
UsesPlainVariant(r) == FALSE

(* The bridge closes a record it read as Executing through the claimed       *)
(* variant; the label path always uses the plain one.                        *)
UsesClaimedVariant(r) ==
  Channel[req[r].id] # "label" /\ req[r].seen = "Executing"

CloseFromReceipt(r) ==
  /\ req[r].pc = "receipt"
  /\ Resolve(req[r].actor, req[r].id, "Succeeded", "applied", UsesClaimedVariant(r))
  /\ Done(r)
  /\ UNCHANGED <<marker, calls, world>>

(* The next transaction or readback of the invocation finds its precondition *)
(* gone and ends it with an error, writing nothing.                          *)
Refused(r) ==
  LET id == req[r].id
      a == req[r].actor
  IN  /\ CASE req[r].pc = "admitted" /\ Marked(id) ->
                marker[id] = "none" /\ ~Unclaimed(id)
           [] ReadyToClaim(r) -> ~CanClaim(a, id, req[r].preview)
           [] req[r].pc = "answered" -> ~CanFinish(a, id)
           [] req[r].pc = "reading" -> marker[id] \in {"none", "fenced"}
           [] req[r].pc = "lookup" -> world[id] \notin Effective
           [] req[r].pc = "receipt" -> ~CanResolve(a, id, UsesClaimedVariant(r))
           [] OTHER -> FALSE
      /\ Done(r)
      /\ UNCHANGED <<ledgerVars, marker, calls, world>>

-----------------------------------------------------------------------------
(* The system                                                                *)

Init ==
  /\ LedgerInit
  /\ req = [r \in Requests |-> Idle]
  /\ marker = [id \in Ids |-> "none"]
  /\ calls = [id \in Ids |-> 0]
  /\ world = [id \in Ids |-> "untouched"]

(* Preparing, approving and withdrawing are single transactions.             *)
Decide ==
  /\ \E a \in Actors, id \in Ids :
       \/ \E p \in Previews : Prepare(a, id, p) \/ Approve(a, id, p)
       \/ Return(a, id)
       \/ Revoke(a, id)
  /\ UNCHANGED <<req, marker, calls, world>>

(* What a running invocation does next, one await at a time.                 *)
Execute(r) ==
  \/ SavePrepared(r)
  \/ ClaimAttempt(r)
  \/ StartProvider(r)
  \/ CallProvider(r)
  \/ ConfirmPresent(r)
  \/ ProviderAnswers(r)
  \/ RecordOutcome(r)
  \/ RecordThrows(r)
  \/ SettleLabel(r)

Reconcile(r) == Fence(r) \/ Lookup(r) \/ CloseFromReceipt(r)

Next ==
  \/ Decide
  \/ \E r \in Requests :
       \/ \E a \in Actors, id \in Ids, p \in Previews : Admit(r, a, id, p)
       \/ \E a \in Actors, id \in Ids : ReadForReconcile(r, a, id)
       \/ Execute(r)
       \/ Reconcile(r)
       \/ Refused(r)
       \/ Stop(r)
  \/ \E id \in Ids : Land(id) \/ LabelByHand(id)

Spec == Init /\ [][Next]_vars

-----------------------------------------------------------------------------
(* Properties                                                                *)

(* Every variable keeps its documented shape.                                *)
TypeOK ==
  /\ LedgerTypeOK
  /\ req \in [Requests -> ReqRecords]
  /\ marker \in [Ids -> Markers]
  /\ calls \in [Ids -> Nat]
  /\ world \in [Ids -> Worlds]

(* Across crashes, concurrent requests, retries and reconciliation, one      *)
(* action identity issues at most one provider mutation.                     *)
AtMostOneCall == \A id \in Ids : calls[id] <= 1

(* Nothing ever reaches the provider under a record that is not claimed with *)
(* the authority its risk needs, or before every dependency succeeded.       *)
EffectIsAuthorized ==
  \A id \in Ids : calls[id] > 0 =>
    /\ ledger[id].attempts = 1
    /\ AuthorityGranted(id, ledger[id].approval, ledger[id].preview)
    /\ DependenciesMet(id)

(* A closed record tells the truth about the provider, for good: applied     *)
(* means the effect is there, refused means it was not the attempt's doing,  *)
(* not applicable means the provider was never called.                       *)
(* A label document is settled only for a label that is there.  And an       *)
(* effect that may exist is never hidden behind a withdrawn, failed or       *)
(* unclaimed record.                                                         *)
VerdictIsTruthful ==
  \A id \in Ids :
    /\ ledger[id].code = "applied" => world[id] \in Effective
    /\ ledger[id].code = "refused" => world[id] \in {"refused", "present"}
    /\ ledger[id].code = "not_applicable" => calls[id] = 0
    /\ marker[id] = "settled" => world[id] \in Effective
    /\ world[id] \in {"inflight", "applied"} =>
         ledger[id].state \in {"Executing", "Needs reconciliation", "Succeeded"}

(* An attempt closed as not applicable stays dead: its fence is never lifted *)
(* and no request that claimed before it ever starts the provider.           *)
FenceHolds ==
  \A id \in Ids : ledger[id].code = "not_applicable" =>
    /\ marker[id] = "fenced"
    /\ \A r \in Requests : req[r].id = id => req[r].pc \notin {"started", "called"}

(* The ledger implements SingleEffect: a repeated provider call, a verdict   *)
(* that changes or one the provider contradicts has no abstract step.        *)
VerdictOf(id) ==
  IF ledger[id].code \in {"applied", "refused"}
  THEN IF world[id] = "present" THEN "void"
       ELSE IF ledger[id].code = "applied" THEN "done" ELSE "failed"
  ELSE IF ledger[id].state \in WithdrawnStates \/ ledger[id].code = "not_applicable"
       THEN "void"
       ELSE "open"

EffectOf(id) ==
  IF calls[id] > 1 THEN "repeated"
  ELSE IF world[id] = "present" THEN "untouched" ELSE world[id]

Promise ==
  INSTANCE SingleEffect WITH
    verdict <- [id \in Ids |-> VerdictOf(id)],
    effect <- [id \in Ids |-> EffectOf(id)]

ImplementsSingleEffect == Promise!Spec

(* Fairness: a live invocation is always scheduled again and the provider    *)
(* processes what it accepted; staff keep reopening an unresolved record,    *)
(* and not every such reconciliation dies half way.                          *)
Fairness ==
  /\ \A r \in Requests : WF_vars(Execute(r) \/ Refused(r))
  /\ \A id \in Ids : WF_vars(Land(id))
  /\ \A id \in Ids :
       /\ SF_vars(\E r \in Requests, a \in Actors : ReadForReconcile(r, a, id))
       /\ SF_vars(\E r \in Requests : req[r].id = id /\ (Fence(r) \/ Lookup(r)))
       /\ SF_vars(\E r \in Requests : req[r].id = id /\ CloseFromReceipt(r))

FairSpec == Spec /\ Fairness

(* However the executing request ended, an effect that exists is eventually  *)
(* recorded as a success: no crash strands it.                               *)
EffectIsEventuallyRecorded ==
  \A id \in Ids : world[id] = "applied" ~> ledger[id].state = "Succeeded"

(* The same claim for the label effect alone, as its reconciliation comment  *)
(* makes it.                                                                 *)
LabelCrashResolves ==
  \A id \in {i \in Ids : Channel[i] = "label"} :
    world[id] = "applied" ~> ledger[id].state = "Succeeded"
=============================================================================
