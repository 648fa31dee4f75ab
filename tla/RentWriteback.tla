--------------------------- MODULE RentWriteback ---------------------------
(***************************************************************************)
(* Updates of one lease in RentVine: the proposals of                      *)
(* lease-renewal/writeback/proposal-store.ts, the executions of            *)
(* writeback/execution-service.ts with their claims and receipts in        *)
(* firestore/external-action-executions.ts and                             *)
(* firestore/s97-renewal-writeback-claim.ts, and the reversals, all behind *)
(* the Admin stop of RuntimeSuspension, whose requests are the handlers    *)
(* here.                                                                   *)
(*                                                                         *)
(* A proposal is its number in the order of saving (a generation).  What   *)
(* RentVine holds for an effect has two values, because the code only ever *)
(* asks whether a read equals the value reviewed or the value wanted.  A   *)
(* created charge is a thing of its own generation.                        *)
(***************************************************************************)
EXTENDS RuntimeSuspension

CONSTANTS
  Effects,         \* the effects of a proposal
  Creates,         \* those that create a charge
  KeyOf,           \* [Effects -> Keys \ {Global}]
  MaxGenerations, MaxPreviews,
  MaxEdits,        \* bound on the changes made in RentVine by others
  MaxDeaths        \* bound on the handlers that die

ASSUME WritebackAssumption ==
  /\ Creates \subseteq Effects
  /\ KeyOf \in [Effects -> Keys \ {Global}]
  /\ MaxGenerations \in Nat /\ MaxPreviews \in Nat /\ MaxEdits \in Nat /\ MaxDeaths \in Nat

VARIABLES
  active,    \* the generation of the lease's proposal document, or NoGeneration
  saved,     \* generations saved so far
  plan,      \* [Generations -> [Effects -> Values]], the value each effect replaces
  archive,   \* [Generations -> SUBSET Effects], the succeeded effects on record
  exec,      \* [Executions -> ExecRecords]
  previews,  \* [Generations \X Effects -> issued and expired reversal previews]
  held,      \* [Targets -> Values], what RentVine holds
  flight,    \* the executions whose write RentVine may still carry out
  writes,    \* [Executions -> 0..2], the writes sent (at most two are counted)
  landed,    \* the executions whose write RentVine has carried out
  handler,   \* [Requests -> HandlerRecords]
  edits, deaths

proposalVars == <<active, saved, plan, archive>>
recordVars == <<exec, previews>>
providerVars == <<held, flight, writes, landed>>
gateVars == <<stopVars, gate>>
boundVars == <<edits, deaths>>
writebackVars == <<proposalVars, recordVars, providerVars, handler, boundVars>>

Generations == 1..MaxGenerations
NoGeneration == 0
Values == {0, 1}
Executions == Generations \X Effects \X {"forward", "reversal"}
NoExecution == <<NoGeneration, "none", "none">>
Places == (0..MaxGenerations) \X Effects

ExecRecords ==
  [state: {"none", "ready", "running", "ambiguous", "succeeded", "failed"},
   reconciled: BOOLEAN, preview: 0..MaxPreviews]
HandlerRecords ==
  [pc: {"idle", "claiming", "creating", "binding", "gate", "reading", "sending", "waiting",
        "readback", "finishing", "failing", "observing", "settling"},
   x: Executions \cup {NoExecution}, preview: 0..MaxPreviews, ambiguous: BOOLEAN]

Idle == [pc |-> "idle", x |-> NoExecution, preview |-> 0, ambiguous |-> FALSE]

Forward(g, e) == <<g, e, "forward">>
Reversal(g, e) == <<g, e, "reversal">>
IsForward(x) == x[3] = "forward"
Original(x) == Forward(x[1], x[2])

(* The charge of a create is new with its generation; other targets are the  *)
(* lease's own fields and charges.                                           *)
Target(x) == <<IF x[2] \in Creates THEN x[1] ELSE 0, x[2]>>
Replaced(x) ==
  IF IsForward(x) THEN plan[x[1]][x[2]] ELSE 1 - plan[x[1]][x[2]]
Wanted(x) == 1 - Replaced(x)

WritebackInit ==
  /\ Init
  /\ active = NoGeneration /\ saved = 0
  /\ plan = [g \in Generations |-> [e \in Effects |-> 0]]
  /\ archive = [g \in Generations |-> {}]
  /\ exec = [x \in Executions |-> [state |-> "none", reconciled |-> FALSE, preview |-> 0]]
  /\ previews = [r \in Generations \X Effects |-> [issued |-> 0, expired |-> 0]]
  /\ held = [t \in Places |-> 0]
  /\ flight = {} /\ landed = {}
  /\ writes = [x \in Executions |-> 0]
  /\ handler = [h \in Requests |-> Idle]
  /\ edits = 0 /\ deaths = 0

Becomes(h, record) == handler' = [handler EXCEPT ![h] = record]
Goes(h, pc) == handler' = [handler EXCEPT ![h].pc = pc]

(* The request is over, and with it what the gate answered.                  *)
End(h) ==
  /\ Becomes(h, Idle)
  /\ IF gate[h].pc = "idle" THEN UNCHANGED gateVars ELSE Finish(h)

Fails(h, ambiguous) ==
  handler' = [handler EXCEPT ![h].pc = "failing", ![h].ambiguous = ambiguous]

Stored(x, outcome) == exec' = [exec EXCEPT ![x].state = outcome]

-----------------------------------------------------------------------------
(* Proposals                                                                 *)

Pending == {"running", "ambiguous"}

(* currentGenerationState: an effect or its reversal has no durable outcome. *)
Awaits(g) ==
  \E e \in Effects :
    \/ exec[Forward(g, e)].state \in Pending
    \/ exec[Forward(g, e)].state = "succeeded" /\ exec[Reversal(g, e)].state \in Pending

Succeeded(g) == {e \in Effects : exec[Forward(g, e)].state = "succeeded"}

(* What a replacement or a discard leaves in the archive.                    *)
Archived == IF active = NoGeneration THEN archive
            ELSE [archive EXCEPT ![active] = Succeeded(active)]

(* saveRenewalWritebackProposal, for a caller who reviewed the generation    *)
(* that is active.  The values replaced are those RentVine held when the     *)
(* proposal was assembled, which may be some time ago; a created charge is   *)
(* not there before.                                                         *)
Save(before) ==
  /\ saved < MaxGenerations
  /\ active # NoGeneration => ~Awaits(active)
  /\ \A e \in Creates : before[e] = 0
  /\ saved' = saved + 1 /\ active' = saved + 1
  /\ plan' = [plan EXCEPT ![saved + 1] = before]
  /\ archive' = Archived
  /\ UNCHANGED <<recordVars, providerVars, handler, gateVars, boundVars>>

(* discardRenewalWritebackProposal                                           *)
Discard ==
  /\ active # NoGeneration /\ ~Awaits(active)
  /\ active' = NoGeneration
  /\ archive' = Archived
  /\ UNCHANGED <<saved, plan, recordVars, providerVars, handler, gateVars, boundVars>>

(* getRenewalWritebackProposalGeneration: active, or archived with receipts. *)
Loads(g) == g = active \/ archive[g] # {}

-----------------------------------------------------------------------------
(* Executing an effect                                                       *)

(* The route loads the active proposal.  The checks of the route and of      *)
(* executeEffect before the claim are made again by the claim and in the     *)
(* gate; they can only refuse earlier and are left out.                      *)
Execute(h, e) ==
  /\ handler[h].pc = "idle" /\ active # NoGeneration
  /\ Becomes(h, [Idle EXCEPT !.pc = "claiming", !.x = Forward(active, e)])
  /\ UNCHANGED <<proposalVars, recordVars, providerVars, gateVars, boundVars>>

(* Mutant: the claim does not look at the lease's active proposal.           *)
ClaimEffectOfAny(h) ==
  LET x == handler[h].x IN
  /\ handler[h].pc = "claiming"
  /\ exec[x].state = "none"
  /\ Stored(x, "running") /\ Goes(h, "gate") /\ Ask(h, KeyOf[x[2]])
  /\ UNCHANGED <<proposalVars, previews, providerVars, boundVars>>

(* Mutant: the gate that was asked before the claim counts.                  *)
ClaimEffectUngated(h) ==
  LET x == handler[h].x IN
  /\ handler[h].pc = "claiming"
  /\ active = x[1] /\ exec[x].state = "none"
  /\ Stored(x, "running") /\ Goes(h, "reading")
  /\ UNCHANGED <<proposalVars, previews, providerVars, gateVars, boundVars>>

(* claimActiveS97RenewalEffect, with the proposal as it is now.  The claim   *)
(* is refused when it was replaced or the terms it was made from changed; a  *)
(* succeeded effect is only read again.                                      *)
ClaimEffect(h) ==
  LET x == handler[h].x IN
  /\ handler[h].pc = "claiming"
  /\ \/ /\ active = x[1] /\ exec[x].state = "none"
        /\ Stored(x, "running") /\ Goes(h, "gate") /\ Ask(h, KeyOf[x[2]])
     \/ End(h) /\ UNCHANGED exec
  /\ UNCHANGED <<proposalVars, previews, providerVars, boundVars>>

-----------------------------------------------------------------------------
(* Reversing one                                                             *)

(* previewReversal                                                           *)
PreviewReversal(g, e) ==
  /\ g <= saved /\ Loads(g)
  /\ exec[Forward(g, e)].state = "succeeded"
  /\ held[Target(Reversal(g, e))] = Replaced(Reversal(g, e))
  /\ previews[<<g, e>>].issued < MaxPreviews
  /\ previews' = [previews EXCEPT ![<<g, e>>].issued = @ + 1]
  /\ UNCHANGED <<proposalVars, exec, providerVars, handler, gateVars, boundVars>>

(* Ten minutes pass.                                                         *)
ExpirePreview(g, e) ==
  /\ previews[<<g, e>>].expired < previews[<<g, e>>].issued
  /\ previews' = [previews EXCEPT ![<<g, e>>].expired = @ + 1]
  /\ UNCHANGED <<proposalVars, exec, providerVars, handler, gateVars, boundVars>>

(* executeReversal up to its own record, which is bound to the preview.      *)
Reverse(h, g, e, p) ==
  LET x == Reversal(g, e) IN
  /\ handler[h].pc = "idle"
  /\ g <= saved /\ Loads(g)
  /\ previews[<<g, e>>].expired < p /\ p <= previews[<<g, e>>].issued
  /\ exec[Original(x)].state = "succeeded"
  /\ held[Target(x)] = Replaced(x)
  /\ \/ exec[x].state = "none"
     \/ exec[x].state = "ready" /\ exec[x].preview = p
  /\ Becomes(h, [Idle EXCEPT !.pc = "creating", !.x = x, !.preview = p])
  /\ UNCHANGED <<proposalVars, recordVars, providerVars, gateVars, boundVars>>

(* store.create; another handler may have been faster, with its preview.     *)
CreateReversal(h) ==
  LET x == handler[h].x IN
  /\ handler[h].pc = "creating"
  /\ \/ /\ exec[x].state = "none"
        /\ exec' = [exec EXCEPT ![x].state = "ready", ![x].preview = handler[h].preview]
        /\ Goes(h, "binding") /\ UNCHANGED gateVars
     \/ /\ exec[x].state # "none" /\ exec[x].preview = handler[h].preview
        /\ Goes(h, "binding") /\ UNCHANGED <<exec, gateVars>>
     \/ /\ exec[x].state # "none" /\ exec[x].preview # handler[h].preview
        /\ End(h) /\ UNCHANGED exec
  /\ UNCHANGED <<proposalVars, previews, providerVars, boundVars>>

(* store.claim                                                               *)
ClaimReversal(h) ==
  LET x == handler[h].x IN
  /\ handler[h].pc = "binding"
  /\ \/ /\ exec[x].state = "ready" /\ exec[x].preview = handler[h].preview
        /\ Stored(x, "running") /\ Goes(h, "gate") /\ Ask(h, KeyOf[x[2]])
     \/ /\ exec[x].state # "ready" \/ exec[x].preview # handler[h].preview
        /\ End(h) /\ UNCHANGED exec
  /\ UNCHANGED <<proposalVars, previews, providerVars, boundVars>>

-----------------------------------------------------------------------------
(* A claimed attempt, of an effect or of its reversal                        *)

(* runProductionRuntimeGatedAction                                           *)
RunGated(h) ==
  /\ handler[h].pc = "gate"
  /\ \/ gate[h].pc = "passed" /\ Goes(h, "reading")
     \/ gate[h].pc = "stopped" /\ Fails(h, FALSE)
  /\ UNCHANGED <<proposalVars, recordVars, providerVars, gateVars, boundVars>>

(* assertEffectBeforeState and assertReversalTargetFresh; the read may fail. *)
ReadBefore(h) ==
  LET x == handler[h].x IN
  /\ handler[h].pc = "reading"
  /\ \/ held[Target(x)] = Replaced(x) /\ Goes(h, "sending")
     \/ Fails(h, FALSE)
  /\ UNCHANGED <<proposalVars, recordVars, providerVars, gateVars, boundVars>>

(* The one call of performEffect or performReversal.                         *)
Send(h) ==
  LET x == handler[h].x IN
  /\ handler[h].pc = "sending"
  /\ flight' = flight \cup {x}
  /\ writes' = [writes EXCEPT ![x] = IF @ < 2 THEN @ + 1 ELSE @]
  /\ Goes(h, "waiting")
  /\ UNCHANGED <<proposalVars, recordVars, held, landed, gateVars, boundVars>>

(* A charge is read once more before it is deleted, when the attempt already *)
(* counts as made.                                                           *)
ReadDeleted(h) ==
  /\ handler[h].pc = "sending"
  /\ ~IsForward(handler[h].x) /\ handler[h].x[2] \in Creates
  /\ Fails(h, TRUE)
  /\ UNCHANGED <<proposalVars, recordVars, providerVars, gateVars, boundVars>>

(* RentVine carries out a write, at once, late, or never.                    *)
Land(x) ==
  /\ x \in flight
  /\ held' = [held EXCEPT ![Target(x)] = Wanted(x)]
  /\ flight' = flight \ {x} /\ landed' = landed \cup {x}
  /\ UNCHANGED <<proposalVars, recordVars, writes, handler, gateVars, boundVars>>

LoseWrite(x) ==
  /\ x \in flight
  /\ flight' = flight \ {x}
  /\ UNCHANGED <<proposalVars, recordVars, held, writes, landed, handler, gateVars, boundVars>>

(* RentVine refuses with a definite status.                                  *)
RefuseWrite(h) ==
  /\ handler[h].pc = "waiting" /\ handler[h].x \in flight
  /\ flight' = flight \ {handler[h].x}
  /\ Fails(h, FALSE)
  /\ UNCHANGED <<proposalVars, recordVars, held, writes, landed, gateVars, boundVars>>

AnswerWrite(h) ==
  /\ handler[h].pc = "waiting" /\ handler[h].x \in landed
  /\ Goes(h, "readback")
  /\ UNCHANGED <<proposalVars, recordVars, providerVars, gateVars, boundVars>>

(* Mutant: no answer is taken for a refusal.                                 *)
TimeOutAsRefusal(h) ==
  /\ handler[h].pc = "waiting"
  /\ Fails(h, FALSE)
  /\ UNCHANGED <<proposalVars, recordVars, providerVars, gateVars, boundVars>>

(* providerOutcomeIsAmbiguous: a timeout, a 5xx, or an answer that is not    *)
(* the expected one.                                                         *)
TimeOut(h) ==
  /\ handler[h].pc = "waiting"
  /\ Fails(h, TRUE)
  /\ UNCHANGED <<proposalVars, recordVars, providerVars, gateVars, boundVars>>

(* The required readback.  The last read of a deleted charge is the list,    *)
(* whose errors arrive with their status: a definite one is taken for a      *)
(* refusal of the delete.                                                    *)
ReadBack(h) ==
  LET x == handler[h].x IN
  /\ handler[h].pc = "readback"
  /\ \/ held[Target(x)] = Wanted(x) /\ Goes(h, "finishing")
     \/ Fails(h, TRUE)
     \/ ~IsForward(x) /\ x[2] \in Creates /\ Fails(h, FALSE)
  /\ UNCHANGED <<proposalVars, recordVars, providerVars, gateVars, boundVars>>

(* store.finish with the receipt; one that finds another outcome changes     *)
(* nothing, and one that fails leaves an ambiguous attempt.                  *)
FinishExecution(h) ==
  LET x == handler[h].x IN
  /\ handler[h].pc = "finishing"
  /\ \/ exec[x].state = "running" /\ Stored(x, "succeeded") /\ End(h)
     \/ exec[x].state # "running" /\ End(h) /\ UNCHANGED exec
     \/ Fails(h, TRUE) /\ UNCHANGED <<exec, gateVars>>
  /\ UNCHANGED <<proposalVars, previews, providerVars, boundVars>>

(* transitionClaimFailure; when its write fails the attempt stays running.   *)
RecordFailure(h) ==
  LET x == handler[h].x IN
  /\ handler[h].pc = "failing"
  /\ \/ /\ exec[x].state = "running"
        /\ Stored(x, IF handler[h].ambiguous THEN "ambiguous" ELSE "failed")
     \/ UNCHANGED exec
  /\ End(h)
  /\ UNCHANGED <<proposalVars, previews, providerVars, boundVars>>

-----------------------------------------------------------------------------
(* Reconciling an attempt                                                    *)

(* reconcileEffect, reconcileReversal: an attempt that has been running for  *)
(* two minutes becomes ambiguous first.  Its handler may still be at it.     *)
Reconcile(h, x) ==
  /\ handler[h].pc = "idle" /\ Loads(x[1])
  /\ exec[x].state \in Pending
  /\ Stored(x, "ambiguous")
  /\ Becomes(h, [Idle EXCEPT !.pc = "observing", !.x = x])
  /\ UNCHANGED <<proposalVars, previews, providerVars, gateVars, boundVars>>

(* observeEffectOutcome, observeReversalOutcome: only what is wanted settles *)
(* anything, and nothing that is found settles a create.                     *)
Observe(h) ==
  LET x == handler[h].x IN
  /\ handler[h].pc = "observing"
  /\ \/ /\ held[Target(x)] = Wanted(x) /\ ~(IsForward(x) /\ x[2] \in Creates)
        /\ Goes(h, "settling") /\ UNCHANGED gateVars
     \/ End(h)
  /\ UNCHANGED <<proposalVars, recordVars, providerVars, boundVars>>

(* store.finish with a reconciled receipt, which may fail or come too late.  *)
Settle(h) ==
  LET x == handler[h].x IN
  /\ handler[h].pc = "settling"
  /\ \/ /\ exec[x].state = "ambiguous"
        /\ exec' = [exec EXCEPT ![x].state = "succeeded", ![x].reconciled = TRUE]
     \/ UNCHANGED exec
  /\ End(h)
  /\ UNCHANGED <<proposalVars, previews, providerVars, boundVars>>

-----------------------------------------------------------------------------
(* External: somebody changes the lease in RentVine; a created charge can    *)
(* only be taken away.                                                       *)
Edit(t) ==
  /\ edits < MaxEdits
  /\ t[2] \in Creates => held[t] = 1
  /\ edits' = edits + 1
  /\ held' = [held EXCEPT ![t] = 1 - @]
  /\ UNCHANGED <<proposalVars, recordVars, flight, writes, landed, handler, gateVars, deaths>>

(* A handler dies; one that dies while it asks the gate has failed to read.  *)
Die(h) ==
  /\ handler[h].pc # "idle" /\ gate[h].pc \notin {"asked", "half"}
  /\ deaths < MaxDeaths
  /\ deaths' = deaths + 1
  /\ End(h)
  /\ UNCHANGED <<proposalVars, recordVars, providerVars, edits>>

Attempt(h) ==
  \/ RunGated(h)
  \/ ReadBefore(h)
  \/ ReadDeleted(h)
  \/ Send(h)
  \/ RefuseWrite(h)
  \/ AnswerWrite(h)
  \/ TimeOut(h)
  \/ ReadBack(h)
  \/ FinishExecution(h)
  \/ RecordFailure(h)

WritebackStep ==
  \/ \E before \in [Effects -> Values] : Save(before)
  \/ Discard
  \/ \E h \in Requests, e \in Effects : Execute(h, e)
  \/ \E h \in Requests : ClaimEffect(h) \/ CreateReversal(h) \/ ClaimReversal(h)
  \/ \E g \in Generations, e \in Effects : PreviewReversal(g, e) \/ ExpirePreview(g, e)
  \/ \E h \in Requests, g \in Generations, e \in Effects, p \in 1..MaxPreviews : Reverse(h, g, e, p)
  \/ \E h \in Requests : Attempt(h)
  \/ \E x \in Executions : Land(x) \/ LoseWrite(x)
  \/ \E h \in Requests, x \in Executions : Reconcile(h, x)
  \/ \E h \in Requests : Observe(h) \/ Settle(h) \/ Die(h)
  \/ \E t \in Places : Edit(t)

(* The stop and its gate, beside the lease.                                  *)
StopStep ==
  /\ \/ \E a \in Admins, op \in Operations, key \in Keys, action \in {"suspend", "clear"} :
          Submit(a, op, key, action)
     \/ \E s \in sent : Change(s)
     \/ \E key \in Keys : Damage(key)
     \/ \E h \in Requests : ReadGlobal(h) \/ ReadExact(h) \/ ReadFails(h)
  /\ UNCHANGED writebackVars

WritebackNext == (WritebackStep \/ StopStep) /\ Watch

allVars == <<vars, writebackVars>>

WritebackSpec == WritebackInit /\ [][WritebackNext]_allVars

-----------------------------------------------------------------------------
(* Properties                                                                *)

WritebackTypeOK ==
  /\ active \in 0..MaxGenerations /\ saved \in 0..MaxGenerations
  /\ plan \in [Generations -> [Effects -> Values]]
  /\ archive \in [Generations -> SUBSET Effects]
  /\ exec \in [Executions -> ExecRecords]
  /\ previews \in [Generations \X Effects -> [issued: 0..MaxPreviews, expired: 0..MaxPreviews]]
  /\ held \in [Places -> Values]
  /\ flight \subseteq Executions /\ landed \subseteq Executions
  /\ writes \in [Executions -> 0..2]
  /\ handler \in [Requests -> HandlerRecords]
  /\ edits \in 0..MaxEdits /\ deaths \in 0..MaxDeaths

(* "At most one provider call": no effect and no reversal is ever written    *)
(* twice, whoever repeats, reconciles or replaces what.                      *)
WrittenOnce == \A x \in Executions : writes[x] <= 1

(* An effect without a durable outcome belongs to the lease's proposal as it *)
(* is: the proposal cannot be replaced or discarded over it, and none can be *)
(* claimed for a proposal that was.                                          *)
AwaitedIsActive ==
  \A g \in Generations, e \in Effects :
    exec[Forward(g, e)].state \in Pending => g = active

(* The receipt of an effect that succeeded can always be loaded, for a later *)
(* reversal: its proposal is active, or archived with that effect.           *)
EvidenceIsKept ==
  \A g \in Generations, e \in Effects :
    exec[Forward(g, e)].state = "succeeded" => g = active \/ e \in archive[g]

(* What is on record of a lease's attempts: each sent one write at most, none *)
(* is forgotten with its proposal while its outcome is open, and no receipt  *)
(* is lost.                                                                  *)
LeaseInv == WritebackTypeOK /\ WrittenOnce /\ AwaitedIsActive /\ EvidenceIsKept

(* An attempt reported as failed "changed nothing" and never will, and one   *)
(* that succeeded by itself was carried out; a write that RentVine may still *)
(* carry out is still awaited, or its attempt was settled by an observation, *)
(* which never claims that this very write was the cause.  The deletion of a *)
(* created charge is excepted: see ReadBack.                                 *)
OutcomesAreTrue ==
  \A x \in Executions :
    /\ exec[x].state = "failed" /\ (IsForward(x) \/ x[2] \notin Creates) =>
         x \notin flight \cup landed
    /\ exec[x].state = "succeeded" /\ ~exec[x].reconciled => x \in landed
    /\ x \in flight => exec[x].state \in Pending \/ exec[x].reconciled

(* What is sent passed the gate after its attempt was claimed: with the key  *)
(* stopped ever since the claim, nothing is sent.                            *)
SentWhileOpen ==
  [][\A h \in Requests :
       handler[h].pc = "sending" /\ handler'[h].pc = "waiting" => opening[h]]_allVars

(* A receipt is final: no late failure and no other receipt replaces it.     *)
ReceiptsAreForever ==
  [][\A x \in Executions : exec[x].state = "succeeded" => exec'[x] = exec[x]]_allVars

(* The handlers use the stop as RuntimeSuspension describes it.              *)
ImplementsStops == Spec
=============================================================================
