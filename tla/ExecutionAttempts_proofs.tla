---------------------- MODULE ExecutionAttempts_proofs ----------------------
(***************************************************************************)
(* Theorems about the requests that spend an attempt, for every number of  *)
(* requests, identities, actors and previews.                              *)
(*                                                                         *)
(* First, every step of the system is a step of the ledger or leaves the   *)
(* ledger alone, so what ActionExecution_proofs proves of LedgerSpec holds *)
(* here as well.  Then the requests: at most one of them holds the claim   *)
(* of an identity between claiming and recording an outcome, and only a    *)
(* holder ever calls the provider.                                         *)
(***************************************************************************)
EXTENDS ExecutionAttempts, ActionExecution_proofs

(* Every running request knows its actor and identity, and its preview until *)
(* it has claimed.                                                           *)
ReqInv ==
  /\ req \in [Requests -> ReqRecords]
  /\ \A r \in Requests :
       /\ req[r].pc # "idle" => req[r].actor \in Actors /\ req[r].id \in Ids
       /\ req[r].pc \in {"admitted", "saved"} => req[r].preview \in Previews

-----------------------------------------------------------------------------
(* Every step is a step of the ledger                                        *)

(* Closing from a receipt is one of the ledger's closing transactions.       *)
LEMMA CloseIsLedgerStep ==
  ASSUME NEW a \in Actors, NEW id \in Ids, NEW claimed \in BOOLEAN,
         NEW v \in Verdicts, v[1] = "Succeeded", Resolve(a, id, v[1], v[2], claimed)
  PROVE  LedgerNext
<1>1. CASE claimed = TRUE
  BY <1>1 DEF LedgerNext
<1>2. CASE claimed = FALSE
  BY <1>2 DEF LedgerNext
<1> QED
  BY <1>1, <1>2

(* Every step of the system is a ledger transaction or leaves the ledger be. *)
LEMMA StepIsLedgerStep ==
  ASSUME ReqInv, [Next]_vars
  PROVE  [LedgerNext]_ledgerVars
<1>1. CASE Decide
  BY <1>1 DEF Decide, LedgerNext
<1>2. ASSUME NEW r \in Requests, ClaimAttempt(r)
      PROVE  LedgerNext
  <2>1. /\ req[r].actor \in Actors /\ req[r].id \in Ids /\ req[r].preview \in Previews
        /\ Claim(req[r].actor, req[r].id, req[r].preview)
    BY <1>2 DEF ClaimAttempt, ReadyToClaim, ReqInv
  <2> QED
    BY <2>1 DEF LedgerNext
<1>3. ASSUME NEW r \in Requests, RecordOutcome(r)
      PROVE  LedgerNext
  <2> DEFINE o == OutcomeOf(req[r].answer)
  <2>1. req[r].actor \in Actors /\ req[r].id \in Ids
    BY <1>3 DEF RecordOutcome, ReqInv
  <2>2. o \in Outcomes
    BY DEF OutcomeOf, Outcomes
  <2>3. Finish(req[r].actor, req[r].id, o[1], o[2])
    BY <1>3 DEF RecordOutcome
  <2> QED
    BY <2>1, <2>2, <2>3 DEF LedgerNext
<1>4. ASSUME NEW r \in Requests, Fence(r)
      PROVE  [LedgerNext]_ledgerVars
  <2>1. CASE UNCHANGED ledgerVars
    BY <2>1
  <2>2. CASE Resolve(req[r].actor, req[r].id, "Succeeded", "not_applicable", TRUE)
    <3>1. req[r].actor \in Actors /\ req[r].id \in Ids
      BY <1>4 DEF Fence, ReqInv
    <3> DEFINE v == <<"Succeeded", "not_applicable">>
    <3>2. v \in Verdicts /\ v[1] = "Succeeded" /\ v[2] = "not_applicable"
      BY DEF Verdicts
    <3> QED
      BY <2>2, <3>1, <3>2, CloseIsLedgerStep
  <2> QED
    BY <1>4, <2>1, <2>2 DEF Fence
<1>5. ASSUME NEW r \in Requests, CloseFromReceipt(r)
      PROVE  LedgerNext
  <2> DEFINE v == <<"Succeeded", "applied">>
  <2>1. req[r].actor \in Actors /\ req[r].id \in Ids
    BY <1>5 DEF CloseFromReceipt, ReqInv
  <2>2. v \in Verdicts /\ v[1] = "Succeeded" /\ v[2] = "applied"
    BY DEF Verdicts
  <2>3. UsesClaimedVariant(r) \in BOOLEAN
    BY DEF UsesClaimedVariant
  <2>4. Resolve(req[r].actor, req[r].id, "Succeeded", "applied", UsesClaimedVariant(r))
    BY <1>5 DEF CloseFromReceipt
  <2> QED
    BY <2>1, <2>2, <2>3, <2>4, CloseIsLedgerStep
<1>6. ASSUME NEW r \in Requests, Execute(r)
      PROVE  [LedgerNext]_ledgerVars
  BY <1>2, <1>3, <1>6
     DEF Execute, SavePrepared, StartProvider, CallProvider, ConfirmPresent,
         ProviderAnswers, RecordThrows, SettleLabel
<1>7. ASSUME NEW r \in Requests, Reconcile(r)
      PROVE  [LedgerNext]_ledgerVars
  BY <1>4, <1>5, <1>7 DEF Reconcile, Lookup
<1>8. CASE UNCHANGED vars
  BY <1>8 DEF vars, ledgerVars
<1> QED
  BY <1>1, <1>6, <1>7, <1>8
     DEF Next, Admit, ReadForReconcile, Refused, Stop, Land, LabelByHand

-----------------------------------------------------------------------------
(* Types                                                                     *)

(* The shapes of the variables the ledger module does not own.               *)
WorldTypeOK ==
  /\ marker \in [Ids -> Markers]
  /\ calls \in [Ids -> Nat]
  /\ world \in [Ids -> Worlds]

(* The provider answers with a grant or a refusal, if at all.                *)
LEMMA RepliesAreAnswers ==
  \A w : Replies(w) \subseteq {"applied", "refused"}
  BY DEF Replies

(* Requests keep knowing what they work on, whichever step runs.             *)
LEMMA ReqInvStep ==
  ASSUME LedgerTypeOK, ReqInv, [Next]_vars
  PROVE  ReqInv'
<1> USE DEF ReqInv, Goto, Done, Answered
<1>0. Idle \in ReqRecords /\ Idle.pc = "idle"
  BY DEF Idle, ReqRecords, Steps, Answers
<1>1. CASE Decide \/ UNCHANGED vars
  BY <1>1 DEF Decide, vars
<1>2. ASSUME NEW r \in Requests, NEW a \in Actors, NEW id \in Ids, NEW p \in Previews,
             Admit(r, a, id, p)
      PROVE  ReqInv'
  BY <1>2 DEF Admit, Idle, ReqRecords, Steps, Answers
<1>3. ASSUME NEW r \in Requests, NEW a \in Actors, NEW id \in Ids,
             ReadForReconcile(r, a, id)
      PROVE  ReqInv'
  <2>1. ledger[id].state \in States \cup {"None"}
    BY DEF LedgerTypeOK, Records
  <2> QED
    BY <1>3, <2>1 DEF ReadForReconcile, Idle, ReqRecords, Steps, Answers
<1>4. ASSUME NEW r \in Requests,
             \/ SavePrepared(r) \/ ClaimAttempt(r) \/ StartProvider(r)
             \/ CallProvider(r) \/ ConfirmPresent(r) \/ RecordThrows(r)
      PROVE  ReqInv'
  BY <1>4 DEF SavePrepared, ClaimAttempt, ReadyToClaim, StartProvider, CallProvider,
              ConfirmPresent, RecordThrows, ReqRecords, Steps, Answers
<1>5. ASSUME NEW r \in Requests, ProviderAnswers(r)
      PROVE  ReqInv'
  <2>1. PICK answer \in {"unknown", "applied", "refused"} : Answered(r, answer)
    BY <1>5, RepliesAreAnswers DEF ProviderAnswers
  <2>2. req[r].pc = "called"
    BY <1>5 DEF ProviderAnswers
  <2> DEFINE record == [req[r] EXCEPT !.pc = "answered", !.answer = answer]
  <2>3. /\ record \in ReqRecords /\ record.pc = "answered"
        /\ record.actor = req[r].actor /\ record.id = req[r].id
    <3>1. answer \in Answers /\ req[r] \in ReqRecords
      BY DEF Answers
    <3> QED
      BY <3>1 DEF ReqRecords, Steps
  <2>4. req' = [req EXCEPT ![r] = record]
    BY <2>1
  <2> HIDE DEF record
  <2> QED
    BY <2>2, <2>3, <2>4
<1>6. ASSUME NEW r \in Requests, Done(r)
      PROVE  ReqInv'
  BY <1>0, <1>6
<1>7. ASSUME NEW r \in Requests, RecordOutcome(r) \/ Fence(r) \/ Lookup(r)
      PROVE  ReqInv'
  <2>1. ASSUME Goto(r, "recorded"), req[r].pc = "answered" PROVE ReqInv'
    BY <2>1 DEF ReqRecords, Steps
  <2>2. ASSUME Goto(r, "lookup"), req[r].pc = "reading" PROVE ReqInv'
    BY <2>2 DEF ReqRecords, Steps
  <2>3. ASSUME Lookup(r) PROVE ReqInv'
    <3> DEFINE record == [req[r] EXCEPT !.pc = "receipt", !.answer = "applied"]
    <3>1. req[r].pc = "lookup" /\ req[r] \in ReqRecords /\ req' = [req EXCEPT ![r] = record]
      BY <2>3 DEF Lookup
    <3>2. /\ record \in ReqRecords /\ record.pc = "receipt"
          /\ record.actor = req[r].actor /\ record.id = req[r].id
      BY <3>1 DEF ReqRecords, Steps, Answers
    <3> HIDE DEF record
    <3> QED
      BY <3>1, <3>2
  <2>4. CASE RecordOutcome(r)
    BY <1>6, <2>1, <2>4 DEF RecordOutcome
  <2>5. CASE Fence(r)
    BY <1>6, <2>2, <2>5 DEF Fence
  <2> QED
    BY <1>7, <2>3, <2>4, <2>5
<1>8. ASSUME NEW id \in Ids, Land(id) \/ LabelByHand(id)
      PROVE  ReqInv'
  BY <1>8 DEF Land, LabelByHand
<1> QED
  BY <1>1, <1>2, <1>3, <1>4, <1>5, <1>6, <1>7, <1>8
     DEF Next, Execute, Reconcile, SettleLabel, CloseFromReceipt, Refused, Stop

-----------------------------------------------------------------------------
(* The one attempt                                                           *)

(* A request holds the attempt of its identity from its claim until it       *)
(* records an outcome; before the call it is still free to issue one.        *)
Holding(r) == req[r].pc \in {"claimed", "started", "called", "answered"}
MayCall(r) == req[r].pc \in {"claimed", "started"}

AttemptInv ==
  /\ \A r \in Requests : Holding(r) => ledger[req[r].id].attempts = 1
  /\ \A r \in Requests : MayCall(r) => calls[req[r].id] = 0
  /\ \A r, q \in Requests :
       Holding(r) /\ Holding(q) /\ req[r].id = req[q].id => r = q
  /\ \A id \in Ids : calls[id] = 0 \/ (calls[id] = 1 /\ ledger[id].attempts = 1)

(* A consumed attempt stays consumed in every step of the system, and a      *)
(* closed record stays closed.                                               *)
LEMMA StepKeepsAttempts ==
  ASSUME LedgerInv, ReqInv, [Next]_vars, NEW id \in Ids
  PROVE  /\ ledger[id].attempts = 1 => ledger'[id].attempts = 1
         /\ ledger[id].state \in FinalStates => ledger'[id] = ledger[id]
<1>1. [LedgerNext]_ledgerVars
  BY StepIsLedgerStep
<1>2. CASE LedgerNext
  <2>1. ledger[id].attempts = 1 => ledger[id].state # "None"
    BY DEF LedgerInv, RecordOK, AttemptedStates
  <2> QED
    BY <1>2, <2>1, StepAdvances
<1>3. CASE UNCHANGED ledgerVars
  BY <1>3 DEF ledgerVars
<1> QED
  BY <1>1, <1>2, <1>3

(* Any step that neither claims nor calls only lets go of attempts.          *)
LetsGo ==
  /\ calls' = calls
  /\ \A r \in Requests :
       /\ Holding(r)' => Holding(r) /\ req'[r].id = req[r].id
       /\ MayCall(r)' => MayCall(r)

(* Only ClaimAttempt and CallProvider do anything else with an attempt.      *)
LEMMA OtherStepsLetGo ==
  ASSUME ReqInv, [Next]_vars,
         \A r \in Requests : ~ClaimAttempt(r) /\ ~CallProvider(r)
  PROVE  LetsGo
<1> USE DEF ReqInv, LetsGo, Holding, MayCall, Goto, Done, Answered
<1>0. Idle.pc = "idle"
  BY DEF Idle
<1>1. CASE Decide \/ UNCHANGED vars
  BY <1>1 DEF Decide, vars
<1>2. ASSUME NEW id \in Ids, Land(id) \/ LabelByHand(id)
      PROVE  LetsGo
  BY <1>2 DEF Land, LabelByHand
<1>3. ASSUME NEW r \in Requests, Done(r), calls' = calls
      PROVE  LetsGo
  BY <1>0, <1>3
<1>4. ASSUME NEW r \in Requests, NEW a \in Actors, NEW id \in Ids,
             (\E p \in Previews : Admit(r, a, id, p)) \/ ReadForReconcile(r, a, id)
      PROVE  LetsGo
  <2>1. /\ req'[r].pc \in {"admitted", "reading", "lookup"}
        /\ \A q \in Requests \ {r} : req'[q] = req[q]
        /\ calls' = calls
    BY <1>4 DEF Admit, ReadForReconcile, Idle
  <2> QED
    BY <2>1
<1>5. ASSUME NEW r \in Requests,
             \/ SavePrepared(r) \/ StartProvider(r) \/ ConfirmPresent(r)
             \/ RecordThrows(r) \/ Lookup(r)
      PROVE  LetsGo
  <2>1. /\ calls' = calls
        /\ req'[r].id = req[r].id
        /\ \A q \in Requests \ {r} : req'[q] = req[q]
    BY <1>5 DEF SavePrepared, StartProvider, ConfirmPresent, RecordThrows, Lookup,
                ReqRecords
  <2>2. CASE SavePrepared(r) \/ Lookup(r)
    <3>1. req'[r].pc \in {"saved", "receipt"}
      BY <2>2 DEF SavePrepared, Lookup, ReqRecords
    <3> QED
      BY <2>1, <3>1
  <2>3. CASE StartProvider(r) \/ ConfirmPresent(r) \/ RecordThrows(r)
    <3>1. /\ req[r].pc \in {"claimed", "started", "answered"}
          /\ \/ req'[r].pc = "answered"
             \/ req'[r].pc = "started" /\ req[r].pc = "claimed"
      BY <2>3 DEF StartProvider, ConfirmPresent, RecordThrows, ReqRecords
    <3> QED
      BY <2>1, <3>1
  <2> QED
    BY <1>5, <2>2, <2>3
<1>6. ASSUME NEW r \in Requests, ProviderAnswers(r)
      PROVE  LetsGo
  <2>1. /\ req'[r].pc = "answered" /\ req'[r].id = req[r].id /\ req[r].pc = "called"
        /\ \A q \in Requests \ {r} : req'[q] = req[q]
        /\ calls' = calls
    BY <1>6 DEF ProviderAnswers, ReqRecords
  <2> QED
    BY <2>1
<1>7. ASSUME NEW r \in Requests, RecordOutcome(r) \/ Fence(r)
      PROVE  LetsGo
  <2>1. calls' = calls
    BY <1>7 DEF RecordOutcome, Fence
  <2>2. CASE Goto(r, "recorded") \/ Goto(r, "lookup")
    BY <2>1, <2>2 DEF ReqRecords
  <2> QED
    BY <1>3, <1>7, <2>1, <2>2 DEF RecordOutcome, Fence
<1>8. ASSUME NEW r \in Requests,
             SettleLabel(r) \/ CloseFromReceipt(r) \/ Refused(r) \/ Stop(r)
      PROVE  LetsGo
  BY <1>3, <1>8 DEF SettleLabel, CloseFromReceipt, Refused, Stop
<1> HIDE DEF ReqInv, LetsGo, Holding, MayCall, Goto, Done, Answered
<1>9. ASSUME NEW r \in Requests, Execute(r) \/ Reconcile(r)
      PROVE  LetsGo
  BY <1>5, <1>6, <1>7, <1>8, <1>9 DEF Execute, Reconcile
<1> QED
  BY <1>1, <1>2, <1>4, <1>8, <1>9 DEF Next

(* Only a claim takes an attempt, and it finds it untaken; only a holder     *)
(* that has not called yet calls.                                            *)
LEMMA AttemptInvStep ==
  ASSUME LedgerInv, ReqInv, WorldTypeOK, AttemptInv, [Next]_vars
  PROVE  AttemptInv'
<1> USE DEF AttemptInv, Holding, MayCall
<1>0. \A id \in Ids : ledger[id].attempts = 1 => ledger'[id].attempts = 1
  BY StepKeepsAttempts
<1>1. CASE LetsGo
  BY <1>0, <1>1 DEF LetsGo, ReqInv
<1>2. ASSUME NEW r \in Requests, ClaimAttempt(r)
      PROVE  AttemptInv'
  <2> DEFINE i == req[r].id
  <2>1. /\ i \in Ids
        /\ req'[r].pc = "claimed" /\ req'[r].id = i
        /\ \A q \in Requests \ {r} : req'[q] = req[q]
        /\ calls' = calls
    BY <1>2 DEF ClaimAttempt, ReadyToClaim, Goto, ReqInv, ReqRecords
  <2>2. ledger[i].attempts = 0 /\ ledger'[i].attempts = 1
    <3>1. ledger \in [Ids -> Records]
      BY DEF LedgerInv, LedgerTypeOK
    <3> QED
      BY <1>2, <2>1, <3>1, SMTT(30) DEF ClaimAttempt, Claim, CanClaim, Write, Records
  <2>3. calls[i] = 0
    BY <2>1, <2>2
  <2>4. \A q \in Requests : Holding(q) => req[q].id # i
    BY <2>2
  <2> HIDE DEF i
  <2> QED
    BY <1>0, <2>1, <2>2, <2>3, <2>4 DEF ReqInv
<1>3. ASSUME NEW r \in Requests, CallProvider(r)
      PROVE  AttemptInv'
  <2> DEFINE i == req[r].id
  <2>1. /\ i \in Ids
        /\ MayCall(r)
        /\ req'[r].pc = "called" /\ req'[r].id = i
        /\ \A q \in Requests \ {r} : req'[q] = req[q]
    BY <1>3 DEF CallProvider, Goto, ReqInv, ReqRecords
  <2>2. calls'[i] = 1 /\ \A id \in Ids \ {i} : calls'[id] = calls[id]
    BY <1>3, <2>1 DEF CallProvider, WorldTypeOK
  <2>3. \A q \in Requests \ {r} : Holding(q) => req[q].id # i
    BY <2>1
  <2>4. ledger[i].attempts = 1 /\ ledger'[i].attempts = 1
    BY <1>0, <2>1
  <2> HIDE DEF i
  <2>5. \A q \in Requests : Holding(q)' => ledger'[req'[q].id].attempts = 1
    BY <1>0, <2>1, <2>4 DEF ReqInv
  <2>6. \A q \in Requests : MayCall(q)' => calls'[req'[q].id] = 0
    BY <2>1, <2>2, <2>3 DEF ReqInv
  <2>7. \A q, s \in Requests :
          Holding(q)' /\ Holding(s)' /\ req'[q].id = req'[s].id => q = s
    BY <2>1, <2>3
  <2>8. \A id \in Ids : calls'[id] = 0 \/ (calls'[id] = 1 /\ ledger'[id].attempts = 1)
    BY <1>0, <2>2, <2>4
  <2> QED
    BY <2>5, <2>6, <2>7, <2>8
<1> QED
  BY <1>1, <1>2, <1>3, OtherStepsLetGo

-----------------------------------------------------------------------------
(* What a step does to the requests                                          *)

Alone(r) == \A q \in Requests \ {r} : req'[q] = req[q]

Moves(r, pc) ==
  /\ req'[r].pc = pc
  /\ req'[r].id = req[r].id
  /\ req'[r].answer = req[r].answer
  /\ Alone(r)

(* Moving on keeps identity and answer and touches no other request.         *)
LEMMA GotoMoves ==
  ASSUME ReqInv, NEW r \in Requests, NEW pc, Goto(r, pc)
  PROVE  Moves(r, pc)
  BY DEF ReqInv, ReqRecords, Goto, Moves, Alone

(* Ending a request touches no other request.                                *)
LEMMA DoneMoves ==
  ASSUME ReqInv, NEW r \in Requests, Done(r)
  PROVE  req'[r].pc = "idle" /\ Alone(r)
  BY DEF ReqInv, Done, Idle, Alone

(* An answer is stored with the identity it belongs to.                      *)
LEMMA AnsweredMoves ==
  ASSUME ReqInv, NEW r \in Requests, NEW answer, Answered(r, answer)
  PROVE  /\ req'[r].pc = "answered"
         /\ req'[r].id = req[r].id
         /\ req'[r].answer = answer
         /\ Alone(r)
  BY DEF ReqInv, ReqRecords, Answered, Alone

(* A new request only enters; where it enters depends on its channel.        *)
LEMMA EnterMoves ==
  ASSUME ReqInv, NEW r \in Requests, NEW a \in Actors, NEW id \in Ids,
         (\E p \in Previews : Admit(r, a, id, p)) \/ ReadForReconcile(r, a, id)
  PROVE  /\ req'[r].pc \in {"admitted", "reading", "lookup"}
         /\ req'[r].id = id
         /\ req'[r].pc = "reading" => Channel[id] = "vendor"
         /\ req'[r].pc = "admitted" => DependenciesMet(id)
         /\ Alone(r)
         /\ UNCHANGED <<ledger, marker, calls, world>>
  BY ZenonT(30) DEF Admit, ReadForReconcile, Idle, ReqInv, Alone, ledgerVars

-----------------------------------------------------------------------------
(* The provider-start documents                                              *)

(* A request calls the provider of a marked channel only after its start was *)
(* recorded, so a document short of that proves that nothing was sent.       *)
MarkInv ==
  /\ \A id \in Ids :
       /\ marker[id] = "fenced" => Channel[id] = "vendor"
       /\ Marked(id) /\ marker[id] \in {"none", "prepared", "fenced"} => calls[id] = 0
  /\ \A r \in Requests :
       /\ req[r].pc = "reading" => Channel[req[r].id] = "vendor"
       /\ req[r].pc = "recorded" => Channel[req[r].id] = "label"
       /\ req[r].pc \in {"started", "called"} /\ Marked(req[r].id) =>
            marker[req[r].id] \in {"provider_started", "settled"}

(* Every step keeps provider-start documents and requests in agreement.      *)
LEMMA MarkInvStep ==
  ASSUME ReqInv, WorldTypeOK, MarkInv, [Next]_vars
  PROVE  MarkInv'
<1> USE DEF MarkInv, Moves, Alone, Marked
<1>0. \A r \in Requests : req[r].pc # "idle" => req[r].id \in Ids
  BY DEF ReqInv
<1>1. ASSUME UNCHANGED <<req, marker, calls>>
      PROVE  MarkInv'
  BY <1>1
<1>2. ASSUME NEW r \in Requests, UNCHANGED <<marker, calls>>, Alone(r),
             \/ req'[r].pc \in {"idle", "admitted", "saved", "claimed", "answered",
                                "lookup", "receipt"}
             \/ req'[r].pc = "recorded" /\ Channel[req'[r].id] = "label"
             \/ req'[r].pc = "reading" /\ Channel[req'[r].id] = "vendor"
      PROVE  MarkInv'
  BY <1>2
<1>3. ASSUME NEW r \in Requests, SavePrepared(r)
      PROVE  MarkInv'
  <2>1. Moves(r, "saved") /\ req[r].pc = "admitted" /\ calls' = calls
    BY <1>3, GotoMoves DEF SavePrepared
  <2>2. CASE marker' = marker
    BY <1>2, <2>1, <2>2
  <2>3. CASE /\ marker[req[r].id] = "none"
             /\ marker' = [marker EXCEPT ![req[r].id] = "prepared"]
    BY <1>0, <2>1, <2>3 DEF WorldTypeOK
  <2> QED
    BY <1>3, <2>2, <2>3 DEF SavePrepared
<1>4. ASSUME NEW r \in Requests, StartProvider(r)
      PROVE  MarkInv'
  <2>1. req[r].pc = "claimed" /\ calls' = calls
    BY <1>4 DEF StartProvider
  <2>2. CASE /\ marker' = [marker EXCEPT ![req[r].id] = "provider_started"]
             /\ Goto(r, "started")
    <3>1. Moves(r, "started")
      BY <2>2, GotoMoves
    <3> QED
      BY <1>0, <2>1, <2>2, <3>1 DEF WorldTypeOK
  <2>3. CASE marker' = marker /\ Answered(r, "unknown")
    BY <1>2, <2>1, <2>3, AnsweredMoves
  <2> QED
    BY <1>4, <2>2, <2>3 DEF StartProvider
<1>5. ASSUME NEW r \in Requests, CallProvider(r)
      PROVE  MarkInv'
  <2> DEFINE i == req[r].id
  <2>1. /\ Moves(r, "called") /\ i \in Ids /\ marker' = marker
        /\ req[r].pc = "started" \/ Channel[i] = "bridge"
        /\ \A id \in Ids \ {i} : calls'[id] = calls[id]
    BY <1>0, <1>5, GotoMoves DEF CallProvider, WorldTypeOK
  <2>2. Marked(i) => marker[i] \in {"provider_started", "settled"}
    BY <2>1
  <2> HIDE DEF i
  <2>3. req'[r].id = i
    BY <2>1 DEF i
  <2> QED
    BY <2>1, <2>2, <2>3
<1>6. ASSUME NEW r \in Requests, Fence(r)
      PROVE  MarkInv'
  <2>1. req[r].pc = "reading" /\ calls' = calls
    BY <1>6 DEF Fence
  <2>2. CASE Goto(r, "lookup") /\ marker' = marker
    BY <1>2, <2>1, <2>2, GotoMoves
  <2>3. CASE /\ marker[req[r].id] = "prepared"
             /\ marker' = [marker EXCEPT ![req[r].id] = "fenced"]
             /\ Done(r)
    <3>1. req'[r].pc = "idle" /\ Alone(r)
      BY <2>3, DoneMoves
    <3> QED
      BY <1>0, <2>1, <2>3, <3>1 DEF WorldTypeOK
  <2> QED
    BY <1>6, <2>2, <2>3 DEF Fence
<1>7. ASSUME NEW r \in Requests, Lookup(r) \/ SettleLabel(r)
      PROVE  MarkInv'
  <2>1. /\ req[r].pc \in {"lookup", "recorded"}
        /\ req'[r].pc \in {"receipt", "idle"} /\ Alone(r) /\ calls' = calls
    <3>1. CASE Lookup(r)
      BY <3>1 DEF Lookup, ReqInv, ReqRecords
    <3>2. CASE SettleLabel(r)
      BY <3>2, DoneMoves DEF SettleLabel
    <3> QED
      BY <1>7, <3>1, <3>2
  <2>2. marker' = marker \/ marker' = [marker EXCEPT ![req[r].id] = "settled"]
    BY <1>7 DEF Lookup, SettleLabel
  <2> QED
    BY <1>0, <1>2, <2>1, <2>2 DEF WorldTypeOK
<1>8. ASSUME NEW r \in Requests,
             \/ ClaimAttempt(r) \/ ConfirmPresent(r) \/ ProviderAnswers(r)
             \/ RecordThrows(r)
      PROVE  MarkInv'
  <2>1. /\ req'[r].pc \in {"claimed", "answered"} /\ Alone(r)
        /\ UNCHANGED <<marker, calls>>
    BY <1>8, GotoMoves, AnsweredMoves
       DEF ClaimAttempt, ConfirmPresent, ProviderAnswers, RecordThrows
  <2> QED
    BY <1>2, <2>1
<1>9. ASSUME NEW r \in Requests, RecordOutcome(r)
      PROVE  MarkInv'
  <2>1. CASE Done(r)
    BY <1>2, <1>9, <2>1, DoneMoves DEF RecordOutcome
  <2>2. CASE Goto(r, "recorded") /\ Channel[req[r].id] = "label"
    BY <1>2, <1>9, <2>2, GotoMoves DEF RecordOutcome
  <2> QED
    BY <1>9, <2>1, <2>2 DEF RecordOutcome
<1>10. ASSUME NEW r \in Requests, CloseFromReceipt(r) \/ Refused(r) \/ Stop(r)
       PROVE  MarkInv'
  <2>1. Done(r) /\ UNCHANGED <<marker, calls>>
    BY <1>10 DEF CloseFromReceipt, Refused, Stop
  <2> QED
    BY <1>2, <2>1, DoneMoves
<1>11. ASSUME NEW r \in Requests, NEW a \in Actors, NEW id \in Ids,
              (\E p \in Previews : Admit(r, a, id, p)) \/ ReadForReconcile(r, a, id)
       PROVE  MarkInv'
  <2>1. /\ UNCHANGED <<marker, calls>> /\ Alone(r)
        /\ \/ req'[r].pc \in {"admitted", "lookup"}
           \/ req'[r].pc = "reading" /\ Channel[req'[r].id] = "vendor"
    BY <1>11, EnterMoves
  <2> QED
    BY <1>2, <2>1
<1>12. CASE \/ Decide \/ UNCHANGED vars
            \/ \E id \in Ids : Land(id) \/ LabelByHand(id)
  <2>1. UNCHANGED <<req, marker, calls>>
    BY <1>12 DEF Decide, vars, Land, LabelByHand
  <2> QED
    BY <1>1, <2>1
<1> HIDE DEF MarkInv
<1>13. ASSUME NEW r \in Requests, Execute(r) \/ Reconcile(r)
       PROVE  MarkInv'
  BY <1>3, <1>4, <1>5, <1>6, <1>7, <1>8, <1>9, <1>10, <1>13 DEF Execute, Reconcile
<1> QED
  BY <1>10, <1>11, <1>12, <1>13 DEF Next

(* The three variables beside the ledger keep their shapes.                  *)
LEMMA WorldTypeStep ==
  ASSUME ReqInv, WorldTypeOK, [Next]_vars
  PROVE  WorldTypeOK'
<1> USE DEF WorldTypeOK
<1>1. \/ marker' = marker
      \/ \E id \in Ids, m \in Markers : marker' = [marker EXCEPT ![id] = m]
  <2>1. ASSUME NEW r \in Requests, Execute(r) \/ Reconcile(r)
        PROVE  \/ marker' = marker
               \/ \E id \in Ids, m \in Markers : marker' = [marker EXCEPT ![id] = m]
    <3>1. \A pc : req[r].pc = pc /\ pc # "idle" => req[r].id \in Ids
      BY DEF ReqInv
    <3> QED
      BY <2>1, <3>1
         DEF Execute, Reconcile, SavePrepared, ClaimAttempt, StartProvider, CallProvider,
             ConfirmPresent, ProviderAnswers, RecordOutcome, RecordThrows, SettleLabel,
             Fence, Lookup, CloseFromReceipt, Markers
  <2> QED
    BY <2>1 DEF Next, Decide, Admit, ReadForReconcile, Refused, Stop, Land, LabelByHand,
                  vars
<1>2. \/ calls' = calls
      \/ \E r \in Requests : CallProvider(r)
  BY ZenonT(30) DEF Next, Execute, Reconcile, Decide, Admit, ReadForReconcile, SavePrepared,
         ClaimAttempt, StartProvider, ConfirmPresent, ProviderAnswers, RecordOutcome,
         RecordThrows, SettleLabel, Fence, Lookup, CloseFromReceipt, Refused, Stop,
         Land, LabelByHand, vars
<1>3. calls' \in [Ids -> Nat]
  BY <1>2 DEF CallProvider
<1>4. \/ world' = world
      \/ \E r \in Requests : CallProvider(r)
      \/ \E id \in Ids : Land(id) \/ LabelByHand(id)
  BY ZenonT(30) DEF Next, Execute, Reconcile, Decide, Admit, ReadForReconcile, SavePrepared,
         ClaimAttempt, StartProvider, ConfirmPresent, ProviderAnswers, RecordOutcome,
         RecordThrows, SettleLabel, Fence, Lookup, CloseFromReceipt, Refused, Stop, vars
<1>5. world' \in [Ids -> Worlds]
  BY <1>4 DEF CallProvider, Land, LabelByHand, Worlds
<1> QED
  BY <1>1, <1>3, <1>5

-----------------------------------------------------------------------------
(* What the provider did                                                     *)

(* The four things a step can do to what the provider did with an identity.  *)
LEMMA WorldMoves ==
  ASSUME WorldTypeOK, [Next]_vars, NEW id \in Ids
  PROVE  \/ world'[id] = world[id]
         \/ world[id] = "inflight" /\ world'[id] \in {"applied", "refused"}
         \/ world[id] = "untouched" /\ world'[id] = "present"
         \/ /\ world[id] = "untouched" /\ world'[id] = "inflight"
            /\ \E r \in Requests : CallProvider(r) /\ req[r].id = id
<1>1. \/ world' = world
      \/ \E r \in Requests : CallProvider(r)
      \/ \E i \in Ids : Land(i) \/ LabelByHand(i)
  BY ZenonT(30) DEF Next, Execute, Reconcile, Decide, Admit, ReadForReconcile, SavePrepared,
         ClaimAttempt, StartProvider, ConfirmPresent, ProviderAnswers, RecordOutcome,
         RecordThrows, SettleLabel, Fence, Lookup, CloseFromReceipt, Refused, Stop, vars
<1>2. CASE world' = world
  BY <1>2
<1>3. ASSUME NEW r \in Requests, CallProvider(r)
      PROVE  \/ world'[id] = world[id]
             \/ world[id] = "untouched" /\ world'[id] = "inflight" /\ req[r].id = id
  BY <1>3 DEF CallProvider, WorldTypeOK
<1>4. ASSUME NEW i \in Ids, Land(i) \/ LabelByHand(i)
      PROVE  \/ world'[id] = world[id]
             \/ world[id] = "inflight" /\ world'[id] \in {"applied", "refused"}
             \/ world[id] = "untouched" /\ world'[id] = "present"
  BY <1>4 DEF Land, LabelByHand, WorldTypeOK
<1> QED
  BY <1>1, <1>2, <1>3, <1>4

(* Once the effect is there, or was refused, it stays so.                    *)
LEMMA WorldSettles ==
  ASSUME WorldTypeOK, [Next]_vars, NEW id \in Ids
  PROVE  /\ world[id] \in Effective => world'[id] \in Effective
         /\ world[id] \in {"refused", "present"} => world'[id] = world[id]
         /\ world'[id] \in {"inflight", "applied", "refused"}
            /\ world[id] \in {"untouched", "present"} =>
                 \E r \in Requests : CallProvider(r) /\ req[r].id = id
  BY WorldMoves DEF Effective

(* What a request was told is what the provider did.                         *)
WorldInv ==
  /\ \A id \in Ids :
       /\ world[id] \in {"inflight", "applied", "refused"} => calls[id] # 0
       /\ marker[id] = "settled" => world[id] \in Effective
  /\ \A r \in Requests :
       /\ req[r].pc \in {"recorded", "receipt"} => world[req[r].id] \in Effective
       /\ req[r].pc = "answered" /\ req[r].answer = "applied" =>
            world[req[r].id] \in Effective
       /\ req[r].pc = "answered" /\ req[r].answer = "refused" =>
            world[req[r].id] \in {"refused", "present"}

(* Every step keeps what requests were told true of the provider.            *)
LEMMA WorldInvStep ==
  ASSUME ReqInv, WorldTypeOK, WorldInv, [Next]_vars
  PROVE  WorldInv'
<1> USE DEF Moves, Alone
<1>0. /\ \A r \in Requests : req[r].pc # "idle" => req[r].id \in Ids
      /\ \A id \in Ids : world[id] \in Effective => world'[id] \in Effective
      /\ \A id \in Ids : world[id] \in {"refused", "present"} => world'[id] = world[id]
  BY WorldSettles DEF ReqInv
<1> DEFINE
      Known == \A id \in Ids :
        /\ world[id] \in {"inflight", "applied", "refused"} => calls[id] # 0
        /\ marker[id] = "settled" => world[id] \in Effective
      Told(r) ==
        /\ req[r].pc \in {"recorded", "receipt"} => world[req[r].id] \in Effective
        /\ req[r].pc = "answered" /\ req[r].answer = "applied" =>
             world[req[r].id] \in Effective
        /\ req[r].pc = "answered" /\ req[r].answer = "refused" =>
             world[req[r].id] \in {"refused", "present"}
<1>1. Known /\ (\A r \in Requests : Told(r))
  BY DEF WorldInv
(* Requests that do not move stay rightly told. *)
<1>2. ASSUME NEW q \in Requests, req'[q] = req[q]
      PROVE  Told(q)'
  <2>1. CASE req[q].pc = "idle"
    BY <1>2, <2>1
  <2>2. CASE req[q].pc # "idle"
    <3>1. req[q].id \in Ids
      BY <1>0, <2>2
    <3> QED
      BY <1>0, <1>1, <1>2, <3>1
  <2> QED
    BY <2>1, <2>2
<1>3. ASSUME \A id \in Ids : marker'[id] = "settled" =>
               marker[id] = "settled" \/ world[id] \in Effective
      PROVE  Known'
  <2>1. \A id \in Ids : calls[id] # 0 => calls'[id] # 0
    <3>1. calls' = calls \/ \E r \in Requests : CallProvider(r)
      BY ZenonT(30) DEF Next, Execute, Reconcile, Decide, Admit, ReadForReconcile, SavePrepared,
             ClaimAttempt, StartProvider, ConfirmPresent, ProviderAnswers, RecordOutcome,
             RecordThrows, SettleLabel, Fence, Lookup, CloseFromReceipt, Refused, Stop,
             Land, LabelByHand, vars
    <3> QED
      BY <3>1 DEF CallProvider, WorldTypeOK
  <2>2. \A id \in Ids : world'[id] \in {"inflight", "applied", "refused"}
          /\ world[id] \in {"untouched", "present"} => calls'[id] # 0
    BY WorldSettles DEF CallProvider, WorldTypeOK
  <2>3. \A id \in Ids : world[id] \in Worlds
    BY DEF WorldTypeOK
  <2> HIDE DEF Known
  <2>4. ASSUME NEW id \in Ids, world'[id] \in {"inflight", "applied", "refused"}
        PROVE  calls'[id] # 0
    <3>1. CASE world[id] \in {"untouched", "present"}
      BY <2>2, <2>4, <3>1
    <3>2. CASE world[id] \in {"inflight", "applied", "refused"}
      BY <1>1, <2>1, <3>2 DEF Known
    <3> QED
      BY <2>3, <3>1, <3>2 DEF Worlds
  <2>5. \A id \in Ids : marker'[id] = "settled" => world'[id] \in Effective
    BY <1>0, <1>1, <1>3 DEF Known
  <2> QED
    BY <2>4, <2>5 DEF Known
<1>4. ASSUME NEW r \in Requests, Alone(r), Told(r)',
             \A id \in Ids : marker'[id] = "settled" =>
               marker[id] = "settled" \/ world[id] \in Effective
      PROVE  WorldInv'
  <2>1. \A q \in Requests : Told(q)'
    BY <1>2, <1>4
  <2>2. Known'
    BY <1>3, <1>4
  <2> QED
    BY <2>1, <2>2 DEF WorldInv
<1>5. CASE \/ Decide \/ UNCHANGED vars
           \/ \E id \in Ids : Land(id) \/ LabelByHand(id)
  <2>1. req' = req /\ marker' = marker
    BY <1>5 DEF Decide, vars, Land, LabelByHand
  <2>2. \A q \in Requests : Told(q)'
    BY <1>2, <2>1
  <2>3. Known'
    BY <1>3, <2>1
  <2> QED
    BY <2>2, <2>3 DEF WorldInv
<1>6. ASSUME NEW r \in Requests, Alone(r), marker' = marker,
             req'[r].pc \notin {"recorded", "receipt", "answered"}
      PROVE  WorldInv'
  BY <1>4, <1>6
<1>7. ASSUME NEW r \in Requests, Alone(r), marker' = marker,
             req'[r].pc = "answered", req'[r].answer = "unknown"
      PROVE  WorldInv'
  BY <1>4, <1>7
<1>8. ASSUME NEW r \in Requests, SavePrepared(r) \/ StartProvider(r)
      PROVE  WorldInv'
  <2>1. /\ Alone(r)
        /\ \/ req'[r].pc \in {"saved", "started"}
           \/ req'[r].pc = "answered" /\ req'[r].answer = "unknown"
    BY <1>8, GotoMoves, AnsweredMoves DEF SavePrepared, StartProvider
  <2>2. \A id \in Ids : marker'[id] = "settled" => marker[id] = "settled"
    BY <1>8 DEF SavePrepared, StartProvider, WorldTypeOK
  <2> QED
    BY <1>4, <2>1, <2>2
<1>9. ASSUME NEW r \in Requests, ClaimAttempt(r) \/ CallProvider(r) \/ RecordThrows(r)
      PROVE  WorldInv'
  BY <1>6, <1>7, <1>9, GotoMoves, AnsweredMoves
     DEF ClaimAttempt, CallProvider, RecordThrows
<1>10. ASSUME NEW r \in Requests, ConfirmPresent(r)
       PROVE  WorldInv'
  <2>1. /\ req[r].pc = "started" /\ world[req[r].id] = "present" /\ marker' = marker
        /\ Answered(r, "applied")
    BY <1>10 DEF ConfirmPresent
  <2>2. Alone(r) /\ req'[r].pc = "answered" /\ req'[r].id = req[r].id /\
        req'[r].answer = "applied"
    BY <2>1, AnsweredMoves
  <2>3. world'[req[r].id] = "present"
    BY <1>0, <2>1
  <2> QED
    BY <1>4, <2>1, <2>2, <2>3 DEF Effective
<1>11. ASSUME NEW r \in Requests, ProviderAnswers(r)
       PROVE  WorldInv'
  <2>1. PICK answer \in {"unknown"} \cup Replies(world[req[r].id]) : Answered(r, answer)
    BY <1>11 DEF ProviderAnswers
  <2>2. /\ answer = "applied" => world[req[r].id] \in Effective
        /\ answer = "refused" => world[req[r].id] \in {"refused", "present"}
    BY <2>1 DEF Replies, Effective
  <2>3. req[r].pc = "called" /\ marker' = marker /\ req[r].id \in Ids
    BY <1>0, <1>11 DEF ProviderAnswers
  <2>4. Alone(r) /\ req'[r].pc = "answered" /\ req'[r].id = req[r].id /\
        req'[r].answer = answer
    BY <2>1, AnsweredMoves
  <2>5. /\ answer = "applied" => world'[req[r].id] \in Effective
        /\ answer = "refused" => world'[req[r].id] \in {"refused", "present"}
    BY <1>0, <2>2, <2>3
  <2> QED
    BY <1>4, <2>3, <2>4, <2>5
<1>12. ASSUME NEW r \in Requests, RecordOutcome(r)
       PROVE  WorldInv'
  <2>1. req[r].pc = "answered" /\ marker' = marker
    BY <1>12 DEF RecordOutcome
  <2>2. CASE Done(r)
    BY <1>6, <2>1, <2>2, DoneMoves
  <2>3. CASE Goto(r, "recorded") /\ req[r].answer = "applied"
    <3>1. Moves(r, "recorded") /\ world'[req[r].id] \in Effective
      BY <1>0, <1>1, <2>1, <2>3, GotoMoves
    <3> QED
      BY <1>4, <2>1, <3>1
  <2> QED
    BY <1>12, <2>2, <2>3 DEF RecordOutcome
<1>13. ASSUME NEW r \in Requests, SettleLabel(r)
       PROVE  WorldInv'
  <2>1. /\ req'[r].pc = "idle" /\ Alone(r) /\ world[req[r].id] \in Effective
    BY <1>1, <1>13, DoneMoves DEF SettleLabel
  <2>2. \A id \in Ids : marker'[id] = "settled" =>
          marker[id] = "settled" \/ world[id] \in Effective
    BY <1>13, <2>1 DEF SettleLabel, WorldTypeOK
  <2> QED
    BY <1>4, <2>1, <2>2
<1>14. ASSUME NEW r \in Requests, Fence(r)
       PROVE  WorldInv'
  <2>1. req'[r].pc \in {"lookup", "idle"} /\ Alone(r)
    BY <1>14, GotoMoves, DoneMoves DEF Fence
  <2>2. \A id \in Ids : marker'[id] = "settled" => marker[id] = "settled"
    BY <1>14 DEF Fence, WorldTypeOK
  <2> QED
    BY <1>4, <2>1, <2>2
<1>15. ASSUME NEW r \in Requests, Lookup(r)
       PROVE  WorldInv'
  <2>1. /\ req[r].pc = "lookup" /\ world[req[r].id] \in Effective
        /\ req'[r].pc = "receipt" /\ req'[r].id = req[r].id /\ Alone(r)
    BY <1>15 DEF Lookup, ReqInv, ReqRecords
  <2>2. world'[req[r].id] \in Effective
    BY <1>0, <2>1
  <2>3. \A id \in Ids : marker'[id] = "settled" =>
          marker[id] = "settled" \/ world[id] \in Effective
    BY <1>15 DEF Lookup, WorldTypeOK
  <2> QED
    BY <1>4, <2>1, <2>2, <2>3
<1>16. ASSUME NEW r \in Requests, CloseFromReceipt(r) \/ Refused(r) \/ Stop(r)
       PROVE  WorldInv'
  <2>1. Done(r) /\ marker' = marker
    BY <1>16 DEF CloseFromReceipt, Refused, Stop
  <2> QED
    BY <1>6, <2>1, DoneMoves
<1>17. ASSUME NEW r \in Requests, NEW a \in Actors, NEW id \in Ids,
              (\E p \in Previews : Admit(r, a, id, p)) \/ ReadForReconcile(r, a, id)
       PROVE  WorldInv'
  <2>1. /\ marker' = marker /\ Alone(r)
        /\ req'[r].pc \in {"admitted", "reading", "lookup"}
    BY <1>17, EnterMoves
  <2> QED
    BY <1>6, <2>1
<1>18. ASSUME NEW r \in Requests, Execute(r) \/ Reconcile(r)
       PROVE  WorldInv'
  BY <1>8, <1>9, <1>10, <1>11, <1>12, <1>13, <1>14, <1>15, <1>16, <1>18
     DEF Execute, Reconcile
<1> QED
  BY <1>5, <1>16, <1>17, <1>18 DEF Next

-----------------------------------------------------------------------------
(* What a step does to the records                                           *)

(* One transaction replaces one record.                                      *)
LEMMA WriteStores ==
  ASSUME LedgerInv, NEW id \in Ids, NEW record, Write(id, record)
  PROVE  /\ ledger'[id] = record
         /\ \A j \in Ids \ {id} : ledger'[j] = ledger[j]
  BY DEF LedgerInv, LedgerTypeOK, Write

(* A step that neither claims nor closes the record of id: it is left alone  *)
(* or prepared, approved or withdrawn.                                       *)
Quiet(id) ==
  /\ ledger'[id].attempts = ledger[id].attempts
  /\ ledger'[id].code \in {ledger[id].code, "none"}
  /\ ledger'[id].state \in {"Succeeded", "Failed"} => ledger'[id] = ledger[id]

(* Preparing, approving and withdrawing neither claim nor close.             *)
LEMMA DecideIsQuiet ==
  ASSUME LedgerInv, Decide, NEW id \in Ids
  PROVE  Quiet(id)
<1>0. \A i \in Ids : ledger[i] \in Records
  BY DEF LedgerInv, RecordOK
<1>1. ASSUME NEW i \in Ids, NEW record, Write(i, record),
             record.state \notin {"Succeeded", "Failed"},
             record.attempts = ledger[i].attempts,
             record.code \in {ledger[i].code, "none"}
      PROVE  Quiet(id)
  BY <1>1, WriteStores DEF Quiet
<1>2. ASSUME NEW a \in Actors, NEW i \in Ids, NEW p \in Previews, Prepare(a, i, p)
      PROVE  Quiet(id)
  <2> DEFINE record ==
        [NoRecord EXCEPT
           !.state = IF High(i) THEN "Awaiting Admin" ELSE "Ready",
           !.preparer = a, !.preview = p]
  <2>1. Write(i, record) /\ ledger[i].attempts # 1
    BY <1>2 DEF Prepare, LedgerInv, RecordOK, AttemptedStates
  <2>2. /\ record.state \notin {"Succeeded", "Failed"}
        /\ record.attempts = 0 /\ record.code = "none"
    BY DEF NoRecord
  <2>3. ledger[i].attempts = 0
    BY <1>0, <2>1 DEF Records
  <2> HIDE DEF record
  <2> QED
    BY <1>1, <2>1, <2>2, <2>3
<1>3. ASSUME NEW a \in Actors, NEW i \in Ids, NEW p \in Previews, Approve(a, i, p)
      PROVE  Quiet(id)
  <2> DEFINE approval ==
        [by |-> a, basis |-> IF Admin(a) THEN "admin" ELSE "staff_confirmation",
         preview |-> p]
  <2> HIDE DEF approval
  <2> DEFINE record == [ledger[i] EXCEPT !.state = "Approved", !.approval = approval]
  <2>1. Write(i, record)
    BY <1>3 DEF Approve, approval
  <2>2. /\ record.state = "Approved" /\ record.attempts = ledger[i].attempts
        /\ record.code = ledger[i].code
    BY <1>0 DEF Records
  <2> HIDE DEF record
  <2> QED
    BY <1>1, <2>1, <2>2
<1>4. ASSUME NEW a \in Actors, NEW i \in Ids, NEW to \in WithdrawnStates,
             Withdraw(a, i, to)
      PROVE  Quiet(id)
  <2> DEFINE record == [ledger[i] EXCEPT !.state = to, !.approval = NoApproval]
  <2>1. Write(i, record)
    BY <1>4 DEF Withdraw
  <2>2. /\ record.state = to /\ record.attempts = ledger[i].attempts
        /\ record.code = ledger[i].code
    BY <1>0 DEF Records
  <2> HIDE DEF record
  <2> QED
    BY <1>1, <2>1, <2>2 DEF WithdrawnStates
<1> QED
  BY <1>2, <1>3, <1>4 DEF Decide, Return, Revoke, WithdrawnStates

(* A claim, and the closings a request may write, each with what its request *)
(* knows of the provider.                                                    *)
Claims(id) ==
  /\ ledger[id].attempts = 0
  /\ ledger'[id].attempts = 1
  /\ ledger'[id].state = "Executing"
  /\ ledger'[id].code = ledger[id].code
  /\ \E r \in Requests : ClaimAttempt(r) /\ req[r].id = id

Closes(id, to, code) ==
  /\ ledger[id].state \in {"Executing", "Needs reconciliation"}
  /\ ledger[id].attempts = 1
  /\ ledger'[id].attempts = 1
  /\ ledger'[id].state = to
  /\ ledger'[id].code = code

ClosesTruly(id) ==
  /\ UNCHANGED <<calls, world>>
  /\ \/ Closes(id, "Succeeded", "applied") /\ world[id] \in Effective
     \/ Closes(id, "Failed", "refused") /\ world[id] \in {"refused", "present"}
     \/ Closes(id, "Needs reconciliation", "unknown")
     \/ /\ Closes(id, "Succeeded", "not_applicable")
        /\ marker[id] = "prepared"
        /\ marker'[id] = "fenced"
        /\ Channel[id] = "vendor"

(* A step leaves a record quiet, claims it or closes it truly.               *)
LEMMA RecordChanges ==
  ASSUME LedgerInv, ReqInv, WorldTypeOK, WorldInv, MarkInv, [Next]_vars, NEW id \in Ids
  PROVE  Quiet(id) \/ Claims(id) \/ ClosesTruly(id)
<1>0. /\ \A i \in Ids : ledger[i] \in Records
      /\ \A r \in Requests : req[r].pc # "idle" => req[r].id \in Ids
  BY DEF LedgerInv, RecordOK, ReqInv
<1>1. CASE Decide
  BY <1>1, DecideIsQuiet
<1>2. CASE ledger' = ledger
  BY <1>2 DEF Quiet
<1>3. ASSUME NEW r \in Requests, ClaimAttempt(r)
      PROVE  Quiet(id) \/ Claims(id)
  <2> DEFINE i == req[r].id
             record == [ledger[i] EXCEPT
               !.state = "Executing", !.attempts = 1, !.claimant = req[r].actor]
  <2>1. i \in Ids /\ ledger[i].attempts = 0 /\ Write(i, record)
    BY <1>0, <1>3 DEF ClaimAttempt, ReadyToClaim, Claim, CanClaim
  <2>2. /\ record.state = "Executing" /\ record.attempts = 1
        /\ record.code = ledger[i].code
    BY <1>0, <2>1 DEF Records
  <2> HIDE DEF record
  <2>3. ledger'[i] = record /\ \A j \in Ids \ {i} : ledger'[j] = ledger[j]
    BY <2>1, WriteStores
  <2>4. CASE id = i
    BY <1>3, <2>1, <2>2, <2>3, <2>4 DEF Claims
  <2>5. CASE id # i
    BY <2>3, <2>5 DEF Quiet
  <2> QED
    BY <2>4, <2>5
(* A closing transaction touches only the record it closes. *)
<1>4. ASSUME NEW i \in Ids, NEW to, NEW code,
             Write(i, [ledger[i] EXCEPT !.state = to, !.code = code]),
             ledger[i].state \in {"Executing", "Needs reconciliation"},
             ledger[i].attempts = 1
      PROVE  /\ Closes(i, to, code)
             /\ id # i => Quiet(id)
  <2> DEFINE record == [ledger[i] EXCEPT !.state = to, !.code = code]
  <2>1. Write(i, record)
    BY <1>4
  <2>2. record.state = to /\ record.code = code /\ record.attempts = ledger[i].attempts
    BY <1>0 DEF Records
  <2> HIDE DEF record
  <2>3. ledger'[i] = record /\ \A j \in Ids \ {i} : ledger'[j] = ledger[j]
    BY <2>1, WriteStores
  <2> QED
    BY <1>4, <2>2, <2>3 DEF Closes, Quiet
<1>5. ASSUME NEW r \in Requests, RecordOutcome(r)
      PROVE  Quiet(id) \/ ClosesTruly(id)
  <2> DEFINE o == OutcomeOf(req[r].answer)
             i == req[r].id
  <2>1. /\ i \in Ids /\ req[r].pc = "answered" /\ UNCHANGED <<calls, world>>
        /\ Finish(req[r].actor, i, o[1], o[2])
    BY <1>0, <1>5 DEF RecordOutcome
  <2>2. Closes(i, o[1], o[2]) /\ (id # i => Quiet(id))
    BY <1>4, <2>1 DEF Finish, CanFinish
  <2>3. \/ o[1] = "Succeeded" /\ o[2] = "applied" /\ world[i] \in Effective
        \/ o[1] = "Failed" /\ o[2] = "refused" /\ world[i] \in {"refused", "present"}
        \/ o[1] = "Needs reconciliation" /\ o[2] = "unknown"
    BY <2>1 DEF OutcomeOf, WorldInv
  <2> HIDE DEF o, i
  <2> QED
    BY <2>1, <2>2, <2>3 DEF ClosesTruly
<1>6. ASSUME NEW r \in Requests, CloseFromReceipt(r)
      PROVE  Quiet(id) \/ ClosesTruly(id)
  <2> DEFINE i == req[r].id
  <2>1. /\ i \in Ids /\ world[i] \in Effective /\ UNCHANGED <<calls, world>>
        /\ Resolve(req[r].actor, i, "Succeeded", "applied", UsesClaimedVariant(r))
    BY <1>0, <1>6 DEF CloseFromReceipt, WorldInv
  <2>2. Closes(i, "Succeeded", "applied") /\ (id # i => Quiet(id))
    BY <1>4, <2>1 DEF Resolve, CanResolve
  <2> HIDE DEF i
  <2> QED
    BY <2>1, <2>2 DEF ClosesTruly
<1>7. ASSUME NEW r \in Requests, Fence(r)
      PROVE  Quiet(id) \/ ClosesTruly(id)
  <2> DEFINE i == req[r].id
  <2>1. i \in Ids /\ Channel[i] = "vendor" /\ UNCHANGED <<calls, world>>
    BY <1>0, <1>7 DEF Fence, MarkInv
  <2>2. CASE ledger' = ledger
    BY <2>2 DEF Quiet
  <2>3. CASE /\ marker[i] = "prepared"
             /\ Resolve(req[r].actor, i, "Succeeded", "not_applicable", TRUE)
             /\ marker' = [marker EXCEPT ![i] = "fenced"]
    <3>1. Closes(i, "Succeeded", "not_applicable") /\ (id # i => Quiet(id))
      BY <1>4, <2>1, <2>3 DEF Resolve, CanResolve
    <3>2. marker'[i] = "fenced"
      BY <2>1, <2>3 DEF WorldTypeOK
    <3> HIDE DEF i
    <3> QED
      BY <2>1, <2>3, <3>1, <3>2 DEF ClosesTruly
  <2> QED
    BY <1>7, <2>2, <2>3 DEF Fence, ledgerVars
<1>8. ASSUME NEW r \in Requests, Execute(r) \/ Reconcile(r)
      PROVE  Quiet(id) \/ Claims(id) \/ ClosesTruly(id)
  BY <1>2, <1>3, <1>5, <1>6, <1>7, <1>8
     DEF Execute, Reconcile, SavePrepared, StartProvider, CallProvider, ConfirmPresent,
         ProviderAnswers, RecordThrows, SettleLabel, Lookup, ledgerVars
<1> QED
  BY <1>1, <1>2, <1>8
     DEF Next, Admit, ReadForReconcile, Refused, Stop, Land, LabelByHand, vars, ledgerVars

(* A fence is never lifted.                                                  *)
LEMMA FenceStays ==
  ASSUME ReqInv, WorldTypeOK, MarkInv, [Next]_vars, NEW id \in Ids, marker[id] = "fenced"
  PROVE  marker'[id] = "fenced"
<1>0. Channel[id] = "vendor" /\ \A r \in Requests : req[r].pc = "recorded" =>
        Channel[req[r].id] = "label"
  BY DEF MarkInv
<1>1. ASSUME NEW r \in Requests, Execute(r) \/ Reconcile(r)
      PROVE  marker'[id] = "fenced"
  BY <1>0, <1>1
     DEF Execute, Reconcile, SavePrepared, ClaimAttempt, StartProvider, CanStart,
         CallProvider, ConfirmPresent, ProviderAnswers, RecordOutcome, RecordThrows,
         SettleLabel, Fence, Lookup, CloseFromReceipt, WorldTypeOK
<1> QED
  BY <1>1 DEF Next, Decide, Admit, ReadForReconcile, Refused, Stop, Land, LabelByHand, vars

-----------------------------------------------------------------------------
(* Verdicts and dependencies                                                 *)

FinalCodes == {"applied", "refused", "not_applicable"}

CodeInv ==
  \A id \in Ids :
    /\ ledger[id].code = "applied" => world[id] \in Effective
    /\ ledger[id].code = "refused" => world[id] \in {"refused", "present"}
    /\ ledger[id].code = "not_applicable" => marker[id] = "fenced"
    /\ ledger[id].code \in FinalCodes => ledger[id].state \in {"Succeeded", "Failed"}
    /\ ledger[id].state = "Failed" => ledger[id].code = "refused"

(* Every step keeps the recorded verdicts supported.                         *)
LEMMA CodeInvStep ==
  ASSUME LedgerInv, ReqInv, WorldTypeOK, WorldInv, MarkInv, CodeInv, [Next]_vars
  PROVE  CodeInv'
<1> SUFFICES ASSUME NEW id \in Ids
             PROVE  /\ ledger'[id].code = "applied" => world'[id] \in Effective
                    /\ ledger'[id].code = "refused" => world'[id] \in {"refused", "present"}
                    /\ ledger'[id].code = "not_applicable" => marker'[id] = "fenced"
                    /\ ledger'[id].code \in FinalCodes =>
                         ledger'[id].state \in {"Succeeded", "Failed"}
                    /\ ledger'[id].state = "Failed" => ledger'[id].code = "refused"
  BY DEF CodeInv
<1> USE DEF FinalCodes
<1>1. /\ world[id] \in Effective => world'[id] \in Effective
      /\ world[id] \in {"refused", "present"} => world'[id] = world[id]
      /\ marker[id] = "fenced" => marker'[id] = "fenced"
  BY WorldSettles, FenceStays
<1>2. CASE ledger'[id] = ledger[id]
  BY <1>1, <1>2 DEF CodeInv
<1>3. CASE Quiet(id)
  <2>1. ledger[id].state \in FinalStates => ledger'[id] = ledger[id]
    BY StepKeepsAttempts
  <2>2. ledger[id].code \in FinalCodes => ledger'[id] = ledger[id]
    BY <2>1 DEF CodeInv, FinalStates
  <2> QED
    BY <1>2, <1>3, <2>2 DEF Quiet
<1>4. CASE Claims(id)
  <2>1. ledger[id].state \notin AttemptedStates
    BY <1>4 DEF Claims, LedgerInv, RecordOK
  <2>2. ledger[id].code \notin FinalCodes
    BY <2>1 DEF CodeInv, AttemptedStates
  <2> QED
    BY <1>4, <2>2 DEF Claims
<1>5. CASE ClosesTruly(id)
  BY <1>5 DEF ClosesTruly, Closes
<1> QED
  BY <1>3, <1>4, <1>5, RecordChanges

DependInv ==
  /\ \A r \in Requests :
       req[r].pc \in {"admitted", "saved"} => DependenciesMet(req[r].id)
  /\ \A id \in Ids : ledger[id].attempts = 1 => DependenciesMet(id)

(* Every step keeps admitted and attempted identities past their dependencies. *)
LEMMA DependInvStep ==
  ASSUME LedgerInv, ReqInv, WorldTypeOK, WorldInv, MarkInv, DependInv, [Next]_vars
  PROVE  DependInv'
<1> USE DEF DependInv, Alone, Moves
<1>0. ASSUME NEW id \in Ids, DependenciesMet(id)
      PROVE  DependenciesMet(id)'
  <2>1. \A d \in DependsOn[id] : d \in Ids
    BY DependsOnAssumption
  <2> QED
    BY <1>0, <2>1, StepKeepsAttempts DEF DependenciesMet, FinalStates
<1>1. \A id \in Ids : ledger'[id].attempts = 1 => DependenciesMet(id)'
  <2> SUFFICES ASSUME NEW id \in Ids, ledger'[id].attempts = 1
               PROVE  DependenciesMet(id)
    BY <1>0
  <2>1. CASE Quiet(id) \/ ClosesTruly(id)
    BY <2>1 DEF Quiet, ClosesTruly, Closes
  <2>2. CASE Claims(id)
    BY <2>2 DEF Claims, ClaimAttempt, ReadyToClaim
  <2> QED
    BY <2>1, <2>2, RecordChanges
<1>2. ASSUME NEW q \in Requests, req'[q].pc \in {"admitted", "saved"},
             req[q].pc \in {"admitted", "saved"}, req'[q].id = req[q].id
      PROVE  DependenciesMet(req[q].id)'
  BY <1>0, <1>2 DEF ReqInv
<1>3. ASSUME NEW r \in Requests, Alone(r),
             req'[r].pc \in {"admitted", "saved"} => DependenciesMet(req[r].id)'
      PROVE  DependInv'
  BY <1>1, <1>2, <1>3
<1>4. CASE \/ Decide \/ UNCHANGED vars
           \/ \E id \in Ids : Land(id) \/ LabelByHand(id)
  <2>1. req' = req
    BY <1>4 DEF Decide, vars, Land, LabelByHand
  <2> QED
    BY <1>1, <1>2, <2>1
<1>5. ASSUME NEW r \in Requests, NEW a \in Actors, NEW id \in Ids,
             (\E p \in Previews : Admit(r, a, id, p)) \/ ReadForReconcile(r, a, id)
      PROVE  DependInv'
  <2>1. /\ Alone(r) /\ req'[r].id = id
        /\ req'[r].pc \in {"reading", "lookup"} \/ DependenciesMet(id)
    BY <1>5, EnterMoves
  <2>2. req'[r].pc \in {"admitted", "saved"} => DependenciesMet(req[r].id)'
    BY <1>0, <1>5, <2>1, EnterMoves
  <2> QED
    BY <1>3, <2>1, <2>2
<1>6. ASSUME NEW r \in Requests, SavePrepared(r)
      PROVE  DependInv'
  <2>1. Moves(r, "saved") /\ req[r].pc = "admitted"
    BY <1>6, GotoMoves DEF SavePrepared
  <2> QED
    BY <1>2, <1>3, <2>1
<1>7. ASSUME NEW r \in Requests, Alone(r), req'[r].pc \notin {"admitted", "saved"}
      PROVE  DependInv'
  BY <1>3, <1>7
<1>8. ASSUME NEW r \in Requests, Lookup(r)
      PROVE  DependInv'
  <2>1. req'[r].pc = "receipt" /\ Alone(r)
    BY <1>8 DEF Lookup, ReqInv, ReqRecords
  <2> QED
    BY <1>7, <2>1
<1>9. ASSUME NEW r \in Requests, Done(r)
      PROVE  DependInv'
  BY <1>7, <1>9, DoneMoves
<1>10. ASSUME NEW r \in Requests, NEW answer, Answered(r, answer)
       PROVE  DependInv'
  BY <1>7, <1>10, AnsweredMoves
<1>11. ASSUME NEW r \in Requests,
              NEW pc \in {"claimed", "started", "called", "recorded", "lookup"}, Goto(r, pc)
       PROVE  DependInv'
  BY <1>7, <1>11, GotoMoves
<1> HIDE DEF DependInv
<1>12. ASSUME NEW r \in Requests, Execute(r) \/ Reconcile(r)
       PROVE  DependInv'
  BY <1>6, <1>8, <1>9, <1>10, <1>11, <1>12
     DEF Execute, Reconcile, ClaimAttempt, StartProvider, CallProvider, ConfirmPresent,
         ProviderAnswers, RecordOutcome, RecordThrows, SettleLabel, Fence, CloseFromReceipt
<1> QED
  BY <1>4, <1>5, <1>9, <1>12 DEF Next, Refused, Stop

-----------------------------------------------------------------------------
(* The invariant of the system and what follows from it                      *)

ExecutionInv ==
  /\ LedgerInv
  /\ ReqInv
  /\ WorldTypeOK
  /\ AttemptInv
  /\ MarkInv
  /\ WorldInv
  /\ CodeInv
  /\ DependInv

(* The invariant holds before anything was prepared.                         *)
LEMMA ExecutionInvInit ==
  ASSUME Init
  PROVE  ExecutionInv
<1>1. LedgerInv
  BY LedgerInvInit DEF Init
<1>2. ReqInv
  BY DEF Init, ReqInv, ReqRecords, Idle, Steps, Answers
<1>3. WorldTypeOK
  BY DEF Init, WorldTypeOK, Markers, Worlds
<1>4. \A id \in Ids : ledger[id].attempts = 0 /\ ledger[id].code = "none" /\
                      ledger[id].state = "None"
  BY DEF Init, LedgerInit, NoRecord
<1>5. AttemptInv /\ MarkInv /\ WorldInv /\ CodeInv /\ DependInv
  BY <1>4 DEF Init, Idle, AttemptInv, Holding, MayCall, MarkInv, WorldInv, CodeInv,
              FinalCodes, DependInv
<1> QED
  BY <1>1, <1>2, <1>3, <1>5 DEF ExecutionInv

(* Every step of the system keeps the invariant.                             *)
LEMMA ExecutionInvStep ==
  ASSUME ExecutionInv, [Next]_vars
  PROVE  ExecutionInv'
<1>1. /\ LedgerInv /\ ReqInv /\ WorldTypeOK /\ AttemptInv
      /\ MarkInv /\ WorldInv /\ CodeInv /\ DependInv
  BY DEF ExecutionInv
<1>2. [LedgerNext]_ledgerVars
  BY <1>1, StepIsLedgerStep
<1>3. LedgerInv'
  BY <1>1, <1>2, LedgerInvStep
<1>4. LedgerTypeOK
  BY <1>1 DEF LedgerInv
<1>5. ReqInv'
  BY <1>1, <1>4, ReqInvStep
<1>6. WorldTypeOK'
  BY <1>1, WorldTypeStep
<1>7. AttemptInv'
  BY <1>1, AttemptInvStep
<1>8. MarkInv'
  BY <1>1, MarkInvStep
<1>9. WorldInv'
  BY <1>1, WorldInvStep
<1>10. CodeInv'
  BY <1>1, CodeInvStep
<1>11. DependInv'
  BY <1>1, DependInvStep
<1> QED
  BY <1>3, <1>5, <1>6, <1>7, <1>8, <1>9, <1>10, <1>11 DEF ExecutionInv

(* The invariant holds in every reachable state.                             *)
THEOREM ExecutionIsSound == Spec => []ExecutionInv
<1>1. Init => ExecutionInv
  BY ExecutionInvInit
<1>2. ExecutionInv /\ [Next]_vars => ExecutionInv'
  BY ExecutionInvStep
<1> QED
  BY <1>1, <1>2, PTL DEF Spec

(* Every variable keeps its documented shape.                                *)
THEOREM ExecutionTypes == Spec => []TypeOK
<1>1. ExecutionInv => TypeOK
  BY DEF ExecutionInv, LedgerInv, ReqInv, WorldTypeOK, TypeOK
<1> QED
  BY <1>1, ExecutionIsSound, PTL

(* However many requests run, crash, retry and reconcile, an action identity *)
(* issues at most one provider mutation.                                     *)
THEOREM AtMostOneCallEver == Spec => []AtMostOneCall
<1>1. ASSUME ExecutionInv, NEW id \in Ids
      PROVE  calls[id] <= 1
  <2>1. calls[id] \in {0, 1}
    BY <1>1 DEF ExecutionInv, AttemptInv
  <2> QED
    BY <2>1
<1>2. ExecutionInv => AtMostOneCall
  BY <1>1 DEF AtMostOneCall
<1> QED
  BY <1>2, ExecutionIsSound, PTL

(* No provider mutation is issued without the authority its risk needs, or   *)
(* before what the action depends on succeeded.                              *)
THEOREM EffectsAreAuthorized == Spec => []EffectIsAuthorized
<1>1. ASSUME ExecutionInv, NEW id \in Ids, calls[id] > 0
      PROVE  /\ ledger[id].attempts = 1
             /\ AuthorityGranted(id, ledger[id].approval, ledger[id].preview)
             /\ DependenciesMet(id)
  <2>1. ledger[id].attempts = 1 /\ DependenciesMet(id)
    BY <1>1 DEF ExecutionInv, AttemptInv, DependInv
  <2>2. High(id) => AuthorityGranted(id, ledger[id].approval, ledger[id].preview)
    BY <1>1, <2>1 DEF ExecutionInv, LedgerInv, RecordOK
  <2> QED
    BY <2>1, <2>2 DEF AuthorityGranted
<1>2. ExecutionInv => EffectIsAuthorized
  BY <1>1 DEF EffectIsAuthorized
<1> QED
  BY <1>2, ExecutionIsSound, PTL

(* What a closed record says of the provider is true and stays true.         *)
THEOREM VerdictsAreTruthful == Spec => []VerdictIsTruthful
<1>1. ASSUME ExecutionInv, NEW id \in Ids, ledger[id].code = "not_applicable"
      PROVE  calls[id] = 0
  <2>1. marker[id] = "fenced"
    BY <1>1 DEF ExecutionInv, CodeInv
  <2>2. Marked(id)
    BY <1>1, <2>1 DEF ExecutionInv, MarkInv, Marked
  <2> QED
    BY <1>1, <2>1, <2>2 DEF ExecutionInv, MarkInv
<1>2. ASSUME ExecutionInv, NEW id \in Ids, world[id] \in {"inflight", "applied"}
      PROVE  ledger[id].state \in {"Executing", "Needs reconciliation", "Succeeded"}
  <2>1. calls[id] # 0
    BY <1>2 DEF ExecutionInv, WorldInv
  <2>2. ledger[id].attempts = 1
    BY <1>2, <2>1 DEF ExecutionInv, AttemptInv
  <2>3. ledger[id].state \in AttemptedStates
    BY <1>2, <2>2 DEF ExecutionInv, LedgerInv, RecordOK
  <2>4. ledger[id].state # "Failed"
    BY <1>2 DEF ExecutionInv, CodeInv
  <2> QED
    BY <2>3, <2>4 DEF AttemptedStates
<1>3. ASSUME ExecutionInv, NEW id \in Ids
      PROVE  /\ ledger[id].code = "applied" => world[id] \in Effective
             /\ ledger[id].code = "refused" => world[id] \in {"refused", "present"}
             /\ marker[id] = "settled" => world[id] \in Effective
  BY <1>3 DEF ExecutionInv, CodeInv, WorldInv
<1>4. ExecutionInv => VerdictIsTruthful
  BY <1>1, <1>2, <1>3 DEF VerdictIsTruthful
<1> QED
  BY <1>4, ExecutionIsSound, PTL

(* An attempt closed as not applicable never starts its provider.            *)
THEOREM FencesHold == Spec => []FenceHolds
<1>1. ASSUME ExecutionInv, NEW id \in Ids, ledger[id].code = "not_applicable"
      PROVE  /\ marker[id] = "fenced"
             /\ \A r \in Requests : req[r].id = id => req[r].pc \notin {"started", "called"}
  <2>1. marker[id] = "fenced"
    BY <1>1 DEF ExecutionInv, CodeInv
  <2>2. Marked(id)
    BY <1>1, <2>1 DEF ExecutionInv, MarkInv, Marked
  <2> QED
    BY <1>1, <2>1, <2>2 DEF ExecutionInv, MarkInv
<1>2. ExecutionInv => FenceHolds
  BY <1>1 DEF FenceHolds
<1> QED
  BY <1>2, ExecutionIsSound, PTL

(* The requests use the ledger only through its transactions: every          *)
(* behaviour of the system is one of the ledger's.                           *)
THEOREM ImplementsLedger == Spec => LedgerSpec
<1>1. Init => LedgerInit
  BY DEF Init
<1>2. ExecutionInv /\ [Next]_vars => [LedgerNext]_ledgerVars
  BY StepIsLedgerStep DEF ExecutionInv
<1> QED
  BY <1>1, <1>2, ExecutionIsSound, PTL DEF Spec, LedgerSpec

-----------------------------------------------------------------------------
(* The system implements SingleEffect                                        *)

Same(id) == VerdictOf(id)' = VerdictOf(id) /\ EffectOf(id)' = EffectOf(id)

(* A provider that has not been asked is untouched as far as the attempt is  *)
(* concerned.                                                                *)
LEMMA EffectShape ==
  ASSUME ExecutionInv, NEW id \in Ids
  PROVE  /\ EffectOf(id) = IF world[id] = "present" THEN "untouched" ELSE world[id]
         /\ world[id] \in Worlds
<1>1. calls[id] \in {0, 1}
  BY DEF ExecutionInv, AttemptInv
<1> QED
  BY <1>1 DEF EffectOf, ExecutionInv, WorldTypeOK

(* A record nobody called for is open unless withdrawn or closed.            *)
LEMMA OpenVerdict ==
  ASSUME NEW id \in Ids, ledger[id].state \notin WithdrawnStates,
         ledger[id].code \notin FinalCodes
  PROVE  VerdictOf(id) = "open"
  BY DEF VerdictOf, FinalCodes

(* A step of one request or staff member on the ledger gives at most one     *)
(* verdict, and only the one the provider supports.                          *)
LEMMA VerdictStep ==
  ASSUME ExecutionInv, ExecutionInv', [Next]_vars, UNCHANGED <<calls, world>>,
         NEW id \in Ids
  PROVE  \/ Same(id)
         \/ /\ VerdictOf(id) = "open"
            /\ EffectOf(id) # "inflight"
            /\ EffectOf(id)' = EffectOf(id)
            /\ EffectOf(id) = "untouched" => VerdictOf(id)' = "void"
            /\ EffectOf(id) = "applied" => VerdictOf(id)' = "done"
            /\ EffectOf(id) = "refused" => VerdictOf(id)' = "failed"
<1>0. /\ EffectOf(id)' = EffectOf(id)
      /\ EffectOf(id) = IF world[id] = "present" THEN "untouched" ELSE world[id]
      /\ world[id] \in Worlds /\ world' = world
  BY EffectShape DEF EffectOf
<1>1. CASE ledger'[id] = ledger[id]
  BY <1>0, <1>1 DEF Same, VerdictOf
<1>2. CASE Quiet(id) /\ ledger'[id] # ledger[id]
  <2>1. ledger[id].state \notin FinalStates
    BY <1>2, StepKeepsAttempts DEF ExecutionInv
  <2>2. ledger[id].code \notin FinalCodes
    BY <2>1 DEF ExecutionInv, CodeInv, FinalStates
  <2>3. VerdictOf(id) = "open"
    BY <2>1, <2>2, OpenVerdict DEF FinalStates
  <2>4. ledger'[id].code \notin FinalCodes
    BY <1>2, <2>2 DEF Quiet, FinalCodes
  <2>5. CASE ledger'[id].state \in WithdrawnStates
    <3>1. ledger'[id].attempts # 1
      BY <2>5 DEF ExecutionInv, LedgerInv, RecordOK, AttemptedStates, WithdrawnStates
    <3>2. calls[id] = 0
      BY <3>1 DEF ExecutionInv, AttemptInv
    <3>3. world[id] \in {"untouched", "present"}
      BY <1>0, <3>2 DEF ExecutionInv, WorldInv, Worlds
    <3>4. VerdictOf(id)' = "void"
      BY <2>4, <2>5 DEF VerdictOf, FinalCodes
    <3> QED
      BY <1>0, <2>3, <3>3, <3>4
  <2>6. CASE ledger'[id].state \notin WithdrawnStates
    <3>1. VerdictOf(id)' = "open"
      BY <2>4, <2>6 DEF VerdictOf, FinalCodes
    <3> QED
      BY <1>0, <2>3, <3>1 DEF Same
  <2> QED
    BY <2>5, <2>6
<1>3. CASE Claims(id)
  <2>1. ledger[id].state \notin AttemptedStates
    BY <1>3 DEF Claims, ExecutionInv, LedgerInv, RecordOK
  <2>2. ledger[id].code \notin FinalCodes
    BY <2>1 DEF ExecutionInv, CodeInv, AttemptedStates
  <2>3. ledger'[id] # ledger[id] /\ ledger'[id].state = "Executing"
    BY <1>3 DEF Claims
  <2>4. ledger[id].state \notin FinalStates
    BY <2>3, StepKeepsAttempts DEF ExecutionInv
  <2>5. VerdictOf(id) = "open"
    BY <2>2, <2>4, OpenVerdict DEF FinalStates
  <2>6. VerdictOf(id)' = "open"
    BY <1>3, <2>2 DEF Claims, VerdictOf, FinalCodes, WithdrawnStates
  <2> QED
    BY <1>0, <2>5, <2>6 DEF Same
<1>4. CASE ClosesTruly(id)
  <2>1. ledger[id].state \in {"Executing", "Needs reconciliation"}
    BY <1>4 DEF ClosesTruly, Closes
  <2>2. ledger[id].code \notin FinalCodes
    BY <2>1 DEF ExecutionInv, CodeInv
  <2>3. VerdictOf(id) = "open"
    BY <2>1, <2>2, OpenVerdict DEF WithdrawnStates
  <2>4. CASE Closes(id, "Succeeded", "applied") /\ world[id] \in Effective
    BY <1>0, <2>3, <2>4 DEF Closes, VerdictOf, Effective
  <2>5. CASE Closes(id, "Failed", "refused") /\ world[id] \in {"refused", "present"}
    BY <1>0, <2>3, <2>5 DEF Closes, VerdictOf
  <2>6. CASE Closes(id, "Needs reconciliation", "unknown")
    BY <1>0, <2>3, <2>6 DEF Closes, VerdictOf, WithdrawnStates, Same
  <2>7. CASE /\ Closes(id, "Succeeded", "not_applicable")
             /\ marker[id] = "prepared"
             /\ Channel[id] = "vendor"
    <3>1. calls[id] = 0
      BY <2>7 DEF ExecutionInv, MarkInv, Marked
    <3>2. world[id] \in {"untouched", "present"}
      BY <1>0, <3>1 DEF ExecutionInv, WorldInv, Worlds
    <3> QED
      BY <1>0, <2>3, <2>7, <3>2 DEF Closes, VerdictOf
  <2> QED
    BY <1>4, <2>4, <2>5, <2>6, <2>7 DEF ClosesTruly
<1> QED
  BY <1>1, <1>2, <1>3, <1>4, RecordChanges DEF ExecutionInv

(* A call asks once, and what the provider does with it happens once.        *)
LEMMA EffectStep ==
  ASSUME ExecutionInv, ExecutionInv', [Next]_vars, ledger' = ledger, NEW id \in Ids
  PROVE  \/ Same(id)
         \/ /\ VerdictOf(id)' = VerdictOf(id)
            /\ \/ /\ EffectOf(id) = "inflight"
                  /\ EffectOf(id)' \in {"applied", "refused"}
               \/ /\ VerdictOf(id) = "open"
                  /\ EffectOf(id) = "untouched"
                  /\ EffectOf(id)' = "inflight"
<1>0. /\ EffectOf(id) = IF world[id] = "present" THEN "untouched" ELSE world[id]
      /\ EffectOf(id)' = IF world'[id] = "present" THEN "untouched" ELSE world'[id]
  <2>1. calls[id] \in {0, 1} /\ calls'[id] \in {0, 1}
    BY DEF ExecutionInv, AttemptInv
  <2> QED
    BY <2>1 DEF EffectOf
<1>1. CASE world'[id] = world[id]
  BY <1>0, <1>1 DEF Same, VerdictOf
<1>2. CASE world[id] = "inflight" /\ world'[id] \in {"applied", "refused"}
  BY <1>0, <1>2 DEF VerdictOf
<1>3. CASE world[id] = "untouched" /\ world'[id] = "present"
  <2>1. ledger[id].code \notin {"applied", "refused"}
    BY <1>3 DEF ExecutionInv, CodeInv, Effective
  <2> QED
    BY <1>0, <1>3, <2>1 DEF Same, VerdictOf
<1>4. ASSUME NEW r \in Requests, CallProvider(r), req[r].id = id,
             world[id] = "untouched", world'[id] = "inflight"
      PROVE  VerdictOf(id) = "open" /\ VerdictOf(id)' = VerdictOf(id)
  <2>1. /\ MayCall(r) /\ ledger[id].attempts = 1
        /\ req[r].pc = "started" \/ ~Marked(id)
    BY <1>4 DEF CallProvider, MayCall, Holding, ExecutionInv, AttemptInv
  <2>2. ledger[id].state \notin WithdrawnStates
    BY <2>1 DEF ExecutionInv, LedgerInv, RecordOK, AttemptedStates, WithdrawnStates
  <2>3. ledger[id].code \notin {"applied", "refused"}
    BY <1>4 DEF ExecutionInv, CodeInv, Effective
  <2>4. marker[id] # "fenced"
    BY <1>4, <2>1 DEF ExecutionInv, MarkInv, Marked
  <2>5. ledger[id].code # "not_applicable"
    BY <2>4 DEF ExecutionInv, CodeInv
  <2>6. VerdictOf(id) = "open"
    BY <2>2, <2>3, <2>5, OpenVerdict DEF FinalCodes
  <2> QED
    BY <1>4, <2>2, <2>3, <2>5, <2>6 DEF VerdictOf
<1>5. \/ world'[id] = world[id]
      \/ world[id] = "inflight" /\ world'[id] \in {"applied", "refused"}
      \/ world[id] = "untouched" /\ world'[id] = "present"
      \/ /\ world[id] = "untouched" /\ world'[id] = "inflight"
         /\ \E r \in Requests : CallProvider(r) /\ req[r].id = id
  BY WorldMoves DEF ExecutionInv
<1> QED
  BY <1>0, <1>1, <1>2, <1>3, <1>4, <1>5

(* Only one identity is worked on in a step.                                 *)
LEMMA OneAtATime ==
  ASSUME ExecutionInv, [Next]_vars
  PROVE  \/ ledger' = ledger
            /\ \E i \in Ids : \A id \in Ids \ {i} :
                 calls'[id] = calls[id] /\ world'[id] = world[id]
         \/ UNCHANGED <<calls, world>>
            /\ \E i \in Ids : \A id \in Ids \ {i} : ledger'[id] = ledger[id]
         \/ UNCHANGED <<ledger, calls, world>>
<1>1. ASSUME NEW r \in Requests, CallProvider(r)
      PROVE  /\ ledger' = ledger
             /\ \E i \in Ids : \A id \in Ids \ {i} :
                  calls'[id] = calls[id] /\ world'[id] = world[id]
  <2>1. req[r].id \in Ids
    BY <1>1 DEF CallProvider, ExecutionInv, ReqInv
  <2>2. \A id \in Ids \ {req[r].id} : calls'[id] = calls[id] /\ world'[id] = world[id]
    BY <1>1 DEF CallProvider, ExecutionInv, WorldTypeOK
  <2>3. ledger' = ledger
    BY <1>1 DEF CallProvider, ledgerVars
  <2> QED
    BY <2>1, <2>2, <2>3
<1>2. ASSUME NEW i \in Ids, Land(i) \/ LabelByHand(i)
      PROVE  /\ ledger' = ledger
             /\ \A id \in Ids \ {i} : calls'[id] = calls[id] /\ world'[id] = world[id]
  BY <1>2 DEF Land, LabelByHand, ledgerVars, ExecutionInv, WorldTypeOK
<1>3. CASE UNCHANGED <<calls, world>>
  <2>1. [LedgerNext]_ledgerVars
    BY StepIsLedgerStep DEF ExecutionInv
  <2>2. CASE LedgerNext
    <3>1. PICK i \in Ids : \E record : Advances(i, record)
      BY <2>2, TransactionAdvances DEF ExecutionInv
    <3>2. PICK record : Advances(i, record)
      BY <3>1
    <3>3. \A id \in Ids \ {i} : ledger'[id] = ledger[id]
      BY <3>2, WriteStores DEF Advances, ExecutionInv
    <3> QED
      BY <1>3, <3>3
  <2>3. CASE UNCHANGED ledgerVars
    BY <1>3, <2>3 DEF ledgerVars
  <2> QED
    BY <2>1, <2>2, <2>3
<1>4. \/ UNCHANGED <<calls, world>>
      \/ \E r \in Requests : CallProvider(r)
      \/ \E i \in Ids : Land(i) \/ LabelByHand(i)
  BY ZenonT(30) DEF Next, Execute, Reconcile, Decide, Admit, ReadForReconcile, SavePrepared,
         ClaimAttempt, StartProvider, ConfirmPresent, ProviderAnswers, RecordOutcome,
         RecordThrows, SettleLabel, Fence, Lookup, CloseFromReceipt, Refused, Stop, vars
<1> QED
  BY <1>1, <1>2, <1>3, <1>4

(* The abstract variables, as the refinement mapping gives them.             *)
Verdict == [id \in Ids |-> VerdictOf(id)]
Effect == [id \in Ids |-> EffectOf(id)]

(* A change of one identity's pair is a step of SingleEffect.                *)
LEMMA AbstractStep ==
  ASSUME NEW i \in Ids, \A id \in Ids \ {i} : Same(id),
         \/ Same(i)
         \/ /\ VerdictOf(i)' = VerdictOf(i)
            /\ \/ /\ EffectOf(i) = "inflight"
                  /\ EffectOf(i)' \in {"applied", "refused"}
               \/ /\ VerdictOf(i) = "open"
                  /\ EffectOf(i) = "untouched"
                  /\ EffectOf(i)' = "inflight"
         \/ /\ VerdictOf(i) = "open"
            /\ EffectOf(i) \in {"untouched", "applied", "refused"}
            /\ EffectOf(i)' = EffectOf(i)
            /\ EffectOf(i) = "untouched" => VerdictOf(i)' = "void"
            /\ EffectOf(i) = "applied" => VerdictOf(i)' = "done"
            /\ EffectOf(i) = "refused" => VerdictOf(i)' = "failed"
  PROVE  [Promise!Next]_<<Verdict, Effect>>
<1>1. CASE Same(i)
  <2>1. \A id \in Ids : Same(id)
    BY <1>1
  <2> QED
    BY <2>1 DEF Same, Verdict, Effect
<1>2. CASE /\ VerdictOf(i)' = VerdictOf(i)
           /\ EffectOf(i) = "inflight"
           /\ EffectOf(i)' \in {"applied", "refused"}
  <2>1. Verdict' = Verdict
    BY <1>2 DEF Same, Verdict
  <2>2. Effect' = [Effect EXCEPT ![i] = EffectOf(i)']
    BY DEF Same, Effect
  <2>3. Promise!Happen(i)
    BY <1>2, <2>1, <2>2 DEF Promise!Happen, Verdict, Effect
  <2> QED
    BY <2>3 DEF Promise!Next
<1>3. CASE /\ VerdictOf(i)' = VerdictOf(i)
           /\ VerdictOf(i) = "open"
           /\ EffectOf(i) = "untouched"
           /\ EffectOf(i)' = "inflight"
  <2>1. Verdict' = Verdict
    BY <1>3 DEF Same, Verdict
  <2>2. Effect' = [Effect EXCEPT ![i] = EffectOf(i)']
    BY DEF Same, Effect
  <2>3. Promise!Ask(i)
    BY <1>3, <2>1, <2>2 DEF Promise!Ask, Verdict, Effect
  <2> QED
    BY <2>3 DEF Promise!Next
<1>4. CASE /\ VerdictOf(i) = "open"
           /\ EffectOf(i) \in {"untouched", "applied", "refused"}
           /\ EffectOf(i)' = EffectOf(i)
           /\ EffectOf(i) = "untouched" => VerdictOf(i)' = "void"
           /\ EffectOf(i) = "applied" => VerdictOf(i)' = "done"
           /\ EffectOf(i) = "refused" => VerdictOf(i)' = "failed"
  <2>1. Effect' = Effect
    BY <1>4 DEF Same, Effect
  <2>2. Verdict' = [Verdict EXCEPT ![i] = VerdictOf(i)']
    BY DEF Same, Verdict
  <2>3. VerdictOf(i)' = Promise!Supported(i)
    BY <1>4 DEF Promise!Supported, Effect
  <2>4. Promise!Close(i)
    BY <1>4, <2>1, <2>2, <2>3 DEF Promise!Close, Verdict, Effect
  <2> QED
    BY <2>4 DEF Promise!Next
<1> QED
  BY <1>1, <1>2, <1>3, <1>4

(* The system implements SingleEffect for every set of requests, identities  *)
(* and staff.                                                                *)
THEOREM ImplementsPromise == Spec => ImplementsSingleEffect
<1>1. Init => Promise!Init
  <2>1. ASSUME Init, NEW id \in Ids
        PROVE  VerdictOf(id) = "open" /\ EffectOf(id) = "untouched"
    BY <2>1 DEF Init, LedgerInit, NoRecord, VerdictOf, EffectOf, WithdrawnStates
  <2> QED
    BY <2>1 DEF Promise!Init
<1>2. ASSUME ExecutionInv, ExecutionInv', [Next]_vars
      PROVE  [Promise!Next]_<<Verdict, Effect>>
  <2>1. ASSUME NEW id \in Ids, ledger'[id] = ledger[id], calls'[id] = calls[id],
               world'[id] = world[id]
        PROVE  Same(id)
    BY <2>1 DEF Same, VerdictOf, EffectOf
  <2>2. CASE UNCHANGED <<ledger, calls, world>>
    <3>1. \A id \in Ids : Same(id)
      BY <2>1, <2>2
    <3> QED
      BY <3>1 DEF Same, Verdict, Effect
  <2>3. ASSUME NEW i \in Ids, ledger' = ledger,
               \A id \in Ids \ {i} : calls'[id] = calls[id] /\ world'[id] = world[id]
        PROVE  [Promise!Next]_<<Verdict, Effect>>
    <3>1. \A id \in Ids \ {i} : Same(id)
      BY <2>1, <2>3
    <3> QED
      BY <1>2, <2>3, <3>1, EffectStep, AbstractStep
  <2>4. ASSUME NEW i \in Ids, UNCHANGED <<calls, world>>,
               \A id \in Ids \ {i} : ledger'[id] = ledger[id]
        PROVE  [Promise!Next]_<<Verdict, Effect>>
    <3>1. \A id \in Ids \ {i} : Same(id)
      BY <2>1, <2>4
    <3>2. EffectOf(i) # "inflight" => EffectOf(i) \in {"untouched", "applied", "refused"}
      BY <1>2, EffectShape DEF Worlds
    <3> QED
      BY <1>2, <2>4, <3>1, <3>2, VerdictStep, AbstractStep
  <2> QED
    BY <1>2, <2>2, <2>3, <2>4, OneAtATime
<1> QED
  BY <1>1, <1>2, ExecutionIsSound, PTL
     DEF Spec, ImplementsSingleEffect, Promise!Spec, Verdict, Effect
=============================================================================
