----------------------- MODULE ActionExecution_proofs -----------------------
(***************************************************************************)
(* Theorems about the execution ledger, for every set of identities,       *)
(* actors, roles, risks and previews.                                      *)
(*                                                                         *)
(* Each transaction replaces one record.  RecordOK is what every stored    *)
(* record satisfies on its own; Transaction lists the eight ways a record  *)
(* may be replaced, and the first lemmas show that each of them stores a   *)
(* record that is RecordOK again.                                          *)
(***************************************************************************)
EXTENDS ActionExecution, TLAPS

RecordOK(id, record) ==
  /\ record \in Records
  /\ High(id) /\ record.state \in {"Approved"} \cup AttemptedStates =>
       AuthorityGranted(id, record.approval, record.preview)
  /\ record.state \in WithdrawnStates => record.approval = NoApproval
  /\ record.attempts = 1 <=> record.state \in AttemptedStates
  /\ record.attempts = 1 <=> record.claimant # NoActor

LedgerInv ==
  /\ LedgerTypeOK
  /\ \A id \in Ids : RecordOK(id, ledger[id])

(* What a step of the ledger does to the record of id.                       *)
Stores(id, record) ==
  /\ record \in Records
  /\ record.state # "None"
  /\ Write(id, record)

-----------------------------------------------------------------------------

(* Storing a well-formed record keeps both collections well formed.          *)
LEMMA StoreKeepsTypes ==
  ASSUME LedgerTypeOK, NEW id \in Ids, NEW record, Stores(id, record)
  PROVE  LedgerTypeOK'
<1> DEFINE entry == [from |-> ledger[id].state, to |-> record.state]
<1>1. ledger' \in [Ids -> Records]
  BY DEF LedgerTypeOK, Stores, Write
<1>2. entry \in Entries
  BY DEF LedgerTypeOK, Stores, Records, Entries
<1>3. activity' \in [Ids -> Seq(Entries)]
  <2>1. Append(activity[id], entry) \in Seq(Entries)
    BY <1>2 DEF LedgerTypeOK
  <2>2. activity' = [activity EXCEPT ![id] = Append(activity[id], entry)]
    BY DEF Stores, Write
  <2> QED
    BY <2>1, <2>2 DEF LedgerTypeOK
<1> QED
  BY <1>1, <1>3 DEF LedgerTypeOK

(* Preparing stores a sound record.                                          *)
LEMMA PrepareStores ==
  ASSUME LedgerInv, NEW a \in Actors, NEW id \in Ids, NEW p \in Previews,
         Prepare(a, id, p)
  PROVE  \E record : Stores(id, record) /\ RecordOK(id, record)
<1> DEFINE record ==
      [NoRecord EXCEPT
         !.state = IF High(id) THEN "Awaiting Admin" ELSE "Ready",
         !.preparer = a, !.preview = p]
<1>1. record \in Records /\ record.state \in {"Awaiting Admin", "Ready"}
  BY DEF NoRecord, Records, States
<1>2. record.attempts = 0 /\ record.claimant = NoActor
  BY DEF NoRecord
<1>3. Write(id, record)
  BY DEF Prepare
<1> HIDE DEF record
<1> QED
  <2>1. Stores(id, record)
    BY <1>1, <1>3 DEF Stores
  <2>2. record.state \notin {"Approved"} \cup AttemptedStates \cup WithdrawnStates
    BY <1>1 DEF AttemptedStates, WithdrawnStates
  <2>3. record.attempts # 1
    BY <1>2
  <2>4. RecordOK(id, record)
    BY <1>1, <1>2, <2>2, <2>3 DEF RecordOK
  <2> QED
    BY <2>1, <2>4

(* Approving stores a record bound to the very preview it holds.             *)
LEMMA ApproveStores ==
  ASSUME LedgerInv, NEW a \in Actors, NEW id \in Ids, NEW p \in Previews,
         Approve(a, id, p)
  PROVE  \E record : Stores(id, record) /\ RecordOK(id, record)
<1> DEFINE approval ==
      [by |-> a, basis |-> IF Admin(a) THEN "admin" ELSE "staff_confirmation",
       preview |-> p]
    record == [ledger[id] EXCEPT !.state = "Approved", !.approval = approval]
<1>1. RecordOK(id, ledger[id]) /\ ledger[id] \in Records
  BY DEF LedgerInv, RecordOK
<1>2. approval \in Approvals
  BY DEF Approvals
<1>3. /\ record \in Records
      /\ record.state = "Approved"
      /\ record.approval = approval
      /\ record.preview = ledger[id].preview
      /\ record.attempts = ledger[id].attempts
      /\ record.claimant = ledger[id].claimant
  BY ZenonT(30), <1>1, <1>2 DEF Records, States
<1>4. /\ ledger[id].state = "Awaiting Admin"
      /\ ledger[id].preview = p
      /\ AuthorityGranted(id, approval, p)
      /\ Write(id, record)
  BY DEF Approve
<1>5. AuthorityGranted(id, record.approval, record.preview)
  BY <1>3, <1>4
<1> HIDE DEF record
<1> QED
  <2>1. Stores(id, record)
    BY <1>3, <1>4 DEF Stores
  <2>2. RecordOK(id, record)
    BY <1>1, <1>3, <1>4, <1>5 DEF RecordOK, AttemptedStates, WithdrawnStates
  <2> QED
    BY <2>1, <2>2

(* Withdrawing drops the approval and consumes nothing.                      *)
LEMMA WithdrawStores ==
  ASSUME LedgerInv, NEW a \in Actors, NEW id \in Ids, NEW to \in WithdrawnStates,
         Withdraw(a, id, to)
  PROVE  \E record : Stores(id, record) /\ RecordOK(id, record)
<1> DEFINE record == [ledger[id] EXCEPT !.state = to, !.approval = NoApproval]
<1>1. RecordOK(id, ledger[id]) /\ ledger[id] \in Records
  BY DEF LedgerInv, RecordOK
<1>2. /\ record \in Records
      /\ record.state = to
      /\ record.approval = NoApproval
      /\ record.attempts = ledger[id].attempts
      /\ record.claimant = ledger[id].claimant
  BY <1>1 DEF Records, States, WithdrawnStates
<1>3. ledger[id].state \in {"Awaiting Admin", "Approved"} /\ Write(id, record)
  BY DEF Withdraw
<1> HIDE DEF record
<1> QED
  <2>1. Stores(id, record)
    BY <1>2, <1>3 DEF Stores, AttemptedStates, WithdrawnStates
  <2>2. RecordOK(id, record)
    BY <1>1, <1>2, <1>3 DEF RecordOK, AttemptedStates, WithdrawnStates
  <2> QED
    BY <2>1, <2>2

(* Claiming consumes the attempt under the authority checked before.         *)
LEMMA ClaimStores ==
  ASSUME LedgerInv, NEW a \in Actors, NEW id \in Ids, NEW p \in Previews,
         Claim(a, id, p)
  PROVE  \E record : Stores(id, record) /\ RecordOK(id, record)
<1> DEFINE record ==
      [ledger[id] EXCEPT !.state = "Executing", !.attempts = 1, !.claimant = a]
<1>1. RecordOK(id, ledger[id]) /\ ledger[id] \in Records
  BY DEF LedgerInv, RecordOK
<1>2. /\ record \in Records
      /\ record.state = "Executing"
      /\ record.approval = ledger[id].approval
      /\ record.preview = ledger[id].preview
      /\ record.attempts = 1
      /\ record.claimant = a
  BY <1>1 DEF Records, States
<1>3. /\ ledger[id].preview = p
      /\ AuthorityGranted(id, ledger[id].approval, p)
      /\ Write(id, record)
  BY DEF Claim, CanClaim
<1>4. a # NoActor
  BY NullAssumption
<1> HIDE DEF record
<1> QED
  <2>1. Stores(id, record)
    BY <1>2, <1>3 DEF Stores
  <2>2. RecordOK(id, record)
    BY <1>1, <1>2, <1>3, <1>4 DEF RecordOK, AttemptedStates, WithdrawnStates
  <2> QED
    BY <2>1, <2>2

(* The pairs a finished attempt may be closed with.                          *)
LEMMA OutcomeShape ==
  ASSUME NEW o \in Outcomes \cup Verdicts
  PROVE  o[1] \in {"Succeeded", "Failed", "Needs reconciliation"} /\ o[2] \in Codes
<1>1. CASE o = <<"Succeeded", "applied">>
  BY <1>1 DEF Codes
<1>2. CASE o = <<"Succeeded", "not_applicable">>
  BY <1>2 DEF Codes
<1>3. CASE o = <<"Failed", "refused">>
  BY <1>3 DEF Codes
<1>4. CASE o = <<"Needs reconciliation", "unknown">>
  BY <1>4 DEF Codes
<1> QED
  BY <1>1, <1>2, <1>3, <1>4 DEF Outcomes, Verdicts

(* Finishing and resolving move a claimed record among attempted states.     *)
LEMMA CloseStores ==
  ASSUME LedgerInv, NEW id \in Ids, NEW o \in Outcomes \cup Verdicts,
         ledger[id].attempts = 1,
         Write(id, [ledger[id] EXCEPT !.state = o[1], !.code = o[2]])
  PROVE  \E record : Stores(id, record) /\ RecordOK(id, record)
<1> DEFINE record == [ledger[id] EXCEPT !.state = o[1], !.code = o[2]]
<1>0. o[1] \in {"Succeeded", "Failed", "Needs reconciliation"} /\ o[2] \in Codes
  BY OutcomeShape
<1>1. RecordOK(id, ledger[id]) /\ ledger[id] \in Records
  BY DEF LedgerInv, RecordOK
<1>2. /\ record \in Records
      /\ record.state \in AttemptedStates
      /\ record.approval = ledger[id].approval
      /\ record.preview = ledger[id].preview
      /\ record.attempts = 1
      /\ record.claimant = ledger[id].claimant
  BY <1>0, <1>1 DEF Records, States, AttemptedStates
<1>3. /\ High(id) => AuthorityGranted(id, ledger[id].approval, ledger[id].preview)
      /\ Write(id, record)
  BY <1>1 DEF RecordOK
<1> HIDE DEF record
<1> QED
  <2>1. Stores(id, record)
    BY <1>2, <1>3 DEF Stores, AttemptedStates, WithdrawnStates
  <2>2. RecordOK(id, record)
    BY <1>1, <1>2, <1>3 DEF RecordOK, AttemptedStates, WithdrawnStates
  <2> QED
    BY <2>1, <2>2

(* The eight transactions together.                                          *)
LEMMA TransactionStores ==
  ASSUME LedgerInv, LedgerNext
  PROVE  \E id \in Ids : \E record : Stores(id, record) /\ RecordOK(id, record)
<1>1. ASSUME NEW a \in Actors, NEW id \in Ids, NEW p \in Previews,
             Prepare(a, id, p) \/ Approve(a, id, p) \/ Claim(a, id, p)
      PROVE  \E record : Stores(id, record) /\ RecordOK(id, record)
  BY <1>1, PrepareStores, ApproveStores, ClaimStores
<1>2. ASSUME NEW a \in Actors, NEW id \in Ids, Return(a, id) \/ Revoke(a, id)
      PROVE  \E record : Stores(id, record) /\ RecordOK(id, record)
  BY <1>2, WithdrawStores DEF Return, Revoke, WithdrawnStates
<1>3. ASSUME NEW a \in Actors, NEW id \in Ids, NEW o \in Outcomes,
             Finish(a, id, o[1], o[2])
      PROVE  \E record : Stores(id, record) /\ RecordOK(id, record)
  BY <1>3, CloseStores DEF Finish, CanFinish
<1>4. ASSUME NEW a \in Actors, NEW id \in Ids, NEW v \in Verdicts, NEW claimed,
             Resolve(a, id, v[1], v[2], claimed)
      PROVE  \E record : Stores(id, record) /\ RecordOK(id, record)
  BY <1>4, CloseStores DEF Resolve, CanResolve
<1> QED
  BY <1>1, <1>2, <1>3, <1>4 DEF LedgerNext

-----------------------------------------------------------------------------

(* The stored records stay sound through any step of the ledger.             *)
LEMMA LedgerInvStep ==
  ASSUME LedgerInv, [LedgerNext]_ledgerVars
  PROVE  LedgerInv'
<1>1. CASE LedgerNext
  <2>0. PICK id \in Ids : \E record : Stores(id, record) /\ RecordOK(id, record)
    BY <1>1, TransactionStores
  <2>1. PICK record : Stores(id, record) /\ RecordOK(id, record)
    BY <2>0
  <2>2. LedgerTypeOK'
    BY <2>1, StoreKeepsTypes DEF LedgerInv
  <2>3. ledger' = [ledger EXCEPT ![id] = record]
    BY <2>1 DEF Stores, Write
  <2>4. ASSUME NEW i \in Ids
        PROVE  RecordOK(i, ledger[i])'
    <3>1. RecordOK(i, ledger'[i])
      BY <2>1, <2>3 DEF LedgerInv, LedgerTypeOK
    <3> QED
      BY <3>1 DEF RecordOK, High, AuthorityGranted
  <2> QED
    BY <2>2, <2>4 DEF LedgerInv
<1>2. CASE UNCHANGED ledgerVars
  BY <1>2 DEF LedgerInv, LedgerTypeOK, RecordOK, High, AuthorityGranted, ledgerVars
<1> QED
  BY <1>1, <1>2

(* Initially no record exists.                                               *)
LEMMA LedgerInvInit ==
  ASSUME LedgerInit
  PROVE  LedgerInv
<1>1. NoRecord \in Records
  BY DEF NoRecord, Records
<1>2. \A id \in Ids : RecordOK(id, NoRecord)
  BY <1>1 DEF RecordOK, NoRecord, AttemptedStates, WithdrawnStates
<1>3. << >> \in Seq(Entries)
  OBVIOUS
<1> QED
  BY <1>1, <1>2, <1>3 DEF LedgerInit, LedgerInv, LedgerTypeOK

(* Soundness of each record gives the three invariants the runs check.       *)
LEMMA LedgerInvImplies ==
  ASSUME LedgerInv
  PROVE  LedgerTypeOK /\ ApprovalBinds /\ AttemptAccounted
<1>1. LedgerTypeOK
  BY DEF LedgerInv
<1>2. ApprovalBinds
  BY DEF LedgerInv, RecordOK, ApprovalBinds
<1>3. AttemptAccounted
  BY DEF LedgerInv, RecordOK, AttemptAccounted
<1> QED
  BY <1>1, <1>2, <1>3

(* Every record the ledger ever stores is sound.                             *)
THEOREM LedgerIsSound == LedgerSpec => []LedgerInv
<1>1. LedgerInit => LedgerInv
  BY LedgerInvInit
<1>2. LedgerInv /\ [LedgerNext]_ledgerVars => LedgerInv'
  BY LedgerInvStep
<1> QED
  BY <1>1, <1>2, PTL DEF LedgerSpec

(* The documents of both collections always have their shape.                *)
THEOREM LedgerTypes == LedgerSpec => []LedgerTypeOK
  BY LedgerIsSound, LedgerInvImplies, PTL

(* No approval outlives a withdrawal or covers another preview.              *)
THEOREM ApprovalsBind == LedgerSpec => []ApprovalBinds
  BY LedgerIsSound, LedgerInvImplies, PTL

(* Attempt counter, claimant and state never disagree.                       *)
THEOREM AttemptsAreAccounted == LedgerSpec => []AttemptAccounted
  BY LedgerIsSound, LedgerInvImplies, PTL

-----------------------------------------------------------------------------
(* Which records a transaction leaves alone                                  *)

(* A transaction replaces one record that is not final, keeps what the       *)
(* record is bound to once it exists, never gives an attempt back, never     *)
(* awaits a decision again, and enters the attempted states through the      *)
(* claim of an approved record.                                              *)
Advances(id, record) ==
  /\ Write(id, record)
  /\ ledger[id].state \notin FinalStates
  /\ record.state = "Executing" =>
       ledger[id].attempts = 0 /\ (High(id) => ledger[id].state = "Approved")
  /\ record.state \in AttemptedStates \ {"Executing"} => ledger[id].attempts = 1
  /\ ledger[id].state # "None" => record.state \notin {"None", "Awaiting Admin", "Ready"}
  /\ ledger[id].state # "None" =>
       /\ record.preparer = ledger[id].preparer
       /\ record.preview = ledger[id].preview
       /\ ledger[id].attempts = 1 =>
            record.attempts = 1 /\ record.claimant = ledger[id].claimant

(* Every transaction advances the record it replaces.                        *)
LEMMA TransactionAdvances ==
  ASSUME LedgerInv, LedgerNext
  PROVE  \E id \in Ids : \E record : Advances(id, record)
<1>0. \A id \in Ids : ledger[id] \in Records
  BY DEF LedgerInv, RecordOK
<1>1. ASSUME NEW a \in Actors, NEW id \in Ids, NEW p \in Previews, Prepare(a, id, p)
      PROVE  \E record : Advances(id, record)
  <2> DEFINE record ==
        [NoRecord EXCEPT
           !.state = IF High(id) THEN "Awaiting Admin" ELSE "Ready",
           !.preparer = a, !.preview = p]
  <2>1. Write(id, record) /\ ledger[id].state = "None"
    BY <1>1 DEF Prepare
  <2>2. /\ ledger[id].state # "None" =>
             /\ record.preparer = ledger[id].preparer
             /\ record.preview = ledger[id].preview
             /\ ledger[id].attempts = 1 =>
                  record.attempts = 1 /\ record.claimant = ledger[id].claimant
        /\ record.state \in {"Awaiting Admin", "Ready"}
    BY <1>0, <2>1 DEF NoRecord
  <2> HIDE DEF record
  <2> QED
    BY <2>1, <2>2 DEF Advances, FinalStates, WithdrawnStates, AttemptedStates
<1>2. ASSUME NEW a \in Actors, NEW id \in Ids, NEW p \in Previews, Approve(a, id, p)
      PROVE  \E record : Advances(id, record)
  <2> DEFINE record ==
        [ledger[id] EXCEPT
           !.state = "Approved",
           !.approval = [by |-> a, preview |-> p,
                         basis |-> IF Admin(a) THEN "admin" ELSE "staff_confirmation"]]
  <2>1. Write(id, record) /\ ledger[id].state = "Awaiting Admin"
    BY <1>2 DEF Approve
  <2>2. /\ ledger[id].state # "None" =>
             /\ record.preparer = ledger[id].preparer
             /\ record.preview = ledger[id].preview
             /\ ledger[id].attempts = 1 =>
                  record.attempts = 1 /\ record.claimant = ledger[id].claimant
        /\ record.state = "Approved"
    BY <1>0, <2>1 DEF Records
  <2> HIDE DEF record
  <2> QED
    BY <2>1, <2>2 DEF Advances, FinalStates, WithdrawnStates, AttemptedStates
<1>3. ASSUME NEW a \in Actors, NEW id \in Ids, NEW p \in Previews, Claim(a, id, p)
      PROVE  \E record : Advances(id, record)
  <2> DEFINE record ==
        [ledger[id] EXCEPT !.state = "Executing", !.attempts = 1, !.claimant = a]
  <2>1. Write(id, record) /\ ledger[id].attempts = 0 /\
        ledger[id].state = IF High(id) THEN "Approved" ELSE "Ready"
    BY <1>3 DEF Claim, CanClaim
  <2>2. /\ ledger[id].state # "None" =>
             /\ record.preparer = ledger[id].preparer
             /\ record.preview = ledger[id].preview
             /\ ledger[id].attempts = 1 =>
                  record.attempts = 1 /\ record.claimant = ledger[id].claimant
        /\ record.state = "Executing"
    BY <1>0, <2>1 DEF Records
  <2> HIDE DEF record
  <2> QED
    BY <2>1, <2>2 DEF Advances, FinalStates, WithdrawnStates, AttemptedStates
<1>4. ASSUME NEW a \in Actors, NEW id \in Ids, NEW to \in WithdrawnStates,
             Withdraw(a, id, to)
      PROVE  \E record : Advances(id, record)
  <2> DEFINE record ==
        [ledger[id] EXCEPT !.state = to, !.approval = NoApproval]
  <2>1. Write(id, record) /\ ledger[id].state \in {"Awaiting Admin", "Approved"}
    BY <1>4 DEF Withdraw
  <2>2. /\ ledger[id].state # "None" =>
             /\ record.preparer = ledger[id].preparer
             /\ record.preview = ledger[id].preview
             /\ ledger[id].attempts = 1 =>
                  record.attempts = 1 /\ record.claimant = ledger[id].claimant
        /\ record.state \in WithdrawnStates
    BY <1>0, <2>1 DEF Records
  <2> HIDE DEF record
  <2> QED
    BY <2>1, <2>2 DEF Advances, FinalStates, WithdrawnStates, AttemptedStates
<1>5. ASSUME NEW id \in Ids, NEW o \in Outcomes \cup Verdicts,
             ledger[id].attempts = 1,
             ledger[id].state \in {"Executing", "Needs reconciliation"},
             Write(id, [ledger[id] EXCEPT !.state = o[1], !.code = o[2]])
      PROVE  \E record : Advances(id, record)
  <2> DEFINE record ==
        [ledger[id] EXCEPT !.state = o[1], !.code = o[2]]
  <2>1. Write(id, record) /\ ledger[id].attempts = 1 /\
        ledger[id].state \in {"Executing", "Needs reconciliation"}
    BY <1>5
  <2>2. /\ ledger[id].state # "None" =>
             /\ record.preparer = ledger[id].preparer
             /\ record.preview = ledger[id].preview
             /\ ledger[id].attempts = 1 =>
                  record.attempts = 1 /\ record.claimant = ledger[id].claimant
        /\ record.state \in {"Succeeded", "Failed", "Needs reconciliation"}
    BY <1>0, <2>1, OutcomeShape DEF Records
  <2> HIDE DEF record
  <2> QED
    BY <2>1, <2>2 DEF Advances, FinalStates, WithdrawnStates, AttemptedStates
<1>6. ASSUME NEW a \in Actors, NEW id \in Ids, NEW o \in Outcomes,
             Finish(a, id, o[1], o[2])
      PROVE  \E record : Advances(id, record)
  BY <1>5, <1>6 DEF Finish, CanFinish
<1>7. ASSUME NEW a \in Actors, NEW id \in Ids, NEW v \in Verdicts, NEW claimed,
             Resolve(a, id, v[1], v[2], claimed)
      PROVE  \E record : Advances(id, record)
  BY <1>5, <1>7 DEF Resolve, CanResolve
<1> QED
  BY <1>1, <1>2, <1>3, <1>4, <1>6, <1>7
     DEF LedgerNext, Return, Revoke, WithdrawnStates

(* A step of the ledger leaves final records as they are and re-binds none.  *)
LEMMA StepAdvances ==
  ASSUME LedgerInv, LedgerNext, NEW id \in Ids
  PROVE  /\ ledger[id].state \in FinalStates => ledger'[id] = ledger[id]
         /\ ledger[id].state # "None" =>
              /\ ledger'[id].preparer = ledger[id].preparer
              /\ ledger'[id].preview = ledger[id].preview
              /\ ledger[id].attempts = 1 =>
                   ledger'[id].attempts = 1 /\ ledger'[id].claimant = ledger[id].claimant
              /\ \/ ledger'[id].state = ledger[id].state
                 \/ ledger'[id].state \notin {"None", "Awaiting Admin", "Ready"}
<1>0. PICK i \in Ids : \E record : Advances(i, record)
  BY TransactionAdvances
<1>1. PICK record : Advances(i, record)
  BY <1>0
<1>2. ledger' = [ledger EXCEPT ![i] = record]
  BY <1>1 DEF Advances, Write
<1>3. CASE i = id
  BY <1>1, <1>2, <1>3 DEF Advances, LedgerInv, LedgerTypeOK
<1>4. CASE i # id
  BY <1>2, <1>4 DEF LedgerInv, LedgerTypeOK
<1> QED
  BY <1>3, <1>4

(* Withdrawn and closed records never change, whatever runs afterwards.      *)
THEOREM FinalStaysFinal == LedgerSpec => FinalIsForever
<1>1. LedgerInv /\ [LedgerNext]_ledgerVars
        => [\A id \in Ids : ledger[id].state \in FinalStates =>
              ledger'[id] = ledger[id]]_ledgerVars
  BY StepAdvances
<1> QED
  BY <1>1, LedgerIsSound, PTL DEF LedgerSpec, FinalIsForever

(* What was prepared, and who claimed it, is never re-bound.                 *)
THEOREM IdentityStays == LedgerSpec => IdentityIsForever
<1>1. LedgerInv /\ [LedgerNext]_ledgerVars
        => [\A id \in Ids : ledger[id].state # "None" =>
              /\ ledger'[id].preparer = ledger[id].preparer
              /\ ledger'[id].preview = ledger[id].preview
              /\ ledger[id].attempts = 1 =>
                   ledger'[id].attempts = 1 /\
                   ledger'[id].claimant = ledger[id].claimant]_ledgerVars
  BY StepAdvances
<1> QED
  BY <1>1, LedgerIsSound, PTL DEF LedgerSpec, IdentityIsForever

-----------------------------------------------------------------------------
(* The activity history                                                      *)

(* What ties the history to the record: attempted entries and the attempt    *)
(* counter imply each other, an approved record shows its approval, and a    *)
(* withdrawal is never left behind.                                          *)
HistoryOK(id) ==
  LET log == activity[id]
  IN  /\ \A k \in 1..Len(log) :
           log[k].to \in AttemptedStates => ledger[id].attempts = 1
      /\ ledger[id].attempts = 1 => \E k \in 1..Len(log) : log[k].to = "Executing"
      /\ ledger[id].state = "Approved" => \E k \in 1..Len(log) : log[k].to = "Approved"
      /\ \A k \in 1..Len(log) :
           log[k].to \in WithdrawnStates => ledger[id].state \in WithdrawnStates

HistoryInv == HistoryIsLawful /\ \A id \in Ids : HistoryOK(id)

Lawful(id, log) ==
  \A k \in 1..Len(log) :
    /\ log[k].to = "Executing" => ~\E j \in 1..k - 1 : log[j].to = "Executing"
    /\ log[k].to \in AttemptedStates \ {"Executing"} =>
         \E j \in 1..k - 1 : log[j].to = "Executing"
    /\ log[k].to = "Executing" /\ High(id) => \E j \in 1..k - 1 : log[j].to = "Approved"
    /\ log[k].to \in WithdrawnStates => k = Len(log)

(* Lawful is HistoryIsLawful for one identity's log.                         *)
LEMMA LawfulLogs == HistoryIsLawful <=> \A id \in Ids : Lawful(id, activity[id])
  BY DEF HistoryIsLawful, Lawful

(* Appending the entry of an advancing transaction keeps a log lawful and    *)
(* tied to its record.                                                       *)
LEMMA AppendKeepsHistory ==
  ASSUME LedgerInv, LedgerInv', HistoryInv,
         NEW id \in Ids, NEW record, Advances(id, record)
  PROVE  Lawful(id, activity'[id]) /\ HistoryOK(id)'
<1> DEFINE log == activity[id]
           entry == [from |-> ledger[id].state, to |-> record.state]
           n == Len(log)
<1>1. /\ log \in Seq(Entries)
      /\ ledger'[id] = record
      /\ activity'[id] = Append(log, entry)
  BY DEF LedgerInv, LedgerTypeOK, Advances, Write
<1>2. /\ n \in Nat
      /\ Len(activity'[id]) = n + 1
      /\ \A k \in 1..n : activity'[id][k] = log[k]
      /\ activity'[id][n + 1].to = record.state
  BY <1>1
<1>3. /\ record.attempts = 1 <=> record.state \in AttemptedStates
      /\ ledger[id].attempts = 1 <=> ledger[id].state \in AttemptedStates
  BY <1>1 DEF LedgerInv, RecordOK
<1>4. Lawful(id, log) /\ HistoryOK(id)
  BY LawfulLogs DEF HistoryInv
<1>5. \A k \in 1..n : log[k].to \notin WithdrawnStates
  BY <1>4 DEF HistoryOK, Advances, FinalStates
<1>6. record.state = "Executing" =>
        /\ \A k \in 1..n : log[k].to # "Executing"
        /\ High(id) => \E k \in 1..n : log[k].to = "Approved"
  <2> SUFFICES ASSUME record.state = "Executing"
               PROVE  /\ \A k \in 1..n : log[k].to # "Executing"
                      /\ High(id) => \E k \in 1..n : log[k].to = "Approved"
    OBVIOUS
  <2>1. ledger[id].attempts # 1
    BY DEF Advances
  <2>2. \A k \in 1..n : log[k].to \notin AttemptedStates
    BY <1>4, <2>1 DEF HistoryOK
  <2>3. High(id) => ledger[id].state = "Approved"
    BY DEF Advances
  <2>4. High(id) => \E k \in 1..n : log[k].to = "Approved"
    BY <1>4, <2>3 DEF HistoryOK
  <2> QED
    BY <2>2, <2>4 DEF AttemptedStates
<1>7. record.state \in AttemptedStates \ {"Executing"} =>
        \E k \in 1..n : log[k].to = "Executing"
  BY <1>4 DEF HistoryOK, Advances
<1>8. Lawful(id, activity'[id])
  <2> SUFFICES ASSUME NEW k \in 1..n + 1
               PROVE  /\ activity'[id][k].to = "Executing" =>
                           ~\E j \in 1..k - 1 : activity'[id][j].to = "Executing"
                      /\ activity'[id][k].to \in AttemptedStates \ {"Executing"} =>
                           \E j \in 1..k - 1 : activity'[id][j].to = "Executing"
                      /\ activity'[id][k].to = "Executing" /\ High(id) =>
                           \E j \in 1..k - 1 : activity'[id][j].to = "Approved"
                      /\ activity'[id][k].to \in WithdrawnStates => k = n + 1
    BY <1>2 DEF Lawful
  <2>1. \A j \in 1..k - 1 : j \in 1..n /\ activity'[id][j] = log[j]
    BY <1>2
  <2>2. CASE k = n + 1
    BY SMTT(30), <1>2, <1>6, <1>7, <2>1, <2>2
  <2>3. CASE k \in 1..n
    <3>1. activity'[id][k] = log[k] /\ log[k].to \notin WithdrawnStates
      BY <1>2, <1>5, <2>3
    <3>2. /\ log[k].to = "Executing" => ~\E j \in 1..k - 1 : log[j].to = "Executing"
          /\ log[k].to \in AttemptedStates \ {"Executing"} =>
               \E j \in 1..k - 1 : log[j].to = "Executing"
          /\ log[k].to = "Executing" /\ High(id) =>
               \E j \in 1..k - 1 : log[j].to = "Approved"
      BY <1>4, <2>3 DEF Lawful
    <3> QED
      BY <2>1, <3>1, <3>2
  <2> QED
    BY SMTT(30), <1>2, <2>2, <2>3
<1>9. HistoryOK(id)'
  <2>1. \A k \in 1..n + 1 : activity'[id][k].to \in AttemptedStates => record.attempts = 1
    <3> SUFFICES ASSUME NEW k \in 1..n + 1, activity'[id][k].to \in AttemptedStates
                 PROVE  record.attempts = 1
      OBVIOUS
    <3>1. CASE k = n + 1
      BY <1>2, <1>3, <3>1
    <3>2. CASE k \in 1..n
      <4>1. ledger[id].attempts = 1
        BY <1>2, <1>4, <3>2 DEF HistoryOK
      <4> QED
        BY <1>3, <4>1 DEF Advances, AttemptedStates
    <3> QED
      BY <1>2, <3>1, <3>2
  <2>2. record.attempts = 1 => \E k \in 1..n + 1 : activity'[id][k].to = "Executing"
    <3>1. CASE record.state = "Executing"
      BY <1>2, <3>1
    <3>2. CASE record.state # "Executing"
      BY <1>2, <1>3, <1>7, <3>2
    <3> QED
      BY <3>1, <3>2
  <2>3. record.state = "Approved" => \E k \in 1..n + 1 : activity'[id][k].to = "Approved"
    BY <1>2
  <2>4. \A k \in 1..n + 1 :
          activity'[id][k].to \in WithdrawnStates => record.state \in WithdrawnStates
    BY <1>2, <1>5
  <2> QED
    BY <1>1, <1>2, <2>1, <2>2, <2>3, <2>4 DEF HistoryOK
<1> QED
  BY <1>8, <1>9

(* The history of every identity stays lawful and tied to its record.        *)
LEMMA HistoryStep ==
  ASSUME LedgerInv, LedgerInv', HistoryInv, [LedgerNext]_ledgerVars
  PROVE  HistoryInv'
<1>1. CASE LedgerNext
  <2>0. PICK i \in Ids : \E record : Advances(i, record)
    BY <1>1, TransactionAdvances
  <2>1. PICK record : Advances(i, record)
    BY <2>0
  <2>2. ASSUME NEW id \in Ids
        PROVE  Lawful(id, activity'[id]) /\ HistoryOK(id)'
    <3>1. CASE id = i
      BY <2>1, <3>1, AppendKeepsHistory
    <3>2. CASE id # i
      <4>1. ledger'[id] = ledger[id] /\ activity'[id] = activity[id]
        BY <2>1, <3>2 DEF Advances, Write, LedgerInv, LedgerTypeOK
      <4>2. Lawful(id, activity[id]) /\ HistoryOK(id)
        BY LawfulLogs DEF HistoryInv
      <4> QED
        BY <4>1, <4>2 DEF HistoryOK
    <3> QED
      BY <3>1, <3>2
  <2>3. HistoryIsLawful'
    BY <2>2 DEF HistoryIsLawful, Lawful, High
  <2> QED
    BY <2>2, <2>3 DEF HistoryInv
<1>2. CASE UNCHANGED ledgerVars
  BY <1>2 DEF ledgerVars, HistoryInv, HistoryIsLawful, HistoryOK, High
<1> QED
  BY <1>1, <1>2

(* The activity collection is lawful evidence in every reachable state.      *)
THEOREM HistoriesAreLawful == LedgerSpec => []HistoryIsLawful
<1>1. LedgerInit => HistoryInv
  BY DEF LedgerInit, HistoryInv, HistoryIsLawful, HistoryOK, NoRecord
<1>2. LedgerInv /\ LedgerInv' /\ HistoryInv /\ [LedgerNext]_ledgerVars => HistoryInv'
  BY HistoryStep
<1>3. HistoryInv => HistoryIsLawful
  BY DEF HistoryInv
<1> QED
  BY <1>1, <1>2, <1>3, LedgerIsSound, PTL DEF LedgerSpec
=============================================================================
