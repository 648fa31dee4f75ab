-------------------------- MODULE ActionExecution --------------------------
(***************************************************************************)
(* The S20 execution ledger: lib/firestore/action-executions.ts.           *)
(*                                                                         *)
(* One Firestore document per action identity records who prepared it, the *)
(* exact preview it is bound to, its approval and the single provider      *)
(* attempt it may ever consume.  Every exported function that writes the   *)
(* document runs one serializable transaction, so each is one action here. *)
(* The modules that add requests, a provider or the approval queue reuse   *)
(* these actions and bring their own next-state relation.                  *)
(*                                                                         *)
(* The preview hash and the context hash are compared together everywhere, *)
(* so a "preview" below stands for the pair of them.                       *)
(***************************************************************************)
EXTENDS Naturals, Sequences

CONSTANTS
  Ids,             \* action identities: exec_<hash of principal, key, idempotency key>
  Actors,          \* signed-in staff members
  RoleOf,          \* [Actors -> Roles]
  Verification,    \* the verification (canary) accounts among the actors
  Previews,        \* (preview hash, context hash) pairs
  RiskOf,          \* [Ids -> Risks], fixed by the action key and its trusted context
  StaffConfirmed,  \* ids whose action key is in STAFF_CONFIRMED_ACTION_KEYS
  NoActor, NoPreview, NoApproval

Roles == {"Editor", "Approver", "Admin"}
Risks == {"Low", "Medium", "High"}

ASSUME RolesAssumption == RoleOf \in [Actors -> Roles]
ASSUME RisksAssumption == RiskOf \in [Ids -> Risks]
ASSUME SetsAssumption == Verification \subseteq Actors /\ StaffConfirmed \subseteq Ids
ASSUME NullAssumption ==
  NoActor \notin Actors /\ NoPreview \notin Previews

VARIABLES
  ledger,    \* [Ids -> Records]: the action_executions collection
  activity   \* [Ids -> Seq(Entries)]: the append-only activity collection

ledgerVars == <<ledger, activity>>

States ==
  {"Ready", "Awaiting Admin", "Approved", "Executing", "Succeeded", "Failed",
   "Needs reconciliation", "Returned", "Revoked"}

(* The codes a finished attempt can carry, as far as the properties tell     *)
(* them apart: a receipt of an applied effect, a fenced not-applicable       *)
(* receipt, a definitive refusal and an unknown outcome.                     *)
Codes == {"applied", "not_applicable", "refused", "unknown"}

Approvals ==
  [by: Actors, basis: {"admin", "staff_confirmation"}, preview: Previews]

ASSUME ApprovalAssumption == NoApproval \notin Approvals

Records ==
  [state: States \cup {"None"},
   preparer: Actors \cup {NoActor},
   preview: Previews \cup {NoPreview},
   approval: Approvals \cup {NoApproval},
   attempts: {0, 1},
   claimant: Actors \cup {NoActor},
   code: Codes \cup {"none"}]

NoRecord ==
  [state |-> "None", preparer |-> NoActor, preview |-> NoPreview,
   approval |-> NoApproval, attempts |-> 0, claimant |-> NoActor, code |-> "none"]

(* Who wrote an entry is data no property asks about, so an entry keeps the  *)
(* transition only.                                                          *)
Entries == [from: States \cup {"None"}, to: States]

-----------------------------------------------------------------------------
(* Helpers                                                                  *)

Admin(a) == RoleOf[a] = "Admin"

High(id) == RiskOf[id] = "High"

(* Every staff role may confirm a staff-confirmed key; a canary never may.   *)
StaffMayContinue(a, id) == id \in StaffConfirmed /\ a \notin Verification

CanExecute(a, id) ==
  \/ Admin(a)
  \/ ledger[id].preparer = a
  \/ StaffMayContinue(a, id)

(* decideExecutionAuthority for a record that is not Blocked.                *)
AuthorityGranted(id, approval, p) ==
  High(id) =>
    /\ approval # NoApproval
    /\ \/ RoleOf[approval.by] = "Admin"
       \/ approval.basis = "staff_confirmation" /\ id \in StaffConfirmed
    /\ approval.preview = p

(* One transaction's document write together with its activity entry.        *)
Write(id, record) ==
  /\ ledger' = [ledger EXCEPT ![id] = record]
  /\ activity' = [activity EXCEPT ![id] =
       Append(@, [from |-> ledger[id].state, to |-> record.state])]

-----------------------------------------------------------------------------
(* Transactions                                                              *)

(* A second preparation under the same id either matches the record and      *)
(* changes nothing or is refused, so only the first one writes.              *)
Prepare(a, id, p) ==
  /\ ledger[id].state = "None"
  /\ Write(id, [NoRecord EXCEPT
       !.state = IF High(id) THEN "Awaiting Admin" ELSE "Ready",
       !.preparer = a,
       !.preview = p])

(* Mutant: the approval carries the approver's preview, never compared.      *)
ApproveStale(a, id, p) ==
  /\ Admin(a) \/ StaffMayContinue(a, id)
  /\ High(id)
  /\ ledger[id].state = "Awaiting Admin"
  /\ Write(id, [ledger[id] EXCEPT
       !.state = "Approved",
       !.approval = [by |-> a, preview |-> p,
                     basis |-> IF Admin(a) THEN "admin" ELSE "staff_confirmation"]])

Approve(a, id, p) ==
  LET basis == IF Admin(a) THEN "admin" ELSE "staff_confirmation"
      approval == [by |-> a, basis |-> basis, preview |-> p]
  IN  /\ Admin(a) \/ StaffMayContinue(a, id)
      /\ High(id)
      /\ ledger[id].state = "Awaiting Admin"
      /\ ledger[id].preview = p
      /\ AuthorityGranted(id, approval, p)
      /\ Write(id, [ledger[id] EXCEPT !.state = "Approved", !.approval = approval])

(* Mutant: withdrawing also stops a record that is already executing.        *)
WithdrawLate(a, id, to) ==
  /\ Admin(a)
  /\ ledger[id].state \in {"Awaiting Admin", "Approved", "Executing"}
  /\ Write(id, [ledger[id] EXCEPT !.state = to, !.approval = NoApproval])

(* Return and revoke share one transition and differ only in its target.     *)
Withdraw(a, id, to) ==
  /\ Admin(a)
  /\ ledger[id].state \in {"Awaiting Admin", "Approved"}
  /\ Write(id, [ledger[id] EXCEPT !.state = to, !.approval = NoApproval])

Return(a, id) == Withdraw(a, id, "Returned")
Revoke(a, id) == Withdraw(a, id, "Revoked")

(* Mutant: an unknown outcome may be retried instead of reconciled.          *)
CanClaimAgain(a, id, p) ==
  /\ CanExecute(a, id)
  /\ ledger[id].preview = p
  /\ ledger[id].state \in
       {IF High(id) THEN "Approved" ELSE "Ready", "Needs reconciliation"}
  /\ AuthorityGranted(id, ledger[id].approval, p)

CanClaim(a, id, p) ==
  /\ CanExecute(a, id)
  /\ ledger[id].preview = p
  /\ ledger[id].attempts = 0
  /\ ledger[id].state = IF High(id) THEN "Approved" ELSE "Ready"
  /\ AuthorityGranted(id, ledger[id].approval, p)

Claim(a, id, p) ==
  /\ CanClaim(a, id, p)
  /\ Write(id, [ledger[id] EXCEPT
       !.state = "Executing", !.attempts = 1, !.claimant = a])

(* completeActionExecution and failActionExecution.                          *)
CanFinish(a, id) ==
  CanExecute(a, id) /\ ledger[id].state = "Executing" /\ ledger[id].attempts = 1

Finish(a, id, to, code) ==
  /\ CanFinish(a, id)
  /\ Write(id, [ledger[id] EXCEPT !.state = to, !.code = code])

(* resolveActionReconciliationTransition.  Only the claimed variants, whose  *)
(* receipt was strictly parsed, may close a record still Executing.  The     *)
(* same verdict again returns without writing.                               *)
CanResolve(a, id, claimed) ==
  /\ CanExecute(a, id)
  /\ claimed => ledger[id].claimant # NoActor
  /\ \/ ledger[id].state = "Needs reconciliation"
     \/ claimed /\ ledger[id].state = "Executing"
  /\ ledger[id].attempts = 1

Resolve(a, id, to, code, claimed) ==
  /\ CanResolve(a, id, claimed)
  /\ Write(id, [ledger[id] EXCEPT !.state = to, !.code = code])

-----------------------------------------------------------------------------
(* The ledger alone, called in any order by any staff member                 *)

LedgerInit ==
  /\ ledger = [id \in Ids |-> NoRecord]
  /\ activity = [id \in Ids |-> << >>]

Outcomes ==
  {<<"Succeeded", "applied">>, <<"Failed", "refused">>,
   <<"Needs reconciliation", "unknown">>}

Verdicts ==
  {<<"Succeeded", "applied">>, <<"Succeeded", "not_applicable">>,
   <<"Failed", "refused">>}

LedgerNext ==
  \E a \in Actors, id \in Ids :
    \/ \E p \in Previews : Prepare(a, id, p) \/ Approve(a, id, p) \/ Claim(a, id, p)
    \/ Return(a, id)
    \/ Revoke(a, id)
    \/ \E o \in Outcomes : Finish(a, id, o[1], o[2])
    \/ \E v \in Verdicts : Resolve(a, id, v[1], v[2], FALSE)
    \/ \E v \in Verdicts : v[1] = "Succeeded" /\ Resolve(a, id, v[1], v[2], TRUE)

LedgerSpec == LedgerInit /\ [][LedgerNext]_ledgerVars

-----------------------------------------------------------------------------
(* Properties                                                                *)

(* Every record and activity entry has its documented shape.                 *)
LedgerTypeOK ==
  /\ ledger \in [Ids -> Records]
  /\ activity \in [Ids -> Seq(Entries)]

AttemptedStates == {"Executing", "Succeeded", "Failed", "Needs reconciliation"}
WithdrawnStates == {"Returned", "Revoked"}
FinalStates == {"Succeeded", "Failed"} \cup WithdrawnStates

(* Whatever order approvals, withdrawals, claims and closings run in, a High *)
(* record that is Approved, or whose attempt was ever consumed, still holds  *)
(* an approval of the very preview it was prepared with, given by an Admin   *)
(* or by staff whose key allows it; a withdrawn record holds none.           *)
ApprovalBinds ==
  \A id \in Ids :
    /\ High(id) /\ ledger[id].state \in {"Approved"} \cup AttemptedStates =>
         AuthorityGranted(id, ledger[id].approval, ledger[id].preview)
    /\ ledger[id].state \in WithdrawnStates => ledger[id].approval = NoApproval

(* The attempt counter, the claimant and the state tell the same story: an   *)
(* attempt is consumed exactly in the states after the claim, and then the   *)
(* immutable claimant is known.                                              *)
AttemptAccounted ==
  \A id \in Ids :
    /\ ledger[id].attempts = 1 <=> ledger[id].state \in AttemptedStates
    /\ ledger[id].attempts = 1 <=> ledger[id].claimant # NoActor

(* The append-only activity is evidence enough by itself: it shows at most   *)
(* one claim, no outcome before that claim, an approval before any High      *)
(* claim, and nothing after a withdrawal.                                    *)
HistoryIsLawful ==
  \A id \in Ids :
    LET log == activity[id]
        Before(k, to) == \E j \in 1..k - 1 : log[j].to = to
    IN  \A k \in 1..Len(log) :
          /\ log[k].to = "Executing" => ~Before(k, "Executing")
          /\ log[k].to \in AttemptedStates \ {"Executing"} => Before(k, "Executing")
          /\ log[k].to = "Executing" /\ High(id) => Before(k, "Approved")
          /\ log[k].to \in WithdrawnStates => k = Len(log)

(* A withdrawn or closed record never changes again: not its verdict, not    *)
(* its code, whoever retries, reconciles or re-prepares it.                  *)
FinalIsForever ==
  [][\A id \in Ids : ledger[id].state \in FinalStates => ledger'[id] = ledger[id]]_ledgerVars

(* What was prepared is never re-bound: preparer and preview stay, and a     *)
(* consumed attempt and its claimant are never given back.                   *)
IdentityIsForever ==
  [][\A id \in Ids :
       ledger[id].state # "None" =>
         /\ ledger'[id].preparer = ledger[id].preparer
         /\ ledger'[id].preview = ledger[id].preview
         /\ ledger[id].attempts = 1 =>
              ledger'[id].attempts = 1 /\ ledger'[id].claimant = ledger[id].claimant]_ledgerVars
=============================================================================
