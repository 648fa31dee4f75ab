---------------------------- MODULE AccessApply ----------------------------
(***************************************************************************)
(* Decisions about the access requests of one staff member: access/        *)
(* apply-service.ts over the requests of access/request-store-firestore.ts *)
(* and the sign-in claims of Firebase, which admin/users.ts also writes.   *)
(*                                                                         *)
(* A request adds to what its requester may do.  An Admin previews it,     *)
(* claims it, audits, writes the claims and reads them back; what could not *)
(* be confirmed waits for reconciliation.  The claims have no versions:    *)
(* every write stores what its handler made of an earlier read.            *)
(*                                                                         *)
(* Access is a role and a set of spaces; having all of Spaces stands for   *)
(* "all spaces".  Claims other than these are kept by every handler and    *)
(* are left out.  Who reviews is left out: every reviewer is an Admin       *)
(* other than the requester.                                               *)
(***************************************************************************)
EXTENDS Integers, FiniteSets

CONSTANTS
  Requests,    \* of one requester
  Intent,      \* [Requests -> Access], what a request adds
  Spaces,
  Roles,       \* 0..n, a higher one can do all that a lower one can
  First,       \* the requester's access in the beginning
  Handlers,    \* server invocations
  MaxVersion,  \* bound on the versions of a request
  MaxDirect,   \* bound on the changes Admins make in People and Access
  MaxFaults    \* bound on the calls that fail and the handlers that die

Access == [role : Roles, spaces : SUBSET Spaces]

ASSUME AccessAssumption ==
  /\ Roles \subseteq Nat
  /\ Intent \in [Requests -> Access] /\ First \in Access
  /\ MaxVersion \in Nat \ {0} /\ MaxDirect \in Nat /\ MaxFaults \in Nat

VARIABLES
  claims,    \* the requester's access in Firebase
  present,   \* the requester is still a managed user
  request,   \* [Requests -> RequestRecords]
  previews,  \* the stored previews of a decision
  audits,    \* the audit records: what an access was, and is to be
  handler,   \* [Handlers -> HandlerRecords]
  direct, faults,
  writes,    \* [Requests -> Nat], writes of claims made for a request
  held       \* the requests whose intent was active at some time

vars == <<claims, present, request, previews, audits, handler, direct, faults, writes, held>>
stored == <<request, previews>>
ghosts == <<writes, held>>

NoExec == 0
NoRequest == "none"
Versions == 1..MaxVersion

Final == {"applied", "denied", "cancelled", "superseded"}
RequestRecords ==
  [state: {"pending", "applying", "reconciliation_required"} \cup Final,
   version: Versions, exec: Versions \cup {NoExec}, target: Access]
HandlerRecords ==
  [pc: {"idle", "satisfied", "claiming", "auditing", "releasing", "setting", "reading",
        "uncertain", "completing", "superseding", "changing", "changed"},
   request: Requests \cup {NoRequest}, version: Versions \cup {NoExec},
   seen: Access, target: Access]

Idle == [pc |-> "idle", request |-> NoRequest, version |-> NoExec, seen |-> First,
         target |-> First]

Greater(a, b) == IF a < b THEN b ELSE a
Satisfies(access, wanted) == access.role >= wanted.role /\ wanted.spaces \subseteq access.spaces
(* deriveAdditiveAccessPlan                                                  *)
Plan(access, wanted) ==
  [role |-> Greater(access.role, wanted.role), spaces |-> access.spaces \cup wanted.spaces]
Holds(access) == {r \in Requests : Satisfies(access, Intent[r])}

Init ==
  /\ claims = First
  /\ present = TRUE
  /\ request = [r \in Requests |->
       [state |-> "pending", version |-> 1, exec |-> NoExec, target |-> First]]
  /\ previews = {}
  /\ audits = {}
  /\ handler = [h \in Handlers |-> Idle]
  /\ direct = 0 /\ faults = 0
  /\ writes = [r \in Requests |-> 0]
  /\ held = Holds(First)

Becomes(h, record) == handler' = [handler EXCEPT ![h] = record]
Goes(h, pc) == handler' = [handler EXCEPT ![h].pc = pc]

(* A transaction over a request: a new state is a new version.               *)
Moves(r, state) ==
  request' = [request EXCEPT ![r].state = state, ![r].version = @ + 1]
Writable(r) == request[r].version < MaxVersion

-----------------------------------------------------------------------------
(* Before a decision                                                         *)

(* previewAccessDecision, where the request still adds access.               *)
SavePreview(r) ==
  /\ request[r].state = "pending" /\ present
  /\ ~Satisfies(claims, Intent[r])
  /\ previews' = previews \cup {[request |-> r, version |-> request[r].version, seen |-> claims]}
  /\ UNCHANGED <<claims, present, request, audits, handler, direct, faults, ghosts>>

(* The same, where it adds nothing any more: audited, then closed.           *)
SeeSatisfied(h, r) ==
  /\ handler[h].pc = "idle"
  /\ request[r].state = "pending" /\ present
  /\ Satisfies(claims, Intent[r])
  /\ Becomes(h, [Idle EXCEPT !.pc = "satisfied", !.request = r,
                             !.version = request[r].version, !.seen = claims])
  /\ UNCHANGED <<claims, present, stored, audits, direct, faults, ghosts>>

CloseSatisfied(h) ==
  LET r == handler[h].request IN
  /\ handler[h].pc = "satisfied" /\ Writable(r)
  /\ audits' = audits \cup {[before |-> handler[h].seen, after |-> handler[h].seen]}
  /\ IF request[r].state = "pending" /\ request[r].version = handler[h].version
       THEN request' = [request EXCEPT ![r] =
              [state |-> "applied", version |-> @.version + 1, exec |-> @.version + 1,
               target |-> handler[h].seen]]
       ELSE UNCHANGED request
  /\ Becomes(h, Idle)
  /\ UNCHANGED <<claims, present, previews, direct, faults, ghosts>>

(* The requester has left.                                                   *)
SupersedePending(r) ==
  /\ request[r].state = "pending" /\ ~present /\ Writable(r)
  /\ Moves(r, "superseded")
  /\ UNCHANGED <<claims, present, previews, audits, handler, direct, faults, ghosts>>

(* denyPendingRequest and cancelPendingRequest                               *)
Decline(r, state) ==
  /\ request[r].state = "pending" /\ Writable(r)
  /\ Moves(r, state)
  /\ UNCHANGED <<claims, present, previews, audits, handler, direct, faults, ghosts>>

-----------------------------------------------------------------------------
(* applyAccessDecision                                                       *)

(* The preview must still be about this request and these claims.            *)
Apply(h, p) ==
  /\ handler[h].pc = "idle" /\ present
  /\ request[p.request].state = "pending" /\ request[p.request].version = p.version
  /\ claims = p.seen
  /\ Becomes(h, [pc |-> "claiming", request |-> p.request, version |-> p.version,
                 seen |-> claims, target |-> Plan(claims, Intent[p.request])])
  /\ UNCHANGED <<claims, present, stored, audits, direct, faults, ghosts>>

(* claimPendingForApply; the new version names the execution.                *)
ClaimRequest(h) ==
  LET r == handler[h].request
      claimed == [state |-> "applying", version |-> request[r].version + 1,
                  exec |-> request[r].version + 1, target |-> handler[h].target]
  IN /\ handler[h].pc = "claiming" /\ Writable(r)
     /\ \/ /\ request[r].state = "pending" /\ request[r].version = handler[h].version
           /\ request' = [request EXCEPT ![r] = claimed]
           /\ handler' = [handler EXCEPT ![h].pc = "auditing", ![h].version = claimed.version]
        \/ /\ request[r].state # "pending" \/ request[r].version # handler[h].version
           /\ Becomes(h, Idle)
           /\ UNCHANGED request
     /\ UNCHANGED <<claims, present, previews, audits, direct, faults, ghosts>>

(* Mutant: the audit is written after the claims.                            *)
AuditLater(h) ==
  /\ handler[h].pc = "auditing"
  /\ Goes(h, "setting")
  /\ UNCHANGED <<claims, present, stored, audits, direct, faults, ghosts>>

Audit(h) ==
  /\ handler[h].pc = "auditing"
  /\ audits' = audits \cup {[before |-> handler[h].seen, after |-> handler[h].target]}
  /\ Goes(h, "setting")
  /\ UNCHANGED <<claims, present, stored, direct, faults, ghosts>>

AuditFails(h) ==
  /\ handler[h].pc = "auditing" /\ faults < MaxFaults
  /\ faults' = faults + 1
  /\ Goes(h, "releasing")
  /\ UNCHANGED <<claims, present, stored, audits, direct, ghosts>>

(* releaseApplyAfterAuditFailure                                             *)
Release(h) ==
  LET r == handler[h].request IN
  /\ handler[h].pc = "releasing" /\ Writable(r)
  /\ IF request[r].state = "applying" /\ request[r].exec = handler[h].version
       THEN Moves(r, "pending") ELSE UNCHANGED request
  /\ Becomes(h, Idle)
  /\ UNCHANGED <<claims, present, previews, audits, direct, faults, ghosts>>

Store(access) ==
  /\ claims' = access
  /\ held' = held \cup Holds(access)

(* setCustomUserClaims with what was read before the claim.                  *)
SetClaims(h) ==
  /\ handler[h].pc = "setting" /\ present
  /\ Store(handler[h].target)
  /\ writes' = [writes EXCEPT ![handler[h].request] = @ + 1]
  /\ \/ Goes(h, "reading") /\ UNCHANGED faults
     \/ Goes(h, "uncertain") /\ faults < MaxFaults /\ faults' = faults + 1
  /\ UNCHANGED <<present, stored, audits, direct>>

(* Mutant: a failed call is taken to have changed nothing.                   *)
SetFailsReleases(h) ==
  /\ handler[h].pc = "setting"
  /\ faults < MaxFaults /\ faults' = faults + 1
  /\ Goes(h, "releasing")
  /\ \E done \in BOOLEAN :
       /\ claims' = IF done THEN handler[h].target ELSE claims
       /\ held' = IF done THEN held \cup Holds(handler[h].target) ELSE held
       /\ writes' = IF done THEN [writes EXCEPT ![handler[h].request] = @ + 1] ELSE writes
  /\ UNCHANGED <<present, stored, audits, direct>>

(* The call fails before it does anything.                                   *)
SetFails(h) ==
  /\ handler[h].pc = "setting"
  /\ \/ ~present /\ UNCHANGED faults
     \/ faults < MaxFaults /\ faults' = faults + 1
  /\ Goes(h, "uncertain")
  /\ UNCHANGED <<claims, present, stored, audits, direct, ghosts>>

ReadBack(h) ==
  /\ handler[h].pc = "reading"
  /\ \/ /\ present /\ claims = handler[h].target
        /\ Goes(h, "completing") /\ UNCHANGED faults
     \/ /\ ~present \/ claims # handler[h].target
        /\ Goes(h, "uncertain") /\ UNCHANGED faults
     \/ /\ faults < MaxFaults /\ faults' = faults + 1
        /\ Goes(h, "uncertain")
  /\ UNCHANGED <<claims, present, stored, audits, direct, ghosts>>

(* completeApply                                                             *)
Completes(h, state) ==
  LET r == handler[h].request IN
  /\ Writable(r)
  /\ IF /\ request[r].state \in {"applying", "reconciliation_required"}
        /\ request[r].exec = handler[h].version
       THEN Moves(r, state) ELSE UNCHANGED request
  /\ Becomes(h, Idle)
  /\ UNCHANGED <<claims, present, previews, audits, direct, faults, ghosts>>

(* Mutant: a late result is stored whatever the request has become.          *)
MarkUncertainBlind(h) ==
  /\ handler[h].pc = "uncertain" /\ Writable(handler[h].request)
  /\ Moves(handler[h].request, "reconciliation_required")
  /\ Becomes(h, Idle)
  /\ UNCHANGED <<claims, present, previews, audits, direct, faults, ghosts>>

Complete(h) == handler[h].pc = "completing" /\ Completes(h, "applied")
MarkUncertain(h) == handler[h].pc = "uncertain" /\ Completes(h, "reconciliation_required")

-----------------------------------------------------------------------------
(* What could not be confirmed                                               *)

(* reconcileAccessRequest reads the claims and completes the execution,      *)
(* also one that another handler is still at.                                *)
Reconcile(h, r) ==
  /\ handler[h].pc = "idle"
  /\ request[r].state \in {"applying", "reconciliation_required"}
  /\ request[r].version + 2 < MaxVersion
  /\ Becomes(h, [Idle EXCEPT !.request = r, !.version = request[r].exec,
       !.pc = IF present /\ claims = request[r].target THEN "completing" ELSE "uncertain"])
  /\ UNCHANGED <<claims, present, stored, audits, direct, faults, ghosts>>

(* Mutant: only claims that match are resolved.                              *)
ResolveSatisfied(h, r) ==
  /\ handler[h].pc = "idle" /\ present
  /\ request[r].state = "reconciliation_required"
  /\ Satisfies(claims, request[r].target)
  /\ Becomes(h, [Idle EXCEPT !.request = r, !.pc = "completing", !.version = request[r].exec])
  /\ UNCHANGED <<claims, present, stored, audits, direct, faults, ghosts>>

(* resolveAccessRequestAfterCorrection                                       *)
Resolve(h, r) ==
  LET satisfied == Satisfies(claims, request[r].target) IN
  /\ handler[h].pc = "idle" /\ present
  /\ request[r].state = "reconciliation_required"
  /\ Becomes(h, [Idle EXCEPT !.request = r,
       !.pc = IF satisfied THEN "completing" ELSE "superseding",
       !.version = IF satisfied THEN request[r].exec ELSE request[r].version])
  /\ UNCHANGED <<claims, present, stored, audits, direct, faults, ghosts>>

(* supersedeReconciliationRequest                                            *)
Supersede(h) ==
  LET r == handler[h].request IN
  /\ handler[h].pc = "superseding" /\ Writable(r)
  /\ IF /\ request[r].state = "reconciliation_required"
        /\ request[r].version = handler[h].version
       THEN Moves(r, "superseded") ELSE UNCHANGED request
  /\ Becomes(h, Idle)
  /\ UNCHANGED <<claims, present, previews, audits, direct, faults, ghosts>>

-----------------------------------------------------------------------------
(* People and Access                                                         *)

(* setAppUserRole and setAppUserScopes read the claims, audit the change,    *)
(* and write the claims they read with the new role or spaces.               *)
DirectlyChange(h, access) ==
  /\ handler[h].pc = "idle" /\ direct < MaxDirect
  /\ \/ access = [claims EXCEPT !.role = access.role]
     \/ access = [claims EXCEPT !.spaces = access.spaces]
  /\ direct' = direct + 1
  /\ Becomes(h, [Idle EXCEPT !.pc = "changing", !.seen = claims, !.target = access])
  /\ UNCHANGED <<claims, present, stored, audits, faults, ghosts>>

AuditChange(h) ==
  /\ handler[h].pc = "changing"
  /\ audits' = audits \cup {[before |-> handler[h].seen, after |-> handler[h].target]}
  /\ Goes(h, "changed")
  /\ UNCHANGED <<claims, present, stored, direct, faults, ghosts>>

StoreChange(h) ==
  /\ handler[h].pc = "changed"
  /\ \/ present /\ Store(handler[h].target)
     \/ ~present /\ UNCHANGED <<claims, held>>
  /\ Becomes(h, Idle)
  /\ UNCHANGED <<present, stored, audits, direct, faults, writes>>

Leave ==
  /\ present /\ faults < MaxFaults
  /\ present' = FALSE
  /\ faults' = faults + 1
  /\ UNCHANGED <<claims, stored, audits, handler, direct, ghosts>>

Die(h) ==
  /\ handler[h].pc # "idle" /\ faults < MaxFaults
  /\ faults' = faults + 1
  /\ Becomes(h, Idle)
  /\ UNCHANGED <<claims, present, stored, audits, direct, ghosts>>

-----------------------------------------------------------------------------

Proceed(h) ==
  \/ CloseSatisfied(h)
  \/ ClaimRequest(h)
  \/ Audit(h)
  \/ AuditFails(h)
  \/ Release(h)
  \/ SetClaims(h)
  \/ SetFails(h)
  \/ ReadBack(h)
  \/ Complete(h)
  \/ MarkUncertain(h)
  \/ Supersede(h)
  \/ AuditChange(h)
  \/ StoreChange(h)

Decide(r) ==
  \/ SavePreview(r)
  \/ SupersedePending(r)
  \/ \E state \in {"denied", "cancelled"} : Decline(r, state)

Next ==
  \/ \E r \in Requests : Decide(r)
  \/ \E h \in Handlers, r \in Requests : SeeSatisfied(h, r) \/ Reconcile(h, r) \/ Resolve(h, r)
  \/ \E h \in Handlers, p \in previews : Apply(h, p)
  \/ \E h \in Handlers : Proceed(h) \/ Die(h)
  \/ \E h \in Handlers, access \in Access : DirectlyChange(h, access)
  \/ Leave

Spec == Init /\ [][Next]_vars

(* Handlers proceed, and Admins resolve what waits for it and reconcile what *)
(* a handler left behind.                                                    *)
FairSpec ==
  /\ Spec
  /\ \A h \in Handlers : WF_vars(Proceed(h))
  /\ \A r \in Requests :
       /\ SF_vars(\E h \in Handlers : Reconcile(h, r) /\ request[r].state = "applying")
       /\ SF_vars(\E h \in Handlers : Resolve(h, r))

-----------------------------------------------------------------------------
(* Properties                                                                *)

TypeOK ==
  /\ claims \in Access /\ present \in BOOLEAN
  /\ request \in [Requests -> RequestRecords]
  /\ previews \subseteq [request: Requests, version: Versions, seen: Access]
  /\ audits \subseteq [before: Access, after: Access]
  /\ handler \in [Handlers -> HandlerRecords]
  /\ direct \in 0..MaxDirect /\ faults \in 0..MaxFaults
  /\ writes \in [Requests -> Nat] /\ held \subseteq Requests

(* "No un-audited privilege change can exist", whichever calls fail and      *)
(* whichever handler dies.                                                   *)
ChangesAreAudited ==
  [][claims' # claims => \E a \in audits : a.after = claims']_vars

(* Firebase is asked at most once for a request, and not at all for one that *)
(* is still, or again, open to every decision, or was turned down; a request *)
(* closes as applied only when its access was really active at some time,    *)
(* whoever closes it.                                                        *)
GrantedOnce ==
  \A r \in Requests :
    /\ writes[r] <= 1
    /\ request[r].state \in {"pending", "denied", "cancelled"} => writes[r] = 0
    /\ request[r].state = "applied" => r \in held

(* Types, and one write at most for a request, to be relied on.              *)
ApplyInv == TypeOK /\ GrantedOnce

(* A closed request stays as it is, also under a handler that comes late.    *)
ClosedStaysClosed ==
  [][\A r \in Requests : request[r].state \in Final => request'[r] = request[r]]_vars

(* A request some handler took up comes to its end, or back to review; what  *)
(* a dead handler left is reconciled and resolved.  Only while the requester *)
(* is there: the claims of one who has left cannot be read, and neither path *)
(* closes the request then.                                                  *)
ApprovalsEnd ==
  \A r \in Requests :
    request[r].state \in {"applying", "reconciliation_required"} ~>
      request[r].state \in {"pending"} \cup Final \/ ~present

-----------------------------------------------------------------------------
(* Claims the code does not keep                                             *)

(* "This access is active": what an applied request added stays, until an    *)
(* Admin decides otherwise in People and Access.                             *)
AppliedStands ==
  [][\A r \in Requests :
       request[r].state = "applied" /\ Satisfies(claims, Intent[r])
         /\ ~Satisfies(claims', Intent[r])
       => \E h \in Handlers : handler[h].pc = "changed"]_vars

(* A superseded request grants nothing any more.                             *)
SupersededGrantsNothing ==
  [][\A r \in Requests : writes'[r] > writes[r] => request[r].state # "superseded"]_vars

(* "The recorded previous->new transition is always correct".                *)
TransitionsAreCorrect ==
  [][claims' # claims => [before |-> claims, after |-> claims'] \in audits]_vars
=============================================================================
