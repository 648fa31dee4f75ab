--------------------------- MODULE Access_proofs ---------------------------
(***************************************************************************)
(* Theorems about the access requests of staff.                            *)
(*                                                                         *)
(* First, decisions on requests (AccessApply), for every set of requests,  *)
(* roles, spaces and overlapping handlers, and any number of faults.       *)
(* A request has at most one holder: the handler that claimed it and has   *)
(* not asked Firebase yet.  Only a holder can return the request to review, *)
(* and only a holder writes claims for it, once.  That a request closes as *)
(* applied only after its access was active rests on what handlers carry:  *)
(* a target made from the request's intent, and the claims they have seen. *)
(*                                                                         *)
(* Then, filing requests (AccessSubmission), for every number of           *)
(* submitters, intents and attempts.  FilingInv is inductive as it stands, *)
(* and the index answers an attempt the same way for ever.  StorageInv     *)
(* adds to the bound on stored attempts that there are finitely many, each *)
(* with a number of its own that was issued.                               *)
(***************************************************************************)
EXTENDS AccessApply, AccessSubmission, TLAPS, FiniteSetTheorems, WellFoundedInduction

Unsent == {"pending", "denied", "cancelled"}
Taken == {"applying", "reconciliation_required"}
Holding == {"auditing", "setting", "releasing"}
Carrying == {"satisfied", "claiming", "auditing", "releasing", "setting", "reading",
             "uncertain", "completing", "superseding"}

Audited(given) == \E a \in audits : a.after = given

(* What a handler carries.                                                   *)
HandlerInv(h) ==
  LET r == handler[h].request IN
  /\ handler[h].pc \in Carrying => r \in Requests
  /\ handler[h].pc \in {"claiming", "auditing", "setting", "reading"} =>
       Satisfies(handler[h].target, Intent[r])
  /\ handler[h].pc \in {"satisfied", "completing"} => r \in held
  /\ handler[h].pc \in Holding => request[r].state \notin Unsent /\ writes[r] = 0
  /\ handler[h].pc \in {"setting", "changed"} => Audited(handler[h].target)

Holds1(h, r) == handler[h].pc \in Holding /\ handler[h].request = r

Sole == \A g, h \in Handlers, r \in Requests : Holds1(g, r) /\ Holds1(h, r) => g = h

TargetsAreEnough ==
  \A r \in Requests : request[r].state \in Taken => Satisfies(request[r].target, Intent[r])

AccessInv ==
  /\ TypeOK
  /\ GrantedOnce
  /\ TargetsAreEnough
  /\ Holds(claims) \subseteq held
  /\ \A h \in Handlers : HandlerInv(h)
  /\ Sole

-----------------------------------------------------------------------------
(* Access                                                                    *)

(* What a decision makes of an access has all that was asked for.            *)
LEMMA PlanFacts ==
  ASSUME NEW given \in Access, NEW wanted \in Access
  PROVE  Plan(given, wanted) \in Access /\ Satisfies(Plan(given, wanted), wanted)
<1>1. /\ given.role \in Roles /\ wanted.role \in Roles
      /\ given.role \in Nat /\ wanted.role \in Nat
      /\ given.spaces \subseteq Spaces /\ wanted.spaces \subseteq Spaces
  BY AccessAssumption DEF Access
<1>2. /\ Greater(given.role, wanted.role) \in Roles
      /\ Greater(given.role, wanted.role) >= wanted.role
  BY <1>1 DEF Greater
<1> QED
  BY <1>1, <1>2 DEF Plan, Access, Satisfies

(* Having more than enough is enough.                                        *)
LEMMA SatisfiesTwice ==
  ASSUME NEW a \in Access, NEW b \in Access, NEW c \in Access,
         Satisfies(a, b), Satisfies(b, c)
  PROVE  Satisfies(a, c)
<1>1. a.role \in Nat /\ b.role \in Nat /\ c.role \in Nat
  BY AccessAssumption DEF Access
<1> QED
  BY <1>1 DEF Satisfies

-----------------------------------------------------------------------------
(* Records                                                                   *)

(* The fields have their types.                                              *)
LEMMA TypeFacts ==
  ASSUME TypeOK
  PROVE  /\ handler \in [Handlers -> HandlerRecords] /\ request \in [Requests -> RequestRecords]
         /\ claims \in Access
         /\ \A h \in Handlers :
              /\ handler[h] \in HandlerRecords
              /\ handler[h].request \in Requests \cup {NoRequest}
              /\ handler[h].version \in Versions \cup {NoExec}
              /\ handler[h].seen \in Access /\ handler[h].target \in Access
         /\ \A r \in Requests :
              /\ request[r] \in RequestRecords /\ request[r].version \in Versions
              /\ request[r].exec \in Versions \cup {NoExec} /\ request[r].target \in Access
              /\ Intent[r] \in Access /\ writes[r] \in Nat
              /\ Writable(r) => request[r].version + 1 \in Versions
BY AccessAssumption
  DEF TypeOK, HandlerRecords, RequestRecords, Versions, NoExec, Writable

(* What is counted stays within its bound.                                   *)
LEMMA CountFacts ==
  ASSUME TypeOK
  PROVE  /\ faults < MaxFaults => faults + 1 \in 0..MaxFaults
         /\ direct < MaxDirect => direct + 1 \in 0..MaxDirect
BY AccessAssumption DEF TypeOK

(* A handler that takes a record.                                            *)
LEMMA BecomesFacts ==
  ASSUME TypeOK, NEW h \in Handlers, NEW record \in HandlerRecords, Becomes(h, record)
  PROVE  /\ handler'[h] = record /\ \A g \in Handlers : g # h => handler'[g] = handler[g]
         /\ handler' \in [Handlers -> HandlerRecords]
BY DEF TypeOK, Becomes

(* The idle record is one, also with a request on it.                        *)
LEMMA IdleFacts == Idle \in HandlerRecords /\ Idle.pc = "idle"
BY AccessAssumption DEF Idle, HandlerRecords, NoRequest, NoExec

(* A handler that goes on.                                                   *)
LEMMA GoesFacts ==
  ASSUME TypeOK, NEW h \in Handlers, NEW pc, Goes(h, pc),
         pc \in Carrying \cup {"idle", "changing", "changed"}
  PROVE  /\ handler'[h].pc = pc /\ handler'[h].request = handler[h].request
         /\ handler'[h].target = handler[h].target /\ handler'[h].seen = handler[h].seen
         /\ handler'[h].version = handler[h].version
         /\ \A g \in Handlers : g # h => handler'[g] = handler[g]
         /\ handler' \in [Handlers -> HandlerRecords]
<1> DEFINE record == [handler[h] EXCEPT !.pc = pc]
<1>1. handler[h] \in HandlerRecords /\ handler \in [Handlers -> HandlerRecords]
  BY DEF TypeOK
<1>2. /\ record \in HandlerRecords /\ record.pc = pc /\ record.request = handler[h].request
      /\ record.target = handler[h].target /\ record.seen = handler[h].seen
      /\ record.version = handler[h].version
  BY <1>1 DEF HandlerRecords, Carrying
<1>3. handler' = [handler EXCEPT ![h] = record]
  BY <1>1 DEF Goes
<1> HIDE DEF record
<1> QED
  BY <1>1, <1>2, <1>3

(* A request that is written.                                                *)
LEMMA RequestFacts ==
  ASSUME TypeOK, NEW r \in Requests, NEW record \in RequestRecords,
         request' = [request EXCEPT ![r] = record]
  PROVE  /\ request'[r] = record /\ \A q \in Requests : q # r => request'[q] = request[q]
         /\ request' \in [Requests -> RequestRecords]
BY DEF TypeOK

(* A request that moves.                                                     *)
LEMMA MovesFacts ==
  ASSUME TypeOK, NEW r \in Requests, NEW state \in {"pending"} \cup Taken \cup Final,
         Writable(r), Moves(r, state)
  PROVE  /\ request'[r].state = state /\ request'[r].target = request[r].target
         /\ \A q \in Requests : q # r => request'[q] = request[q]
         /\ request' \in [Requests -> RequestRecords]
<1> DEFINE record == [request[r] EXCEPT !.state = state, !.version = request[r].version + 1]
<1>1. request[r] \in RequestRecords /\ request[r].version + 1 \in Versions
  BY TypeFacts
<1>2. record \in RequestRecords /\ record.state = state /\ record.target = request[r].target
  BY <1>1 DEF RequestRecords, Taken, Final
<1>3. request' = [request EXCEPT ![r] = record]
  BY DEF Moves, TypeOK
<1> HIDE DEF record
<1> QED
  BY <1>2, <1>3, RequestFacts

-----------------------------------------------------------------------------
(* What every step keeps                                                     *)

(* A request nobody else holds may do anything; one that is held goes on.    *)
SparesOthers(h) ==
  \A r \in Requests :
    \/ \A g \in Handlers : g # h => ~Holds1(g, r)
    \/ writes'[r] = writes[r] /\ (request'[r].state = request[r].state \/ request'[r].state \notin Unsent)

(* One handler moves and spares the others: only it has to be looked at.     *)
LEMMA OneMoves ==
  ASSUME AccessInv, NEW h \in Handlers,
         \A g \in Handlers : g # h => handler'[g] = handler[g],
         held \subseteq held', audits \subseteq audits', SparesOthers(h),
         HandlerInv(h)',
         \A r \in Requests : Holds1(h, r)' =>
           Holds1(h, r) \/ \A g \in Handlers : ~Holds1(g, r)
  PROVE  (\A g \in Handlers : HandlerInv(g)') /\ Sole'
<1>1. ASSUME NEW g \in Handlers, g # h PROVE HandlerInv(g)'
  <2>1. HandlerInv(g) /\ handler'[g] = handler[g]
    BY <1>1 DEF AccessInv
  <2>2. handler[g].pc \in Holding =>
          request'[handler[g].request].state \notin Unsent /\ writes'[handler[g].request] = 0
    <3> SUFFICES ASSUME handler[g].pc \in Holding
                 PROVE  /\ request'[handler[g].request].state \notin Unsent
                        /\ writes'[handler[g].request] = 0
      OBVIOUS
    <3>1. /\ handler[g].request \in Requests /\ Holds1(g, handler[g].request)
          /\ request[handler[g].request].state \notin Unsent
          /\ writes[handler[g].request] = 0
      BY <2>1 DEF HandlerInv, Holding, Carrying, Holds1
    <3> QED
      BY <1>1, <3>1 DEF SparesOthers
  <2>3. \A given : Audited(given) => Audited(given)'
    BY DEF Audited
  <2> QED
    BY <2>1, <2>2, <2>3 DEF HandlerInv
<1>2. Sole'
  BY DEF AccessInv, Sole, Holds1
<1> QED
  BY <1>1, <1>2

(* A handler that carries nothing has nothing to keep.                       *)
LEMMA IdleHandler ==
  ASSUME NEW h \in Handlers, handler'[h].pc \in {"idle", "changing"}
  PROVE  HandlerInv(h)' /\ \A r \in Requests : ~Holds1(h, r)'
BY DEF HandlerInv, Carrying, Holding, Holds1

(* A handler's step that writes nothing but its own record and audits.       *)
LEMMA QuietStep ==
  ASSUME AccessInv, NEW h \in Handlers,
         UNCHANGED <<claims, request, previews, writes, held>>,
         present' \in BOOLEAN, direct' \in 0..MaxDirect, faults' \in 0..MaxFaults,
         audits \subseteq audits', audits' \subseteq [before: Access, after: Access],
         \A g \in Handlers : g # h => handler'[g] = handler[g],
         handler' \in [Handlers -> HandlerRecords],
         HandlerInv(h)', \A r \in Requests : Holds1(h, r)' => Holds1(h, r)
  PROVE  AccessInv'
<1>1. TypeOK'
  BY DEF AccessInv, TypeOK
<1>2. GrantedOnce' /\ TargetsAreEnough' /\ (Holds(claims) \subseteq held)'
  BY DEF AccessInv, GrantedOnce, TargetsAreEnough, Holds
<1>3. SparesOthers(h)
  BY DEF SparesOthers
<1>4. (\A g \in Handlers : HandlerInv(g)') /\ Sole'
  BY <1>3, OneMoves
<1> QED
  BY <1>1, <1>2, <1>4 DEF AccessInv

(* A request is written, or not, at the end of a handler's work.             *)
LEMMA RequestStep ==
  ASSUME AccessInv, NEW h \in Handlers, NEW r \in Requests,
         UNCHANGED <<claims, present, previews, direct, faults, writes, held>>,
         audits \subseteq audits', audits' \subseteq [before: Access, after: Access],
         \A g \in Handlers : g # h => handler'[g] = handler[g],
         handler' \in [Handlers -> HandlerRecords], HandlerInv(h)',
         \A q \in Requests : Holds1(h, q)' => \A g \in Handlers : ~Holds1(g, q),
         request' \in [Requests -> RequestRecords],
         \A q \in Requests : q # r => request'[q] = request[q],
         request'[r] # request[r] =>
           /\ request'[r].state \in Unsent =>
                writes[r] = 0 /\ \A g \in Handlers : g # h => ~Holds1(g, r)
           /\ request'[r].state = "applied" => r \in held
           /\ request'[r].state \in Taken => Satisfies(request'[r].target, Intent[r])
  PROVE  AccessInv'
<1>1. TypeOK'
  BY DEF AccessInv, TypeOK
<1>2. GrantedOnce'
  <2> SUFFICES ASSUME NEW q \in Requests
               PROVE  /\ writes[q] <= 1
                      /\ request'[q].state \in Unsent => writes[q] = 0
                      /\ request'[q].state = "applied" => q \in held
    BY DEF GrantedOnce, Unsent
  <2>1. /\ writes[q] <= 1
        /\ request[q].state \in Unsent => writes[q] = 0
        /\ request[q].state = "applied" => q \in held
    BY DEF AccessInv, GrantedOnce, Unsent
  <2> QED
    BY <2>1
<1>3. TargetsAreEnough' /\ (Holds(claims) \subseteq held)'
  BY DEF AccessInv, TargetsAreEnough, Holds
<1>4. SparesOthers(h)
  BY DEF SparesOthers
<1>5. (\A g \in Handlers : HandlerInv(g)') /\ Sole'
  BY <1>4, OneMoves
<1> QED
  BY <1>1, <1>2, <1>3, <1>5 DEF AccessInv

(* Nothing is decided at first.                                              *)
LEMMA InitAccess == Init => AccessInv
<1> SUFFICES ASSUME Init PROVE AccessInv
  OBVIOUS
<1>1. TypeOK
  <2>1. [state |-> "pending", version |-> 1, exec |-> NoExec, target |-> First] \in RequestRecords
    BY AccessAssumption DEF RequestRecords, Versions
  <2>2. 0 \in 0..MaxDirect /\ 0 \in 0..MaxFaults /\ Holds(First) \subseteq Requests
    BY AccessAssumption DEF Holds
  <2> QED
    BY <2>1, <2>2, IdleFacts, AccessAssumption DEF Init, TypeOK
<1>2. \A r \in Requests : request[r].state = "pending" /\ writes[r] = 0
  BY DEF Init
<1>3. GrantedOnce /\ TargetsAreEnough /\ Holds(claims) \subseteq held
  BY <1>2 DEF Init, GrantedOnce, TargetsAreEnough, Taken
<1>4. (\A h \in Handlers : HandlerInv(h)) /\ Sole
  BY IdleFacts DEF Init, HandlerInv, Sole, Holds1, Carrying, Holding
<1> QED
  BY <1>1, <1>3, <1>4 DEF AccessInv

-----------------------------------------------------------------------------
(* Steps                                                                     *)

(* What is decided without a handler: nobody holds what is pending.          *)
LEMMA DecideStep ==
  ASSUME AccessInv, (\E r \in Requests : Decide(r)) \/ Leave
  PROVE  AccessInv'
<1>1. CASE UNCHANGED request
  <2>1. /\ UNCHANGED <<claims, request, audits, handler, direct, writes, held>>
        /\ previews' \subseteq [request: Requests, version: Versions, seen: Access]
        /\ present' \in BOOLEAN /\ faults' \in 0..MaxFaults
    <3>1. CASE Leave
      <4>1. /\ faults' \in 0..MaxFaults /\ present' \in BOOLEAN
            /\ UNCHANGED <<claims, request, previews, audits, handler, direct, writes, held>>
        BY <3>1, CountFacts DEF Leave, stored, ghosts, AccessInv
      <4> QED
        BY <4>1 DEF AccessInv, TypeOK
    <3>2. ASSUME NEW r \in Requests, SavePreview(r)
          PROVE  /\ UNCHANGED <<claims, request, audits, handler, direct, writes, held>>
                 /\ previews' \subseteq [request: Requests, version: Versions, seen: Access]
                 /\ present' \in BOOLEAN /\ faults' \in 0..MaxFaults
      BY <3>2, TypeFacts DEF SavePreview, ghosts, AccessInv, TypeOK
    <3>3. ASSUME NEW r \in Requests, NEW state, Writable(r), Moves(r, state) PROVE FALSE
      <4>1. request[r] \in RequestRecords /\ request[r].version \in Nat
        BY TypeFacts DEF AccessInv, Versions
      <4>2. request' = [request EXCEPT ![r] = [request[r] EXCEPT !.state = state,
                                                     !.version = request[r].version + 1]]
        BY <3>3 DEF Moves, AccessInv, TypeOK
      <4>3. request'[r].version = request[r].version + 1
        BY <4>1, <4>2 DEF RequestRecords, AccessInv, TypeOK
      <4> QED
        BY <1>1, <4>1, <4>3
    <3> QED
      BY <3>1, <3>2, <3>3 DEF Decide, SupersedePending, Decline
  <2>2. TypeOK'
    BY <2>1 DEF AccessInv, TypeOK
  <2> QED
    BY <2>1, <2>2
      DEF AccessInv, GrantedOnce, TargetsAreEnough, Holds, HandlerInv, Audited, Sole, Holds1
<1>2. ASSUME NEW r \in Requests, NEW state \in {"superseded", "denied", "cancelled"},
             request[r].state = "pending", Writable(r), Moves(r, state),
             UNCHANGED <<claims, present, previews, audits, handler, direct, faults, writes, held>>
      PROVE  AccessInv'
  <2>1. /\ request'[r].state = state /\ \A q \in Requests : q # r => request'[q] = request[q]
        /\ request' \in [Requests -> RequestRecords]
    BY <1>2, MovesFacts DEF AccessInv, Final
  <2>2. TypeOK'
    BY <1>2, <2>1 DEF AccessInv, TypeOK
  <2>3. writes[r] = 0
    BY <1>2 DEF AccessInv, GrantedOnce
  <2>4. GrantedOnce' /\ TargetsAreEnough' /\ (Holds(claims) \subseteq held)'
    BY <1>2, <2>1, <2>3 DEF AccessInv, GrantedOnce, TargetsAreEnough, Taken, Holds
  <2>5. \A h \in Handlers : handler[h].pc \in Holding => handler[h].request # r
    BY <1>2 DEF AccessInv, HandlerInv, Unsent
  <2>6. \A h \in Handlers : HandlerInv(h)'
    BY <1>2, <2>1, <2>5 DEF AccessInv, HandlerInv, Audited, Holding, Carrying
  <2>7. Sole'
    BY <1>2 DEF AccessInv, Sole, Holds1
  <2> QED
    BY <2>2, <2>4, <2>6, <2>7 DEF AccessInv
<1> QED
  BY <1>1, <1>2 DEF Decide, SavePreview, SupersedePending, Decline, Leave, stored, ghosts

(* A handler begins: with what it has seen of the claims.                    *)
LEMMA BeginStep ==
  ASSUME AccessInv, NEW h \in Handlers,
         \/ \E r \in Requests : SeeSatisfied(h, r) \/ Reconcile(h, r) \/ Resolve(h, r)
         \/ \E p \in previews : Apply(h, p)
         \/ \E given \in Access : DirectlyChange(h, given)
         \/ Die(h)
  PROVE  AccessInv'
<1>0. /\ UNCHANGED <<claims, present, request, previews, audits, writes, held>>
      /\ direct' \in 0..MaxDirect /\ faults' \in 0..MaxFaults
      /\ present' \in BOOLEAN /\ audits' \subseteq [before: Access, after: Access]
  <2>1. /\ UNCHANGED <<claims, present, request, previews, audits, writes, held>>
        /\ \/ UNCHANGED <<direct, faults>>
           \/ direct < MaxDirect /\ direct' = direct + 1 /\ UNCHANGED faults
           \/ faults < MaxFaults /\ faults' = faults + 1 /\ UNCHANGED direct
    BY DEF SeeSatisfied, Reconcile, Resolve, Apply, DirectlyChange, Die, stored, ghosts
  <2>2. direct' \in 0..MaxDirect /\ faults' \in 0..MaxFaults
    BY <2>1, CountFacts DEF AccessInv, TypeOK
  <2> QED
    BY <2>1, <2>2 DEF AccessInv, TypeOK
<1>1. ASSUME NEW record \in HandlerRecords, Becomes(h, record), record.pc \notin Holding,
             record.pc \in Carrying => record.request \in Requests,
             record.pc \in {"claiming", "reading"} =>
               Satisfies(record.target, Intent[record.request]),
             record.pc \in {"satisfied", "completing"} => record.request \in held,
             record.pc # "changed"
      PROVE  AccessInv'
  <2>1. /\ handler'[h] = record /\ \A g \in Handlers : g # h => handler'[g] = handler[g]
        /\ handler' \in [Handlers -> HandlerRecords]
    BY <1>1, BecomesFacts DEF AccessInv
  <2>2. HandlerInv(h)' /\ \A r \in Requests : ~Holds1(h, r)'
    BY <1>0, <1>1, <2>1 DEF HandlerInv, Holding, Holds1
  <2> QED
    BY <1>0, <2>1, <2>2, QuietStep
<1>2. CASE Die(h)
  BY <1>1, <1>2, IdleFacts DEF Die, Holding, Carrying
<1>3. ASSUME NEW given \in Access, DirectlyChange(h, given) PROVE AccessInv'
  <2> DEFINE record == [Idle EXCEPT !.pc = "changing", !.seen = claims, !.target = given]
  <2>1. Becomes(h, record)
    BY <1>3 DEF DirectlyChange
  <2>2. record \in HandlerRecords /\ record.pc = "changing"
    BY IdleFacts, TypeFacts DEF HandlerRecords, AccessInv
  <2> HIDE DEF record
  <2> QED
    BY <1>1, <2>1, <2>2 DEF Holding, Carrying
<1>4. ASSUME NEW p \in previews, Apply(h, p) PROVE AccessInv'
  <2> DEFINE target == Plan(claims, Intent[p.request])
             record == [pc |-> "claiming", request |-> p.request, version |-> p.version,
                        seen |-> claims, target |-> target]
  <2>1. p.request \in Requests /\ p.version \in Versions /\ Becomes(h, record)
    BY <1>4 DEF Apply, AccessInv, TypeOK
  <2>2. /\ claims \in Access /\ target \in Access
        /\ Satisfies(target, Intent[p.request])
    BY <2>1, PlanFacts, TypeFacts DEF AccessInv
  <2> HIDE DEF target
  <2>3. record \in HandlerRecords
    BY <2>1, <2>2 DEF HandlerRecords
  <2> QED
    BY <1>1, <2>1, <2>2, <2>3 DEF Holding
<1>5. ASSUME NEW r \in Requests, SeeSatisfied(h, r) PROVE AccessInv'
  <2> DEFINE record == [Idle EXCEPT !.pc = "satisfied", !.request = r,
                                    !.version = request[r].version, !.seen = claims]
  <2>1. Becomes(h, record) /\ r \in held
    BY <1>5 DEF SeeSatisfied, AccessInv, Holds
  <2>2. record \in HandlerRecords /\ record.pc = "satisfied" /\ record.request = r
    BY IdleFacts, TypeFacts DEF HandlerRecords, AccessInv
  <2> HIDE DEF record
  <2> QED
    BY <1>1, <2>1, <2>2 DEF Holding
<1>6. ASSUME NEW r \in Requests, NEW pc \in {"completing", "uncertain", "superseding"},
             NEW version \in Versions \cup {NoExec}, pc = "completing" => r \in held,
             Becomes(h, [Idle EXCEPT !.request = r, !.pc = pc, !.version = version])
      PROVE  AccessInv'
  <2> DEFINE record == [Idle EXCEPT !.request = r, !.pc = pc, !.version = version]
  <2>1. record \in HandlerRecords /\ record.pc = pc /\ record.request = r
    BY IdleFacts DEF HandlerRecords
  <2>2. Becomes(h, record)
    BY <1>6
  <2> HIDE DEF record
  <2> QED
    BY <1>1, <1>6, <2>1, <2>2 DEF Holding
<1>7. ASSUME NEW r \in Requests, request[r].state \in Taken, Satisfies(claims, request[r].target)
      PROVE  r \in held
  <2>1. Satisfies(request[r].target, Intent[r])
    BY <1>7 DEF AccessInv, TargetsAreEnough
  <2>2. claims \in Access /\ request[r].target \in Access /\ Intent[r] \in Access
    BY TypeFacts DEF AccessInv
  <2>3. Satisfies(claims, Intent[r])
    BY <1>7, <2>1, <2>2, SatisfiesTwice
  <2> QED
    BY <2>3 DEF AccessInv, Holds
<1>8. ASSUME NEW r \in Requests, Reconcile(h, r) PROVE AccessInv'
  <2> PICK pc \in {"completing", "uncertain"} :
        pc = IF present /\ claims = request[r].target THEN "completing" ELSE "uncertain"
    OBVIOUS
  <2>1. Becomes(h, [Idle EXCEPT !.request = r, !.pc = pc, !.version = request[r].exec])
    <3>1. [Idle EXCEPT !.request = r, !.pc = pc, !.version = request[r].exec] =
            [Idle EXCEPT !.request = r, !.version = request[r].exec, !.pc = pc]
      BY IdleFacts DEF HandlerRecords
    <3> QED
      BY <1>8, <3>1 DEF Reconcile
  <2>2. request[r].state \in Taken /\ request[r].exec \in Versions \cup {NoExec}
    BY <1>8, TypeFacts DEF Reconcile, Taken, AccessInv
  <2>3. pc = "completing" => r \in held
    <3>1. claims = request[r].target => Satisfies(claims, Intent[r])
      BY <2>2 DEF AccessInv, TargetsAreEnough
    <3> QED
      BY <3>1 DEF AccessInv, Holds
  <2> QED
    BY <1>6, <2>1, <2>2, <2>3
<1>9. ASSUME NEW r \in Requests, Resolve(h, r) PROVE AccessInv'
  <2> PICK satisfied \in BOOLEAN : satisfied = Satisfies(claims, request[r].target)
    BY DEF Satisfies
  <2> PICK pc \in {"completing", "superseding"} :
        pc = IF satisfied THEN "completing" ELSE "superseding"
    OBVIOUS
  <2> PICK version : version = IF satisfied THEN request[r].exec ELSE request[r].version
    OBVIOUS
  <2>1. Becomes(h, [Idle EXCEPT !.request = r, !.pc = pc, !.version = version])
    BY <1>9 DEF Resolve
  <2>2. request[r].state \in Taken /\ version \in Versions \cup {NoExec}
    BY <1>9, TypeFacts DEF Resolve, Taken, AccessInv
  <2>3. pc = "completing" => r \in held
    BY <1>7, <2>2
  <2> QED
    BY <1>6, <2>1, <2>2, <2>3
<1> QED
  BY <1>2, <1>3, <1>4, <1>5, <1>8, <1>9

(* A handler goes on, and writes an audit at most.                           *)
LEMMA ProceedStep ==
  ASSUME AccessInv, NEW h \in Handlers,
         Audit(h) \/ AuditFails(h) \/ SetFails(h) \/ ReadBack(h) \/ AuditChange(h)
  PROVE  AccessInv'
<1> DEFINE r == handler[h].request
           target == handler[h].target
<1>0. /\ handler[h] \in HandlerRecords /\ handler[h].seen \in Access /\ target \in Access
      /\ HandlerInv(h)
  BY TypeFacts DEF AccessInv
<1>1. /\ UNCHANGED <<claims, present, request, previews, writes, held, direct>>
      /\ faults' \in 0..MaxFaults
  <2>1. /\ UNCHANGED <<claims, present, request, previews, writes, held, direct>>
        /\ \/ UNCHANGED faults
           \/ faults < MaxFaults /\ faults' = faults + 1
    <3>1. CASE Audit(h) \/ AuditChange(h)
      BY <3>1 DEF Audit, AuditChange, stored, ghosts
    <3>2. CASE AuditFails(h)
      BY <3>2 DEF AuditFails, stored, ghosts
    <3>3. CASE SetFails(h)
      BY <3>3 DEF SetFails, stored, ghosts
    <3>4. CASE ReadBack(h)
      BY <3>4 DEF ReadBack, stored, ghosts
    <3> QED
      BY <3>1, <3>2, <3>3, <3>4
  <2> QED
    BY <2>1, CountFacts DEF AccessInv, TypeOK
<1>2. /\ audits \subseteq audits' /\ audits' \subseteq [before: Access, after: Access]
      /\ Audit(h) \/ AuditChange(h) => Audited(target)'
  <2>1. CASE Audit(h) \/ AuditChange(h)
    <3>1. audits' = audits \cup {[before |-> handler[h].seen, after |-> target]}
      BY <2>1 DEF Audit, AuditChange
    <3>2. target' = target
      BY <2>1, GoesFacts DEF Audit, AuditChange, AccessInv, Carrying
    <3>3. [before |-> handler[h].seen, after |-> target] \in [before: Access, after: Access]
      BY <1>0
    <3>4. [before |-> handler[h].seen, after |-> target].after = target
      OBVIOUS
    <3> QED
      BY <3>1, <3>2, <3>3, <3>4 DEF AccessInv, TypeOK, Audited
  <2>2. CASE ~(Audit(h) \/ AuditChange(h))
    <3>1. UNCHANGED audits
      BY <2>2 DEF AuditFails, SetFails, ReadBack
    <3> QED
      BY <2>2, <3>1 DEF AccessInv, TypeOK
  <2> QED
    BY <2>1, <2>2
<1>3. ASSUME NEW pc \in Carrying \cup {"changed"}, Goes(h, pc),
             pc \in Carrying => handler[h].pc \in Carrying,
             pc \in {"setting", "reading"} => handler[h].pc \in {"auditing", "setting", "reading"},
             pc \notin {"claiming", "auditing", "satisfied"},
             pc = "completing" => r \in held,
             pc \in Holding => handler[h].pc \in Holding,
             pc \in {"setting", "changed"} => Audited(target)'
      PROVE  AccessInv'
  <2>1. /\ handler'[h].pc = pc /\ handler'[h].request = r /\ handler'[h].target = target
        /\ \A g \in Handlers : g # h => handler'[g] = handler[g]
        /\ handler' \in [Handlers -> HandlerRecords]
    BY <1>3, GoesFacts DEF AccessInv
  <2>2. HandlerInv(h)'
    BY <1>0, <1>1, <1>3, <2>1 DEF HandlerInv, Audited
  <2>3. \A q \in Requests : Holds1(h, q)' => Holds1(h, q)
    BY <1>3, <2>1 DEF Holds1
  <2> QED
    BY <1>1, <1>2, <2>1, <2>2, <2>3, QuietStep DEF AccessInv, TypeOK
<1>4. CASE Audit(h)
  <2>1. handler[h].pc = "auditing" /\ Goes(h, "setting") /\ Audited(target)'
    BY <1>2, <1>4 DEF Audit
  <2> QED
    BY <1>3, <2>1 DEF Carrying, Holding
<1>5. CASE AuditFails(h)
  BY <1>3, <1>5 DEF AuditFails, Carrying, Holding
<1>6. CASE SetFails(h)
  BY <1>3, <1>6 DEF SetFails, Carrying, Holding
<1>7. CASE ReadBack(h)
  <2>1. handler[h].pc = "reading"
    BY <1>7 DEF ReadBack
  <2>2. r \in Requests /\ Satisfies(target, Intent[r])
    BY <1>0, <2>1 DEF HandlerInv, Carrying
  <2>3. \/ claims = target /\ Goes(h, "completing")
        \/ Goes(h, "uncertain")
    BY <1>7 DEF ReadBack
  <2>4. claims = target => r \in held
    BY <2>2 DEF AccessInv, Holds
  <2> QED
    BY <1>3, <2>1, <2>3, <2>4 DEF Carrying, Holding
<1>8. CASE AuditChange(h)
  <2>1. Goes(h, "changed") /\ Audited(target)'
    BY <1>2, <1>8 DEF AuditChange
  <2> QED
    BY <1>3, <2>1 DEF Carrying, Holding
<1> QED
  BY <1>4, <1>5, <1>6, <1>7, <1>8

(* A handler ends with a write to its request, unless somebody was first.    *)
LEMMA EndStep ==
  ASSUME AccessInv, NEW h \in Handlers,
         \/ CloseSatisfied(h) \/ Release(h) \/ Complete(h) \/ MarkUncertain(h) \/ Supersede(h)
  PROVE  AccessInv'
<1> DEFINE r == handler[h].request
<1>0. HandlerInv(h) /\ handler[h].seen \in Access
  BY TypeFacts DEF AccessInv
<1>1. r \in Requests /\ Writable(r) /\ Becomes(h, Idle)
  <2>1. handler[h].pc \in Carrying
    BY DEF CloseSatisfied, Release, Complete, MarkUncertain, Supersede, Completes, Carrying
  <2> QED
    BY <1>0, <2>1
      DEF CloseSatisfied, Release, Complete, MarkUncertain, Supersede, Completes, HandlerInv
<1>2. UNCHANGED <<claims, present, previews, direct, faults, writes, held>>
  BY DEF CloseSatisfied, Release, Complete, MarkUncertain, Supersede, Completes, ghosts
<1>3. audits \subseteq audits' /\ audits' \subseteq [before: Access, after: Access]
  <2>1. \/ audits' = audits \cup {[before |-> handler[h].seen, after |-> handler[h].seen]}
        \/ UNCHANGED audits
    BY DEF CloseSatisfied, Release, Complete, MarkUncertain, Supersede, Completes
  <2> QED
    BY <1>0, <2>1 DEF AccessInv, TypeOK
<1>4. /\ \A g \in Handlers : g # h => handler'[g] = handler[g]
      /\ handler' \in [Handlers -> HandlerRecords]
      /\ HandlerInv(h)' /\ \A q \in Requests : ~Holds1(h, q)'
  BY <1>1, IdleFacts, BecomesFacts, IdleHandler DEF AccessInv
<1>5. ASSUME request' \in [Requests -> RequestRecords],
             \A q \in Requests : q # r => request'[q] = request[q],
             request'[r] # request[r] =>
               /\ request'[r].state \in Unsent =>
                    writes[r] = 0 /\ \A g \in Handlers : g # h => ~Holds1(g, r)
               /\ request'[r].state = "applied" => r \in held
               /\ request'[r].state \in Taken => Satisfies(request'[r].target, Intent[r])
      PROVE  AccessInv'
  BY <1>1, <1>2, <1>3, <1>4, <1>5, RequestStep
<1>6. CASE UNCHANGED request
  BY <1>5, <1>6 DEF AccessInv, TypeOK
<1>7. ASSUME NEW state \in {"pending"} \cup Taken \cup Final, Moves(r, state),
             state \in Unsent => Holds1(h, r),
             state = "applied" => r \in held,
             state \in Taken => request[r].state \in Taken
      PROVE  AccessInv'
  <2>1. /\ request'[r].state = state /\ request'[r].target = request[r].target
        /\ \A q \in Requests : q # r => request'[q] = request[q]
        /\ request' \in [Requests -> RequestRecords]
    BY <1>1, <1>7, MovesFacts DEF AccessInv
  <2>2. state \in Taken => Satisfies(request[r].target, Intent[r])
    BY <1>1, <1>7 DEF AccessInv, TargetsAreEnough
  <2>3. state \in Unsent => writes[r] = 0 /\ \A g \in Handlers : g # h => ~Holds1(g, r)
    BY <1>0, <1>1, <1>7 DEF AccessInv, Sole, Holds1, HandlerInv
  <2> QED
    BY <1>5, <1>7, <2>1, <2>2, <2>3
<1>8. CASE CloseSatisfied(h) /\ ~UNCHANGED request
  <2> DEFINE record == [state |-> "applied", version |-> request[r].version + 1,
                        exec |-> request[r].version + 1, target |-> handler[h].seen]
  <2>1. r \in held
    BY <1>0, <1>8 DEF CloseSatisfied, HandlerInv
  <2>2. request' = [request EXCEPT ![r] = record]
    BY <1>8 DEF CloseSatisfied, AccessInv, TypeOK
  <2>3. record \in RequestRecords /\ record.state = "applied"
    BY <1>0, <1>1, TypeFacts DEF RequestRecords, Final, AccessInv
  <2> HIDE DEF record
  <2>4. /\ request'[r] = record /\ \A q \in Requests : q # r => request'[q] = request[q]
        /\ request' \in [Requests -> RequestRecords]
    BY <1>1, <2>2, <2>3, RequestFacts DEF AccessInv
  <2> QED
    BY <1>5, <2>1, <2>3, <2>4 DEF Unsent, Taken
<1>9. CASE Release(h) /\ ~UNCHANGED request
  <2>1. Moves(r, "pending") /\ Holds1(h, r)
    BY <1>9 DEF Release, Holds1, Holding
  <2> QED
    BY <1>7, <2>1 DEF Taken
<1>10. CASE Complete(h) /\ ~UNCHANGED request
  <2>1. Moves(r, "applied") /\ r \in held
    BY <1>0, <1>10 DEF Complete, Completes, HandlerInv
  <2> QED
    BY <1>7, <2>1 DEF Taken, Unsent, Final
<1>11. CASE MarkUncertain(h) /\ ~UNCHANGED request
  <2>1. Moves(r, "reconciliation_required") /\ request[r].state \in Taken
    BY <1>11 DEF MarkUncertain, Completes, Taken
  <2> QED
    BY <1>7, <2>1 DEF Taken, Unsent
<1>12. CASE Supersede(h) /\ ~UNCHANGED request
  <2>1. Moves(r, "superseded")
    BY <1>12 DEF Supersede
  <2> QED
    BY <1>7, <2>1 DEF Taken, Unsent, Final
<1> QED
  BY <1>6, <1>8, <1>9, <1>10, <1>11, <1>12

(* A handler takes a request that is open: nobody held it.                   *)
LEMMA ClaimStep ==
  ASSUME AccessInv, NEW h \in Handlers, ClaimRequest(h)
  PROVE  AccessInv'
<1> DEFINE r == handler[h].request
           version == request[r].version + 1
           claimed == [state |-> "applying", version |-> version, exec |-> version,
                       target |-> handler[h].target]
           record == [handler[h] EXCEPT !.pc = "auditing", !.version = version]
<1>0. /\ HandlerInv(h) /\ handler[h].pc = "claiming" /\ handler[h].target \in Access
      /\ handler[h] \in HandlerRecords /\ r \in Requests /\ version \in Versions
      /\ Satisfies(handler[h].target, Intent[r])
  BY TypeFacts DEF AccessInv, ClaimRequest, HandlerInv, Carrying
<1>1. UNCHANGED <<claims, present, previews, audits, direct, faults, writes, held>>
  BY DEF ClaimRequest, ghosts
<1>2. CASE /\ request[r].state = "pending"
           /\ request' = [request EXCEPT ![r] = claimed]
           /\ handler' = [handler EXCEPT ![h].pc = "auditing", ![h].version = version]
  <2>1. claimed \in RequestRecords /\ claimed.state = "applying"
        /\ claimed.target = handler[h].target
    BY <1>0 DEF RequestRecords
  <2>2. /\ record \in HandlerRecords /\ record.pc = "auditing" /\ record.request = r
        /\ record.target = handler[h].target
    BY <1>0 DEF HandlerRecords
  <2>3. Becomes(h, record)
    BY <1>2 DEF Becomes, AccessInv, TypeOK
  <2> HIDE DEF claimed, record
  <2>4. /\ request'[r] = claimed /\ \A q \in Requests : q # r => request'[q] = request[q]
        /\ request' \in [Requests -> RequestRecords]
    BY <1>0, <1>2, <2>1, RequestFacts DEF AccessInv
  <2>5. /\ handler'[h] = record /\ \A g \in Handlers : g # h => handler'[g] = handler[g]
        /\ handler' \in [Handlers -> HandlerRecords]
    BY <2>2, <2>3, BecomesFacts DEF AccessInv
  <2>6. writes[r] = 0 /\ \A g \in Handlers : ~Holds1(g, r)
    BY <1>0, <1>2 DEF AccessInv, GrantedOnce, HandlerInv, Holds1, Unsent
  <2>7. HandlerInv(h)'
    BY <1>0, <1>1, <2>1, <2>2, <2>4, <2>5, <2>6 DEF HandlerInv, Unsent
  <2>8. \A q \in Requests : Holds1(h, q)' => \A g \in Handlers : ~Holds1(g, q)
    BY <2>2, <2>5, <2>6 DEF Holds1
  <2> QED
    BY <1>0, <1>1, <2>1, <2>4, <2>5, <2>7, <2>8, RequestStep DEF AccessInv, TypeOK, Unsent
<1>3. CASE Becomes(h, Idle) /\ UNCHANGED request
  <2>1. /\ \A g \in Handlers : g # h => handler'[g] = handler[g]
        /\ handler' \in [Handlers -> HandlerRecords]
        /\ HandlerInv(h)' /\ \A q \in Requests : ~Holds1(h, q)'
    BY <1>3, IdleFacts, BecomesFacts, IdleHandler DEF AccessInv
  <2> QED
    BY <1>1, <1>3, <2>1, QuietStep DEF AccessInv, TypeOK
<1> QED
  BY <1>2, <1>3 DEF ClaimRequest

(* The claims are written: what the holder was to add is there, and the      *)
(* request has had its one write.                                            *)
LEMMA ClaimsStep ==
  ASSUME AccessInv, NEW h \in Handlers, SetClaims(h) \/ StoreChange(h)
  PROVE  AccessInv'
<1> DEFINE r == handler[h].request
           target == handler[h].target
<1>0. HandlerInv(h) /\ target \in Access
  BY TypeFacts DEF AccessInv
<1>1. /\ UNCHANGED <<present, request, previews, audits, direct>>
      /\ claims' \in Access /\ (Holds(claims) \subseteq held)'
      /\ held \subseteq held' /\ held' \subseteq Requests
  <2>1. UNCHANGED <<present, request, previews, audits, direct>>
    BY DEF SetClaims, StoreChange, stored
  <2>2. \/ claims' = target /\ held' = held \cup Holds(target)
        \/ UNCHANGED <<claims, held>>
    BY DEF SetClaims, StoreChange, Store
  <2> QED
    BY <1>0, <2>1, <2>2 DEF AccessInv, TypeOK, Holds
<1>2. CASE StoreChange(h)
  <2>1. UNCHANGED <<faults, writes>> /\ Becomes(h, Idle)
    BY <1>2 DEF StoreChange
  <2>2. /\ \A g \in Handlers : g # h => handler'[g] = handler[g]
        /\ handler' \in [Handlers -> HandlerRecords]
        /\ HandlerInv(h)' /\ \A q \in Requests : ~Holds1(h, q)'
    BY <2>1, IdleFacts, BecomesFacts, IdleHandler DEF AccessInv
  <2>3. TypeOK'
    BY <1>1, <2>1, <2>2 DEF AccessInv, TypeOK
  <2>4. GrantedOnce' /\ TargetsAreEnough'
    BY <1>1, <2>1 DEF AccessInv, GrantedOnce, TargetsAreEnough
  <2>5. SparesOthers(h)
    BY <1>1, <2>1 DEF SparesOthers
  <2>6. (\A g \in Handlers : HandlerInv(g)') /\ Sole'
    BY <1>1, <2>2, <2>5, OneMoves
  <2> QED
    BY <1>1, <2>3, <2>4, <2>6 DEF AccessInv
<1>3. CASE SetClaims(h)
  <2>1. /\ handler[h].pc = "setting" /\ r \in Requests /\ Holds1(h, r)
        /\ request[r].state \notin Unsent /\ writes[r] = 0
    BY <1>0, <1>3 DEF SetClaims, HandlerInv, Holding, Carrying, Holds1
  <2>2. /\ writes' = [writes EXCEPT ![r] = writes[r] + 1]
        /\ writes'[r] = 1 /\ \A q \in Requests : q # r => writes'[q] = writes[q]
        /\ writes' \in [Requests -> Nat]
    BY <1>3, <2>1 DEF SetClaims, AccessInv, TypeOK
  <2>3. faults' \in 0..MaxFaults
    BY <1>3, CountFacts DEF SetClaims, AccessInv, TypeOK
  <2>4. PICK pc \in {"reading", "uncertain"} : Goes(h, pc)
    BY <1>3 DEF SetClaims
  <2>5. /\ handler'[h].pc = pc /\ handler'[h].request = r /\ handler'[h].target = target
        /\ \A g \in Handlers : g # h => handler'[g] = handler[g]
        /\ handler' \in [Handlers -> HandlerRecords]
    BY <2>4, GoesFacts DEF AccessInv, Carrying
  <2>6. TypeOK'
    BY <1>1, <2>2, <2>3, <2>5 DEF AccessInv, TypeOK
  <2>7. GrantedOnce'
    <3> SUFFICES ASSUME NEW q \in Requests
                 PROVE  /\ writes'[q] <= 1
                        /\ request'[q].state \in Unsent => writes'[q] = 0
                        /\ request'[q].state = "applied" => q \in held'
      BY DEF GrantedOnce, Unsent
    <3>1. /\ writes[q] <= 1
          /\ request[q].state \in Unsent => writes[q] = 0
          /\ request[q].state = "applied" => q \in held
      BY DEF AccessInv, GrantedOnce, Unsent
    <3> QED
      BY <1>1, <2>1, <2>2, <3>1
  <2>8. TargetsAreEnough'
    BY <1>1 DEF AccessInv, TargetsAreEnough
  <2>9. SparesOthers(h)
    BY <1>1, <2>1, <2>2 DEF SparesOthers, AccessInv, Sole
  <2>10. HandlerInv(h)' /\ \A q \in Requests : ~Holds1(h, q)'
    BY <1>0, <2>1, <2>5 DEF HandlerInv, Holds1, Holding, Carrying
  <2>11. (\A g \in Handlers : HandlerInv(g)') /\ Sole'
    BY <1>1, <2>5, <2>9, <2>10, OneMoves
  <2> QED
    BY <1>1, <2>6, <2>7, <2>8, <2>11 DEF AccessInv
<1> QED
  BY <1>2, <1>3

(* Every step keeps it.                                                      *)
LEMMA NextAccess == AccessInv /\ [Next]_vars => AccessInv'
<1> SUFFICES ASSUME AccessInv, [Next]_vars PROVE AccessInv'
  OBVIOUS
<1>1. CASE (\E r \in Requests : Decide(r)) \/ Leave
  BY <1>1, DecideStep
<1>2. ASSUME NEW h \in Handlers,
             \/ \E r \in Requests : SeeSatisfied(h, r) \/ Reconcile(h, r) \/ Resolve(h, r)
             \/ \E p \in previews : Apply(h, p)
             \/ \E given \in Access : DirectlyChange(h, given)
             \/ Die(h)
      PROVE  AccessInv'
  BY <1>2, BeginStep
<1>3. ASSUME NEW h \in Handlers, Proceed(h) PROVE AccessInv'
  BY <1>3, ProceedStep, EndStep, ClaimStep, ClaimsStep DEF Proceed
<1>4. CASE UNCHANGED vars
  BY <1>4 DEF vars, AccessInv, TypeOK, GrantedOnce, TargetsAreEnough, Holds, HandlerInv, Audited,
    Sole, Holds1
<1> QED
  BY <1>1, <1>2, <1>3, <1>4 DEF Next

-----------------------------------------------------------------------------
(* What follows                                                              *)

(* One holder at most, one write at most, and no request closed as applied   *)
(* whose access was never active: in every reachable state.                  *)
THEOREM AccessKept == Spec => []AccessInv
BY InitAccess, NextAccess, PTL DEF Spec

(* Firebase is asked at most once for a request; one that is open, denied or *)
(* cancelled was not asked for; one closed as applied had been active.       *)
THEOREM GrantsStayExact == Spec => []ApplyInv
<1>1. AccessInv => ApplyInv
  BY DEF AccessInv, ApplyInv
<1> QED
  BY <1>1, AccessKept, PTL

(* Whoever writes the claims, an audit record of that access is there first. *)
THEOREM ChangesStayAudited == Spec => ChangesAreAudited
<1>1. AccessInv /\ [Next]_vars => [claims' # claims => \E a \in audits : a.after = claims']_vars
  <2> SUFFICES ASSUME AccessInv, Next, claims' # claims
               PROVE  \E a \in audits : a.after = claims'
    BY DEF vars
  <2>1. PICK h \in Handlers : SetClaims(h) \/ StoreChange(h)
    BY DEF Next, Decide, SavePreview, SupersedePending, Decline, SeeSatisfied, Reconcile, Resolve,
      Apply, Proceed, CloseSatisfied, ClaimRequest, Audit, AuditFails, Release, SetFails, ReadBack,
      Complete, MarkUncertain, Completes, Supersede, AuditChange, Die, DirectlyChange, Leave
  <2>2. /\ handler[h].pc \in {"setting", "changed"} /\ claims' = handler[h].target
    BY <2>1 DEF SetClaims, StoreChange, Store
  <2> QED
    BY <2>2 DEF AccessInv, HandlerInv, Audited
<1> QED
  BY <1>1, AccessKept, PTL DEF Spec, ChangesAreAudited

(* No handler, however late, changes a request that is closed.               *)
THEOREM ClosedRequestsStay == Spec => ClosedStaysClosed
<1>1. AccessInv /\ [Next]_vars =>
        [\A r \in Requests : request[r].state \in Final => request'[r] = request[r]]_vars
  <2> SUFFICES ASSUME AccessInv, Next, NEW r \in Requests, request[r].state \in Final
               PROVE  request'[r] = request[r]
    BY DEF vars
  <2>1. CASE UNCHANGED request
    BY <2>1
  <2>2. ASSUME NEW q \in Requests \cup {NoRequest}, NEW record, request[q].state \notin Final,
               request' = [request EXCEPT ![q] = record]
        PROVE  request'[r] = request[r]
    BY <2>2 DEF AccessInv, TypeOK
  <2>3. ASSUME NEW q \in Requests \cup {NoRequest}, NEW state, request[q].state \notin Final,
               Moves(q, state)
        PROVE  request'[r] = request[r]
    BY <2>3 DEF AccessInv, TypeOK, Moves
  <2>4. \A q \in Requests \cup {NoRequest} :
          request[q].state \in {"pending"} \cup Taken => request[q].state \notin Final
    BY DEF Taken, Final
  <2>5. CASE \E q \in Requests : Decide(q)
    BY <2>1, <2>3, <2>4, <2>5 DEF Decide, SavePreview, SupersedePending, Decline
  <2>6. ASSUME NEW h \in Handlers, Proceed(h) PROVE request'[r] = request[r]
    <3> DEFINE q == handler[h].request
    <3>0. q \in Requests \cup {NoRequest}
      BY TypeFacts DEF AccessInv
    <3>1. CASE CloseSatisfied(h)
      BY <2>1, <2>2, <2>4, <3>0, <3>1 DEF CloseSatisfied
    <3>2. CASE ClaimRequest(h)
      BY <2>1, <2>2, <2>4, <3>0, <3>2 DEF ClaimRequest
    <3>3. CASE Release(h) \/ Complete(h) \/ MarkUncertain(h) \/ Supersede(h)
      BY <2>1, <2>3, <2>4, <3>0, <3>3 DEF Release, Complete, MarkUncertain, Completes, Supersede, Taken
    <3>4. CASE \/ Audit(h) \/ AuditFails(h) \/ SetClaims(h) \/ SetFails(h) \/ ReadBack(h)
               \/ AuditChange(h) \/ StoreChange(h)
      BY <2>1, <3>4 DEF Audit, AuditFails, SetClaims, SetFails, ReadBack, AuditChange, StoreChange,
        stored
    <3> QED
      BY <2>6, <3>1, <3>2, <3>3, <3>4 DEF Proceed
  <2> QED
    BY <2>1, <2>5, <2>6
      DEF Next, SeeSatisfied, Reconcile, Resolve, Apply, Die, DirectlyChange, Leave, stored
<1> QED
  BY <1>1, AccessKept, PTL DEF Spec, ClosedStaysClosed

-----------------------------------------------------------------------------
(* Filing requests                                                           *)

(* A submitter that is answered.                                             *)
LEMMA AnsweredType ==
  ASSUME FilingTypeOK, NEW s \in Submitters, NEW answer \in Answers,
         NEW told \in Attempts \cup {None}, Answered(s, answer, told)
  PROVE  submitter' \in [Submitters -> SubmitterRecords]
<1> DEFINE record == [pc |-> "idle", id |-> submitter[s].id, answer |-> answer, told |-> told]
<1>1. submitter[s] \in SubmitterRecords /\ submitter \in [Submitters -> SubmitterRecords]
  BY DEF FilingTypeOK
<1>2. record \in SubmitterRecords
  BY <1>1 DEF SubmitterRecords
<1>3. submitter' = [submitter EXCEPT ![s] = record]
  BY DEF Answered
<1> HIDE DEF record
<1> QED
  BY <1>1, <1>2, <1>3

(* Nothing is stored at first.                                               *)
LEMMA InitFiling == FilingInit => FilingInv
<1> SUFFICES ASSUME FilingInit PROVE FilingInv
  OBVIOUS
<1>1. DOMAIN requests = {} /\ DOMAIN index = {}
  BY DEF FilingInit
<1>2. 0 \in 0..MaxAttempts /\ 0 \in 0..MaxChanges
  BY SubmissionAssumption
<1>3. NoSubmit \in SubmitterRecords
  BY DEF NoSubmit, SubmitterRecords, Answers
<1>4. FilingTypeOK
  BY <1>1, <1>2, <1>3 DEF FilingInit, FilingTypeOK
<1>5. PointerIsExact /\ IndexIsExact /\ RequestsAreIndexed
  BY <1>1 DEF FilingInit, PointerIsExact, IndexIsExact, RequestsAreIndexed
<1> QED
  BY <1>4, <1>5 DEF FilingInv

(* What leaves requests, pointers and index alone keeps what is said of them.*)
LEMMA UntouchedFiling ==
  ASSUME FilingInv, UNCHANGED <<active, requests, index>>, FilingTypeOK'
  PROVE  FilingInv'
BY DEF FilingInv, PointerIsExact, IndexIsExact, RequestsAreIndexed

(* A preview, old or new, is of its kind.                                    *)
LEMMA SavePreviewStep ==
  ASSUME FilingInv, NEW i \in Intents, SavePreviewAttempt(i)
  PROVE  FilingInv'
<1> DEFINE fresh == [id |-> issued + 1, intent |-> i, base |-> access, open |-> TRUE]
<1>1. UNCHANGED <<active, requests, index, access, submitter>>
  BY DEF SavePreviewAttempt
<1>2. \/ attempt' \subseteq attempt /\ UNCHANGED <<previewOf, issued>>
      \/ /\ issued < MaxAttempts /\ issued' = issued + 1
         /\ attempt' \subseteq attempt \cup {fresh}
         /\ previewOf' = [previewOf EXCEPT ![i] = issued + 1]
  BY DEF SavePreviewAttempt
<1>3. FilingTypeOK /\ issued \in 0..MaxAttempts
  BY DEF FilingInv, FilingTypeOK
<1>4. CASE attempt' \subseteq attempt /\ UNCHANGED <<previewOf, issued>>
  <2>1. FilingTypeOK'
    BY <1>1, <1>3, <1>4 DEF FilingTypeOK
  <2> QED
    BY <1>1, <2>1, UntouchedFiling
<1>5. CASE /\ issued < MaxAttempts /\ issued' = issued + 1
           /\ attempt' \subseteq attempt \cup {fresh}
           /\ previewOf' = [previewOf EXCEPT ![i] = issued + 1]
  <2>1. issued + 1 \in Attempts /\ issued + 1 \in 0..MaxAttempts
    BY <1>3, <1>5, SubmissionAssumption DEF Attempts
  <2>2. fresh \in AttemptRecords
    BY <1>3, <2>1 DEF AttemptRecords, FilingTypeOK
  <2> HIDE DEF fresh
  <2>3. FilingTypeOK'
    BY <1>1, <1>3, <1>5, <2>1, <2>2 DEF FilingTypeOK
  <2> QED
    BY <1>1, <2>3, UntouchedFiling
<1> QED
  BY <1>2, <1>4, <1>5

(* Attempts expire and the person's access changes.                          *)
LEMMA MeanwhileStep ==
  ASSUME FilingInv, (\E a \in attempt : Expire(a)) \/ ChangeAccess
  PROVE  FilingInv'
<1>1. CASE ChangeAccess
  <2>1. access + 1 \in 0..MaxChanges
    BY <1>1, SubmissionAssumption DEF FilingInv, FilingTypeOK, ChangeAccess
  <2>2. FilingTypeOK'
    BY <1>1, <2>1 DEF FilingInv, FilingTypeOK, ChangeAccess
  <2> QED
    BY <1>1, <2>2, UntouchedFiling DEF ChangeAccess
<1>2. ASSUME NEW a \in attempt, Expire(a) PROVE FilingInv'
  <2>1. [a EXCEPT !.open = FALSE] \in AttemptRecords
    BY DEF FilingInv, FilingTypeOK, AttemptRecords
  <2>2. FilingTypeOK'
    BY <1>2, <2>1 DEF FilingInv, FilingTypeOK, Expire
  <2> QED
    BY <1>2, <2>2, UntouchedFiling DEF Expire
<1> QED
  BY <1>1, <1>2

(* A submit that has not reached the store.                                  *)
LEMMA SubmitStep ==
  ASSUME FilingInv, NEW s \in Submitters,
         (\E id \in Attempts : Submit(s, id)) \/ ReadPreview(s) \/ Lose(s)
  PROVE  FilingInv'
<1>1. UNCHANGED <<attempt, previewOf, active, requests, index, issued, access>>
  BY DEF Submit, ReadPreview, Lose
<1>2. FilingTypeOK /\ submitter[s] \in SubmitterRecords /\ submitter \in [Submitters -> SubmitterRecords]
  BY DEF FilingInv, FilingTypeOK
<1>3. submitter' \in [Submitters -> SubmitterRecords]
  <2>1. CASE Lose(s)
    BY <1>2, <2>1 DEF Lose, NoSubmit, SubmitterRecords, Answers
  <2>2. CASE ReadPreview(s)
    <3>1. CASE Answered(s, "not_committed", None)
      BY <1>2, <3>1, AnsweredType DEF Answers
    <3>2. CASE submitter' = [submitter EXCEPT ![s].pc = "committing"]
      <4> DEFINE record == [submitter[s] EXCEPT !.pc = "committing"]
      <4>1. submitter' = [submitter EXCEPT ![s] = record]
        BY <1>2, <3>2
      <4>2. record \in SubmitterRecords
        BY <1>2 DEF SubmitterRecords
      <4> HIDE DEF record
      <4> QED
        BY <1>2, <4>1, <4>2
    <3> QED
      BY <2>2, <3>1, <3>2 DEF ReadPreview
  <2>3. ASSUME NEW id \in Attempts, Submit(s, id)
        PROVE  submitter' \in [Submitters -> SubmitterRecords]
    <3> DEFINE record ==
          IF id \in DOMAIN index
          THEN [pc |-> "idle", id |-> id, answer |-> "filed", told |-> index[id].request]
          ELSE [NoSubmit EXCEPT !.pc = "reading", !.id = id]
    <3>1. submitter' = [submitter EXCEPT ![s] = record]
      BY <2>3 DEF Submit
    <3>2. id \in DOMAIN index => index[id].request \in Attempts
      BY <1>2 DEF FilingTypeOK, IndexRecords
    <3>3. record \in SubmitterRecords
      BY <3>2 DEF NoSubmit, SubmitterRecords, Answers
    <3> HIDE DEF record
    <3> QED
      BY <1>2, <3>1, <3>3
  <2> QED
    BY <2>1, <2>2, <2>3
<1>4. FilingTypeOK'
  BY <1>1, <1>2, <1>3 DEF FilingTypeOK
<1> QED
  BY <1>1, <1>4, UntouchedFiling

(* The part of a commit that files attempt a under a request.                *)
Files(s, id, a, filed) ==
  /\ id = submitter[s].id /\ a = CHOOSE b \in Stored(id) : TRUE
  /\ filed = IF Joins(a.intent) THEN active[a.intent] ELSE id
  /\ Stored(id) # {} /\ id \notin DOMAIN index
  /\ requests' = IF Joins(a.intent) THEN requests
                ELSE With(requests, id, [intent |-> a.intent, open |-> TRUE])
  /\ active' = IF Joins(a.intent) THEN active ELSE [active EXCEPT ![a.intent] = id]
  /\ index' = With(index, id, [created |-> ~Joins(a.intent), request |-> filed])
  /\ attempt' = attempt \ {a}
  /\ previewOf' = [previewOf EXCEPT ![a.intent] = IF @ = id THEN None ELSE @]
  /\ Answered(s, "filed", filed)
  /\ UNCHANGED <<issued, access>>

(* A commit that files: it joins the one active request, or creates one      *)
(* where there is none.                                                      *)
LEMMA FileStep ==
  ASSUME FilingInv, NEW s \in Submitters, NEW id, NEW a, NEW filed, Files(s, id, a, filed)
  PROVE  FilingInv'
<1>1. /\ FilingTypeOK /\ a \in attempt /\ a.id = id /\ id \in Attempts /\ a.intent \in Intents
      /\ id # None
  <2>1. FilingTypeOK
    BY DEF FilingInv
  <2>2. a \in attempt /\ a.id = id
    BY DEF Files, Stored
  <2>3. a \in AttemptRecords
    BY <2>1, <2>2 DEF FilingTypeOK
  <2>4. a.id \in Attempts /\ a.intent \in Intents
    BY <2>3 DEF AttemptRecords
  <2>5. a.id # None
    BY <2>4, SubmissionAssumption DEF Attempts, None
  <2> QED
    BY <2>1, <2>2, <2>4, <2>5
<1> DEFINE i == a.intent
           entry == [created |-> ~Joins(i), request |-> filed]
           new == [intent |-> i, open |-> TRUE]
<1>2. id \notin DOMAIN requests /\ filed = IF Joins(i) THEN active[i] ELSE id
  BY DEF Files, FilingInv, RequestsAreIndexed
<1>3. filed \in Attempts /\ (Joins(i) => filed \in DOMAIN requests /\ filed = active[i])
  <2>1. CASE ~Joins(i)
    BY <1>1, <1>2, <2>1
  <2>2. CASE Joins(i)
    <3>1. active[i] \in {active[i]} \ {None}
      BY <2>2 DEF Joins
    <3>2. active[i] \in {r \in DOMAIN requests : requests[r].open /\ requests[r].intent = i}
      BY <1>1, <3>1 DEF FilingInv, PointerIsExact
    <3>3. filed = active[i] /\ active[i] \in DOMAIN requests
      BY <1>2, <2>2, <3>2
    <3> QED
      BY <1>1, <3>3 DEF FilingTypeOK
  <2> QED
    BY <2>1, <2>2
<1>4. entry \in IndexRecords /\ new \in FiledRecords /\ entry.request = filed
      /\ (entry.created <=> ~Joins(i)) /\ new.intent = i /\ new.open = TRUE
  BY <1>1, <1>3 DEF IndexRecords, FiledRecords
<1>5. /\ index' = With(index, id, entry)
      /\ requests' = IF Joins(i) THEN requests ELSE With(requests, id, new)
      /\ active' = IF Joins(i) THEN active ELSE [active EXCEPT ![i] = id]
      /\ filed = IF Joins(i) THEN active[i] ELSE id
      /\ i \in Intents /\ attempt' = attempt \ {a}
      /\ Answered(s, "filed", filed) /\ UNCHANGED <<issued, access>>
  BY <1>1 DEF Files
<1>6. previewOf' \in [Intents -> Attempts \cup {None}]
  BY <1>1 DEF Files, FilingTypeOK
<1> HIDE DEF entry, new, i
<1>7. /\ DOMAIN index' = DOMAIN index \cup {id} /\ index'[id] = entry
      /\ \A x \in DOMAIN index : x # id => index'[x] = index[x]
  <2>1. index' = With(index, id, entry)
    BY <1>5
  <2>2. /\ DOMAIN With(index, id, entry) = DOMAIN index \cup {id}
        /\ With(index, id, entry)[id] = entry
        /\ \A x \in DOMAIN index : x # id => With(index, id, entry)[x] = index[x]
    BY DEF With
  <2> QED
    BY <2>1, <2>2
<1>8. ~Joins(i) =>
        /\ DOMAIN requests' = DOMAIN requests \cup {id} /\ requests'[id] = new
        /\ \A r \in DOMAIN requests : r # id => requests'[r] = requests[r]
  <2> SUFFICES ASSUME ~Joins(i)
               PROVE  /\ DOMAIN requests' = DOMAIN requests \cup {id} /\ requests'[id] = new
                      /\ \A r \in DOMAIN requests : r # id => requests'[r] = requests[r]
    OBVIOUS
  <2>1. requests' = With(requests, id, new)
    BY <1>5
  <2>2. /\ DOMAIN With(requests, id, new) = DOMAIN requests \cup {id}
        /\ With(requests, id, new)[id] = new
        /\ \A r \in DOMAIN requests : r # id => With(requests, id, new)[r] = requests[r]
    BY DEF With
  <2> QED
    BY <2>1, <2>2
<1>9. FilingTypeOK'
  <2>1. submitter' \in [Submitters -> SubmitterRecords]
    BY <1>1, <1>3, <1>5, AnsweredType DEF Answers
  <2>2. active' \in [Intents -> Attempts \cup {None}]
    BY <1>1, <1>5 DEF FilingTypeOK
  <2>3. DOMAIN requests' \subseteq Attempts /\ \A r \in DOMAIN requests' : requests'[r] \in FiledRecords
    BY <1>1, <1>4, <1>5, <1>8 DEF FilingTypeOK
  <2>4. DOMAIN index' \subseteq Attempts /\ \A x \in DOMAIN index' : index'[x] \in IndexRecords
    BY <1>1, <1>4, <1>7 DEF FilingTypeOK
  <2>5. attempt' \subseteq AttemptRecords
    BY <1>1, <1>5 DEF FilingTypeOK
  <2> QED
    BY <1>1, <1>5, <1>6, <2>1, <2>2, <2>3, <2>4, <2>5 DEF FilingTypeOK
<1>10. PointerIsExact'
  <2>1. CASE Joins(i)
    <3>1. requests' = requests /\ active' = active
      BY <1>5, <2>1
    <3>2. PointerIsExact
      BY DEF FilingInv
    <3> QED
      BY ONLY <3>1, <3>2 DEF PointerIsExact
  <2>2. CASE ~Joins(i)
    <3>1. {r \in DOMAIN requests : requests[r].open /\ requests[r].intent = i} = {}
      BY <1>5, <2>2 DEF FilingInv, PointerIsExact, Joins
    <3>2. active'[i] = id /\ \A j \in Intents : j # i => active'[j] = active[j]
      BY <1>1, <1>5, <2>2 DEF FilingTypeOK
    <3> SUFFICES ASSUME NEW j \in Intents
                 PROVE {r \in DOMAIN requests' : requests'[r].open /\ requests'[r].intent = j} =
                         {active'[j]} \ {None}
      BY DEF PointerIsExact
    <3>3. CASE j = i
      <4>1. /\ DOMAIN requests' = DOMAIN requests \cup {id} /\ requests'[id] = new
            /\ \A r \in DOMAIN requests : requests'[r] = requests[r]
        BY <1>2, <1>8, <2>2
      <4>2. {r \in DOMAIN requests' : requests'[r].open /\ requests'[r].intent = i} = {id}
        <5>1. \A r \in DOMAIN requests : ~(requests[r].open /\ requests[r].intent = i)
          BY <3>1
        <5>2. \A r \in DOMAIN requests' : r # id => r \in DOMAIN requests /\ requests'[r] = requests[r]
          BY <4>1
        <5>3. \A r \in DOMAIN requests' : (requests'[r].open /\ requests'[r].intent = i) <=> r = id
          <6>1. new.intent = i /\ new.open
            BY <1>4
          <6> QED
            BY ONLY <4>1, <5>1, <5>2, <6>1
        <5> QED
          BY <4>1, <5>3
      <4> QED
        BY <1>1, <3>2, <3>3, <4>2
    <3>4. CASE j # i
      <4>1. {r \in DOMAIN requests : requests[r].open /\ requests[r].intent = j} =
              {active[j]} \ {None}
        BY DEF FilingInv, PointerIsExact
      <4>2. /\ DOMAIN requests' = DOMAIN requests \cup {id} /\ requests'[id] = new
            /\ \A r \in DOMAIN requests : requests'[r] = requests[r]
        BY <1>2, <1>8, <2>2
      <4>3. {r \in DOMAIN requests' : requests'[r].open /\ requests'[r].intent = j} =
              {r \in DOMAIN requests : requests[r].open /\ requests[r].intent = j}
        BY <1>4, <3>4, <4>2
      <4> QED
        BY <3>2, <3>4, <4>1, <4>3
    <3> QED
      BY <3>3, <3>4
  <2> QED
    BY <2>1, <2>2
<1>11. IndexIsExact'
  <2>1. filed \in DOMAIN requests' /\ (entry.created <=> filed = id)
    BY <1>2, <1>3, <1>4, <1>5, <1>8
  <2>2. DOMAIN requests \subseteq DOMAIN requests'
    BY <1>5, <1>8
  <2> SUFFICES ASSUME NEW x \in DOMAIN index'
               PROVE  /\ index'[x].request \in DOMAIN requests'
                      /\ index'[x].created <=> index'[x].request = x
    BY DEF IndexIsExact
  <2>3. CASE x = id
    BY <1>4, <1>7, <2>1, <2>3
  <2>4. CASE x # id
    <3>1. x \in DOMAIN index /\ index'[x] = index[x]
      BY <1>7, <2>4
    <3> QED
      BY <2>2, <3>1 DEF FilingInv, IndexIsExact
  <2> QED
    BY <2>3, <2>4
<1>12. RequestsAreIndexed'
  <2> SUFFICES ASSUME NEW r \in DOMAIN requests'
               PROVE  r \in DOMAIN index' /\ index'[r].created
    BY DEF RequestsAreIndexed
  <2>1. CASE r \in DOMAIN requests
    <3>1. r \in DOMAIN index /\ index[r].created
      BY <2>1 DEF FilingInv, RequestsAreIndexed
    <3> QED
      BY <1>5, <1>7, <3>1 DEF Files
  <2>2. CASE r \notin DOMAIN requests
    <3>1. ~Joins(i) /\ r = id
      BY <1>5, <1>8, <2>2
    <3> QED
      BY <1>4, <1>7, <3>1
  <2> QED
    BY <2>1, <2>2
<1> QED
  BY <1>9, <1>10, <1>11, <1>12 DEF FilingInv

(* A commit files, answers from the index, or finds the attempt gone.        *)
LEMMA CommitStep ==
  ASSUME FilingInv, NEW s \in Submitters, Commit(s)
  PROVE  FilingInv'
<1>1. CASE UNCHANGED <<attempt, previewOf, active, requests, index>>
  <2>1. FilingTypeOK /\ UNCHANGED <<issued, access>>
    BY DEF FilingInv, Commit
  <2>2. submitter' \in [Submitters -> SubmitterRecords]
    <3>1. CASE Answered(s, "none", None)
      BY <2>1, <3>1, AnsweredType DEF Answers
    <3>2. CASE /\ submitter[s].id \in DOMAIN index
               /\ Answered(s, "filed", index[submitter[s].id].request)
      <4>1. index[submitter[s].id].request \in Attempts
        BY <2>1, <3>2 DEF FilingTypeOK, IndexRecords
      <4> QED
        BY <2>1, <3>2, <4>1, AnsweredType DEF Answers
    <3>3. CASE Stored(submitter[s].id) # {} /\ submitter[s].id \notin DOMAIN index
      <4> DEFINE id == submitter[s].id
                 a == CHOOSE b \in Stored(id) : TRUE
      <4>1. index' = With(index, id, [created |-> ~Joins(a.intent),
                                      request |-> IF Joins(a.intent) THEN active[a.intent] ELSE id])
        BY <3>3 DEF Commit
      <4> HIDE DEF a
      <4>2. id \in DOMAIN index'
        BY <4>1 DEF With
      <4>3. index' = index
        BY <1>1
      <4> QED
        BY <3>3, <4>2, <4>3
    <3> QED
      BY <3>1, <3>2, <3>3 DEF Commit
  <2>3. FilingTypeOK'
    BY <1>1, <2>1, <2>2 DEF FilingTypeOK
  <2> QED
    BY <1>1, <2>3, UntouchedFiling
<1>2. CASE ~UNCHANGED <<attempt, previewOf, active, requests, index>>
  BY <1>2, FileStep DEF Commit, Files
<1> QED
  BY <1>1, <1>2

(* A request that closes frees its intent.                                   *)
LEMMA CloseStep ==
  ASSUME FilingInv, NEW r \in DOMAIN requests, Close(r)
  PROVE  FilingInv'
<1> DEFINE i == requests[r].intent
           closed == [requests[r] EXCEPT !.open = FALSE]
<1>1. /\ FilingTypeOK /\ requests[r] \in FiledRecords /\ requests[r].open
      /\ requests' = [requests EXCEPT ![r] = closed]
      /\ active' = [active EXCEPT ![i] = None]
      /\ UNCHANGED <<attempt, previewOf, index, issued, access, submitter>>
  BY DEF Close, FilingInv, FilingTypeOK
<1>2. closed \in FiledRecords /\ closed.intent = i /\ closed.open = FALSE /\ i \in Intents
  BY <1>1 DEF FiledRecords
<1> HIDE DEF closed, i
<1>3. /\ DOMAIN requests' = DOMAIN requests /\ requests'[r] = closed
      /\ \A q \in DOMAIN requests : q # r => requests'[q] = requests[q]
      /\ active'[i] = None /\ \A j \in Intents : j # i => active'[j] = active[j]
      /\ active' \in [Intents -> Attempts \cup {None}]
  BY <1>1, <1>2 DEF FilingTypeOK
<1>4. FilingTypeOK'
  BY <1>1, <1>2, <1>3 DEF FilingTypeOK
<1>5. IndexIsExact' /\ RequestsAreIndexed'
  BY <1>1, <1>3 DEF FilingInv, IndexIsExact, RequestsAreIndexed
<1>6. PointerIsExact'
  <2> SUFFICES ASSUME NEW j \in Intents
               PROVE {q \in DOMAIN requests' : requests'[q].open /\ requests'[q].intent = j} =
                       {active'[j]} \ {None}
    BY DEF PointerIsExact
  <2>1. {q \in DOMAIN requests : requests[q].open /\ requests[q].intent = j} = {active[j]} \ {None}
    BY DEF FilingInv, PointerIsExact
  <2>2. r \in {q \in DOMAIN requests : requests[q].open /\ requests[q].intent = i}
    BY <1>1 DEF i
  <2>3. CASE j = i
    <3>1. {q \in DOMAIN requests : requests[q].open /\ requests[q].intent = i} = {r}
      BY <2>1, <2>2, <2>3
    <3> QED
      BY <1>2, <1>3, <2>3, <3>1
  <2>4. CASE j # i
    BY <1>2, <1>3, <2>1, <2>4 DEF i
  <2> QED
    BY <2>3, <2>4
<1> QED
  BY <1>4, <1>5, <1>6 DEF FilingInv

(* One step of anyone.                                                       *)
LEMMA NextFiling == FilingInv /\ [FilingNext]_filingVars => FilingInv'
<1> SUFFICES ASSUME FilingInv, [FilingNext]_filingVars PROVE FilingInv'
  OBVIOUS
<1>1. CASE UNCHANGED filingVars
  BY <1>1, UntouchedFiling DEF filingVars, FilingInv, FilingTypeOK
<1> QED
  BY <1>1, SavePreviewStep, MeanwhileStep, SubmitStep, CommitStep, CloseStep DEF FilingNext

(* An intent has at most one active request, its pointer names that one, and *)
(* the index leads every repetition to a request that is there.              *)
THEOREM FilingKept == FilingSpec => []FilingInv
BY InitFiling, NextFiling, PTL DEF FilingSpec

(* An entry of the index is never replaced.                                  *)
THEOREM AnswersStay == FilingSpec => AnswersAgree
<1>1. FilingInv /\ [FilingNext]_filingVars =>
        [\A a \in DOMAIN index : a \in DOMAIN index' /\ index'[a] = index[a]]_filingVars
  <2> SUFFICES ASSUME [FilingNext]_filingVars
               PROVE  \A a \in DOMAIN index : a \in DOMAIN index' /\ index'[a] = index[a]
    OBVIOUS
  <2>1. CASE UNCHANGED index
    BY <2>1
  <2>2. CASE \E s \in Submitters : Commit(s) /\ ~UNCHANGED index
    <3> PICK s \in Submitters : Commit(s) /\ ~UNCHANGED index
      BY <2>2
    <3> DEFINE id == submitter[s].id
               a == CHOOSE b \in Stored(id) : TRUE
               entry == [created |-> ~Joins(a.intent),
                         request |-> IF Joins(a.intent) THEN active[a.intent] ELSE id]
    <3>1. id \notin DOMAIN index /\ index' = With(index, id, entry)
      BY DEF Commit
    <3> HIDE DEF entry, id
    <3>2. /\ DOMAIN With(index, id, entry) = DOMAIN index \cup {id}
          /\ \A x \in DOMAIN index : x # id => With(index, id, entry)[x] = index[x]
      BY DEF With
    <3> QED
      BY <3>1, <3>2
  <2> QED
    BY <2>1, <2>2
      DEF FilingNext, filingVars, SavePreviewAttempt, Expire, ChangeAccess, Submit, ReadPreview, Lose, Close
<1> QED
  BY <1>1, FilingKept, PTL DEF FilingSpec, AnswersAgree

-----------------------------------------------------------------------------
(* The stored attempts                                                       *)

(* A number is issued once, an intent has one attempt, and there are few:    *)
(* what savePreviewAttempt takes away makes room for what it adds.           *)
StorageInv ==
  /\ StorageIsBounded
  /\ IsFiniteSet(attempt)
  /\ \A a \in attempt : a.id <= issued
  /\ \A a, b \in attempt : a.id = b.id => a = b

(* A set of attempts has an oldest one.                                      *)
LEMMA OldestFacts ==
  ASSUME FilingTypeOK, StorageInv, NEW S \in SUBSET attempt, S # {}, NEW n \in Nat, n >= 1
  PROVE  Oldest(S, n) # {}
<1> DEFINE ids == {a.id : a \in S}
<1>1. ids \in SUBSET Nat /\ ids # {}
  BY DEF FilingTypeOK, AttemptRecords, Attempts
<1>2. IsWellFoundedOn(OpToRel(<, Nat), Nat)
  BY NatLessThanWellFounded
<1>3. PICK id \in ids : \A j \in ids : ~(<<j, id>> \in OpToRel(<, Nat))
  BY <1>1, <1>2, WFMin
<1>4. \A j \in ids : ~(j < id)
  BY <1>1, <1>3 DEF OpToRel
<1>5. PICK a \in S : a.id = id
  OBVIOUS
<1>6. \A b \in S : b.id \in Nat /\ ~(b.id < a.id)
  BY <1>1, <1>4, <1>5
<1>7. \A b \in S : b.id <= a.id => b.id = a.id
  BY <1>6
<1>8. \A b \in S : b.id = a.id => b = a
  BY DEF StorageInv
<1>9. {b \in S : b.id <= a.id} = {a}
  BY <1>6, <1>7, <1>8
<1>10. Cardinality({b \in S : b.id <= a.id}) <= n
  BY <1>9, FS_Singleton
<1> QED
  BY <1>10 DEF Oldest

(* Some attempts go.                                                         *)
LEMMA FewerAttempts ==
  ASSUME StorageInv, FilingTypeOK, attempt' \subseteq attempt, UNCHANGED issued
  PROVE  StorageInv'
<1>1. attempt' \in SUBSET attempt /\ IsFiniteSet(attempt)
  BY DEF StorageInv
<1>2. /\ IsFiniteSet(attempt') /\ Cardinality(attempt') <= Cardinality(attempt)
  BY <1>1, FS_Subset
<1>3. Cardinality(attempt') \in Nat /\ Cardinality(attempt) \in Nat /\ OpenLimit \in Nat
  BY <1>1, <1>2, FS_CardinalityType, SubmissionAssumption
<1> QED
  BY <1>2, <1>3 DEF StorageInv, StorageIsBounded

(* A new preview finds room.                                                 *)
LEMMA PreviewKeepsStorage ==
  ASSUME StorageInv, FilingTypeOK, NEW i \in Intents, SavePreviewAttempt(i)
  PROVE  StorageInv'
<1> DEFINE reuse == {a \in Stored(previewOf[i]) : a.open /\ a.base = access}
           replaced == {a \in attempt : a.intent = i} \ reuse
           kept == OpenOnes(attempt \ replaced)
           limit == IF reuse = {} THEN OpenLimit - 1 ELSE OpenLimit
           crowded == Oldest(kept, Cardinality(kept) - limit)
           expired == (attempt \ replaced) \ kept
           old == Oldest(expired, OpenLimit - Cardinality(replaced \cup crowded))
           left == attempt \ (replaced \cup crowded \cup old)
           fresh == [id |-> issued + 1, intent |-> i, base |-> access, open |-> TRUE]
<1>0. /\ IsFiniteSet(attempt) /\ Cardinality(attempt) <= OpenLimit /\ OpenLimit \in Nat
      /\ OpenLimit >= 1 /\ Cardinality(attempt) \in Nat /\ issued \in Nat
  BY FS_CardinalityType, SubmissionAssumption DEF StorageInv, StorageIsBounded, FilingTypeOK
<1>1. \/ attempt' = left /\ UNCHANGED issued
      \/ reuse = {} /\ issued' = issued + 1 /\ attempt' = left \cup {fresh}
  BY DEF SavePreviewAttempt
<1>2. left \in SUBSET attempt /\ kept \in SUBSET attempt /\ expired \in SUBSET attempt
      /\ replaced \subseteq attempt
  BY DEF OpenOnes
<1>3. ASSUME reuse = {}, Cardinality(attempt) = OpenLimit PROVE left # attempt
  <2> SUFFICES ASSUME replaced \cup crowded \cup old = {} PROVE FALSE
    <3>1. replaced \cup crowded \cup old \subseteq attempt
      BY <1>2 DEF Oldest
    <3> QED
      BY <3>1
  <2>1. replaced = {} /\ crowded = {} /\ old = {} /\ limit = OpenLimit - 1
    BY <1>3
  <2>2. attempt = kept \cup expired /\ replaced \cup crowded = {}
    BY <1>2, <2>1
  <2>3. Cardinality(replaced \cup crowded) = 0
    BY <2>2, FS_EmptySet
  <2>4. expired = {}
    <3> SUFFICES ASSUME expired # {} PROVE FALSE
      OBVIOUS
    <3>1. OpenLimit - Cardinality(replaced \cup crowded) = OpenLimit
      BY <1>0, <2>3
    <3> HIDE DEF expired
    <3>2. Oldest(expired, OpenLimit) # {}
      BY <1>0, <1>2, OldestFacts
    <3> QED
      BY <2>1, <3>1, <3>2
  <2>5. kept = attempt
    BY <2>2, <2>4
  <2>6. Cardinality(kept) - limit = 1
    BY <1>0, <1>3, <2>1, <2>5
  <2>7. kept # {}
    BY <1>0, <1>3, <2>5, FS_EmptySet
  <2> HIDE DEF kept
  <2>8. Oldest(kept, 1) # {}
    BY <1>2, <2>7, OldestFacts
  <2> QED
    BY <2>1, <2>6, <2>8
<1>4. ASSUME reuse = {} PROVE \A a \in left : a.intent # i
  BY <1>4
<1> HIDE DEF left, fresh, reuse
<1>5. CASE attempt' = left /\ UNCHANGED issued
  BY <1>2, <1>5, FewerAttempts
<1>6. CASE reuse = {} /\ issued' = issued + 1 /\ attempt' = left \cup {fresh}
  <2>1. /\ IsFiniteSet(left) /\ Cardinality(left) <= Cardinality(attempt)
        /\ Cardinality(attempt) = Cardinality(left) => left = attempt
    BY <1>0, <1>2, FS_Subset
  <2>2. Cardinality(left) \in Nat
    BY <2>1, FS_CardinalityType
  <2>3. Cardinality(left) + 1 <= OpenLimit
    BY <1>0, <1>3, <1>6, <2>1, <2>2
  <2>4. /\ IsFiniteSet(attempt')
        /\ Cardinality(attempt') = IF fresh \in left THEN Cardinality(left) ELSE Cardinality(left) + 1
    BY <1>6, <2>1, FS_AddElement
  <2>5. Cardinality(attempt') <= OpenLimit
    BY <1>0, <2>2, <2>3, <2>4
  <2>6. fresh.id = issued + 1 /\ fresh.intent = i
    BY DEF fresh
  <2>7. \A a \in left : a.id <= issued /\ a.id \in Nat /\ a.intent # i
    BY <1>2, <1>4, <1>6 DEF StorageInv, FilingTypeOK, AttemptRecords, Attempts
  <2>8. \A a \in attempt' : a.id <= issued'
    BY <1>0, <1>6, <2>6, <2>7
  <2>9. \A a, b \in attempt' : a.id = b.id \/ a.intent = b.intent => a = b
    BY <1>0, <1>2, <1>6, <2>6, <2>7 DEF StorageInv, StorageIsBounded
  <2> QED
    BY <2>4, <2>5, <2>8, <2>9 DEF StorageInv, StorageIsBounded
<1> QED
  BY <1>1, <1>5, <1>6

(* An attempt that expires stays in its place.                               *)
LEMMA ExpireKeepsStorage ==
  ASSUME StorageInv, FilingTypeOK, NEW a \in attempt, Expire(a)
  PROVE  StorageInv'
<1> DEFINE closed == [a EXCEPT !.open = FALSE]
           rest == attempt \ {a}
<1>0. /\ IsFiniteSet(attempt) /\ Cardinality(attempt) <= OpenLimit /\ OpenLimit \in Nat
      /\ Cardinality(attempt) \in Nat
  BY FS_CardinalityType, SubmissionAssumption DEF StorageInv, StorageIsBounded
<1>1. attempt' = rest \cup {closed} /\ UNCHANGED issued
  BY DEF Expire
<1>2. closed.id = a.id /\ closed.intent = a.intent
  BY DEF FilingTypeOK, AttemptRecords
<1>3. IsFiniteSet(rest) /\ Cardinality(rest) = Cardinality(attempt) - 1
  BY <1>0, FS_RemoveElement
<1>4. \A b \in rest : b \in attempt /\ b # a
  OBVIOUS
<1> HIDE DEF closed, rest
<1>5. /\ IsFiniteSet(attempt')
      /\ Cardinality(attempt') = IF closed \in rest THEN Cardinality(rest) ELSE Cardinality(rest) + 1
  BY <1>1, <1>3, FS_AddElement
<1>6. Cardinality(attempt') <= OpenLimit
  BY <1>0, <1>3, <1>5
<1>7. \A b \in attempt' : b.id <= issued
  BY <1>1, <1>2, <1>4 DEF StorageInv
<1>8. \A b, c \in attempt' : b.id = c.id \/ b.intent = c.intent => b = c
  BY <1>1, <1>2, <1>4 DEF StorageInv, StorageIsBounded
<1> QED
  BY <1>1, <1>5, <1>6, <1>7, <1>8 DEF StorageInv, StorageIsBounded

(* StorageIsBounded of the run: the attempts of a person never exceed the    *)
(* number at which the read of savePreviewAttempt gives up.                  *)
THEOREM AttemptsStayFew == FilingSpec => []StorageIsBounded
<1>1. FilingInit => StorageInv
  BY FS_EmptySet, SubmissionAssumption DEF FilingInit, StorageInv, StorageIsBounded
<1>2. StorageInv /\ FilingInv /\ [FilingNext]_filingVars => StorageInv'
  <2> SUFFICES ASSUME StorageInv, FilingInv, [FilingNext]_filingVars PROVE StorageInv'
    OBVIOUS
  <2>0. FilingTypeOK
    BY DEF FilingInv
  <2>1. ASSUME NEW i \in Intents, SavePreviewAttempt(i) PROVE StorageInv'
    BY <2>0, <2>1, PreviewKeepsStorage
  <2>2. ASSUME NEW a \in attempt, Expire(a) PROVE StorageInv'
    BY <2>0, <2>2, ExpireKeepsStorage
  <2>3. ASSUME attempt' \subseteq attempt, UNCHANGED issued PROVE StorageInv'
    BY <2>0, <2>3, FewerAttempts
  <2>4. CASE UNCHANGED filingVars
    BY <2>3, <2>4 DEF filingVars
  <2>5. ASSUME NEW s \in Submitters, Commit(s) PROVE StorageInv'
    BY <2>3, <2>5 DEF Commit
  <2> QED
    BY <2>1, <2>2, <2>3, <2>4, <2>5 DEF FilingNext, ChangeAccess, Submit, ReadPreview, Lose, Close
<1>3. StorageInv => StorageIsBounded
  BY DEF StorageInv
<1> QED
  BY <1>1, <1>2, <1>3, FilingKept, PTL DEF FilingSpec
=============================================================================
