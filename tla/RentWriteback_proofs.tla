----------------------- MODULE RentWriteback_proofs -----------------------
(***************************************************************************)
(* Theorems about the Admin stop, for every set of keys, operations,       *)
(* Admins and effects, and for any delay and repetition of operations;     *)
(* then about the updates of one lease that the stop governs, for every    *)
(* set of effects and handlers, and for any number of proposals, previews, *)
(* edits and deaths.  The first part speaks of RuntimeSuspension alone     *)
(* (its Spec and vars); the lease's updates implement it, and so inherit   *)
(* its theorems.                                                           *)
(*                                                                         *)
(* StopInv strengthens StopsAreAccounted: the stop a document shows is a   *)
(* recorded stop of that key, a stop lost to damage never stands again,    *)
(* and whatever an operation says it ended had been recorded before it.    *)
(*                                                                         *)
(* AttemptInv strengthens what LeaseInv and OutcomesAreTrue say: an        *)
(* attempt belongs to one handler, which has not written before it sends,  *)
(* has seen its write land before it finishes, and reports a definite      *)
(* failure only of a write that nobody can carry out any more.             *)
(***************************************************************************)
EXTENDS RentWriteback, TLAPS

IsStopOf(g, key) ==
  g \in Recorded /\ changes[g].action = "suspend" /\ changes[g].key = key

StopInv ==
  /\ \A k \in Keys : state[k] \in Operations =>
       IsStopOf(state[k], k) /\ state[k] # damaged[k]
  /\ \A k \in Keys : damaged[k] \in Operations => IsStopOf(damaged[k], k)
  /\ \A op \in Recorded : changes[op].previous \in Operations =>
       changes[op].previous \in Recorded

GateInv ==
  \A r \in Requests :
    /\ gate[r].pc = "half" /\ gate[r].clear => state[Global] = Clear
    /\ gate[r].pc = "passed" => opening[r]

Inv == TypeOK /\ StopInv /\ StopsAreAccounted /\ GateInv

USE DEF Recorded

-----------------------------------------------------------------------------
(* Types                                                                     *)

(* The empty collections have their documented shapes.                       *)
LEMMA InitTypes == Init => TypeOK
BY KeysAssumption DEF Init, TypeOK, Targets, Gates

(* Every step keeps every variable in its type.                              *)
LEMMA NextTypes == TypeOK /\ [Next]_vars => TypeOK'
<1> SUFFICES ASSUME TypeOK, [Next]_vars PROVE TypeOK'
  OBVIOUS
<1>1. CASE UNCHANGED vars
  BY <1>1 DEF TypeOK, vars
<1>2. CASE Next
  <2>1. opening' \in [Requests -> BOOLEAN]
    BY <1>2 DEF Next, Watch
  <2>2. ASSUME NEW a \in Admins, NEW op \in Operations, NEW key \in Keys,
               NEW action \in {"suspend", "clear"}, Submit(a, op, key, action)
        PROVE  TypeOK'
    <3>1. (IF action = "clear" THEN state[key] ELSE NoOperation)
            \in Targets \cup {NoOperation}
      BY DEF TypeOK
    <3>2. sent' \subseteq Submissions
      BY <2>2, <3>1 DEF Submit, TypeOK, Submissions
    <3> QED
      BY <2>1, <2>2, <3>2 DEF Submit, TypeOK
  <2>3. ASSUME NEW s \in sent, Change(s) PROVE TypeOK'
    <3>1. s \in Submissions
      BY DEF TypeOK
    <3>2. state' \in [Keys -> Targets]
      BY <2>3, <3>1 DEF Change, TypeOK, Targets, Submissions
    <3>3. [by |-> s.by, key |-> s.key, action |-> s.action, expected |-> s.expected,
           previous |-> state[s.key]] \in Changes
      BY <3>1 DEF TypeOK, Changes, Submissions
    <3>4. changes' \in [Operations -> Changes \cup {NoChange}]
      BY <2>3, <3>1, <3>3 DEF Change, TypeOK
    <3> QED
      BY <2>1, <2>3, <3>2, <3>4 DEF Change, TypeOK
  <2>4. ASSUME NEW key \in Keys, Damage(key) PROVE TypeOK'
    BY <2>1, <2>4 DEF Damage, TypeOK, Targets
  <2>5. ASSUME NEW r \in Requests,
               \/ \E key \in Keys \ {Global} : Ask(r, key)
               \/ ReadGlobal(r) \/ ReadExact(r) \/ ReadFails(r) \/ Finish(r)
        PROVE  TypeOK'
    <3>1. gate' \in [Requests -> Gates]
      <4>1. CASE \E key \in Keys \ {Global} : Ask(r, key)
        BY <4>1 DEF Ask, TypeOK, Gates
      <4>2. CASE ReadGlobal(r)
        <5> DEFINE c == state[Global] = Clear
        <5>1. c \in BOOLEAN
          OBVIOUS
        <5>2. gate' = [gate EXCEPT ![r].pc = "half", ![r].clear = c]
          BY <4>2 DEF ReadGlobal
        <5> HIDE DEF c
        <5> QED
          BY ZenonT(30), <5>1, <5>2 DEF TypeOK, Gates
      <4>3. CASE ReadExact(r)
        BY <4>3 DEF ReadExact, TypeOK, Gates
      <4>4. CASE ReadFails(r)
        BY <4>4 DEF ReadFails, TypeOK, Gates
      <4>5. CASE Finish(r)
        BY <4>5 DEF Finish, TypeOK, Gates
      <4> QED
        BY <2>5, <4>1, <4>2, <4>3, <4>4, <4>5
    <3>2. UNCHANGED stopVars
      BY <2>5 DEF Ask, ReadGlobal, ReadExact, ReadFails, Finish
    <3> QED
      BY <2>1, <3>1, <3>2 DEF TypeOK, stopVars
  <2> QED
    BY <1>2, <2>2, <2>3, <2>4, <2>5 DEF Next, Step
<1> QED
  BY <1>1, <1>2

(* In every reachable state every variable has its type.                     *)
THEOREM StopTypes == Spec => []TypeOK
BY InitTypes, NextTypes, PTL DEF Spec

-----------------------------------------------------------------------------
(* Stops                                                                     *)

(* A committed operation ends at most the stop its key shows, and starts at  *)
(* most one under its own, never recorded, id.                               *)
LEMMA ChangeKeepsStops ==
  ASSUME TypeOK, StopInv, StopsAreAccounted, NEW s \in sent, Change(s)
  PROVE  StopInv' /\ StopsAreAccounted'
<1> DEFINE k == s.key
           c == s.op
<1>1. k \in Keys /\ c \in Operations /\ s.action \in {"suspend", "clear"}
  BY DEF TypeOK, Submissions
<1>2. c \notin Recorded
  BY DEF Change
<1>3. /\ changes'[c] = [by |-> s.by, key |-> k, action |-> s.action,
                        expected |-> s.expected, previous |-> state[k]]
      /\ \A op \in Operations : op # c => changes'[op] = changes[op]
  BY <1>1 DEF Change, TypeOK
<1>4. /\ state'[k] = IF s.action = "suspend" THEN c ELSE Clear
      /\ \A key \in Keys : key # k => state'[key] = state[key]
      /\ damaged' = damaged
  BY <1>1 DEF Change, TypeOK
<1>5. changes'[c] \in Changes
  BY <1>1, <1>3 DEF TypeOK, Changes, Submissions
<1>6. Recorded' = Recorded \cup {c}
  BY <1>1, <1>3, <1>5, ChangeAssumption
<1>7. Clear \notin Operations
  BY NullsAssumption
<1>8. StopInv'
  <2>1. ASSUME NEW g \in Operations, NEW key \in Keys, IsStopOf(g, key)
        PROVE  IsStopOf(g, key)' /\ g # c
    BY <2>1, <1>2, <1>3, <1>6 DEF IsStopOf
  <2>2. ASSUME NEW key \in Keys, state'[key] \in Operations
        PROVE  IsStopOf(state[key], key)' /\ state'[key] # damaged'[key]
    <3>1. CASE key # k
      BY <3>1, <2>1, <2>2, <1>4 DEF StopInv
    <3>2. CASE key = k
      <4>1. s.action = "suspend" /\ state'[k] = c
        BY <3>2, <2>2, <1>4, <1>7
      <4>2. IsStopOf(state[k], k)'
        BY <4>1, <1>3, <1>6 DEF IsStopOf
      <4>3. damaged[k] # c
        BY <1>1, <1>2 DEF StopInv, IsStopOf
      <4> QED
        BY <3>2, <4>1, <4>2, <4>3, <1>4
    <3> QED
      BY <3>1, <3>2
  <2>3. ASSUME NEW key \in Keys, damaged'[key] \in Operations
        PROVE  IsStopOf(damaged[key], key)'
    BY <2>1, <2>3, <1>4 DEF StopInv
  <2>4. ASSUME NEW op \in Recorded', changes'[op].previous \in Operations
        PROVE  changes'[op].previous \in Recorded'
    <3>1. CASE op = c
      BY <3>1, <2>4, <1>1, <1>3, <1>6 DEF StopInv, IsStopOf
    <3>2. CASE op # c
      BY <3>2, <2>4, <1>3, <1>6 DEF StopInv
    <3> QED
      BY <3>1, <3>2
  <2> QED
    BY <2>2, <2>3, <2>4 DEF StopInv
<1>9. StopsAreAccounted'
  <2> SUFFICES ASSUME NEW g \in Recorded', changes'[g].action = "suspend"
               PROVE  /\ IF g \in {state'[changes'[g].key], damaged'[changes'[g].key]}
                         THEN Enders(g)' = {}
                         ELSE \E op \in Recorded' : Enders(g)' = {op}
                      /\ \A op \in Enders(g)' :
                           changes'[op].action = "clear" => changes'[op].expected = g
    BY DEF StopsAreAccounted
  <2>1. CASE g = c
    <3>1. \A op \in Recorded : changes[op].previous # c
      BY <1>1, <1>2 DEF StopInv
    <3>2. state[k] # c
      BY <1>1, <1>2 DEF StopInv, IsStopOf
    <3>3. Enders(g)' = {}
      BY <2>1, <3>1, <3>2, <1>3, <1>6 DEF Enders
    <3>4. g = state'[changes'[g].key]
      BY <2>1, <1>3, <1>4
    <3> QED
      BY <3>3, <3>4
  <2>2. CASE g # c
    <3>1. /\ g \in Recorded
          /\ changes[g].action = "suspend"
          /\ changes'[g] = changes[g]
      BY <2>2, <1>3, <1>6
    <3>2. changes[g].key \in Keys
      BY <3>1 DEF TypeOK, Changes
    <3>3. /\ IF g \in {state[changes[g].key], damaged[changes[g].key]}
             THEN Enders(g) = {}
             ELSE \E op \in Recorded : Enders(g) = {op}
          /\ \A op \in Enders(g) :
               changes[op].action = "clear" => changes[op].expected = g
      BY <3>1 DEF StopsAreAccounted
    <3>4. CASE changes[g].key = k /\ state[k] = g
      <4>1. Enders(g) = {}
        BY <3>3, <3>4
      <4>2. Enders(g)' = {c}
        BY <3>1, <3>4, <4>1, <1>3, <1>6 DEF Enders
      <4>3. g \notin {state'[k], damaged'[k]}
        BY <2>2, <3>4, <1>1, <1>4, <1>7 DEF StopInv
      <4>4. changes'[c].action = "clear" => changes'[c].expected = g
        BY <3>4, <1>3 DEF Change, ClearMatches
      <4> QED
        BY <3>1, <3>4, <4>2, <4>3, <4>4, <1>6
    <3>5. CASE ~(changes[g].key = k /\ state[k] = g)
      <4>1. Enders(g)' = Enders(g)
        BY <3>1, <3>5, <1>2, <1>3, <1>6 DEF Enders
      <4>2. \A op \in Enders(g) : changes'[op] = changes[op]
        BY <1>2, <1>3 DEF Enders
      <4>3. g \in {state'[changes[g].key], damaged'[changes[g].key]}
              <=> g \in {state[changes[g].key], damaged[changes[g].key]}
        BY <2>2, <3>1, <3>2, <3>5, <1>4, <1>7
      <4> QED
        BY <3>1, <3>3, <4>1, <4>2, <4>3, <1>6
    <3> QED
      BY <3>4, <3>5
  <2> QED
    BY <2>1, <2>2
<1> QED
  BY <1>8, <1>9

(* Damage moves the stop a key shows to the ones lost.                       *)
LEMMA DamageKeepsStops ==
  ASSUME TypeOK, StopInv, StopsAreAccounted, NEW key \in Keys, Damage(key)
  PROVE  StopInv' /\ StopsAreAccounted'
<1>1. /\ changes' = changes
      /\ damaged[key] = NoOperation
      /\ damaged'[key] = state[key]
      /\ state'[key] = Unreadable
      /\ \A k \in Keys \ {key} : state'[k] = state[k] /\ damaged'[k] = damaged[k]
  BY DEF Damage, TypeOK
<1>2. Unreadable \notin Operations /\ NoOperation \notin Operations
  BY NullsAssumption
<1>3. StopInv'
  BY <1>1, <1>2 DEF StopInv, IsStopOf
<1>4. \A g \in Recorded :
        g \in {state'[changes[g].key], damaged'[changes[g].key]}
          <=> g \in {state[changes[g].key], damaged[changes[g].key]}
  <2> SUFFICES ASSUME NEW g \in Recorded
               PROVE  g \in {state'[changes[g].key], damaged'[changes[g].key]}
                        <=> g \in {state[changes[g].key], damaged[changes[g].key]}
    OBVIOUS
  <2>1. changes[g].key \in Keys
    BY DEF TypeOK, Changes
  <2> QED
    BY <2>1, <1>1, <1>2
<1>5. StopsAreAccounted'
  BY <1>1, <1>4 DEF StopsAreAccounted, Enders
<1> QED
  BY <1>3, <1>5

-----------------------------------------------------------------------------
(* The gate                                                                  *)

(* While a transaction that saw no global stop is under way nobody sets one, *)
(* so what lets an effect pass holds all at once.                            *)
LEMMA NextKeepsGate == TypeOK /\ GateInv /\ Next => GateInv'
<1> SUFFICES ASSUME TypeOK, GateInv, Next, NEW r \in Requests
             PROVE  /\ gate'[r].pc = "half" /\ gate'[r].clear => state'[Global] = Clear
                    /\ gate'[r].pc = "passed" => opening'[r]
  BY DEF GateInv
<1>1. gate'[r].pc # "idle" =>
        opening'[r] = (opening[r] \/ (state'[Global] = Clear /\ state'[gate'[r].key] = Clear))
  BY DEF Next, Watch
<1>2. CASE gate' = gate
  <2>1. gate[r].pc = "half" => state'[Global] = state[Global]
    <3>1. ASSUME NEW a \in Admins, NEW op \in Operations, NEW key \in Keys,
                 NEW action \in {"suspend", "clear"}, Submit(a, op, key, action)
          PROVE  state' = state
      BY <3>1 DEF Submit
    <3>2. ASSUME NEW s \in sent, Change(s), gate[r].pc = "half"
          PROVE  state'[Global] = state[Global]
      BY <3>2, KeysAssumption DEF Change, Locked, TypeOK
    <3>3. ASSUME NEW key \in Keys, Damage(key), gate[r].pc = "half"
          PROVE  state'[Global] = state[Global]
      BY <3>3, KeysAssumption DEF Damage, Locked, TypeOK
    <3>4. ASSUME NEW q \in Requests,
                 \/ \E key \in Keys \ {Global} : Ask(q, key)
                 \/ ReadGlobal(q) \/ ReadExact(q) \/ ReadFails(q) \/ Finish(q)
          PROVE  state' = state
      BY <3>4 DEF Ask, ReadGlobal, ReadExact, ReadFails, Finish, stopVars
    <3> QED
      BY <3>1, <3>2, <3>3, <3>4 DEF Next, Step
  <2> QED
    BY <1>1, <1>2, <2>1 DEF GateInv
<1>3. CASE gate' # gate
  <2>1. PICK q \in Requests :
          \/ \E key \in Keys \ {Global} : Ask(q, key)
          \/ ReadGlobal(q) \/ ReadExact(q) \/ ReadFails(q) \/ Finish(q)
    BY <1>3 DEF Next, Step, Submit, Change, Damage
  <2>2. state' = state /\ \A p \in Requests \ {q} : gate'[p] = gate[p]
    BY <2>1 DEF Ask, ReadGlobal, ReadExact, ReadFails, Finish, stopVars, TypeOK
  <2>3. CASE r # q
    BY <1>1, <2>2, <2>3 DEF GateInv
  <2>4. CASE r = q
    <3>1. CASE \E key \in Keys \ {Global} : Ask(r, key)
      BY <3>1 DEF Ask, TypeOK
    <3>2. CASE ReadGlobal(r)
      BY <3>2, <2>2 DEF ReadGlobal, TypeOK, Gates
    <3>3. CASE ReadExact(r)
      <4>1. /\ gate'[r].pc \in {"passed", "stopped"}
            /\ gate'[r].key = gate[r].key
            /\ gate'[r].pc = "passed" => gate[r].clear /\ state[gate[r].key] = Clear
        BY <3>3 DEF ReadExact, TypeOK, Gates
      <4>2. gate[r].pc = "half"
        BY <3>3 DEF ReadExact
      <4> QED
        BY <1>1, <2>2, <4>1, <4>2 DEF GateInv
    <3>4. CASE ReadFails(r)
      BY <3>4 DEF ReadFails, TypeOK, Gates
    <3>5. CASE Finish(r)
      BY <3>5 DEF Finish, TypeOK, Gates
    <3> QED
      BY <2>1, <2>4, <3>1, <3>2, <3>3, <3>4, <3>5
  <2> QED
    BY <2>3, <2>4
<1> QED
  BY <1>2, <1>3

-----------------------------------------------------------------------------
(* Theorems                                                                  *)

(* The invariant holds before any stop was submitted.                        *)
LEMMA InitInv == Init => Inv
<1> SUFFICES ASSUME Init PROVE Inv
  OBVIOUS
<1>1. Recorded = {}
  BY DEF Init
<1>2. StopInv /\ StopsAreAccounted
  BY <1>1, NullsAssumption DEF Init, StopInv, StopsAreAccounted
<1>3. GateInv
  BY DEF Init, GateInv
<1> QED
  BY <1>2, <1>3, InitTypes DEF Inv

(* Every step keeps the invariant.                                           *)
LEMMA NextInv == Inv /\ [Next]_vars => Inv'
<1> SUFFICES ASSUME Inv, [Next]_vars PROVE Inv'
  OBVIOUS
<1>1. TypeOK'
  BY NextTypes DEF Inv
<1>2. CASE UNCHANGED vars
  <2>1. StopInv' /\ StopsAreAccounted'
    BY <1>2 DEF Inv, vars, StopInv, IsStopOf, StopsAreAccounted, Enders
  <2>2. GateInv'
    BY <1>2 DEF Inv, vars, GateInv
  <2> QED
    BY <1>1, <2>1, <2>2 DEF Inv
<1>3. CASE Next
  <2>1. GateInv'
    BY <1>3, NextKeepsGate DEF Inv
  <2>2. ASSUME UNCHANGED <<state, changes, damaged>> PROVE StopInv' /\ StopsAreAccounted'
    BY <2>2 DEF Inv, StopInv, IsStopOf, StopsAreAccounted, Enders
  <2>3. \/ UNCHANGED <<state, changes, damaged>>
        \/ \E s \in sent : Change(s)
        \/ \E key \in Keys : Damage(key)
    BY <1>3 DEF Next, Step, Submit, Ask, ReadGlobal, ReadExact, ReadFails, Finish, stopVars
  <2>4. StopInv' /\ StopsAreAccounted'
    BY <2>2, <2>3, ChangeKeepsStops, DamageKeepsStops DEF Inv
  <2> QED
    BY <1>1, <2>1, <2>4 DEF Inv
<1> QED
  BY <1>2, <1>3

(* Every recorded stop stands, or was lost to damage, or was ended by        *)
(* exactly one operation that knew of it or replaced it.                     *)
THEOREM StopsStayAccounted == Spec => []StopsAreAccounted
<1>1. Inv => StopsAreAccounted
  BY DEF Inv
<1> QED
  BY <1>1, InitInv, NextInv, PTL DEF Spec

(* No effect passes the gate that was stopped all the time since it asked.   *)
THEOREM PassesOnlyWhenOpen == Spec => []PassedWasOpen
<1>1. Inv => PassedWasOpen
  BY DEF Inv, GateInv, PassedWasOpen
<1> QED
  BY <1>1, InitInv, NextInv, PTL DEF Spec

(* Repeated operations write nothing, and what was recorded stays.           *)
THEOREM ReplaysStayInert == Spec => ReplaysWriteNothing
<1> DEFINE Inert ==
      /\ \A op \in Recorded : changes'[op] = changes[op]
      /\ \A k \in Keys :
           state'[k] # state[k] => Recorded' # Recorded \/ state'[k] = Unreadable
<1>1. TypeOK /\ [Next]_vars => [Inert]_vars
  <2> SUFFICES ASSUME TypeOK, Next PROVE Inert
    OBVIOUS
  <2>1. CASE UNCHANGED <<state, changes>>
    BY <2>1
  <2>2. ASSUME NEW s \in sent, Change(s) PROVE Inert
    <3>1. s.op \in Operations /\ s.op \notin Recorded
      BY <2>2 DEF Change, TypeOK, Submissions
    <3>2. [by |-> s.by, key |-> s.key, action |-> s.action, expected |-> s.expected,
           previous |-> state[s.key]] \in Changes
      BY DEF TypeOK, Changes, Submissions
    <3>3. s.op \in Recorded'
      BY <2>2, <3>1, <3>2, ChangeAssumption DEF Change, TypeOK
    <3>4. \A op \in Recorded : changes'[op] = changes[op]
      BY <2>2, <3>1 DEF Change, TypeOK
    <3> QED
      BY <3>1, <3>3, <3>4
  <2>3. ASSUME NEW key \in Keys, Damage(key) PROVE Inert
    BY <2>3 DEF Damage, TypeOK
  <2> QED
    BY <2>1, <2>2, <2>3
      DEF Next, Step, Submit, Ask, ReadGlobal, ReadExact, ReadFails, Finish, stopVars
<1> QED
  BY <1>1, StopTypes, PTL DEF Spec, ReplaysWriteNothing

HIDE DEF Recorded

-----------------------------------------------------------------------------
(* The lease's updates                                                       *)

(* The history variable is what one more look at the stops would make of it. *)
Watched ==
  opening = [r \in Requests |->
    /\ gate[r].pc # "idle"
    /\ opening[r] \/ (state[Global] = Clear /\ state[gate[r].key] = Clear)]

Attempting == {"gate", "reading", "sending", "waiting", "readback", "finishing", "failing"}
Unsent == {"gate", "reading", "sending"}

Handled ==
  \A h \in Requests : handler[h].pc # "idle" =>
    /\ handler[h].x \in Executions
    /\ handler[h].pc = "claiming" => IsForward(handler[h].x)
    /\ handler[h].pc \in {"creating", "binding"} => ~IsForward(handler[h].x)

Settled(x) == exec[x].state = "succeeded" /\ exec[x].reconciled

(* What a handler knows of its attempt.                                      *)
Knows(h) ==
  /\ handler[h].pc \in Attempting =>
       exec[handler[h].x].state \in Pending \/ Settled(handler[h].x)
  /\ handler[h].pc \in Unsent => writes[handler[h].x] = 0
  /\ handler[h].pc \in {"readback", "finishing"} => handler[h].x \in landed
  /\ handler[h].pc = "failing" /\ ~handler[h].ambiguous =>
       /\ handler[h].x \notin flight
       /\ IsForward(handler[h].x) \/ handler[h].x[2] \notin Creates =>
            handler[h].x \notin landed

Sole ==
  \A h, k \in Requests :
    handler[h].pc \in Attempting /\ handler[k].pc \in Attempting
      /\ handler[h].x = handler[k].x => h = k

Clean(x) ==
  /\ exec[x].state \in {"none", "ready"} => writes[x] = 0
  /\ writes[x] = 0 => x \notin flight \cup landed
  /\ x \notin flight \cap landed
  /\ writes[x] <= 1
  /\ exec[x].state = "failed" /\ (IsForward(x) \/ x[2] \notin Creates) =>
       x \notin flight \cup landed
  /\ exec[x].state = "succeeded" /\ ~exec[x].reconciled => x \in landed
  /\ x \in flight => exec[x].state \in Pending \/ exec[x].reconciled

AttemptInv ==
  /\ \A h \in Requests : Knows(h)
  /\ Sole
  /\ \A x \in Executions : Clean(x)

Typed == WritebackTypeOK /\ Handled
WInv == Typed /\ AttemptInv /\ AwaitedIsActive /\ EvidenceIsKept

-----------------------------------------------------------------------------
(* Executions and records                                                    *)

(* Every execution is the forward or the reversal of its effect.             *)
LEMMA ForwardFacts ==
  ASSUME NEW g \in Generations, NEW e \in Effects
  PROVE  /\ Forward(g, e) \in Executions
         /\ IsForward(Forward(g, e))
         /\ Forward(g, e)[1] = g /\ Forward(g, e)[2] = e
         /\ Reversal(g, e) \in Executions
         /\ ~IsForward(Reversal(g, e))
BY DEF Forward, Reversal, Executions, IsForward

(* An execution that goes forward is named by its generation and effect.     *)
LEMMA ExecutionFacts ==
  ASSUME NEW x \in Executions
  PROVE  /\ x[1] \in Generations /\ x[2] \in Effects
         /\ IsForward(x) => x = Forward(x[1], x[2])
BY DEF Forward, Executions, IsForward

(* Storing an outcome changes one record's state only.                       *)
LEMMA StoredFacts ==
  ASSUME WritebackTypeOK, NEW x \in Executions, NEW outcome, Stored(x, outcome)
  PROVE  /\ exec'[x] = [exec[x] EXCEPT !.state = outcome]
         /\ exec'[x].state = outcome
         /\ exec'[x].reconciled = exec[x].reconciled
         /\ \A y \in Executions : y # x => exec'[y] = exec[y]
BY DEF Stored, WritebackTypeOK, ExecRecords

(* And the records keep their type.                                          *)
LEMMA StoredTyped ==
  ASSUME WritebackTypeOK, NEW x \in Executions,
         NEW outcome \in {"ready", "running", "ambiguous", "succeeded", "failed"},
         Stored(x, outcome)
  PROVE  exec' \in [Executions -> ExecRecords]
<1> DEFINE a == [exec[x] EXCEPT !.state = outcome]
<1>1. exec[x] \in ExecRecords /\ exec \in [Executions -> ExecRecords]
  BY DEF WritebackTypeOK
<1>2. a \in ExecRecords
  BY <1>1 DEF ExecRecords
<1>3. exec' = [exec EXCEPT ![x] = a]
  BY <1>1 DEF Stored
<1> HIDE DEF a
<1> QED
  BY <1>1, <1>2, <1>3

(* So they do when a record gets its preview, or its reconciliation.         *)
LEMMA RecordTyped ==
  ASSUME WritebackTypeOK, NEW x \in Executions,
         NEW preview \in 0..MaxPreviews,
         \/ exec' = [exec EXCEPT ![x].state = "ready", ![x].preview = preview]
         \/ exec' = [exec EXCEPT ![x].state = "succeeded", ![x].reconciled = TRUE]
  PROVE  exec' \in [Executions -> ExecRecords]
<1> DEFINE a == [exec[x] EXCEPT !.state = "ready", !.preview = preview]
           b == [exec[x] EXCEPT !.state = "succeeded", !.reconciled = TRUE]
<1>1. exec[x] \in ExecRecords /\ exec \in [Executions -> ExecRecords]
  BY DEF WritebackTypeOK
<1>2. a \in ExecRecords /\ b \in ExecRecords
  BY <1>1 DEF ExecRecords
<1>3. exec' = [exec EXCEPT ![x] = a] \/ exec' = [exec EXCEPT ![x] = b]
  BY <1>1
<1> HIDE DEF a, b
<1> QED
  BY <1>1, <1>2, <1>3

(* The record a handler begins with is one.                                  *)
LEMMA BeginFacts ==
  ASSUME NEW pc \in {"claiming", "creating", "observing"}, NEW x \in Executions,
         NEW preview \in 0..MaxPreviews
  PROVE  LET a == [Idle EXCEPT !.pc = pc, !.x = x]
             b == [Idle EXCEPT !.pc = pc, !.x = x, !.preview = preview]
         IN /\ a \in HandlerRecords /\ a.pc = pc /\ a.x = x
            /\ b \in HandlerRecords /\ b.pc = pc /\ b.x = x
<1>1. Idle \in HandlerRecords
  BY WritebackAssumption DEF Idle, HandlerRecords
<1> QED
  BY <1>1 DEF HandlerRecords

(* A handler's record can be replaced without touching the others.           *)
LEMMA BecomesFacts ==
  ASSUME WritebackTypeOK, NEW h \in Requests, NEW record, Becomes(h, record)
  PROVE  /\ handler'[h] = record
         /\ \A k \in Requests : k # h => handler'[k] = handler[k]
         /\ record \in HandlerRecords => handler' \in [Requests -> HandlerRecords]
BY DEF Becomes, WritebackTypeOK

(* A handler that goes on keeps its execution.                               *)
LEMMA GoesFacts ==
  ASSUME WritebackTypeOK, NEW h \in Requests,
         NEW pc \in {"gate", "binding", "reading", "sending", "waiting", "readback",
                     "finishing", "settling"},
         Goes(h, pc)
  PROVE  /\ handler'[h].pc = pc
         /\ handler'[h].x = handler[h].x
         /\ \A k \in Requests : k # h => handler'[k] = handler[k]
         /\ handler' \in [Requests -> HandlerRecords]
BY ZenonT(30) DEF Goes, WritebackTypeOK, HandlerRecords

(* A handler that fails keeps its execution.                                 *)
LEMMA FailsFacts ==
  ASSUME WritebackTypeOK, NEW h \in Requests, NEW ambiguous \in BOOLEAN, Fails(h, ambiguous)
  PROVE  /\ handler'[h].pc = "failing"
         /\ handler'[h].x = handler[h].x
         /\ handler'[h].ambiguous = ambiguous
         /\ \A k \in Requests : k # h => handler'[k] = handler[k]
         /\ handler' \in [Requests -> HandlerRecords]
<1> DEFINE record == [handler[h] EXCEPT !.pc = "failing", !.ambiguous = ambiguous]
<1>1. handler[h] \in HandlerRecords
  BY DEF WritebackTypeOK
<1>2. /\ record \in HandlerRecords
      /\ record.pc = "failing" /\ record.x = handler[h].x /\ record.ambiguous = ambiguous
  BY <1>1 DEF HandlerRecords
<1>3. Becomes(h, record)
  BY DEF Fails, Becomes, WritebackTypeOK
<1> HIDE DEF record
<1> QED
  BY <1>2, <1>3, BecomesFacts

(* A handler that ends is idle.                                              *)
LEMMA EndFacts ==
  ASSUME WritebackTypeOK, NEW h \in Requests, End(h)
  PROVE  /\ handler'[h].pc = "idle"
         /\ \A k \in Requests : k # h => handler'[k] = handler[k]
         /\ handler' \in [Requests -> HandlerRecords]
<1>1. Idle \in HandlerRecords /\ Idle.pc = "idle"
  BY WritebackAssumption DEF Idle, HandlerRecords
<1> QED
  BY <1>1, BecomesFacts DEF End

-----------------------------------------------------------------------------
(* The stops                                                                 *)

(* Every step of the lease leaves the gate alone, asks it for a handler, or  *)
(* ends the handler's request.                                               *)
LEMMA GateSteps ==
  ASSUME WritebackTypeOK, Handled, WritebackStep
  PROVE  \/ UNCHANGED gateVars
         \/ \E h \in Requests : \/ \E key \in Keys \ {Global} : Ask(h, key)
                                \/ Finish(h)
<1>1. ASSUME NEW h \in Requests, End(h)
      PROVE  UNCHANGED gateVars \/ Finish(h)
  BY <1>1 DEF End
<1>2. ASSUME NEW h \in Requests, handler[h].pc # "idle"
      PROVE  KeyOf[handler[h].x[2]] \in Keys \ {Global}
  <2>1. handler[h].x[2] \in Effects
    BY <1>2, ExecutionFacts DEF Handled
  <2> QED
    BY <2>1, WritebackAssumption
<1>3. CASE \E before \in [Effects -> Values] : Save(before)
  BY <1>3 DEF Save
<1>4. CASE Discard
  BY <1>4 DEF Discard
<1>5. CASE \E h \in Requests, e \in Effects : Execute(h, e)
  BY <1>5 DEF Execute
<1>6. CASE \E h \in Requests : ClaimEffect(h) \/ CreateReversal(h) \/ ClaimReversal(h)
  <2> PICK h \in Requests : ClaimEffect(h) \/ CreateReversal(h) \/ ClaimReversal(h)
    BY <1>6
  <2>1. CASE ClaimEffect(h)
    BY <2>1, <1>1, <1>2 DEF ClaimEffect
  <2>2. CASE CreateReversal(h)
    BY <2>2, <1>1 DEF CreateReversal
  <2>3. CASE ClaimReversal(h)
    BY <2>3, <1>1, <1>2 DEF ClaimReversal
  <2> QED
    BY <2>1, <2>2, <2>3
<1>7. CASE \E g \in Generations, e \in Effects : PreviewReversal(g, e) \/ ExpirePreview(g, e)
  BY <1>7 DEF PreviewReversal, ExpirePreview
<1>8. CASE \E h \in Requests, g \in Generations, e \in Effects, p \in 1..MaxPreviews :
             Reverse(h, g, e, p)
  BY <1>8 DEF Reverse
<1>9. CASE \E h \in Requests : Attempt(h)
  <2> PICK h \in Requests : Attempt(h)
    BY <1>9
  <2>1. CASE FinishExecution(h) \/ RecordFailure(h)
    BY <2>1, <1>1 DEF FinishExecution, RecordFailure
  <2>2. CASE ~(FinishExecution(h) \/ RecordFailure(h))
    BY <2>2 DEF Attempt, RunGated, ReadBefore, ReadDeleted, Send, RefuseWrite, AnswerWrite,
      TimeOut, ReadBack
  <2> QED
    BY <2>1, <2>2
<1>10. CASE \E x \in Executions : Land(x) \/ LoseWrite(x)
  BY <1>10 DEF Land, LoseWrite
<1>11. CASE \E h \in Requests, x \in Executions : Reconcile(h, x)
  BY <1>11 DEF Reconcile
<1>12. CASE \E h \in Requests : Observe(h) \/ Settle(h) \/ Die(h)
  BY <1>12, <1>1 DEF Observe, Settle, Die
<1>13. CASE \E t \in Places : Edit(t)
  BY <1>13 DEF Edit
<1> QED
  BY <1>3, <1>4, <1>5, <1>6, <1>7, <1>8, <1>9, <1>10, <1>11, <1>12, <1>13 DEF WritebackStep

(* A step of the lease that leaves the gate alone leaves its history alone.  *)
LEMMA StopsKept ==
  ASSUME WritebackTypeOK, Handled, Watched, [WritebackNext]_allVars
  PROVE  Watched' /\ [Next]_vars
<1>1. CASE UNCHANGED allVars
  BY <1>1 DEF allVars, vars, Watched
<1>2. CASE WritebackNext
  <2>1. Watch
    BY <1>2 DEF WritebackNext
  <2>2. Watched'
    <3>1. opening' = [r \in Requests |->
            /\ gate'[r].pc # "idle"
            /\ opening'[r] \/ (state'[Global] = Clear /\ state'[gate'[r].key] = Clear)]
      BY <2>1 DEF Watch
    <3> QED
      BY <3>1 DEF Watched
  <2>3. CASE UNCHANGED gateVars
    <3>1. opening' = opening
      BY <2>1, <2>3 DEF Watch, Watched, gateVars, stopVars
    <3> QED
      BY <2>2, <2>3, <3>1 DEF vars, gateVars, stopVars
  <2>4. CASE \E h \in Requests : (\E key \in Keys \ {Global} : Ask(h, key)) \/ Finish(h)
    BY <2>1, <2>2, <2>4 DEF Next, Step
  <2>5. CASE StopStep
    BY <2>1, <2>2, <2>5 DEF StopStep, Next, Step
  <2> QED
    BY <1>2, <2>3, <2>4, <2>5, GateSteps DEF WritebackNext
<1> QED
  BY <1>1, <1>2

-----------------------------------------------------------------------------
(* Types                                                                     *)

(* The records of a lease that was never touched have their types.           *)
LEMMA InitTyped == WritebackInit => Typed
<1> SUFFICES ASSUME WritebackInit PROVE Typed
  OBVIOUS
<1>1. handler \in [Requests -> HandlerRecords] /\ Handled
  BY WritebackAssumption DEF WritebackInit, Idle, HandlerRecords, Handled
<1>2. exec \in [Executions -> ExecRecords]
  BY WritebackAssumption DEF WritebackInit, ExecRecords
<1> QED
  BY <1>1, <1>2, WritebackAssumption
    DEF WritebackInit, Typed, WritebackTypeOK, NoGeneration, Values, Generations, Places

(* What only moves one handler keeps the types, when that handler's record   *)
(* has its own.                                                              *)
LEMMA OneHandlerTyped ==
  ASSUME Typed, NEW h \in Requests,
         UNCHANGED <<proposalVars, previews, providerVars, boundVars>>,
         exec' \in [Executions -> ExecRecords],
         handler' \in [Requests -> HandlerRecords],
         \A k \in Requests : k # h => handler'[k] = handler[k],
         handler'[h].pc # "idle" =>
           /\ handler'[h].x \in Executions
           /\ handler'[h].pc = "claiming" => IsForward(handler'[h].x)
           /\ handler'[h].pc \in {"creating", "binding"} => ~IsForward(handler'[h].x)
  PROVE  Typed'
<1>1. WritebackTypeOK'
  BY DEF Typed, WritebackTypeOK, proposalVars, providerVars, boundVars
<1>2. Handled'
  BY DEF Typed, Handled
<1> QED
  BY <1>1, <1>2 DEF Typed

(* A proposal that is saved or discarded is a proposal.                      *)
LEMMA ProposalTyped ==
  ASSUME Typed, (\E before \in [Effects -> Values] : Save(before)) \/ Discard
  PROVE  Typed'
<1>1. /\ UNCHANGED <<recordVars, providerVars, handler, boundVars>>
      /\ archive' = Archived
  BY DEF Save, Discard
<1>2. archive' \in [Generations -> SUBSET Effects]
  BY <1>1 DEF Archived, Succeeded, Typed, WritebackTypeOK
<1>3. /\ active' \in 0..MaxGenerations /\ saved' \in 0..MaxGenerations
      /\ plan' \in [Generations -> [Effects -> Values]]
  BY SMTT(30), WritebackAssumption DEF Save, Discard, NoGeneration, Typed, WritebackTypeOK
<1> QED
  BY <1>1, <1>2, <1>3
    DEF Typed, WritebackTypeOK, Handled, recordVars, providerVars, boundVars

(* A handler begins with an execution of the lease.                          *)
LEMMA BeginTyped ==
  ASSUME Typed, NEW h \in Requests, NEW e \in Effects,
         \/ Execute(h, e)
         \/ \E g \in Generations, p \in 1..MaxPreviews : Reverse(h, g, e, p)
         \/ \E x \in Executions : Reconcile(h, x)
  PROVE  Typed'
<1>0. 0 \in 0..MaxPreviews /\ 1..MaxPreviews \subseteq 0..MaxPreviews
  BY WritebackAssumption
<1>1. CASE Execute(h, e)
  <2> DEFINE record == [Idle EXCEPT !.pc = "claiming", !.x = Forward(active, e)]
  <2>1. active \in Generations
    BY <1>1, WritebackAssumption DEF Execute, Typed, WritebackTypeOK, NoGeneration, Generations
  <2>2. Forward(active, e) \in Executions /\ IsForward(Forward(active, e))
    BY <2>1, ForwardFacts
  <2>3. /\ record \in HandlerRecords
        /\ record.pc = "claiming" /\ record.x = Forward(active, e)
    BY ZenonT(30), <2>2, <1>0, BeginFacts
  <2>4. Becomes(h, record)
    BY <1>1 DEF Execute
  <2> HIDE DEF record
  <2> QED
    BY <1>1, <2>2, <2>3, <2>4, BecomesFacts, OneHandlerTyped
      DEF Execute, recordVars, Typed, WritebackTypeOK
<1>2. ASSUME NEW g \in Generations, NEW p \in 1..MaxPreviews, Reverse(h, g, e, p)
      PROVE  Typed'
  <2> DEFINE record == [Idle EXCEPT !.pc = "creating", !.x = Reversal(g, e), !.preview = p]
  <2>2. Reversal(g, e) \in Executions /\ ~IsForward(Reversal(g, e))
    BY ForwardFacts
  <2>3. /\ record \in HandlerRecords
        /\ record.pc = "creating" /\ record.x = Reversal(g, e)
    <3>1. p \in 0..MaxPreviews
      BY <1>0
    <3>2. Idle \in HandlerRecords
      BY <1>0 DEF Idle, HandlerRecords
    <3> QED
      BY <2>2, <3>1, <3>2 DEF HandlerRecords
  <2>4. Becomes(h, record)
    BY <1>2 DEF Reverse
  <2> HIDE DEF record
  <2> QED
    <3>1. /\ handler' \in [Requests -> HandlerRecords]
          /\ handler'[h].pc = "creating" /\ handler'[h].x = Reversal(g, e)
          /\ \A k \in Requests : k # h => handler'[k] = handler[k]
      BY <2>3, <2>4, BecomesFacts DEF Typed
    <3>2. /\ UNCHANGED <<proposalVars, previews, providerVars, boundVars>>
          /\ exec' \in [Executions -> ExecRecords]
      BY <1>2 DEF Reverse, recordVars, Typed, WritebackTypeOK
    <3> QED
      BY <2>2, <3>1, <3>2, OneHandlerTyped
<1>3. ASSUME NEW x \in Executions, Reconcile(h, x) PROVE Typed'
  <2> DEFINE record == [Idle EXCEPT !.pc = "observing", !.x = x]
  <2>1. /\ record \in HandlerRecords
        /\ record.pc = "observing" /\ record.x = x
    BY <1>0, BeginFacts
  <2>2. Becomes(h, record)
    BY <1>3 DEF Reconcile
  <2>3. exec' \in [Executions -> ExecRecords]
    BY <1>3, StoredTyped, WritebackAssumption DEF Reconcile, Typed
  <2> HIDE DEF record
  <2> QED
    BY <1>3, <2>1, <2>2, <2>3, BecomesFacts, OneHandlerTyped DEF Reconcile, Typed
<1> QED
  BY <1>1, <1>2, <1>3

(* Claims and the record of a reversal keep the types.                       *)
LEMMA ClaimTyped ==
  ASSUME Typed, NEW h \in Requests,
         ClaimEffect(h) \/ CreateReversal(h) \/ ClaimReversal(h)
  PROVE  Typed'
<1> DEFINE x == handler[h].x
<1>1. /\ x \in Executions
      /\ handler[h].pc = "claiming" => IsForward(x)
      /\ handler[h].pc \in {"creating", "binding"} => ~IsForward(x)
      /\ handler[h].preview \in 0..MaxPreviews
  BY DEF Typed, Handled, WritebackTypeOK, HandlerRecords, ClaimEffect, CreateReversal,
    ClaimReversal
<1>2. UNCHANGED <<proposalVars, previews, providerVars, boundVars>>
  BY DEF ClaimEffect, CreateReversal, ClaimReversal
<1>3. exec' \in [Executions -> ExecRecords]
  <2>1. CASE ClaimEffect(h)
    BY <2>1, <1>1, StoredTyped DEF ClaimEffect, Typed, WritebackTypeOK
  <2>2. CASE CreateReversal(h)
    BY <2>2, <1>1, RecordTyped DEF CreateReversal, Typed, WritebackTypeOK
  <2>3. CASE ClaimReversal(h)
    BY <2>3, <1>1, StoredTyped DEF ClaimReversal, Typed, WritebackTypeOK
  <2> QED
    BY <2>1, <2>2, <2>3
<1>4. \/ Goes(h, "gate")
      \/ Goes(h, "binding") /\ ~IsForward(x)
      \/ End(h)
  BY <1>1 DEF ClaimEffect, CreateReversal, ClaimReversal
<1> QED
  BY <1>1, <1>2, <1>3, <1>4, GoesFacts, EndFacts, OneHandlerTyped DEF Typed

(* A handler that is claimed already, or observes, keeps its execution.      *)
LEMMA AttemptTyped ==
  ASSUME Typed, NEW h \in Requests,
         Attempt(h) \/ Observe(h) \/ Settle(h) \/ Die(h)
  PROVE  Typed'
<1> DEFINE x == handler[h].x
<1>0. 0 \in 0..MaxPreviews
  BY WritebackAssumption
<1>1. handler[h].pc # "idle" /\ x \in Executions
  BY DEF Typed, Handled, Attempt, Observe, Settle, Die, RunGated, ReadBefore, ReadDeleted, Send,
    RefuseWrite, AnswerWrite, TimeOut, ReadBack, FinishExecution, RecordFailure
<1>2. CASE Send(h)
  <2>1. writes' \in [Executions -> 0..2] /\ flight' \subseteq Executions
    BY <1>1, <1>2 DEF Send, Typed, WritebackTypeOK
  <2>2. WritebackTypeOK'
    BY <1>2, <2>1, GoesFacts
      DEF Send, Typed, WritebackTypeOK, proposalVars, recordVars, boundVars
  <2>3. Handled'
    BY <1>1, <1>2, GoesFacts DEF Send, Typed, Handled
  <2> QED
    BY <2>2, <2>3 DEF Typed
<1>3. CASE RefuseWrite(h)
  <2>1. WritebackTypeOK'
    BY <1>3, FailsFacts
      DEF RefuseWrite, Typed, WritebackTypeOK, proposalVars, recordVars, boundVars
  <2>2. Handled'
    BY <1>1, <1>3, FailsFacts DEF RefuseWrite, Typed, Handled
  <2> QED
    BY <2>1, <2>2 DEF Typed
<1>4. CASE RunGated(h) \/ ReadBefore(h) \/ ReadDeleted(h) \/ AnswerWrite(h) \/ TimeOut(h)
           \/ ReadBack(h)
  <2>1. UNCHANGED <<proposalVars, previews, providerVars, boundVars, exec>>
    BY <1>4 DEF RunGated, ReadBefore, ReadDeleted, AnswerWrite, TimeOut, ReadBack, recordVars
  <2>2. \/ \E pc \in {"reading", "sending", "readback", "finishing"} : Goes(h, pc)
        \/ \E ambiguous \in BOOLEAN : Fails(h, ambiguous)
    BY <1>4 DEF RunGated, ReadBefore, ReadDeleted, AnswerWrite, TimeOut, ReadBack
  <2>3. exec' \in [Executions -> ExecRecords]
    BY <2>1 DEF Typed, WritebackTypeOK
  <2> QED
    BY <1>1, <2>1, <2>2, <2>3, GoesFacts, FailsFacts, OneHandlerTyped DEF Typed
<1>5. CASE FinishExecution(h) \/ RecordFailure(h) \/ Observe(h) \/ Settle(h)
  <2>1. UNCHANGED <<proposalVars, previews, providerVars, boundVars>>
    BY <1>5 DEF FinishExecution, RecordFailure, Observe, Settle, recordVars
  <2>2. Goes(h, "settling") \/ Fails(h, TRUE) \/ End(h)
    BY <1>5 DEF FinishExecution, RecordFailure, Observe, Settle
  <2>3. exec' \in [Executions -> ExecRecords]
    <3>1. CASE FinishExecution(h)
      BY <3>1, <1>1, StoredTyped, WritebackAssumption DEF FinishExecution, Typed, WritebackTypeOK
    <3>2. CASE RecordFailure(h)
      BY <3>2, <1>1, StoredTyped, WritebackAssumption DEF RecordFailure, Typed, WritebackTypeOK
    <3>3. CASE Observe(h)
      BY <3>3 DEF Observe, recordVars, Typed, WritebackTypeOK
    <3>4. CASE Settle(h)
      BY <3>4, <1>1, <1>0, RecordTyped DEF Settle, Typed, WritebackTypeOK
    <3> QED
      BY <1>5, <3>1, <3>2, <3>3, <3>4
  <2> QED
    BY <1>1, <2>1, <2>2, <2>3, GoesFacts, FailsFacts, EndFacts, OneHandlerTyped DEF Typed
<1>6. CASE Die(h)
  <2>1. WritebackTypeOK'
    BY <1>6, EndFacts, WritebackAssumption
      DEF Die, Typed, WritebackTypeOK, proposalVars, recordVars, providerVars
  <2>2. Handled'
    BY <1>6, EndFacts DEF Die, Typed, Handled
  <2> QED
    BY <2>1, <2>2 DEF Typed
<1> QED
  BY <1>2, <1>3, <1>4, <1>5, <1>6 DEF Attempt

(* Previews, RentVine and its other users keep the types.                    *)
LEMMA OthersTyped ==
  ASSUME Typed,
         \/ \E g \in Generations, e \in Effects : PreviewReversal(g, e) \/ ExpirePreview(g, e)
         \/ \E x \in Executions : Land(x) \/ LoseWrite(x)
         \/ \E t \in Places : Edit(t)
         \/ UNCHANGED writebackVars
  PROVE  Typed'
<1>1. handler' = handler
  BY DEF PreviewReversal, ExpirePreview, Land, LoseWrite, Edit, writebackVars
<1>2. WritebackTypeOK'
  <2>1. ASSUME NEW g \in Generations, NEW e \in Effects,
               PreviewReversal(g, e) \/ ExpirePreview(g, e)
        PROVE  WritebackTypeOK'
    <3>1. previews' \in [Generations \X Effects ->
                           [issued: 0..MaxPreviews, expired: 0..MaxPreviews]]
      <4> DEFINE r == <<g, e>>
                 a == [previews[r] EXCEPT !.issued = @ + 1]
                 b == [previews[r] EXCEPT !.expired = @ + 1]
                 Counts == [issued: 0..MaxPreviews, expired: 0..MaxPreviews]
      <4>1. r \in Generations \X Effects /\ previews[r] \in Counts
        BY DEF Typed, WritebackTypeOK
      <4>2. \/ a \in Counts /\ previews' = [previews EXCEPT ![r] = a]
            \/ b \in Counts /\ previews' = [previews EXCEPT ![r] = b]
        <5>1. CASE PreviewReversal(g, e)
          <6>1. previews[r].issued + 1 \in 0..MaxPreviews
            BY <4>1, <5>1, WritebackAssumption DEF PreviewReversal
          <6> QED
            BY <4>1, <5>1, <6>1 DEF PreviewReversal, Typed, WritebackTypeOK
        <5>2. CASE ExpirePreview(g, e)
          <6>1. previews[r].expired + 1 \in 0..MaxPreviews
            BY <4>1, <5>2, WritebackAssumption DEF ExpirePreview
          <6> QED
            BY <4>1, <5>2, <6>1 DEF ExpirePreview, Typed, WritebackTypeOK
        <5> QED
          BY <2>1, <5>1, <5>2
      <4> HIDE DEF r, a, b
      <4> QED
        BY <4>1, <4>2 DEF Typed, WritebackTypeOK
    <3> QED
      BY <2>1, <3>1 DEF PreviewReversal, ExpirePreview, Typed, WritebackTypeOK, proposalVars,
        providerVars, boundVars
  <2>2. ASSUME NEW x \in Executions, Land(x) \/ LoseWrite(x) PROVE WritebackTypeOK'
    <3>1. Wanted(x) \in Values
      <4>1. plan[x[1]][x[2]] \in {0, 1}
        BY ExecutionFacts DEF Values, Typed, WritebackTypeOK
      <4>2. Replaced(x) \in {0, 1}
        BY <4>1 DEF Replaced
      <4> QED
        BY <4>2 DEF Wanted, Values
    <3>2. held' \in [Places -> Values]
      BY <2>2, <3>1 DEF Land, LoseWrite, Typed, WritebackTypeOK
    <3> QED
      BY <2>2, <3>2 DEF Land, LoseWrite, Typed, WritebackTypeOK, proposalVars, recordVars,
        boundVars
  <2>3. ASSUME NEW t \in Places, Edit(t) PROVE WritebackTypeOK'
    <3>1. held' \in [Places -> Values]
      BY <2>3 DEF Edit, Values, Typed, WritebackTypeOK
    <3>2. edits' \in 0..MaxEdits
      BY <2>3, WritebackAssumption DEF Edit, Typed, WritebackTypeOK
    <3> QED
      BY <2>3, <3>1, <3>2 DEF Edit, Typed, WritebackTypeOK, proposalVars, recordVars
  <2>4. CASE UNCHANGED writebackVars
    BY <2>4 DEF writebackVars, proposalVars, recordVars, providerVars, boundVars, Typed,
      WritebackTypeOK
  <2> QED
    BY <2>1, <2>2, <2>3, <2>4
<1> QED
  BY <1>1, <1>2 DEF Typed, Handled

(* Every step keeps every variable in its type.                              *)
LEMMA NextTyped == Typed /\ [WritebackNext]_allVars => Typed'
<1> SUFFICES ASSUME Typed, [WritebackNext]_allVars PROVE Typed'
  OBVIOUS
<1>1. CASE UNCHANGED writebackVars
  BY <1>1, OthersTyped
<1>2. CASE WritebackStep
  <2>1. CASE \E h \in Requests, x \in Executions : Reconcile(h, x)
    <3>1. PICK h \in Requests, x \in Executions : Reconcile(h, x)
      BY <2>1
    <3>2. x[2] \in Effects
      BY ExecutionFacts
    <3> QED
      BY <3>1, <3>2, BeginTyped
  <2> QED
    BY <1>2, <2>1, ProposalTyped, BeginTyped, ClaimTyped, AttemptTyped, OthersTyped
      DEF WritebackStep
<1> QED
  BY <1>1, <1>2 DEF WritebackNext, StopStep, allVars

-----------------------------------------------------------------------------
(* Attempts                                                                  *)

(* Without proposals there are no attempts.                                  *)
LEMMA InitAttempts == WritebackInit => AttemptInv
<1> SUFFICES ASSUME WritebackInit PROVE AttemptInv
  OBVIOUS
<1>1. \A h \in Requests : handler[h].pc = "idle"
  BY DEF WritebackInit, Idle
<1>2. \A x \in Executions :
        exec[x].state = "none" /\ writes[x] = 0 /\ x \notin flight \cup landed
  BY DEF WritebackInit
<1>3. \A h \in Requests : Knows(h)
  BY <1>1 DEF Knows, Attempting, Unsent
<1>4. Sole
  BY <1>1 DEF Sole, Attempting
<1>5. \A x \in Executions : Clean(x)
  BY <1>2 DEF Clean
<1> QED
  BY <1>3, <1>4, <1>5 DEF AttemptInv

(* What touches no handler and no record keeps what is known of attempts.    *)
LEMMA QuietAttempts ==
  ASSUME AttemptInv, UNCHANGED <<exec, writes, flight, landed, handler>>
  PROVE  AttemptInv'
BY DEF AttemptInv, Knows, Settled, Sole, Clean

(* A handler that only moves knows what it knew, or is no attempt any more.  *)
LEMMA MovedAttempts ==
  ASSUME AttemptInv, NEW h \in Requests,
         UNCHANGED <<exec, writes, flight, landed>>,
         \A k \in Requests : k # h => handler'[k] = handler[k],
         handler'[h].pc \in Attempting =>
           handler[h].pc \in Attempting /\ handler'[h].x = handler[h].x,
         Knows(h)'
  PROVE  AttemptInv'
<1>1. \A k \in Requests : Knows(k)'
  BY DEF AttemptInv, Knows, Settled
<1>2. Sole'
  BY DEF AttemptInv, Sole
<1>3. \A x \in Executions : Clean(x)'
  BY DEF AttemptInv, Clean
<1> QED
  BY <1>1, <1>2, <1>3 DEF AttemptInv

(* A handler that is not at an attempt knows nothing of one.                 *)
LEMMA RestingAttempts ==
  ASSUME AttemptInv, NEW h \in Requests,
         UNCHANGED <<exec, writes, flight, landed>>,
         \A k \in Requests : k # h => handler'[k] = handler[k],
         handler'[h].pc \notin Attempting
  PROVE  AttemptInv'
<1>1. Knows(h)'
  BY DEF Knows, Attempting, Unsent
<1> QED
  BY <1>1, MovedAttempts

(* A claim makes the handler the only one at an execution never written.     *)
LEMMA ClaimAttempts ==
  ASSUME Typed, AttemptInv, NEW h \in Requests,
         ClaimEffect(h) \/ CreateReversal(h) \/ ClaimReversal(h)
  PROVE  AttemptInv'
<1> DEFINE x == handler[h].x
<1>1. x \in Executions /\ UNCHANGED <<writes, flight, landed>>
  BY DEF Typed, Handled, ClaimEffect, CreateReversal, ClaimReversal, providerVars
<1>2. ASSUME End(h), UNCHANGED exec PROVE AttemptInv'
  BY <1>1, <1>2, EndFacts, RestingAttempts DEF Typed, Attempting
<1>3. ASSUME exec[x].state \in {"none", "ready"}, Stored(x, "running"), Goes(h, "gate")
      PROVE  AttemptInv'
  <2>1. /\ exec'[x].state = "running" /\ exec'[x].reconciled = exec[x].reconciled
        /\ \A y \in Executions : y # x => exec'[y] = exec[y]
    BY <1>1, <1>3, StoredFacts DEF Typed
  <2>2. /\ handler'[h].pc = "gate" /\ handler'[h].x = x
        /\ \A k \in Requests : k # h => handler'[k] = handler[k]
    BY <1>3, GoesFacts DEF Typed
  <2>3. \A k \in Requests : handler[k].pc \in Attempting => handler[k].x # x
    BY <1>3 DEF AttemptInv, Knows, Settled, Pending
  <2>4. Knows(h)'
    BY <1>1, <1>3, <2>1, <2>2 DEF Knows, Pending, AttemptInv, Clean
  <2>5. ASSUME NEW k \in Requests, k # h PROVE Knows(k)'
    <3>1. handler'[k] = handler[k] /\ Knows(k)
      BY <2>2, <2>5 DEF AttemptInv
    <3>2. handler[k].pc \in Attempting => exec'[handler[k].x] = exec[handler[k].x]
      <4>1. handler[k].pc \in Attempting => handler[k].x \in Executions
        BY DEF Typed, Handled, Attempting
      <4> QED
        BY <2>1, <2>3, <4>1
    <3> QED
      BY <1>1, <3>1, <3>2 DEF Knows, Settled
  <2>6. Sole'
    BY <2>2, <2>3 DEF AttemptInv, Sole
  <2>7. \A y \in Executions : Clean(y)'
    BY <1>1, <1>3, <2>1 DEF AttemptInv, Clean, Pending
  <2> QED
    BY <2>4, <2>5, <2>6, <2>7 DEF AttemptInv
<1>4. CASE ClaimEffect(h)
  BY <1>2, <1>3, <1>4 DEF ClaimEffect
<1>5. CASE ClaimReversal(h)
  BY <1>2, <1>3, <1>5 DEF ClaimReversal
<1>6. CASE CreateReversal(h)
  <2>1. CASE End(h) /\ UNCHANGED exec
    BY <1>2, <2>1
  <2>2. CASE Goes(h, "binding") /\ UNCHANGED exec
    BY <1>1, <2>2, GoesFacts, RestingAttempts DEF Typed, Attempting
  <2>3. CASE /\ exec[x].state = "none" /\ Goes(h, "binding")
             /\ exec' = [exec EXCEPT ![x].state = "ready", ![x].preview = handler[h].preview]
    <3>1. /\ exec'[x].state = "ready" /\ exec'[x].reconciled = exec[x].reconciled
          /\ \A y \in Executions : y # x => exec'[y] = exec[y]
      BY <1>1, <2>3 DEF Typed, WritebackTypeOK, ExecRecords
    <3>2. /\ handler'[h].pc = "binding"
          /\ \A k \in Requests : k # h => handler'[k] = handler[k]
      BY <2>3, GoesFacts DEF Typed
    <3>3. \A k \in Requests : handler[k].pc \in Attempting =>
            handler[k].x # x /\ handler[k].x \in Executions
      BY <2>3 DEF AttemptInv, Knows, Settled, Pending, Typed, Handled, Attempting
    <3>4. \A k \in Requests : Knows(k)'
      BY <1>1, <3>1, <3>2, <3>3 DEF AttemptInv, Knows, Settled, Attempting, Unsent
    <3>5. Sole'
      BY <3>2 DEF AttemptInv, Sole, Attempting
    <3>6. \A y \in Executions : Clean(y)'
      BY <1>1, <2>3, <3>1 DEF AttemptInv, Clean, Pending
    <3> QED
      BY <3>4, <3>5, <3>6 DEF AttemptInv
  <2> QED
    BY <1>6, <2>1, <2>2, <2>3 DEF CreateReversal
<1> QED
  BY <1>4, <1>5, <1>6

(* A step that changes one record, of a handler that is done with it.        *)
LEMMA EndedAttempts ==
  ASSUME Typed, AttemptInv, NEW h \in Requests, NEW x \in Executions,
         UNCHANGED <<writes, flight, landed>>,
         \A k \in Requests : k # h => handler'[k] = handler[k],
         handler'[h].pc \notin Attempting,
         \A y \in Executions : y # x => exec'[y] = exec[y],
         exec[x].state \notin {"none", "ready"}, exec'[x].state \notin {"none", "ready"},
         Clean(x)',
         \/ exec'[x].state \in Pending \/ Settled(x)'
         \/ handler[h].pc \in Attempting /\ handler[h].x = x
  PROVE  AttemptInv'
<1>1. Knows(h)'
  BY DEF Knows, Attempting, Unsent
<1>2. ASSUME NEW k \in Requests, k # h PROVE Knows(k)'
  <2>1. handler'[k] = handler[k] /\ Knows(k)
    BY <1>2 DEF AttemptInv
  <2>2. handler[k].pc \in Attempting => handler[k].x \in Executions
    BY DEF Typed, Handled, Attempting
  <2>3. handler[k].pc \in Attempting =>
          exec'[handler[k].x].state \in Pending \/ Settled(handler[k].x)'
    <3>1. CASE handler[k].x # x
      BY <2>1, <2>2, <3>1 DEF Knows, Settled
    <3>2. CASE handler[k].x = x
      BY <1>2, <2>1, <3>2 DEF AttemptInv, Sole, Settled
    <3> QED
      BY <3>1, <3>2
  <2> QED
    BY <2>1, <2>3 DEF Knows, Settled
<1>3. Sole'
  BY DEF AttemptInv, Sole
<1>4. \A y \in Executions : Clean(y)'
  BY DEF AttemptInv, Clean
<1> QED
  BY <1>1, <1>2, <1>3, <1>4 DEF AttemptInv

(* The outcomes stored at the end of an attempt or of an observation.        *)
LEMMA OutcomeAttempts ==
  ASSUME Typed, AttemptInv, NEW h \in Requests,
         FinishExecution(h) \/ RecordFailure(h) \/ Settle(h)
  PROVE  AttemptInv'
<1> PICK x \in Executions : x = handler[h].x
  BY DEF Typed, Handled, FinishExecution, RecordFailure, Settle
<1>1. /\ x \in Executions /\ UNCHANGED <<writes, flight, landed>>
      /\ Knows(h) /\ Clean(x)
  BY DEF Typed, Handled, FinishExecution, RecordFailure, Settle, providerVars, AttemptInv
<1>2. ASSUME End(h)
      PROVE  /\ \A k \in Requests : k # h => handler'[k] = handler[k]
             /\ handler'[h].pc \notin Attempting
  BY <1>2, EndFacts DEF Typed, Attempting
<1>3. ASSUME End(h), UNCHANGED exec PROVE AttemptInv'
  BY <1>1, <1>2, <1>3, RestingAttempts
<1>4. CASE FinishExecution(h)
  <2>1. CASE exec[x].state = "running" /\ Stored(x, "succeeded") /\ End(h)
    <3>1. /\ exec'[x].state = "succeeded" /\ exec'[x].reconciled = exec[x].reconciled
          /\ \A y \in Executions : y # x => exec'[y] = exec[y]
      BY <1>1, <2>1, StoredFacts DEF Typed
    <3>2. handler[h].pc \in Attempting /\ x \in landed
      BY <1>1, <1>4 DEF FinishExecution, Attempting, Knows
    <3>3. Clean(x)'
      BY <1>1, <3>1, <3>2 DEF Clean
    <3> QED
      BY <1>1, <1>2, <2>1, <3>1, <3>2, <3>3, EndedAttempts
  <2>2. CASE Fails(h, TRUE) /\ UNCHANGED exec
    <3>1. /\ handler'[h].pc = "failing" /\ handler'[h].x = x /\ handler'[h].ambiguous
          /\ \A k \in Requests : k # h => handler'[k] = handler[k]
      BY <2>2, FailsFacts DEF Typed
    <3>2. handler[h].pc \in Attempting
      BY <1>4 DEF FinishExecution, Attempting
    <3>3. Knows(h)'
      BY <1>1, <2>2, <3>1, <3>2 DEF Knows, Settled, Unsent
    <3> QED
      BY <1>1, <2>2, <3>1, <3>2, <3>3, MovedAttempts
  <2> QED
    BY <1>3, <1>4, <2>1, <2>2 DEF FinishExecution
<1>5. CASE RecordFailure(h)
  <2> DEFINE outcome == IF handler[h].ambiguous THEN "ambiguous" ELSE "failed"
  <2>1. CASE exec[x].state = "running" /\ Stored(x, outcome) /\ End(h)
    <3>1. /\ exec'[x].state = outcome /\ exec'[x].reconciled = exec[x].reconciled
          /\ \A y \in Executions : y # x => exec'[y] = exec[y]
      BY <1>1, <2>1, StoredFacts DEF Typed
    <3>2. handler[h].pc = "failing"
      BY <1>5 DEF RecordFailure
    <3>3. Clean(x)'
      BY <1>1, <2>1, <3>1, <3>2 DEF Clean, Knows, Pending
    <3> QED
      BY <1>1, <1>2, <2>1, <3>1, <3>2, <3>3, EndedAttempts DEF Attempting
  <2> QED
    BY <1>3, <1>5, <2>1 DEF RecordFailure
<1>6. CASE Settle(h)
  <2>1. CASE /\ exec[x].state = "ambiguous" /\ End(h)
             /\ exec' = [exec EXCEPT ![x].state = "succeeded", ![x].reconciled = TRUE]
    <3>1. /\ exec'[x].state = "succeeded" /\ exec'[x].reconciled
          /\ \A y \in Executions : y # x => exec'[y] = exec[y]
      BY <1>1, <2>1 DEF Typed, WritebackTypeOK, ExecRecords
    <3>2. Clean(x)' /\ Settled(x)'
      BY <1>1, <2>1, <3>1 DEF Clean, Settled
    <3> QED
      BY <1>1, <1>2, <2>1, <3>1, <3>2, EndedAttempts
  <2> QED
    BY <1>3, <1>6, <2>1 DEF Settle
<1> QED
  BY <1>4, <1>5, <1>6

(* Handlers that begin, read, wait or die.                                   *)
LEMMA MovingAttempts ==
  ASSUME Typed, AttemptInv, NEW h \in Requests,
         \/ RunGated(h) \/ ReadBefore(h) \/ ReadDeleted(h) \/ AnswerWrite(h) \/ TimeOut(h)
         \/ ReadBack(h) \/ Observe(h) \/ Die(h)
         \/ \E e \in Effects : Execute(h, e)
         \/ \E g \in Generations, e \in Effects, p \in 1..MaxPreviews : Reverse(h, g, e, p)
  PROVE  AttemptInv'
<1> DEFINE x == handler[h].x
<1>0. /\ Knows(h)
      /\ handler[h].pc # "idle" => x \in Executions /\ Clean(x)
  BY DEF AttemptInv, Typed, Handled
<1>1. UNCHANGED <<exec, writes, flight, landed>>
  BY DEF RunGated, ReadBefore, ReadDeleted, AnswerWrite, TimeOut, ReadBack, Observe, Die,
    Execute, Reverse, recordVars, providerVars
<1>2. ASSUME NEW pc \in {"reading", "sending", "readback", "finishing"}, Goes(h, pc),
             handler[h].pc \in Attempting,
             pc \in Unsent => handler[h].pc \in Unsent,
             pc \in {"readback", "finishing"} => x \in landed
      PROVE  AttemptInv'
  <2>1. /\ handler'[h].pc = pc /\ handler'[h].x = x
        /\ \A k \in Requests : k # h => handler'[k] = handler[k]
    BY <1>2, GoesFacts DEF Typed
  <2>2. Knows(h)'
    BY <1>0, <1>1, <1>2, <2>1 DEF Knows, Settled
  <2> QED
    BY <1>1, <1>2, <2>1, <2>2, MovedAttempts
<1>3. ASSUME NEW ambiguous \in BOOLEAN, Fails(h, ambiguous), handler[h].pc \in Attempting,
             ~ambiguous => /\ x \notin flight
                           /\ IsForward(x) \/ x[2] \notin Creates => x \notin landed
      PROVE  AttemptInv'
  <2>1. /\ handler'[h].pc = "failing" /\ handler'[h].x = x /\ handler'[h].ambiguous = ambiguous
        /\ \A k \in Requests : k # h => handler'[k] = handler[k]
    BY <1>3, FailsFacts DEF Typed
  <2>2. Knows(h)'
    BY <1>0, <1>1, <1>3, <2>1 DEF Knows, Settled, Unsent
  <2> QED
    BY <1>1, <1>3, <2>1, <2>2, MovedAttempts
<1>4. ASSUME handler[h].pc \in Unsent PROVE x \notin flight \cup landed
  BY <1>0, <1>4 DEF Knows, Clean, Unsent
<1>5. CASE RunGated(h)
  BY <1>2, <1>3, <1>4, <1>5 DEF RunGated, Attempting, Unsent
<1>6. CASE ReadBefore(h)
  BY <1>2, <1>3, <1>4, <1>6 DEF ReadBefore, Attempting, Unsent
<1>7. CASE ReadDeleted(h) \/ TimeOut(h)
  BY <1>3, <1>7 DEF ReadDeleted, TimeOut, Attempting
<1>8. CASE AnswerWrite(h)
  BY <1>2, <1>8 DEF AnswerWrite, Attempting, Unsent
<1>9. CASE ReadBack(h)
  <2>1. handler[h].pc = "readback" /\ x \in landed /\ x \notin flight
    BY <1>0, <1>9 DEF ReadBack, Knows, Clean
  <2>2. CASE Goes(h, "finishing")
    BY <1>2, <2>1, <2>2 DEF Attempting, Unsent
  <2>3. CASE Fails(h, TRUE)
    BY <1>3, <2>1, <2>3 DEF Attempting
  <2>4. CASE ~IsForward(x) /\ x[2] \in Creates /\ Fails(h, FALSE)
    BY <1>3, <2>1, <2>4 DEF Attempting
  <2> QED
    BY <1>9, <2>2, <2>3, <2>4 DEF ReadBack
<1>10. CASE Observe(h) \/ Die(h)
  <2>1. Goes(h, "settling") \/ End(h)
    BY <1>10 DEF Observe, Die
  <2> QED
    BY <1>1, <2>1, GoesFacts, EndFacts, RestingAttempts DEF Typed, Attempting
<1>11. CASE \/ \E e \in Effects : Execute(h, e)
            \/ \E g \in Generations, e \in Effects, p \in 1..MaxPreviews : Reverse(h, g, e, p)
  <2>1. ASSUME NEW record, record.pc \in {"claiming", "creating"}, Becomes(h, record)
        PROVE  AttemptInv'
    BY <1>1, <2>1, BecomesFacts, RestingAttempts DEF Typed, Attempting
  <2>2. ASSUME NEW e \in Effects, Execute(h, e) PROVE AttemptInv'
    <3> DEFINE record == [Idle EXCEPT !.pc = "claiming", !.x = Forward(active, e)]
    <3>1. record.pc = "claiming"
      BY DEF Idle
    <3>2. Becomes(h, record)
      BY <2>2 DEF Execute
    <3> HIDE DEF record
    <3> QED
      BY <2>1, <3>1, <3>2
  <2>3. ASSUME NEW g \in Generations, NEW e \in Effects, NEW p \in 1..MaxPreviews,
               Reverse(h, g, e, p)
        PROVE  AttemptInv'
    <3> DEFINE record == [Idle EXCEPT !.pc = "creating", !.x = Reversal(g, e), !.preview = p]
    <3>1. record.pc = "creating"
      BY DEF Idle
    <3>2. Becomes(h, record)
      BY <2>3 DEF Reverse
    <3> HIDE DEF record
    <3> QED
      BY <2>1, <3>1, <3>2
  <2> QED
    BY <1>11, <2>2, <2>3
<1> QED
  BY <1>5, <1>6, <1>7, <1>8, <1>9, <1>10, <1>11

(* An attempt that reconciliation takes up is ambiguous from then on.        *)
LEMMA ReconcileAttempts ==
  ASSUME Typed, AttemptInv, NEW h \in Requests, NEW x \in Executions, Reconcile(h, x)
  PROVE  AttemptInv'
<1>1. UNCHANGED <<writes, flight, landed>>
  BY DEF Reconcile, providerVars
<1>2. /\ exec'[x].state = "ambiguous" /\ exec'[x].reconciled = exec[x].reconciled
      /\ \A y \in Executions : y # x => exec'[y] = exec[y]
  BY StoredFacts DEF Reconcile, Typed
<1>3. /\ handler'[h].pc \notin Attempting
      /\ \A k \in Requests : k # h => handler'[k] = handler[k]
  <2> DEFINE record == [Idle EXCEPT !.pc = "observing", !.x = x]
  <2>1. record.pc = "observing"
    BY DEF Idle
  <2>2. Becomes(h, record)
    BY DEF Reconcile
  <2> HIDE DEF record
  <2> QED
    BY <2>1, <2>2, BecomesFacts DEF Typed, Attempting
<1>4. Clean(x)'
  BY <1>1, <1>2 DEF Reconcile, AttemptInv, Clean, Pending
<1> QED
  BY <1>1, <1>2, <1>3, <1>4, EndedAttempts DEF Reconcile, Pending

(* Writes that are sent, carried out, lost or refused.                       *)
LEMMA WriteAttempts ==
  ASSUME Typed, AttemptInv,
         \/ \E h \in Requests : Send(h) \/ RefuseWrite(h)
         \/ \E x \in Executions : Land(x) \/ LoseWrite(x)
  PROVE  AttemptInv'
<1>0. UNCHANGED exec
  BY DEF Send, RefuseWrite, Land, LoseWrite, recordVars
<1>1. ASSUME NEW h \in Requests, Send(h) PROVE AttemptInv'
  <2> DEFINE x == handler[h].x
  <2>1. /\ x \in Executions /\ handler[h].pc = "sending"
        /\ writes[x] = 0 /\ x \notin flight \cup landed
        /\ exec[x].state \in Pending \/ Settled(x)
    BY <1>1 DEF Send, Typed, Handled, AttemptInv, Knows, Clean, Attempting, Unsent
  <2>2. /\ writes'[x] = 1 /\ \A y \in Executions : y # x => writes'[y] = writes[y]
        /\ flight' = flight \cup {x} /\ landed' = landed
    BY <1>1, <2>1 DEF Send, Typed, WritebackTypeOK
  <2>3. /\ handler'[h].pc = "waiting" /\ handler'[h].x = x
        /\ \A k \in Requests : k # h => handler'[k] = handler[k]
    BY <1>1, GoesFacts DEF Send, Typed
  <2>4. Knows(h)'
    BY <1>0, <2>1, <2>3 DEF Knows, Settled, Attempting, Unsent
  <2>5. ASSUME NEW k \in Requests, k # h PROVE Knows(k)'
    <3>1. handler'[k] = handler[k] /\ Knows(k)
      BY <2>3, <2>5 DEF AttemptInv
    <3>2. handler[k].pc \in Attempting => handler[k].x # x /\ handler[k].x \in Executions
      BY <2>1, <2>5 DEF AttemptInv, Sole, Attempting, Typed, Handled
    <3> QED
      BY <1>0, <2>2, <3>1, <3>2 DEF Knows, Settled, Attempting, Unsent
  <2>6. Sole'
    BY <2>1, <2>3 DEF AttemptInv, Sole, Attempting
  <2>7. \A y \in Executions : Clean(y)'
    BY <1>0, <2>1, <2>2 DEF AttemptInv, Clean, Settled, Pending
  <2> QED
    BY <2>4, <2>5, <2>6, <2>7 DEF AttemptInv
<1>2. ASSUME NEW h \in Requests, RefuseWrite(h) PROVE AttemptInv'
  <2> DEFINE x == handler[h].x
  <2>1. /\ x \in Executions /\ handler[h].pc = "waiting" /\ x \in flight /\ x \notin landed
        /\ exec[x].state \in Pending \/ Settled(x)
    BY <1>2 DEF RefuseWrite, Typed, Handled, AttemptInv, Knows, Clean, Attempting
  <2>2. writes' = writes /\ flight' = flight \ {x} /\ landed' = landed
    BY <1>2 DEF RefuseWrite
  <2>3. /\ handler'[h].pc = "failing" /\ handler'[h].x = x
        /\ \A k \in Requests : k # h => handler'[k] = handler[k]
    BY <1>2, FailsFacts DEF RefuseWrite, Typed
  <2>4. Knows(h)'
    BY <1>0, <2>1, <2>2, <2>3 DEF Knows, Settled, Unsent
  <2>5. \A k \in Requests : k # h => Knows(k)'
    BY <1>0, <2>2, <2>3 DEF AttemptInv, Knows, Settled
  <2>6. Sole'
    BY <2>1, <2>3 DEF AttemptInv, Sole, Attempting
  <2>7. \A y \in Executions : Clean(y)'
    BY <1>0, <2>1, <2>2 DEF AttemptInv, Clean
  <2> QED
    BY <2>4, <2>5, <2>6, <2>7 DEF AttemptInv
<1>3. ASSUME NEW x \in Executions, Land(x) PROVE AttemptInv'
  <2>1. /\ x \in flight /\ flight' = flight \ {x} /\ landed' = landed \cup {x}
        /\ writes' = writes /\ handler' = handler
    BY <1>3 DEF Land
  <2>2. \A k \in Requests : Knows(k)'
    BY <1>0, <2>1 DEF AttemptInv, Knows, Settled
  <2>3. Sole'
    BY <2>1 DEF AttemptInv, Sole
  <2>4. \A y \in Executions : Clean(y)'
    BY <1>0, <2>1 DEF AttemptInv, Clean
  <2> QED
    BY <2>2, <2>3, <2>4 DEF AttemptInv
<1>4. ASSUME NEW x \in Executions, LoseWrite(x) PROVE AttemptInv'
  <2>1. /\ flight' = flight \ {x} /\ UNCHANGED <<writes, landed, handler>>
    BY <1>4 DEF LoseWrite
  <2> QED
    BY <1>0, <2>1 DEF AttemptInv, Knows, Settled, Sole, Clean
<1> QED
  BY <1>1, <1>2, <1>3, <1>4

(* Every step keeps what is known of attempts.                               *)
LEMMA NextAttempts == Typed /\ AttemptInv /\ [WritebackNext]_allVars => AttemptInv'
<1> SUFFICES ASSUME Typed, AttemptInv, [WritebackNext]_allVars PROVE AttemptInv'
  OBVIOUS
<1>1. CASE UNCHANGED writebackVars
  BY <1>1, QuietAttempts DEF writebackVars, recordVars, providerVars
<1>2. CASE WritebackStep
  <2>1. CASE \/ \E before \in [Effects -> Values] : Save(before)
             \/ Discard
             \/ \E g \in Generations, e \in Effects :
                  PreviewReversal(g, e) \/ ExpirePreview(g, e)
             \/ \E t \in Places : Edit(t)
    BY <2>1, QuietAttempts
      DEF Save, Discard, PreviewReversal, ExpirePreview, Edit, recordVars, providerVars
  <2> QED
    BY <1>2, <2>1, ClaimAttempts, OutcomeAttempts, MovingAttempts, ReconcileAttempts,
      WriteAttempts DEF WritebackStep, Attempt
<1> QED
  BY <1>1, <1>2 DEF WritebackNext, StopStep, allVars

-----------------------------------------------------------------------------
(* Proposals                                                                 *)

(* What gives no effect of another proposal an open outcome, and none a      *)
(* receipt whose outcome was not open, keeps proposals and receipts.         *)
LEMMA SameProposal ==
  ASSUME AwaitedIsActive, EvidenceIsKept, UNCHANGED <<active, archive>>,
         \A g \in Generations, e \in Effects :
           LET x == Forward(g, e) IN
           \/ exec'[x].state = exec[x].state
           \/ exec'[x].state \in Pending /\ (exec[x].state \in Pending \/ g = active)
           \/ exec'[x].state = "succeeded" /\ exec[x].state \in Pending
           \/ exec'[x].state \in {"failed", "ready"}
  PROVE  AwaitedIsActive' /\ EvidenceIsKept'
BY DEF AwaitedIsActive, EvidenceIsKept, Pending

(* One record is written: the same for each of its outcomes.                 *)
LEMMA OneOutcome ==
  ASSUME Typed, AwaitedIsActive, EvidenceIsKept, UNCHANGED <<active, archive>>,
         NEW x \in Executions,
         \A y \in Executions : y # x => exec'[y] = exec[y],
         \/ exec'[x].state = "running" /\ (IsForward(x) => x[1] = active)
         \/ exec'[x].state \in {"ambiguous", "succeeded"} /\ exec[x].state \in Pending
         \/ exec'[x].state \in {"failed", "ready"}
  PROVE  AwaitedIsActive' /\ EvidenceIsKept'
<1> SUFFICES ASSUME NEW g \in Generations, NEW e \in Effects
             PROVE  LET y == Forward(g, e) IN
                    \/ exec'[y].state = exec[y].state
                    \/ exec'[y].state \in Pending /\ (exec[y].state \in Pending \/ g = active)
                    \/ exec'[y].state = "succeeded" /\ exec[y].state \in Pending
                    \/ exec'[y].state \in {"failed", "ready"}
  BY SameProposal
<1>1. Forward(g, e) \in Executions /\ IsForward(Forward(g, e)) /\ Forward(g, e)[1] = g
  BY ForwardFacts
<1>2. CASE Forward(g, e) # x
  BY <1>1, <1>2
<1>3. CASE Forward(g, e) = x
  BY <1>1, <1>3 DEF Pending
<1> QED
  BY <1>2, <1>3

(* A proposal leaves the lease only when no outcome of it is open, and its   *)
(* receipts stay.                                                            *)
LEMMA ReplacedProposal ==
  ASSUME Typed, AwaitedIsActive, EvidenceIsKept,
         (\E before \in [Effects -> Values] : Save(before)) \/ Discard
  PROVE  AwaitedIsActive' /\ EvidenceIsKept'
<1>1. /\ exec' = exec /\ archive' = Archived
      /\ active # NoGeneration => ~Awaits(active)
  BY DEF Save, Discard, recordVars
<1>2. \A g \in Generations : g # NoGeneration
  BY DEF Generations, NoGeneration
<1>3. ASSUME NEW g \in Generations, NEW e \in Effects
      PROVE  exec[Forward(g, e)].state \notin Pending
  BY <1>1, <1>2 DEF AwaitedIsActive, Awaits
<1>4. ASSUME NEW g \in Generations, NEW e \in Effects,
             exec[Forward(g, e)].state = "succeeded"
      PROVE  e \in archive'[g]
  <2>1. archive \in [Generations -> SUBSET Effects]
    BY DEF Typed, WritebackTypeOK
  <2>2. CASE g = active
    BY <1>1, <1>2, <1>4, <2>1, <2>2 DEF Archived, Succeeded
  <2>3. CASE g # active
    BY <1>1, <1>4, <2>1, <2>3 DEF Archived, EvidenceIsKept
  <2> QED
    BY <2>2, <2>3
<1> QED
  BY <1>1, <1>3, <1>4 DEF AwaitedIsActive, EvidenceIsKept

(* Every step keeps open outcomes and receipts within reach.                 *)
LEMMA NextProposals ==
  ASSUME Typed, AwaitedIsActive, EvidenceIsKept, [WritebackNext]_allVars
  PROVE  AwaitedIsActive' /\ EvidenceIsKept'
<1>1. ASSUME UNCHANGED <<active, archive, exec>>
      PROVE  AwaitedIsActive' /\ EvidenceIsKept'
  BY <1>1 DEF AwaitedIsActive, EvidenceIsKept
<1>2. ASSUME NEW h \in Requests,
             \/ ClaimEffect(h) \/ CreateReversal(h) \/ ClaimReversal(h)
             \/ FinishExecution(h) \/ RecordFailure(h) \/ Settle(h)
      PROVE  AwaitedIsActive' /\ EvidenceIsKept'
  <2>1. PICK x \in Executions : x = handler[h].x
    BY <1>2 DEF Typed, Handled, ClaimEffect, CreateReversal, ClaimReversal, FinishExecution,
      RecordFailure, Settle
  <2>2. UNCHANGED <<active, archive>>
    BY <1>2 DEF ClaimEffect, CreateReversal, ClaimReversal, FinishExecution, RecordFailure,
      Settle, proposalVars
  <2>3. ASSUME NEW outcome, Stored(x, outcome),
               \/ outcome = "running" /\ (IsForward(x) => x[1] = active)
               \/ outcome \in {"ambiguous", "succeeded"} /\ exec[x].state \in Pending
               \/ outcome = "failed"
        PROVE  AwaitedIsActive' /\ EvidenceIsKept'
    <3>1. /\ exec'[x].state = outcome
          /\ \A y \in Executions : y # x => exec'[y] = exec[y]
      BY <2>3, StoredFacts DEF Typed
    <3> QED
      BY <2>2, <2>3, <3>1, OneOutcome
  <2>4. CASE ClaimEffect(h)
    BY <1>1, <2>1, <2>2, <2>3, <2>4 DEF ClaimEffect
  <2>5. CASE CreateReversal(h)
    <3>1. CASE exec' = [exec EXCEPT ![x].state = "ready", ![x].preview = handler[h].preview]
      <4>1. /\ exec'[x].state = "ready"
            /\ \A y \in Executions : y # x => exec'[y] = exec[y]
        BY <3>1 DEF Typed, WritebackTypeOK, ExecRecords
      <4> QED
        BY <2>2, <4>1, OneOutcome
    <3> QED
      BY <1>1, <2>1, <2>2, <2>5, <3>1 DEF CreateReversal
  <2>6. CASE ClaimReversal(h)
    <3>1. ~IsForward(x)
      BY <2>1, <2>6 DEF ClaimReversal, Typed, Handled
    <3> QED
      BY <1>1, <2>1, <2>2, <2>3, <2>6, <3>1 DEF ClaimReversal
  <2>7. CASE FinishExecution(h)
    BY <1>1, <2>1, <2>2, <2>3, <2>7 DEF FinishExecution, Pending
  <2>8. CASE RecordFailure(h)
    BY <1>1, <2>1, <2>2, <2>3, <2>8 DEF RecordFailure, Pending
  <2>9. CASE Settle(h)
    <3>1. CASE /\ exec[x].state = "ambiguous"
               /\ exec' = [exec EXCEPT ![x].state = "succeeded", ![x].reconciled = TRUE]
      <4>1. /\ exec'[x].state = "succeeded" /\ exec[x].state \in Pending
            /\ \A y \in Executions : y # x => exec'[y] = exec[y]
        BY <3>1 DEF Typed, WritebackTypeOK, ExecRecords, Pending
      <4> QED
        BY <2>2, <4>1, OneOutcome
    <3> QED
      BY <1>1, <2>1, <2>2, <2>9, <3>1 DEF Settle
  <2> QED
    BY <1>2, <2>4, <2>5, <2>6, <2>7, <2>8, <2>9
<1>3. ASSUME NEW h \in Requests, NEW x \in Executions, Reconcile(h, x)
      PROVE  AwaitedIsActive' /\ EvidenceIsKept'
  <2>1. /\ exec'[x].state = "ambiguous" /\ exec[x].state \in Pending
        /\ \A y \in Executions : y # x => exec'[y] = exec[y]
    BY <1>3, StoredFacts DEF Reconcile, Typed
  <2>2. UNCHANGED <<active, archive>>
    BY <1>3 DEF Reconcile, proposalVars
  <2> QED
    BY <2>1, <2>2, OneOutcome
<1>4. CASE (\E before \in [Effects -> Values] : Save(before)) \/ Discard
  BY <1>4, ReplacedProposal
<1>5. CASE \/ \E g \in Generations, e \in Effects : PreviewReversal(g, e) \/ ExpirePreview(g, e)
           \/ \E x \in Executions : Land(x) \/ LoseWrite(x)
           \/ \E t \in Places : Edit(t)
  <2>1. UNCHANGED <<active, archive, exec>>
    BY <1>5 DEF PreviewReversal, ExpirePreview, Land, LoseWrite, Edit, proposalVars, recordVars
  <2> QED
    BY <1>1, <2>1
<1>8. CASE \/ \E h \in Requests, e \in Effects : Execute(h, e)
           \/ \E h \in Requests, g \in Generations, e \in Effects, p \in 1..MaxPreviews :
                Reverse(h, g, e, p)
           \/ \E h \in Requests : Observe(h) \/ Die(h)
  <2>1. UNCHANGED <<active, archive, exec>>
    BY ZenonT(30), <1>8 DEF Execute, Reverse, Observe, Die, proposalVars, recordVars
  <2> QED
    BY <1>1, <2>1
<1>6. ASSUME NEW h \in Requests, Attempt(h)
      PROVE  AwaitedIsActive' /\ EvidenceIsKept'
  <2>1. CASE FinishExecution(h) \/ RecordFailure(h)
    BY <1>2, <2>1
  <2>2. CASE ~(FinishExecution(h) \/ RecordFailure(h))
    <3>1. UNCHANGED <<active, archive, exec>>
      BY <1>6, <2>2 DEF Attempt, RunGated, ReadBefore, ReadDeleted, Send, RefuseWrite,
        AnswerWrite, TimeOut, ReadBack, proposalVars, recordVars
    <3> QED
      BY <1>1, <3>1
  <2> QED
    BY <2>1, <2>2
<1>7. CASE UNCHANGED writebackVars
  BY <1>1, <1>7 DEF writebackVars, proposalVars, recordVars
<1> QED
  BY <1>2, <1>3, <1>4, <1>5, <1>6, <1>7, <1>8 DEF WritebackNext, WritebackStep, StopStep, allVars

-----------------------------------------------------------------------------
(* The gate before a write                                                   *)

(* A handler past its gate has the gate's answer.                            *)
Answered ==
  \A h \in Requests : handler[h].pc \in {"reading", "sending"} => gate[h].pc = "passed"

(* A handler's step touches no other handler, and its gate only to ask it or *)
(* to end; it reads after the gate let it pass, and sends after it read.     *)
HandlerStep(k) ==
  /\ \A j \in Requests : j # k => handler'[j] = handler[j]
  /\ \/ /\ gate' = gate
        /\ \/ handler'[k].pc \notin {"reading", "sending"}
           \/ handler[k].pc = "reading"
           \/ gate[k].pc = "passed"
     \/ (\E key \in Keys : Ask(k, key)) /\ handler'[k].pc = "gate"
     \/ Finish(k) /\ handler'[k].pc = "idle"

(* Every step of a handler is one of these.                                  *)
LEMMA HandlerSteps ==
  ASSUME Typed, NEW k \in Requests,
         \/ ClaimEffect(k) \/ CreateReversal(k) \/ ClaimReversal(k)
         \/ Attempt(k) \/ Observe(k) \/ Settle(k) \/ Die(k)
  PROVE  HandlerStep(k)
<1>1. ASSUME End(k) PROVE HandlerStep(k)
  BY <1>1, EndFacts DEF HandlerStep, End, Typed, gateVars
<1>2. ASSUME NEW ambiguous \in BOOLEAN, Fails(k, ambiguous), UNCHANGED gateVars
      PROVE  HandlerStep(k)
  BY <1>2, FailsFacts DEF HandlerStep, Typed, gateVars
<1>3. ASSUME NEW pc \in {"binding", "waiting", "readback", "finishing", "settling"}, Goes(k, pc),
             UNCHANGED gateVars
      PROVE  HandlerStep(k)
  BY <1>3, GoesFacts DEF HandlerStep, Typed, gateVars
<1>4. ASSUME NEW pc \in {"reading", "sending"}, Goes(k, pc), UNCHANGED gateVars,
             handler[k].pc = "reading" \/ gate[k].pc = "passed"
      PROVE  HandlerStep(k)
  BY <1>4, GoesFacts DEF HandlerStep, Typed, gateVars
<1>5. ASSUME handler[k].pc # "idle", Goes(k, "gate"), Ask(k, KeyOf[handler[k].x[2]])
      PROVE  HandlerStep(k)
  <2>1. KeyOf[handler[k].x[2]] \in Keys
    BY <1>5, ExecutionFacts, WritebackAssumption DEF Typed, Handled
  <2> QED
    BY <1>5, <2>1, GoesFacts DEF HandlerStep, Typed
<1>6. CASE ClaimEffect(k)
  BY <1>1, <1>5, <1>6 DEF ClaimEffect
<1>7. CASE CreateReversal(k)
  BY <1>1, <1>3, <1>7 DEF CreateReversal
<1>8. CASE ClaimReversal(k)
  BY <1>1, <1>5, <1>8 DEF ClaimReversal
<1>9. CASE RunGated(k)
  BY <1>2, <1>4, <1>9 DEF RunGated
<1>10. CASE ReadBefore(k)
  BY <1>2, <1>4, <1>10 DEF ReadBefore
<1>11. CASE Send(k) \/ AnswerWrite(k)
  BY <1>3, <1>11 DEF Send, AnswerWrite
<1>12. CASE ReadDeleted(k) \/ RefuseWrite(k) \/ TimeOut(k)
  BY <1>2, <1>12 DEF ReadDeleted, RefuseWrite, TimeOut
<1>13. CASE ReadBack(k)
  BY <1>2, <1>3, <1>13 DEF ReadBack
<1>14. CASE FinishExecution(k)
  BY <1>1, <1>2, <1>14 DEF FinishExecution
<1>15. CASE RecordFailure(k) \/ Settle(k) \/ Die(k)
  BY <1>1, <1>15 DEF RecordFailure, Settle, Die
<1>16. CASE Observe(k)
  BY <1>1, <1>3, <1>16 DEF Observe
<1> QED
  BY <1>6, <1>7, <1>8, <1>9, <1>10, <1>11, <1>12, <1>13, <1>14, <1>15, <1>16 DEF Attempt

(* The answer stays until the handler's request ends.                        *)
LEMMA AnswersStay ==
  ASSUME TypeOK, Typed, Answered, [WritebackNext]_allVars
  PROVE  Answered'
<1> SUFFICES ASSUME NEW h \in Requests, handler'[h].pc \in {"reading", "sending"}
             PROVE  gate'[h].pc = "passed"
  BY DEF Answered
<1>0. ASSUME handler'[h] = handler[h], gate'[h] = gate[h] PROVE gate'[h].pc = "passed"
  BY <1>0 DEF Answered
<1>1. ASSUME NEW k \in Requests, HandlerStep(k) PROVE gate'[h].pc = "passed"
  <2>1. CASE h = k
    BY <1>1, <2>1 DEF HandlerStep, Answered
  <2>2. CASE h # k
    <3>1. gate'[h] = gate[h]
      BY <1>1, <2>2 DEF HandlerStep, Ask, Finish, TypeOK
    <3> QED
      BY <1>0, <1>1, <2>2, <3>1 DEF HandlerStep
  <2> QED
    BY <2>1, <2>2
<1>2. CASE \/ \E k \in Requests : \/ ClaimEffect(k) \/ CreateReversal(k) \/ ClaimReversal(k)
                                  \/ Attempt(k) \/ Observe(k) \/ Settle(k) \/ Die(k)
  BY <1>1, <1>2, HandlerSteps
<1>3. ASSUME NEW k \in Requests, NEW record, Becomes(k, record), UNCHANGED gateVars,
             record.pc \in {"claiming", "creating", "observing"}
      PROVE  gate'[h].pc = "passed"
  <2>1. h # k
    BY <1>3, BecomesFacts DEF Typed
  <2> QED
    BY <1>0, <1>3, <2>1, BecomesFacts DEF Typed, gateVars
<1>4. ASSUME NEW k \in Requests, NEW e \in Effects, Execute(k, e) PROVE gate'[h].pc = "passed"
  <2> DEFINE record == [Idle EXCEPT !.pc = "claiming", !.x = Forward(active, e)]
  <2>1. record.pc = "claiming"
    BY DEF Idle
  <2>2. Becomes(k, record) /\ UNCHANGED gateVars
    BY <1>4 DEF Execute
  <2> HIDE DEF record
  <2> QED
    BY <1>3, <2>1, <2>2
<1>5. ASSUME NEW k \in Requests, NEW g \in Generations, NEW e \in Effects,
             NEW p \in 1..MaxPreviews, Reverse(k, g, e, p)
      PROVE  gate'[h].pc = "passed"
  <2> DEFINE record == [Idle EXCEPT !.pc = "creating", !.x = Reversal(g, e), !.preview = p]
  <2>1. record.pc = "creating"
    BY DEF Idle
  <2>2. Becomes(k, record) /\ UNCHANGED gateVars
    BY <1>5 DEF Reverse
  <2> HIDE DEF record
  <2> QED
    BY <1>3, <2>1, <2>2
<1>6. ASSUME NEW k \in Requests, NEW x \in Executions, Reconcile(k, x)
      PROVE  gate'[h].pc = "passed"
  <2> DEFINE record == [Idle EXCEPT !.pc = "observing", !.x = x]
  <2>1. record.pc = "observing"
    BY DEF Idle
  <2>2. Becomes(k, record) /\ UNCHANGED gateVars
    BY <1>6 DEF Reconcile
  <2> HIDE DEF record
  <2> QED
    BY <1>3, <2>1, <2>2
<1>7. CASE \/ (\E before \in [Effects -> Values] : Save(before)) \/ Discard
           \/ \E g \in Generations, e \in Effects : PreviewReversal(g, e) \/ ExpirePreview(g, e)
           \/ \E x \in Executions : Land(x) \/ LoseWrite(x)
           \/ \E t \in Places : Edit(t)
  <2>1. handler' = handler /\ gate' = gate
    BY <1>7 DEF Save, Discard, PreviewReversal, ExpirePreview, Land, LoseWrite, Edit, gateVars
  <2> QED
    BY <1>0, <2>1
<1>8. CASE StopStep
  <2>1. handler' = handler /\ gate[h].pc = "passed"
    BY <1>8 DEF StopStep, writebackVars, Answered
  <2>2. gate'[h] = gate[h]
    BY <1>8, <2>1 DEF StopStep, Submit, Change, Damage, ReadGlobal, ReadExact, ReadFails, TypeOK
  <2> QED
    BY <2>1, <2>2
<1>9. CASE UNCHANGED allVars
  BY <1>0, <1>9 DEF allVars, vars, writebackVars
<1> QED
  BY <1>2, <1>4, <1>5, <1>6, <1>7, <1>8, <1>9 DEF WritebackNext, WritebackStep

-----------------------------------------------------------------------------
(* Theorems                                                                  *)

(* The lease's handlers use the stop and its gate as RuntimeSuspension       *)
(* describes them, so what holds there holds here.                           *)
THEOREM WritebackImplementsStops == WritebackSpec => ImplementsStops
<1>1. WritebackInit => Init /\ Typed /\ Watched
  <2>1. WritebackInit => Watched
    BY DEF WritebackInit, Init, Watched
  <2> QED
    BY <2>1, InitTyped DEF WritebackInit
<1>2. Typed /\ Watched /\ [WritebackNext]_allVars => Typed' /\ Watched' /\ [Next]_vars
  BY NextTyped, StopsKept DEF Typed
<1> QED
  BY <1>1, <1>2, PTL DEF WritebackSpec, ImplementsStops, Spec

(* Every stop is accounted for while effects of a lease ask for it.          *)
THEOREM StopsAccountedBesideLease == WritebackSpec => []StopsAreAccounted
BY WritebackImplementsStops, StopsStayAccounted, PTL DEF ImplementsStops

(* No effect of the lease passes its gate that was stopped all the time.     *)
THEOREM PassedWasOpenForLease == WritebackSpec => []PassedWasOpen
BY WritebackImplementsStops, PassesOnlyWhenOpen, PTL DEF ImplementsStops

(* The records of a lease and what is known of its attempts.                 *)
THEOREM LeaseKept == WritebackSpec => []WInv
<1>1. WritebackInit => WInv
  <2>1. WritebackInit => AwaitedIsActive /\ EvidenceIsKept
    BY ForwardFacts DEF WritebackInit, AwaitedIsActive, EvidenceIsKept, Pending
  <2> QED
    BY <2>1, InitTyped, InitAttempts DEF WInv
<1>2. WInv /\ [WritebackNext]_allVars => WInv'
  BY NextTyped, NextAttempts, NextProposals DEF WInv
<1> QED
  BY <1>1, <1>2, PTL DEF WritebackSpec

(* Nothing is written twice, nothing whose outcome is open leaves with its   *)
(* proposal, and no receipt is lost.                                         *)
THEOREM LeaseStaysSound == WritebackSpec => []LeaseInv
<1>1. WInv => LeaseInv
  BY DEF WInv, Typed, AttemptInv, Clean, LeaseInv, WrittenOnce
<1> QED
  BY <1>1, LeaseKept, PTL

(* What is stored of an attempt is true of RentVine.                         *)
THEOREM OutcomesStayTrue == WritebackSpec => []OutcomesAreTrue
<1>1. WInv => OutcomesAreTrue
  BY DEF WInv, AttemptInv, Clean, OutcomesAreTrue
<1> QED
  BY <1>1, LeaseKept, PTL

(* Nothing is sent with its key stopped ever since the claim.                *)
THEOREM SendsWhileOpen == WritebackSpec => SentWhileOpen
<1>1. WritebackInit => Answered
  BY DEF WritebackInit, Idle, Answered
<1>2. Answered /\ PassedWasOpen => [\A h \in Requests :
        handler[h].pc = "sending" /\ handler'[h].pc = "waiting" => opening[h]]_allVars
  BY DEF Answered, PassedWasOpen
<1>3. WritebackSpec => []TypeOK
  BY WritebackImplementsStops, StopTypes, PTL DEF ImplementsStops
<1>4. WInv => Typed
  BY DEF WInv
<1>5. WritebackSpec => []Typed
  BY <1>4, LeaseKept, PTL
<1>6. TypeOK /\ Typed /\ Answered /\ [WritebackNext]_allVars => Answered'
  BY AnswersStay
<1>7. WritebackSpec => []Answered
  BY <1>1, <1>3, <1>5, <1>6, PTL DEF WritebackSpec
<1> QED
  BY <1>2, <1>7, PassedWasOpenForLease, PTL DEF SentWhileOpen

(* No step takes a receipt back or replaces it.                              *)
THEOREM ReceiptsStay == WritebackSpec => ReceiptsAreForever
<1> DEFINE Kept == \A x \in Executions : exec[x].state = "succeeded" => exec'[x] = exec[x]
<1>1. Typed /\ [WritebackNext]_allVars => [Kept]_allVars
  <2> SUFFICES ASSUME Typed, WritebackNext PROVE Kept
    OBVIOUS
  <2>1. ASSUME NEW x \in Executions, exec[x].state # "succeeded",
               \A y \in Executions : y # x => exec'[y] = exec[y]
        PROVE  Kept
    BY <2>1
  <2>2. ASSUME exec' = exec PROVE Kept
    BY <2>2
  <2>3. ASSUME NEW x \in Executions, NEW outcome, Stored(x, outcome),
               exec[x].state # "succeeded"
        PROVE  Kept
    BY <2>1, <2>3, StoredFacts DEF Typed
  <2>4. ASSUME NEW h \in Requests,
               \/ ClaimEffect(h) \/ CreateReversal(h) \/ ClaimReversal(h)
               \/ FinishExecution(h) \/ RecordFailure(h) \/ Settle(h)
        PROVE  Kept
    <3>1. PICK x \in Executions : x = handler[h].x
      BY <2>4 DEF Typed, Handled, ClaimEffect, CreateReversal, ClaimReversal, FinishExecution,
        RecordFailure, Settle
    <3>2. CASE ClaimEffect(h) \/ ClaimReversal(h) \/ FinishExecution(h) \/ RecordFailure(h)
      BY <2>2, <2>3, <3>1, <3>2 DEF ClaimEffect, ClaimReversal, FinishExecution, RecordFailure
    <3>3. CASE CreateReversal(h)
      <4>1. exec' = exec \/ exec[x].state = "none"
        BY <3>1, <3>3 DEF CreateReversal
      <4>2. \A y \in Executions : y # x => exec'[y] = exec[y]
        BY <3>1, <3>3 DEF CreateReversal, Typed, WritebackTypeOK
      <4> QED
        BY <2>1, <2>2, <4>1, <4>2
    <3>4. CASE Settle(h)
      <4>1. exec' = exec \/ exec[x].state = "ambiguous"
        BY <3>1, <3>4 DEF Settle
      <4>2. \A y \in Executions : y # x => exec'[y] = exec[y]
        BY <3>1, <3>4 DEF Settle, Typed, WritebackTypeOK
      <4> QED
        BY <2>1, <2>2, <4>1, <4>2
    <3> QED
      BY <2>4, <3>2, <3>3, <3>4
  <2>5. ASSUME NEW h \in Requests, NEW x \in Executions, Reconcile(h, x) PROVE Kept
    BY <2>3, <2>5 DEF Reconcile, Pending
  <2>6. ASSUME NEW h \in Requests, Attempt(h) PROVE Kept
    <3>1. CASE FinishExecution(h) \/ RecordFailure(h)
      BY <2>4, <3>1
    <3>2. CASE ~(FinishExecution(h) \/ RecordFailure(h))
      BY <2>2, <2>6, <3>2 DEF Attempt, RunGated, ReadBefore, ReadDeleted, Send, RefuseWrite,
        AnswerWrite, TimeOut, ReadBack, recordVars
    <3> QED
      BY <3>1, <3>2
  <2>7. CASE \/ (\E before \in [Effects -> Values] : Save(before)) \/ Discard
             \/ \E g \in Generations, e \in Effects :
                  PreviewReversal(g, e) \/ ExpirePreview(g, e)
             \/ \E x \in Executions : Land(x) \/ LoseWrite(x)
             \/ \E t \in Places : Edit(t)
             \/ StopStep
    <3>1. exec' = exec
      BY <2>7 DEF Save, Discard, PreviewReversal, ExpirePreview, Land, LoseWrite, Edit, StopStep,
        writebackVars, recordVars
    <3> QED
      BY <2>2, <3>1
  <2>8. CASE \/ \E h \in Requests, e \in Effects : Execute(h, e)
             \/ \E h \in Requests, g \in Generations, e \in Effects, p \in 1..MaxPreviews :
                  Reverse(h, g, e, p)
             \/ \E h \in Requests : Observe(h) \/ Die(h)
    <3>1. exec' = exec
      BY ZenonT(30), <2>8 DEF Execute, Reverse, Observe, Die, recordVars
    <3> QED
      BY <2>2, <3>1
  <2> QED
    BY <2>4, <2>5, <2>6, <2>7, <2>8 DEF WritebackNext, WritebackStep
<1>2. WInv => Typed
  BY DEF WInv
<1> QED
  BY <1>1, <1>2, LeaseKept, PTL DEF WritebackSpec, ReceiptsAreForever
=============================================================================
