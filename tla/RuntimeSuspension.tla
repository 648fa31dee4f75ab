------------------------- MODULE RuntimeSuspension -------------------------
(***************************************************************************)
(* The Admin stop of live effects: lib/firestore/runtime-action-           *)
(* suspensions.ts keeps one document per stopped action key, one for the   *)
(* reserved global key, and one immutable document per Admin operation.    *)
(* lib/operations/runtime-suspension-gate.ts asks it before every effect.  *)
(*                                                                         *)
(* An operation travels as a request that the browser may repeat and the   *)
(* network may delay, so a stop and a clear can arrive late, twice and out *)
(* of order.  The suspension id is generated by the one operation that     *)
(* commits it, so the operation's id stands for it here.                   *)
(***************************************************************************)
EXTENDS Naturals, FiniteSets

CONSTANTS
  Admins,
  Keys,            \* stoppable action keys, the global one among them
  Global,
  Operations,      \* idempotency keys; each also names the suspension it makes
  Requests,        \* effects that ask the gate
  MaxSubmissions,  \* bound on the operations Admins send
  Clear, Unreadable, NoOperation, NoChange

ASSUME KeysAssumption == Global \in Keys
ASSUME NullsAssumption ==
  /\ Clear # Unreadable /\ Clear # NoOperation /\ Unreadable # NoOperation
  /\ {Clear, Unreadable, NoOperation} \cap Operations = {}

VARIABLES
  state,    \* [Keys -> Operations \cup {Clear, Unreadable}]: the stop documents
  changes,  \* [Operations -> Changes \cup {NoChange}]: the operation documents
  sent,     \* submissions under way, which may be delivered any number of times
  gate,     \* [Requests -> Gates]: effects between asking and going ahead
  damaged,  \* [Keys -> what a malformed document replaced, or NoOperation]
  opening   \* [Requests -> BOOLEAN]: history: nothing stopped it at some moment

stopVars == <<state, changes, sent, damaged>>
vars == <<state, changes, sent, gate, damaged, opening>>

Targets == Operations \cup {Clear, Unreadable}

Submissions ==
  [op: Operations, by: Admins, key: Keys, action: {"suspend", "clear"},
   expected: Targets \cup {NoOperation}]

Changes ==
  [by: Admins, key: Keys, action: {"suspend", "clear"},
   expected: Targets \cup {NoOperation}, previous: Targets]

ASSUME ChangeAssumption == NoChange \notin Changes

Gates ==
  [pc: {"idle", "asked", "half", "passed", "stopped"}, key: Keys, clear: BOOLEAN]

-----------------------------------------------------------------------------
(* Admin operations                                                          *)

(* A clear names the suspension its Admin was shown.                         *)
Submit(a, op, key, action) ==
  /\ Cardinality(sent) < MaxSubmissions
  /\ action = "clear" => state[key] # Clear
  /\ sent' = sent \cup
       {[op |-> op, by |-> a, key |-> key, action |-> action,
         expected |-> IF action = "clear" THEN state[key] ELSE NoOperation]}
  /\ UNCHANGED <<state, changes, gate, damaged>>

(* Mutant: the gate reads its two documents outside a transaction.           *)
NeverLocked(key) == FALSE

(* The gate's transaction has read this document and has not ended yet.      *)
Locked(key) == key = Global /\ \E r \in Requests : gate[r].pc = "half"

(* Mutant: a clear does not compare the suspension it was shown.             *)
ClearAnything(s) == s.action = "clear" => state[s.key] # Clear

(* assertClearPrecondition                                                   *)
ClearMatches(s) ==
  s.action = "clear" => state[s.key] # Clear /\ s.expected = state[s.key]

(* changeRuntimeActionSuspension.  An operation id that is already recorded  *)
(* is a replay or a conflict and writes nothing.                             *)
Change(s) ==
  /\ ~Locked(s.key)
  /\ changes[s.op] = NoChange
  /\ ClearMatches(s)
  /\ state' = [state EXCEPT ![s.key] = IF s.action = "suspend" THEN s.op ELSE Clear]
  /\ changes' = [changes EXCEPT ![s.op] =
       [by |-> s.by, key |-> s.key, action |-> s.action, expected |-> s.expected,
        previous |-> state[s.key]]]
  /\ UNCHANGED <<sent, gate, damaged>>

(* External: a stop document becomes malformed, once per key.                *)
Damage(key) ==
  /\ damaged[key] = NoOperation
  /\ ~Locked(key)
  /\ damaged' = [damaged EXCEPT ![key] = state[key]]
  /\ state' = [state EXCEPT ![key] = Unreadable]
  /\ UNCHANGED <<changes, sent, gate>>

-----------------------------------------------------------------------------
(* The gate                                                                  *)

Ask(r, key) ==
  /\ gate[r].pc = "idle"
  /\ gate' = [gate EXCEPT ![r] = [pc |-> "asked", key |-> key, clear |-> FALSE]]
  /\ UNCHANGED stopVars

(* readRuntimeActionSuspension: one transaction reads the global document,   *)
(* then the exact one.                                                       *)
ReadGlobal(r) ==
  /\ gate[r].pc = "asked"
  /\ gate' = [gate EXCEPT ![r].pc = "half", ![r].clear = (state[Global] = Clear)]
  /\ UNCHANGED stopVars

ReadExact(r) ==
  /\ gate[r].pc = "half"
  /\ gate' = [gate EXCEPT ![r].pc =
       IF gate[r].clear /\ state[gate[r].key] = Clear THEN "passed" ELSE "stopped"]
  /\ UNCHANGED stopVars

(* Any failed read is the unreadable, closed answer.                         *)
ReadFails(r) ==
  /\ gate[r].pc \in {"asked", "half"}
  /\ gate' = [gate EXCEPT ![r].pc = "stopped"]
  /\ UNCHANGED stopVars

(* The effect runs, or its refusal is reported; the request is over.         *)
Finish(r) ==
  /\ gate[r].pc \in {"passed", "stopped"}
  /\ gate' = [gate EXCEPT ![r].pc = "idle"]
  /\ UNCHANGED stopVars

-----------------------------------------------------------------------------
Init ==
  /\ state = [k \in Keys |-> Clear]
  /\ changes = [op \in Operations |-> NoChange]
  /\ sent = {}
  /\ gate = [r \in Requests |-> [pc |-> "idle", key |-> Global, clear |-> FALSE]]
  /\ damaged = [k \in Keys |-> NoOperation]
  /\ opening = [r \in Requests |-> FALSE]

Step ==
  \/ \E a \in Admins, op \in Operations, key \in Keys, action \in {"suspend", "clear"} :
       Submit(a, op, key, action)
  \/ \E s \in sent : Change(s)
  \/ \E key \in Keys : Damage(key)
  \/ \E r \in Requests :
       \/ \E key \in Keys \ {Global} : Ask(r, key)
       \/ ReadGlobal(r) \/ ReadExact(r) \/ ReadFails(r) \/ Finish(r)

(* The history variable: while a request asks, was there a moment when       *)
(* neither document stopped it?                                              *)
Watch ==
  opening' = [r \in Requests |->
    /\ gate'[r].pc # "idle"
    /\ opening[r] \/ (state'[Global] = Clear /\ state'[gate'[r].key] = Clear)]

Next == Step /\ Watch

Spec == Init /\ [][Next]_vars

-----------------------------------------------------------------------------
TypeOK ==
  /\ state \in [Keys -> Targets]
  /\ changes \in [Operations -> Changes \cup {NoChange}]
  /\ sent \subseteq Submissions
  /\ gate \in [Requests -> Gates]
  /\ damaged \in [Keys -> Targets \cup {NoOperation}]
  /\ opening \in [Requests -> BOOLEAN]

Recorded == {op \in Operations : changes[op] # NoChange}

(* The operations that ended the stop g.                                     *)
Enders(g) ==
  {op \in Recorded : changes[op].key = changes[g].key /\ changes[op].previous = g}

(* Every stop ever recorded still stands, or was lost to a malformed         *)
(* document, or was ended by exactly one recorded operation: a newer stop,   *)
(* or a clear that named this very one.  No late, repeated or stale clear    *)
(* removes a stop its Admin has not seen.                                    *)
StopsAreAccounted ==
  \A g \in {op \in Recorded : changes[op].action = "suspend"} :
    /\ IF g \in {state[changes[g].key], damaged[changes[g].key]}
       THEN Enders(g) = {}
       ELSE \E op \in Recorded : Enders(g) = {op}
    /\ \A op \in Enders(g) : changes[op].action = "clear" => changes[op].expected = g

(* Stop documents change only with a newly recorded operation, or by damage, *)
(* and a recorded operation never changes.                                   *)
ReplaysWriteNothing ==
  [][/\ \A op \in Recorded : changes'[op] = changes[op]
     /\ \A k \in Keys :
          state'[k] # state[k] => Recorded' # Recorded \/ state'[k] = Unreadable]_vars

(* An effect that was stopped at every moment since it asked, by one         *)
(* document or the other, never passes the gate.                             *)
PassedWasOpen ==
  \A r \in Requests : gate[r].pc = "passed" => opening[r]
=============================================================================
