--------------------------- MODULE SequenceWorker ---------------------------
(***************************************************************************)
(* The scheduled worker that pages through the open communications:        *)
(* lib/gmail-hub/sequence-worker.ts, and the open-only page it reads from   *)
(* lib/gmail-hub/sequence-store.ts.                                         *)
(*                                                                         *)
(* One document holds a lease and a cursor.  A run claims the lease, reads  *)
(* a page after the cursor, inspects its communications one by one until   *)
(* its time budget is spent, and writes the cursor back if it still holds   *)
(* the lease.  A run may outlive its lease or die anywhere.                 *)
(*                                                                         *)
(* Communications are numbered in the order of their document ids; 0 is the *)
(* null cursor.  What inspecting one does to it is CommunicationSequence's   *)
(* subject: here it is begun and it ends, normally or with an exception.    *)
(***************************************************************************)
EXTENDS Naturals, FiniteSetsExt

CONSTANTS
  Last,        \* the communications are 1..Last
  PageLimit,   \* communications of one page
  Lease,       \* ticks of a lease (180 seconds)
  Budget,      \* ticks after which a run begins no further inspection (55 s)
  Poison,      \* communications whose inspection always throws
  Runs, NoRun

Communications == 1..Last

ASSUME WorkerAssumption ==
  /\ Last \in Nat /\ PageLimit \in Nat \ {0}
  /\ Budget \in Nat \ {0} /\ Lease \in Nat /\ Budget < Lease
  /\ Poison \subseteq Communications
  /\ NoRun \notin Runs

VARIABLES
  worker,   \* the worker document: who claimed last, the cursor, the lease left
  run,      \* [Runs -> RunRecords]: the invocations
  open,     \* the communications in an open state
  owed,     \* history: open since the rotation began and not yet inspected
  skipped   \* history: what finished rotations left uninspected

vars == <<worker, run, open, owed, skipped>>

RunRecords ==
  [pc: {"idle", "claimed", "paging", "inspecting"}, elapsed: 0..Lease,
   cursor: 0..Last, page: SUBSET Communications, next: 0..Last]
Idle == [pc |-> "idle", elapsed |-> 0, cursor |-> 0, page |-> {}, next |-> 0]

Init ==
  /\ worker = [run |-> NoRun, cursor |-> 0, lease |-> 0]
  /\ run = [r \in Runs |-> Idle]
  /\ open \in SUBSET Communications
  /\ owed = open
  /\ skipped = {}

(* Mutant: a claim extends the lease it finds instead of looking at it.      *)
ClaimExtends(r) ==
  /\ run[r].pc = "idle"
  /\ worker' = [worker EXCEPT !.run = r, !.lease = @ + Lease]
  /\ run' = [run EXCEPT ![r] = [Idle EXCEPT !.pc = "claimed", !.cursor = worker.cursor]]
  /\ UNCHANGED <<open, owed, skipped>>

(* claim: the transaction keeps the cursor of whoever held the lease before. *)
Claim(r) ==
  /\ run[r].pc = "idle"
  /\ worker.lease = 0
  /\ worker' = [worker EXCEPT !.run = r, !.lease = Lease]
  /\ run' = [run EXCEPT ![r] = [Idle EXCEPT !.pc = "claimed", !.cursor = worker.cursor]]
  /\ UNCHANGED <<open, owed, skipped>>

(* The page's cursor: its last id, or null when it was not full.             *)
CursorAfter(page, from) == IF Cardinality(page) = PageLimit THEN Max(page) ELSE 0

(* store.list(cursor, limit, openOnly): the first open ones after it.        *)
ReadPage(r) ==
  LET after == {s \in open : s > run[r].cursor}
      page  == {s \in after : Cardinality({t \in after : t <= s}) <= PageLimit}
  IN /\ run[r].pc = "claimed"
     /\ run' = [run EXCEPT ![r].pc = "paging", ![r].page = page,
                           ![r].next = CursorAfter(page, run[r].cursor)]
     /\ UNCHANGED <<worker, open, owed, skipped>>

(* The next communication of the page, while the budget lasts.  One that was *)
(* closed after the page was read is inspected too and found closed.         *)
Begin(r) ==
  /\ run[r].pc = "paging" /\ run[r].page # {}
  /\ run[r].elapsed < Budget
  /\ LET s == Min(run[r].page) IN
       /\ run' = [run EXCEPT ![r].pc = "inspecting", ![r].cursor = s,
                             ![r].page = @ \ {s}]
       /\ owed' = owed \ {s}
  /\ UNCHANGED <<worker, open, skipped>>

(* Mutant: an exception ends the page, to be tried again from there.         *)
InspectGivesUp(r) ==
  /\ run[r].pc = "inspecting"
  /\ run' = [run EXCEPT ![r].pc = "paging",
       ![r].page = IF run[r].cursor \in Poison THEN {} ELSE @,
       ![r].next = IF run[r].cursor \in Poison THEN run[r].cursor - 1 ELSE @]
  /\ UNCHANGED <<worker, open, owed, skipped>>

(* Observation and dispatch of one communication; an exception is counted    *)
(* and the loop goes on.                                                     *)
Inspect(r) ==
  /\ run[r].pc = "inspecting"
  /\ run' = [run EXCEPT ![r].pc = "paging"]
  /\ UNCHANGED <<worker, open, owed, skipped>>

(* The loop is over: the page is done or the budget is spent.                *)
LoopEnds(r) ==
  /\ run[r].pc = "paging"
  /\ run[r].page = {} \/ run[r].elapsed >= Budget

(* Mutant: a page broken off counts as read.                                 *)
CursorOfAnyPage(r) == run[r].next

(* A page that was broken off resumes after the last inspected one.          *)
NewCursor(r) == IF run[r].page = {} THEN run[r].next ELSE run[r].cursor

(* finish: the cursor is stored and the lease returned, by the run whose     *)
(* claim still stands; any other finish writes nothing.                      *)
Finish(r) ==
  /\ LoopEnds(r)
  /\ run' = [run EXCEPT ![r] = Idle]
  /\ IF worker.run = r
       THEN /\ worker' = [run |-> r, cursor |-> NewCursor(r), lease |-> 0]
            /\ IF run[r].page = {} /\ NewCursor(r) = 0
                 THEN owed' = open /\ skipped' = skipped \cup owed
                 ELSE UNCHANGED <<owed, skipped>>
       ELSE UNCHANGED <<worker, owed, skipped>>
  /\ UNCHANGED open

(* An invocation ends without another word: killed, or an exception of the   *)
(* claim, the page or the final write.                                       *)
Die(r) ==
  /\ run[r].pc # "idle"
  /\ run' = [run EXCEPT ![r] = Idle]
  /\ UNCHANGED <<worker, open, owed, skipped>>

(* Time passes for the lease and for every invocation.                       *)
Tick ==
  /\ worker.lease > 0 \/ \E r \in Runs : run[r].pc # "idle" /\ run[r].elapsed < Lease
  /\ worker' = [worker EXCEPT !.lease = IF @ = 0 THEN 0 ELSE @ - 1]
  /\ run' = [r \in Runs |->
       IF run[r].pc = "idle" \/ run[r].elapsed = Lease THEN run[r]
       ELSE [run[r] EXCEPT !.elapsed = @ + 1]]
  /\ UNCHANGED <<open, owed, skipped>>

(* Staff and dispatchers open and close communications meanwhile.            *)
Opened(s) ==
  /\ s \notin open
  /\ open' = open \cup {s}
  /\ UNCHANGED <<worker, run, owed, skipped>>
Closed(s) ==
  /\ s \in open
  /\ open' = open \ {s} /\ owed' = owed \ {s}
  /\ UNCHANGED <<worker, run, skipped>>

Step(r) == Claim(r) \/ ReadPage(r) \/ Begin(r) \/ Inspect(r) \/ Finish(r)
Next ==
  \/ \E r \in Runs : Step(r) \/ Die(r)
  \/ Tick
  \/ \E s \in Communications : Opened(s) \/ Closed(s)

Spec == Init /\ [][Next]_vars

(* A claim that takes over from a run still alive.                           *)
Overtakes(r) == Claim(r) /\ \E q \in Runs \ {r} : run[q].pc # "idle"

(* The scheduler keeps calling, time passes, runs go on; not every page takes *)
(* the whole budget to read; and from some moment on no run dies and none is  *)
(* so slow that it loses its lease.                                           *)
FairSpec ==
  /\ Spec
  /\ WF_vars(\E r \in Runs : Claim(r)) /\ WF_vars(Tick)
  /\ \A r \in Runs :
       /\ WF_vars(ReadPage(r) \/ Inspect(r) \/ Finish(r))
       /\ SF_vars(ReadPage(r) /\ run[r].elapsed < Budget)
       /\ SF_vars(Begin(r))
  /\ <>[][\A r \in Runs : ~Die(r) /\ ~Overtakes(r)]_vars

-----------------------------------------------------------------------------
(* Properties                                                                *)

TypeOK ==
  /\ worker \in [run: Runs \cup {NoRun}, cursor: 0..Last, lease: 0..Lease]
  /\ run \in [Runs -> RunRecords]
  /\ open \subseteq Communications /\ owed \subseteq open
  /\ skipped \subseteq Communications

(* Two runs never work inside their lease at once, whatever they inherit     *)
(* from a run that died or was overtaken.                                    *)
LeaseIsExclusive ==
  \A r, q \in Runs :
    /\ run[r].pc # "idle" /\ run[r].elapsed < Lease
    /\ run[q].pc # "idle" /\ run[q].elapsed < Lease
    => r = q

(* Types, and one working lease at most.                                    *)
WorkerInv == TypeOK /\ LeaseIsExclusive

(* No inspection begins outside the lease: an overtaken run may finish the   *)
(* communication it is at, but takes no other, because the time budget of a  *)
(* run ends before its lease does.                                           *)
BeginsUnderLease ==
  [][\A r \in Runs :
       run[r].pc = "paging" /\ run'[r].pc = "inspecting"
       => worker.run = r /\ worker.lease > 0]_vars

(* A communication that stays open is not passed over by the cursor, neither *)
(* by a page broken off, a crash or a late finish, nor at the end of a       *)
(* rotation.                                                                 *)
NoneSkipped == skipped = {} /\ \A s \in owed : s > worker.cursor

(* An overtaken run does not set the rotation back: the stored cursor moves  *)
(* forward until it wraps.                                                   *)
CursorMovesForward ==
  [][worker'.cursor # 0 => worker'.cursor >= worker.cursor]_vars

(* A communication that stays open is inspected again and again, even beside *)
(* one whose inspection always fails.                                        *)
EveryOpenIsReached ==
  \A s \in Communications :
    []<>(s \notin open \/ \E r \in Runs : run[r].pc = "inspecting" /\ run[r].cursor = s)
=============================================================================
