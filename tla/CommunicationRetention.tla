----------------------- MODULE CommunicationRetention -----------------------
(***************************************************************************)
(* Retention of scheduled communications: gmail-hub/retention-policy.ts,   *)
(* retention-store.ts and the writes of sequence-store.ts and              *)
(* sequence-attachments.ts that create, refresh and refer to the records.  *)
(*                                                                         *)
(* A cleanup run freezes a plan of expired records and works through it,   *)
(* one transaction per record; several executions of one run may overlap,  *)
(* die and be repeated.  Meanwhile work starts and settles, files are      *)
(* taken up and dropped, and an Admin places and releases legal holds.     *)
(***************************************************************************)
EXTENDS Integers, FiniteSets

CONSTANTS
  Seqs, Files, Kids,   \* sequences, their attachments, their occurrences
  ParentOf,            \* [Kids -> Seqs]
  Cleanups, Executors, \* run ids, and the processes that execute them
  Limit,               \* the records one run plans at most
  Period, KidPeriod,   \* how long a settled sequence or file, an occurrence, is kept
  MaxTime,             \* bound on the clock
  MaxDecisions,        \* bound on the legal-hold decisions about one record
  MaxDeaths,           \* bound on the executions that die
  NoKid, NoCleanup

ASSUME RetentionAssumption ==
  /\ ParentOf \in [Kids -> Seqs]
  /\ Limit \in Nat \ {0} /\ {Period, KidPeriod, MaxTime, MaxDecisions, MaxDeaths} \subseteq Nat
  /\ NoKid \notin Kids /\ NoCleanup \notin Cleanups
  /\ IsFiniteSet(Seqs \cup Files \cup Kids)
  /\ Seqs \cap Files = {} /\ Seqs \cap Kids = {} /\ Files \cap Kids = {}

VARIABLES
  clock,
  docs,   \* [Docs -> DocRecords], the retention fields of every record
  seq,    \* [Seqs -> SeqRecords], what the other fields of a sequence say
  runs,   \* [Cleanups -> CleanupRecords], the stored cleanup runs with their audits
  exec,   \* [Executors -> ExecRecords]
  deaths  \* executions that died so far

retentionVars == <<clock, docs, seq, runs, exec, deaths>>

Docs == Seqs \cup Files \cup Kids
Time == 0..MaxTime
Never == -1
Hashes == Docs \X Time   \* cleanupCandidateHash: the record and its anchor

(* "by" remembers the run that retired the record, for CountsAreExact.       *)
DocRecords ==
  [state: {"none", "uploading", "live", "retired"}, hold: BOOLEAN, op: BOOLEAN,
   anchor: Time, expires: {Never} \cup Nat, decisions: 0..MaxDecisions,
   by: Cleanups \cup {NoCleanup}]
SeqRecords == [refs: SUBSET Files, finished: BOOLEAN, unresolved: Kids \cup {NoKid}]
CleanupRecords ==
  [status: {"new", "open", "completed"}, started: Time, plan: SUBSET Hashes,
   processed: SUBSET Hashes, failed: SUBSET Hashes, deleted: 0..Limit]
ExecRecords ==
  [pc: {"idle", "listed", "resolving", "working", "recording"}, run: Cleanups \cup {NoCleanup},
   now: Time, left: SUBSET Hashes, missing: SUBSET Hashes]

NoDoc == [state |-> "none", hold |-> FALSE, op |-> FALSE, anchor |-> 0,
          expires |-> Never, decisions |-> 0, by |-> NoCleanup]
IdleExec == [pc |-> "idle", run |-> NoCleanup, now |-> 0, left |-> {}, missing |-> {}]

RetentionInit ==
  /\ clock = 0
  /\ docs = [d \in Docs |-> NoDoc]
  /\ seq = [s \in Seqs |-> [refs |-> {}, finished |-> FALSE, unresolved |-> NoKid]]
  /\ runs = [r \in Cleanups |-> [status |-> "new", started |-> 0, plan |-> {},
                             processed |-> {}, failed |-> {}, deleted |-> 0]]
  /\ exec = [e \in Executors |-> IdleExec]
  /\ deaths = 0

-----------------------------------------------------------------------------
(* Policy                                                                    *)

PeriodOf(d) == IF d \in Kids THEN KidPeriod ELSE Period

Expiry(d, anchor, suspended) == IF suspended THEN Never ELSE anchor + PeriodOf(d)

(* parseRetentionCandidate and isCommunicationsCleanupEligible               *)
Eligible(d, now) ==
  /\ docs[d].state \in {"uploading", "live"}
  /\ ~docs[d].hold /\ ~docs[d].op
  /\ docs[d].expires = docs[d].anchor + PeriodOf(d)
  /\ docs[d].expires <= now

HashOf(d) == <<d, docs[d].anchor>>

Active(s) == seq[s].unresolved # NoKid \/ ~seq[s].finished

(* Work that is not settled, and a hold, protect a sequence.                 *)
Protects(s) == docs[s].state = "live" /\ (docs[s].hold \/ Active(s))

(* Mutant: occurrences expire on their own.                                  *)
RetainedNotKids(d) ==
  \/ d \in Seqs /\ Protects(d)
  \/ d \in Files /\ \/ docs[d].state # "live"
                    \/ \E s \in Seqs : docs[s].state = "live" /\ d \in seq[s].refs

(* retainedForOperation: they protect the sequence and its occurrences, and  *)
(* any sequence on record keeps the files it names.                          *)
Retained(d) ==
  \/ d \in Seqs /\ Protects(d)
  \/ d \in Kids /\ Protects(ParentOf[d])
  \/ d \in Files /\ \/ docs[d].state # "live"
                    \/ \E s \in Seqs : docs[s].state = "live" /\ d \in seq[s].refs

-----------------------------------------------------------------------------
(* The records                                                               *)

ClockTicks ==
  /\ clock < MaxTime
  /\ clock' = clock + 1
  /\ UNCHANGED <<docs, seq, runs, exec, deaths>>

(* CommunicationAttachmentStore.put: the upload is admitted,                 *)
Upload(f) ==
  /\ docs[f].state = "none"
  /\ docs' = [docs EXCEPT ![f].state = "uploading", ![f].op = TRUE, ![f].anchor = clock]
  /\ UNCHANGED <<clock, seq, runs, exec, deaths>>

(* and publishReady, also again by a retry or a check, ends its suspension.  *)
PublishReady(f) ==
  /\ docs[f].state \in {"uploading", "live"}
  /\ docs' = [docs EXCEPT ![f].state = "live", ![f].op = FALSE,
                          ![f].expires = Expiry(f, docs[f].anchor, docs[f].hold)]
  /\ UNCHANGED <<clock, seq, runs, exec, deaths>>

(* storedSequence with sequenceRetentionFields: what every write of a        *)
(* sequence stores; a settled one keeps the anchor of its settlement.        *)
StoreSequence(s, record) ==
  LET active == record.unresolved # NoKid \/ ~record.finished
      settled == docs[s].state = "live" /\ ~docs[s].op
      anchor == IF ~active /\ settled THEN docs[s].anchor ELSE clock
  IN /\ seq' = [seq EXCEPT ![s] = record]
     /\ docs' = [docs EXCEPT
          ![s].state = "live", ![s].op = active, ![s].anchor = anchor,
          ![s].expires = Expiry(s, anchor, active \/ docs[s].hold)]

(* FirestoreCommunicationSequenceStore.write: save, stop or complete; every  *)
(* selected file must be ready, a retired communication is not written.      *)
WriteSequence(s, refs, finished) ==
  /\ docs[s].state \in {"none", "live"}
  /\ ~seq[s].finished
  /\ \A f \in refs : docs[f].state = "live"
  /\ finished => docs[s].state = "live"
  /\ StoreSequence(s, [seq[s] EXCEPT !.refs = refs, !.finished = finished])
  /\ UNCHANGED <<clock, runs, exec, deaths>>

(* claim: the occurrence is recorded and the sequence waits for its outcome. *)
ClaimOccurrence(k) ==
  LET s == ParentOf[k] IN
  /\ docs[s].state = "live" /\ ~seq[s].finished /\ seq[s].unresolved = NoKid
  /\ docs[k].state = "none"
  /\ seq' = [seq EXCEPT ![s].unresolved = k]
  /\ docs' = [docs EXCEPT
       ![k].state = "live", ![k].anchor = clock, ![k].expires = Expiry(k, clock, FALSE),
       ![s].op = TRUE, ![s].anchor = clock, ![s].expires = Never]
  /\ UNCHANGED <<clock, runs, exec, deaths>>

(* finish: the outcome is known, also after the sequence was stopped.        *)
SettleOccurrence(s, finished) ==
  /\ seq[s].unresolved # NoKid
  /\ seq[s].finished => finished
  /\ StoreSequence(s, [seq[s] EXCEPT !.unresolved = NoKid, !.finished = finished])
  /\ UNCHANGED <<clock, runs, exec, deaths>>

(* applyCommunicationsLegalHold.  A repeated decision changes nothing.       *)
DecideHold(d, hold) ==
  /\ docs[d].state \in {"uploading", "live"}
  /\ docs[d].decisions < MaxDecisions
  /\ docs' = [docs EXCEPT
       ![d].hold = hold, ![d].decisions = @ + 1,
       ![d].expires = Expiry(d, docs[d].anchor, hold \/ docs[d].op)]
  /\ UNCHANGED <<clock, seq, runs, exec, deaths>>

-----------------------------------------------------------------------------
(* A cleanup run                                                             *)

(* listCandidates and planCommunicationsCleanup: the earliest expired        *)
(* records, at most Limit.  A repeated command names the run and its time.   *)
List(e, r) ==
  LET now == IF runs[r].status = "new" THEN clock ELSE runs[r].started
      due == {d \in Docs : Eligible(d, now)}
  IN /\ exec[e].pc = "idle"
     /\ \E found \in SUBSET due :
          /\ Cardinality(found) = Limit \/ found = due
          /\ Cardinality(found) <= Limit
          /\ \A d \in found, o \in due \ found : docs[d].expires <= docs[o].expires
          /\ exec' = [exec EXCEPT ![e] =
               [pc |-> "listed", run |-> r, now |-> now,
                left |-> {HashOf(d) : d \in found}, missing |-> {}]]
     /\ UNCHANGED <<clock, docs, seq, runs, deaths>>

(* initializeRun: freeze the plan, or go on with the frozen one.             *)
Initialize(e) ==
  LET r == exec[e].run
      plan == IF runs[r].status = "new" THEN exec[e].left ELSE runs[r].plan
      left == IF runs[r].status = "completed" THEN {} ELSE exec[e].left \cap plan
  IN /\ exec[e].pc = "listed"
     /\ runs[r].status = "new" \/ runs[r].started = exec[e].now
     /\ runs' = IF runs[r].status # "new" THEN runs
                ELSE [runs EXCEPT ![r].status = "open", ![r].started = exec[e].now,
                                  ![r].plan = plan]
     /\ exec' = [exec EXCEPT
          ![e].pc = "resolving", ![e].left = left,
          ![e].missing = IF runs[r].status = "completed" THEN {} ELSE plan \ left]
     /\ UNCHANGED <<clock, docs, seq, deaths>>

(* Mutant: what a repeated listing does not show is passed over in silence.  *)
PassOverUnresolved(e) ==
  /\ exec[e].pc = "resolving"
  /\ exec' = [exec EXCEPT ![e].pc = "working", ![e].missing = {}]
  /\ UNCHANGED <<clock, docs, seq, runs, deaths>>

(* recordUnresolvedHashes: what the frozen plan names and this listing does  *)
(* not, and nobody accounted for, has failed; a later run tries it again.    *)
RecordUnresolved(e) ==
  LET r == exec[e].run IN
  /\ exec[e].pc = "resolving"
  /\ runs' = IF runs[r].status = "completed" THEN runs
             ELSE [runs EXCEPT ![r].failed = @ \cup (exec[e].missing \ runs[r].processed)]
  /\ exec' = [exec EXCEPT ![e].pc = "working", ![e].missing = {}]
  /\ UNCHANGED <<clock, docs, seq, deaths>>

Accounted(r, h) == h \in runs[r].processed \cup runs[r].failed

(* Mutant: the plan is trusted.                                              *)
RetiresAsPlanned(e, h) == docs[h[1]].state = "live"

(* The transaction's verdict on one candidate: retire it or pass it over.    *)
Retires(e, h) ==
  LET d == h[1] IN
  Eligible(d, exec[e].now) /\ ~Retained(d) /\ docs[d].anchor = h[2]

Retire(r, d) == [docs EXCEPT ![d].state = "retired", ![d].by = r]

(* Mutant: a candidate is taken up whether or not it is accounted for.       *)
DeleteAgain(e, h, answered) ==
  LET r == exec[e].run IN
  /\ exec[e].pc = "working" /\ h \in exec[e].left
  /\ docs' = IF Retires(e, h) THEN Retire(r, h[1]) ELSE docs
  /\ runs' = [runs EXCEPT ![r].processed = @ \cup {h},
                          ![r].deleted = @ + (IF Retires(e, h) THEN 1 ELSE 0)]
  /\ exec' = IF answered
               THEN [exec EXCEPT ![e].left = @ \ {h}]
               ELSE [exec EXCEPT ![e].pc = "recording", ![e].missing = {h}]
  /\ UNCHANGED <<clock, seq, deaths>>

(* deleteIfEligible, as far as the database is concerned.  The delete may    *)
(* have happened although its answer is an error.                            *)
DeleteIfEligible(e, h, answered) ==
  LET r == exec[e].run IN
  /\ exec[e].pc = "working" /\ h \in exec[e].left
  /\ IF runs[r].status = "completed" \/ Accounted(r, h)
       THEN UNCHANGED <<docs, runs>>
       ELSE /\ docs' = IF Retires(e, h) THEN Retire(r, h[1]) ELSE docs
            /\ runs' = [runs EXCEPT ![r].processed = @ \cup {h},
                                    ![r].deleted = @ + (IF Retires(e, h) THEN 1 ELSE 0)]
  /\ exec' = IF answered
               THEN [exec EXCEPT ![e].left = @ \ {h}]
               ELSE [exec EXCEPT ![e].pc = "recording", ![e].missing = {h}]
  /\ UNCHANGED <<clock, seq, deaths>>

(* It fails before it wrote anything.                                        *)
DeleteFails(e, h) ==
  /\ exec[e].pc = "working" /\ h \in exec[e].left
  /\ exec' = [exec EXCEPT ![e].pc = "recording", ![e].missing = {h}]
  /\ UNCHANGED <<clock, docs, seq, runs, deaths>>

(* recordFailure, unless the candidate turns out to be accounted for.        *)
RecordFailure(e) ==
  LET r == exec[e].run IN
  /\ exec[e].pc = "recording"
  /\ runs' = IF runs[r].status = "completed" THEN runs
             ELSE [runs EXCEPT ![r].failed = @ \cup (exec[e].missing \ runs[r].processed)]
  /\ exec' = [exec EXCEPT ![e].pc = "working", ![e].missing = {},
                          ![e].left = @ \ exec[e].missing]
  /\ UNCHANGED <<clock, docs, seq, deaths>>

(* readRunProgress and writeCountsAudit: completed once every candidate is   *)
(* accounted for, else the execution ends with an error.                     *)
WriteAudit(e) ==
  LET r == exec[e].run IN
  /\ exec[e].pc = "working" /\ exec[e].left = {}
  /\ runs' = IF runs[r].plan = runs[r].processed \cup runs[r].failed
               THEN [runs EXCEPT ![r].status = "completed"] ELSE runs
  /\ exec' = [exec EXCEPT ![e] = IdleExec]
  /\ UNCHANGED <<clock, docs, seq, deaths>>

(* An execution dies, or ends with the error of any of its calls.            *)
ExecutionDies(e) ==
  /\ exec[e].pc # "idle" /\ deaths < MaxDeaths
  /\ exec' = [exec EXCEPT ![e] = IdleExec]
  /\ deaths' = deaths + 1
  /\ UNCHANGED <<clock, docs, seq, runs>>

-----------------------------------------------------------------------------

RecordStep ==
  \/ \E f \in Files : Upload(f) \/ PublishReady(f)
  \/ \E s \in Seqs, refs \in SUBSET Files, fin \in BOOLEAN : WriteSequence(s, refs, fin)
  \/ \E k \in Kids : ClaimOccurrence(k)
  \/ \E s \in Seqs, fin \in BOOLEAN : SettleOccurrence(s, fin)
  \/ \E d \in Docs, hold \in BOOLEAN : DecideHold(d, hold)

ExecStep(e) ==
  \/ Initialize(e)
  \/ RecordUnresolved(e)
  \/ \E h \in Hashes : DeleteIfEligible(e, h, TRUE)
  \/ RecordFailure(e)
  \/ WriteAudit(e)

Fault(e) ==
  \/ \E h \in Hashes : DeleteIfEligible(e, h, FALSE) \/ DeleteFails(e, h)
  \/ ExecutionDies(e)

RetentionNext ==
  \/ ClockTicks
  \/ RecordStep
  \/ \E e \in Executors : (\E r \in Cleanups : List(e, r)) \/ ExecStep(e) \/ Fault(e)

RetentionSpec == RetentionInit /\ [][RetentionNext]_retentionVars

(* A run that stopped is repeated, and executions proceed.                   *)
FairRetention ==
  /\ RetentionSpec
  /\ \A e \in Executors, r \in Cleanups : WF_retentionVars(runs[r].status = "open" /\ List(e, r))
  /\ \A e \in Executors : WF_retentionVars(ExecStep(e))

-----------------------------------------------------------------------------
(* Properties                                                                *)

RetentionTypeOK ==
  /\ clock \in Time
  /\ docs \in [Docs -> DocRecords]
  /\ seq \in [Seqs -> SeqRecords]
  /\ runs \in [Cleanups -> CleanupRecords]
  /\ exec \in [Executors -> ExecRecords]
  /\ deaths \in 0..MaxDeaths

(* Placed between the listing and the delete, a legal hold stands: no record *)
(* that is held, in use or re-anchored is ever retired by an older plan.     *)
HeldIsKept ==
  [][\A d \in Docs : docs[d].state # "retired" /\ docs'[d].state = "retired" =>
       /\ ~docs[d].hold /\ ~docs[d].op
       /\ docs[d].anchor + PeriodOf(d) <= clock]_retentionVars

(* What is still on record has the records it needs, however saves and       *)
(* recoveries interleave with the retirement of what nobody needed before: a *)
(* communication its files, an attempt whose outcome is awaited the          *)
(* occurrence and the sequence from which it will be recovered.              *)
NeededIsKept ==
  \A s \in Seqs :
    /\ docs[s].state = "live" => \A f \in seq[s].refs : docs[f].state = "live"
    /\ seq[s].unresolved # NoKid =>
         docs[s].state = "live" /\ docs[seq[s].unresolved].state = "live"

(* Types, and everything that is needed is on record.                        *)
RetentionInv == RetentionTypeOK /\ NeededIsKept

(* Each run's count is the number of records it retired, although answers    *)
(* are lost, executions overlap and the command is repeated; an audited run  *)
(* accounts for every record of its bounded plan exactly once.               *)
CountsAreExact ==
  \A r \in Cleanups :
    /\ runs[r].deleted = Cardinality({d \in Docs : docs[d].by = r})
    /\ runs[r].deleted + Cardinality(runs[r].failed) <= Cardinality(runs[r].plan)
    /\ Cardinality(runs[r].plan) <= Limit
    /\ runs[r].status = "completed" =>
         /\ runs[r].processed \cup runs[r].failed = runs[r].plan
         /\ runs[r].processed \cap runs[r].failed = {}

(* A run that was begun and broke off is completed by repeating it, whatever *)
(* became of the records it planned meanwhile.                               *)
RunsComplete == \A r \in Cleanups : runs[r].status = "open" ~> runs[r].status = "completed"
=============================================================================
