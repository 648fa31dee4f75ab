---------------------------- MODULE MailboxSync ----------------------------
(***************************************************************************)
(* Observation of linked Gmail threads: processGmailPushNotification,      *)
(* boundedMailboxResync, refreshMailbox and refreshLinkedThread of         *)
(* gmail-hub/service.ts over the mailbox state, the push claims and the    *)
(* communication links of gmail-hub/state-store.ts.                        *)
(*                                                                         *)
(* A handler serves one push or one manual refresh.  It reads the mailbox  *)
(* history from the stored cursor, or, when the history has a gap, re-reads *)
(* the linked threads in batches with a stored checkpoint.  Handlers        *)
(* overlap, die and fail, threads are deleted, and every read of Gmail may  *)
(* be old when its result is stored.                                        *)
(*                                                                         *)
(* A message is its number in the order of arrival, which is also its       *)
(* history id and its time.  Threads of a sequence are CommunicationSequence's *)
(* subject; the links here have none.                                       *)
(***************************************************************************)
EXTENDS Integers, FiniteSets, Sequences

CONSTANTS
  Links,      \* the linked threads: 1..n, in the order of their link ids
  Unlinked,   \* those that staff link only later
  Long,       \* those of which Gmail's bounded read shows a part only
  BatchSize,  \* links one resync re-reads
  Handlers,
  MaxMail,    \* bound on the messages that arrive
  MaxFaults   \* bound on the handlers that die and the reads that fail

ASSUME MailboxAssumption ==
  /\ Links \subseteq Nat \ {0} /\ IsFiniteSet(Links)
  /\ Unlinked \subseteq Links /\ Long \subseteq Links
  /\ BatchSize \in Nat \ {0} /\ MaxMail \in Nat /\ MaxFaults \in Nat

VARIABLES
  mail,     \* Seq(Links), the thread of every message that arrived
  mailbox,  \* the stored mailbox state
  pushes,   \* [1..MaxMail -> claim state of the push about that message]
  link,     \* [Links -> LinkRecords]
  handler,  \* [Handlers -> HandlerRecords]
  faults,
  gone      \* the threads that Gmail no longer has

vars == <<mail, mailbox, pushes, link, handler, faults, gone>>

Messages == 1..MaxMail
NoLink == 0
Manual == 0

MailboxRecords == [cursor: 0..MaxMail, after: Links \cup {NoLink}, watching: BOOLEAN]
LinkRecords ==
  [linked: BOOLEAN, seen: 0..MaxMail, last: 0..MaxMail, read: BOOLEAN, verify: BOOLEAN]
HandlerRecords ==
  [pc: {"idle", "saving", "start", "claim", "list", "profile", "reading", "marking", "failing",
        "observed", "linking"},
   push: 0..MaxMail, cursor: 0..MaxMail, after: Links \cup {NoLink}, resync: BOOLEAN,
   to: 0..MaxMail, todo: SUBSET Links, more: Links \cup {NoLink}, link: Links \cup {NoLink},
   got: 0..MaxMail, caught: BOOLEAN]

Idle == [pc |-> "idle", push |-> Manual, cursor |-> 0, after |-> NoLink, resync |-> FALSE,
         to |-> 0, todo |-> {}, more |-> NoLink, link |-> NoLink, got |-> 0,
         caught |-> FALSE]

Init ==
  /\ mail = <<>>
  /\ mailbox = [cursor |-> 0, after |-> NoLink, watching |-> FALSE]
  /\ pushes = [m \in Messages |-> "new"]
  /\ link = [l \in Links |-> [linked |-> l \notin Unlinked, seen |-> 0, last |-> 0,
                              read |-> FALSE, verify |-> FALSE]]
  /\ handler = [h \in Handlers |-> Idle]
  /\ faults = 0
  /\ gone = {}

Arrived == Len(mail)
On(l) == {m \in 1..Arrived : mail[m] = l}
Greatest(S) == IF S = {} THEN 0 ELSE CHOOSE m \in S : \A n \in S : n <= m
Least(S) == CHOOSE m \in S : \A n \in S : m <= n
Linked == {l \in Links : link[l].linked}

Becomes(h, record) == handler' = [handler EXCEPT ![h] = record]
Goes(h, pc) == handler' = [handler EXCEPT ![h].pc = pc]

-----------------------------------------------------------------------------
(* Gmail and the staff                                                       *)

Arrive(l) ==
  /\ Arrived < MaxMail /\ l \notin gone
  /\ mail' = Append(mail, l)
  /\ UNCHANGED <<mailbox, pushes, link, handler, faults, gone>>

(* A thread is deleted for good; its messages stay in the history.           *)
Vanish(l) ==
  /\ l \notin gone
  /\ gone' = gone \cup {l}
  /\ UNCHANGED <<mail, mailbox, pushes, link, handler, faults>>

(* markCommunicationRead                                                     *)
MarkRead(l) ==
  /\ link[l].last # 0
  /\ link' = [link EXCEPT ![l].read = TRUE]
  /\ UNCHANGED <<mail, mailbox, pushes, handler, faults, gone>>

-----------------------------------------------------------------------------
(* What a read of a thread does to its link                                  *)

(* markCommunicationAttention: a message already flagged, and a read older   *)
(* than what the link holds, change nothing.                                 *)
Attention(l, m) ==
  IF (link[l].last = m /\ ~link[l].verify) \/ m < link[l].seen THEN link
  ELSE [link EXCEPT ![l].seen = m, ![l].last = m, ![l].read = FALSE, ![l].verify = FALSE]

(* Mutant: what staff saw replaces what the link holds.                      *)
ObservationAsSeen(l, m) == [link EXCEPT ![l].seen = m, ![l].verify = FALSE]

(* refreshCommunicationObservation                                           *)
Observation(l, m) ==
  IF (link[l].seen = m /\ ~link[l].verify) \/ m < link[l].seen THEN link
  ELSE [link EXCEPT ![l].seen = m, ![l].verify = FALSE]

(* markCommunicationNeedsVerification                                        *)
NeedsVerification(l) == [link EXCEPT ![l].verify = TRUE]

-----------------------------------------------------------------------------
(* A handler                                                                 *)

(* processGmailPushNotification reads the mailbox state before its claim.    *)
Push(h, m) ==
  /\ handler[h].pc = "idle" /\ m <= Arrived
  /\ Becomes(h, [Idle EXCEPT !.pc = "claim", !.push = m,
                             !.cursor = mailbox.cursor, !.after = mailbox.after])
  /\ UNCHANGED <<mail, mailbox, pushes, link, faults, gone>>

(* refreshMailbox: after a push it first stores a mailbox without a watch.   *)
Refresh(h) ==
  /\ handler[h].pc = "idle"
  /\ Becomes(h, IF mailbox.watching THEN [Idle EXCEPT !.pc = "saving", !.cursor = mailbox.cursor]
                 ELSE [Idle EXCEPT !.pc = "start"])
  /\ UNCHANGED <<mail, mailbox, pushes, link, faults, gone>>

(* saveMailboxState: written from what was read, without a check.            *)
SaveMailbox(h) ==
  /\ handler[h].pc = "saving"
  /\ mailbox' = [cursor |-> handler[h].cursor, after |-> NoLink, watching |-> FALSE]
  /\ Becomes(h, [Idle EXCEPT !.pc = "start"])
  /\ UNCHANGED <<mail, pushes, link, faults, gone>>

(* Then it processes a notification of its own; its key is new.              *)
StartRefresh(h) ==
  /\ handler[h].pc = "start"
  /\ Becomes(h, IF mailbox.after # NoLink THEN [Idle EXCEPT !.pc = "profile"]
                 ELSE [Idle EXCEPT !.pc = "list", !.cursor = mailbox.cursor])
  /\ UNCHANGED <<mail, mailbox, pushes, link, faults, gone>>

(* claimPush: a claim under way is a duplicate for five minutes.             *)
ClaimPush(h) ==
  LET m == handler[h].push IN
  /\ handler[h].pc = "claim"
  /\ \/ /\ pushes[m] \in {"completed", "processing"}
        /\ Becomes(h, Idle) /\ UNCHANGED pushes
     \/ /\ pushes[m] # "completed"
        /\ pushes' = [pushes EXCEPT ![m] = "processing"]
        /\ handler' = [handler EXCEPT
             ![h].pc = IF handler[h].after # NoLink THEN "profile" ELSE "list",
             ![h].after = NoLink, ![h].cursor = IF handler[h].after # NoLink THEN 0 ELSE @]
  /\ UNCHANGED <<mail, mailbox, link, faults, gone>>

(* listHistory from the cursor, and the links of the threads it names.       *)
ListHistory(h) ==
  LET new == {m \in 1..Arrived : m > handler[h].cursor} IN
  /\ handler[h].pc = "list"
  /\ Becomes(h, [Idle EXCEPT !.pc = "reading", !.push = handler[h].push, !.to = Arrived,
                             !.todo = {mail[m] : m \in new} \cap Linked])
  /\ UNCHANGED <<mail, mailbox, pushes, link, faults, gone>>

(* The cursor has expired, which the handler of errors catches, or there are *)
(* too many pages.                                                           *)
Gap(h) ==
  /\ handler[h].pc = "list"
  /\ \E caught \in BOOLEAN :
       Becomes(h, [Idle EXCEPT !.pc = "profile", !.push = handler[h].push, !.caught = caught])
  /\ UNCHANGED <<mail, mailbox, pushes, link, faults, gone>>

(* Mutant: every resync begins with the first link.                          *)
BatchFromStart(after) ==
  {l \in Linked : Cardinality({k \in Linked : k < l}) < BatchSize}

(* The first links after the checkpoint, by id.                              *)
Remaining(after) == {l \in Linked : l > after}
Batch(after) ==
  {l \in Remaining(after) : Cardinality({k \in Remaining(after) : k < l}) < BatchSize}

(* boundedMailboxResync: the mailbox's position, then the checkpoint and the *)
(* batch behind it.                                                          *)
Profile(h) ==
  LET batch == Batch(mailbox.after) IN
  /\ handler[h].pc = "profile"
  /\ Becomes(h, [Idle EXCEPT
       !.pc = "reading", !.push = handler[h].push, !.resync = TRUE, !.todo = batch,
       !.caught = handler[h].caught,
       !.more = IF Remaining(mailbox.after) \subseteq batch THEN NoLink ELSE Greatest(batch),
       !.to = IF Remaining(mailbox.after) \subseteq batch THEN Arrived ELSE mailbox.cursor])
  /\ UNCHANGED <<mail, mailbox, pushes, link, faults, gone>>

(* getThread, link by link.  What is read may be old when it is stored.  A    *)
(* part of a long thread proves nothing: a history handler passes over it,   *)
(* a resync ends.                                                            *)
ReadThread(h) ==
  LET my == handler[h]
      l == Least(my.todo)
  IN /\ my.pc = "reading" /\ my.todo # {} /\ l \notin gone
     /\ \/ /\ l \notin Long
           /\ Becomes(h, [my EXCEPT !.pc = "marking", !.todo = @ \ {l}, !.link = l,
                                    !.got = Greatest(On(l))])
           /\ UNCHANGED link
        \/ /\ l \in Long /\ ~my.resync
           /\ Becomes(h, [my EXCEPT !.todo = @ \ {l}])
           /\ UNCHANGED link
        \/ /\ l \in Long /\ my.resync
           /\ Becomes(h, [Idle EXCEPT !.pc = "failing", !.push = my.push])
           /\ link' = NeedsVerification(l)
     /\ UNCHANGED <<mail, mailbox, pushes, faults, gone>>

(* getThread answers 404: a resync begins, unless this already is the one    *)
(* that an error began.                                                      *)
ThreadGone(h) ==
  LET my == handler[h] IN
  /\ my.pc = "reading" /\ my.todo # {} /\ Least(my.todo) \in gone
  /\ Becomes(h, [Idle EXCEPT !.pc = IF my.caught THEN "failing" ELSE "profile",
                             !.push = my.push, !.caught = ~my.caught])
  /\ UNCHANGED <<mail, mailbox, pushes, link, faults, gone>>

(* Mutant: a read is stored only where the link already has a contact.       *)
MarkKnown(h) ==
  /\ handler[h].pc = "marking"
  /\ link' = IF link[handler[h].link].seen = 0 THEN link
             ELSE Attention(handler[h].link, handler[h].got)
  /\ handler' = [handler EXCEPT ![h].pc = "reading", ![h].link = NoLink, ![h].got = 0]
  /\ UNCHANGED <<mail, mailbox, pushes, faults, gone>>

Mark(h) ==
  /\ handler[h].pc = "marking"
  /\ link' = IF handler[h].got = 0 THEN link ELSE Attention(handler[h].link, handler[h].got)
  /\ handler' = [handler EXCEPT ![h].pc = "reading", ![h].link = NoLink, ![h].got = 0]
  /\ UNCHANGED <<mail, mailbox, pushes, faults, gone>>

(* completePush                                                              *)
CompletePush(h) ==
  LET my == handler[h]
      after == IF my.resync THEN my.more ELSE mailbox.after
  IN /\ my.pc = "reading" /\ my.todo = {}
     /\ mailbox' = [cursor |-> Greatest({mailbox.cursor, my.to}), after |-> after,
                    watching |-> after = NoLink /\ my.push # Manual]
     /\ pushes' = IF my.push = Manual THEN pushes
                  ELSE [pushes EXCEPT ![my.push] = "completed"]
     /\ Becomes(h, Idle)
     /\ UNCHANGED <<mail, link, faults, gone>>

(* failPush: the push may be claimed again at once.                          *)
FailPush(h) ==
  /\ handler[h].pc = "failing"
  /\ pushes' = IF handler[h].push = Manual THEN pushes
               ELSE [pushes EXCEPT ![handler[h].push] = "failed"]
  /\ Becomes(h, Idle)
  /\ UNCHANGED <<mail, mailbox, link, faults, gone>>

(* A call to Gmail or the database fails.                                    *)
CallFails(h) ==
  /\ handler[h].pc \in {"list", "profile", "reading", "marking"}
  /\ faults < MaxFaults
  /\ faults' = faults + 1
  /\ Becomes(h, [Idle EXCEPT !.pc = "failing", !.push = handler[h].push])
  /\ UNCHANGED <<mail, mailbox, pushes, link, gone>>

Die(h) ==
  /\ handler[h].pc # "idle"
  /\ faults < MaxFaults
  /\ faults' = faults + 1
  /\ Becomes(h, Idle)
  /\ UNCHANGED <<mail, mailbox, pushes, link, gone>>

-----------------------------------------------------------------------------
(* Staff at one thread                                                       *)

(* refreshLinkedThread reads it, and stores what it saw.                     *)
ObserveThread(h, l) ==
  /\ handler[h].pc = "idle" /\ link[l].linked
  /\ IF l \in Long \cup gone
       THEN link' = NeedsVerification(l) /\ UNCHANGED handler
       ELSE /\ Becomes(h, [Idle EXCEPT !.pc = "observed", !.link = l, !.got = Greatest(On(l))])
            /\ UNCHANGED link
  /\ UNCHANGED <<mail, mailbox, pushes, faults, gone>>

StoreObservation(h) ==
  LET l == handler[h].link IN
  /\ handler[h].pc = "observed"
  /\ link' = IF handler[h].got = 0 THEN NeedsVerification(l) ELSE Observation(l, handler[h].got)
  /\ Becomes(h, Idle)
  /\ UNCHANGED <<mail, mailbox, pushes, faults, gone>>

(* linkExistingThread reads the thread, and records the link.                *)
LinkThread(h, l) ==
  /\ handler[h].pc = "idle" /\ ~link[l].linked /\ l \notin gone
  /\ Becomes(h, [Idle EXCEPT !.pc = "linking", !.link = l,
                             !.got = IF l \in Long THEN 0 ELSE Greatest(On(l))])
  /\ UNCHANGED <<mail, mailbox, pushes, link, faults, gone>>

SaveLink(h) ==
  LET l == handler[h].link IN
  /\ handler[h].pc = "linking" /\ ~link[l].linked
  /\ link' = [link EXCEPT ![l].linked = TRUE, ![l].seen = handler[h].got,
                          ![l].verify = (handler[h].got = 0)]
  /\ Becomes(h, Idle)
  /\ UNCHANGED <<mail, mailbox, pushes, faults, gone>>

-----------------------------------------------------------------------------

Serve(h) ==
  \/ SaveMailbox(h)
  \/ StartRefresh(h)
  \/ ClaimPush(h)
  \/ ListHistory(h)
  \/ Gap(h)
  \/ Profile(h)
  \/ ReadThread(h)
  \/ ThreadGone(h)
  \/ Mark(h)
  \/ CompletePush(h)
  \/ FailPush(h)
  \/ StoreObservation(h)
  \/ SaveLink(h)

Fault(h) == CallFails(h) \/ Die(h)

Next ==
  \/ \E l \in Links : Arrive(l) \/ Vanish(l) \/ MarkRead(l)
  \/ \E h \in Handlers : Refresh(h) \/ Serve(h) \/ Fault(h)
  \/ \E h \in Handlers, m \in Messages : Push(h, m)
  \/ \E h \in Handlers, l \in Links : ObserveThread(h, l) \/ LinkThread(h, l)

Spec == Init /\ [][Next]_vars

(* Staff who see a degraded mailbox refresh it, and handlers proceed.        *)
FairSpec ==
  /\ Spec
  /\ \A h \in Handlers : WF_vars(Serve(h)) /\ SF_vars(mailbox.after # NoLink /\ Refresh(h))

-----------------------------------------------------------------------------
(* Properties                                                                *)

TypeOK ==
  /\ mail \in Seq(Links) /\ Arrived <= MaxMail
  /\ mailbox \in MailboxRecords
  /\ pushes \in [Messages -> {"new", "processing", "completed", "failed"}]
  /\ link \in [Links -> LinkRecords]
  /\ handler \in [Handlers -> HandlerRecords]
  /\ faults \in 0..MaxFaults /\ gone \subseteq Links

(* "Current linked replies are found": what the cursor has passed on a       *)
(* linked thread, linked from the start and short enough to be read, stands  *)
(* on its link, or the link says it needs to be checked.  It holds while one *)
(* page of a resync covers all linked threads.                               *)
RepliesAreFound ==
  Cardinality(Linked) <= BatchSize =>
    \A l \in Linked \ (Unlinked \cup Long), m \in Messages :
      m <= mailbox.cursor /\ m \in On(l) => link[l].seen >= m \/ link[l].verify

(* Types, and no reply behind the cursor is unknown.                         *)
MailboxInv == TypeOK /\ RepliesAreFound

(* No "backwards contact state", in whatever order overlapping handlers and  *)
(* staff store what they read; and a reply staff have read is not raised     *)
(* again by a repeated or late push, only a newer one, or the end of a doubt *)
(* about the thread.                                                         *)
ContactNeverGoesBack ==
  [][\A l \in Links :
       /\ link'[l].seen >= link[l].seen /\ link'[l].last >= link[l].last
       /\ link[l].read /\ ~link'[l].read =>
            link'[l].last > link[l].last \/ link[l].verify]_vars

(* A resync that stored a checkpoint comes to its end, batch by batch,       *)
(* although other handlers begin one of their own, unless a linked thread    *)
(* behind the checkpoint cannot be read: it is too long, or deleted.  A      *)
(* resync stops at such a thread every time it is repeated.                  *)
ResyncFinishes ==
  mailbox.after # NoLink ~>
    \/ mailbox.after = NoLink
    \/ \E l \in Linked \cap (Long \cup gone) : l > mailbox.after

-----------------------------------------------------------------------------
(* Claims the code does not keep                                             *)

(* "Monotonic history cursors": the stored position never falls back.        *)
CursorNeverGoesBack == [][mailbox'.cursor >= mailbox.cursor]_vars

(* "After a gap or restart, current linked replies are found": every resync   *)
(* comes to its end, whatever its threads are.                               *)
EveryResyncFinishes == mailbox.after # NoLink ~> mailbox.after = NoLink

(* "Uncertain evidence": a reply on a thread that could not be read whole is *)
(* reported on its link before the cursor passes it.                         *)
LongThreadsAreReported ==
  \A l \in Long \cap Linked, m \in Messages :
    m <= mailbox.cursor /\ m \in On(l) => link[l].verify
=============================================================================
