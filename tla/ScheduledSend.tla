--------------------------- MODULE ScheduledSend ---------------------------
(***************************************************************************)
(* Send-later / undo-send.                                                 *)
(*   internal/scheduledsend/store.go      the scheduled_send table         *)
(*   internal/api/webmail_scheduled.go    create, list, cancel, dispatcher *)
(*   internal/api/server.go               crash-recovery sweep at startup  *)
(*   app/app.go                           the ticker, the process life     *)
(*                                                                         *)
(* Every SQL statement (and ClaimDue's transaction) is one step; a handler *)
(* that issues several, or talks to mailcow, SMTP or IMAP in between, is   *)
(* several steps, and the other handlers, the clock and a crash of the     *)
(* process fall in between.  Only the table survives a crash.              *)
(***************************************************************************)
EXTENDS Naturals, Sequences, FiniteSets

CONSTANTS
  Ids,             \* row ids (rows are never deleted, so ids are never reused)
  Owners,          \* mailbox addresses
  TicksPerSecond,  \* the resolution of time.Now() against the table's seconds
  UndoSendWindow,  \* undoSendWindow, in ticks
  SendAts,         \* the instants users name as sendAt
  StaleAfter,      \* scheduledSendStaleAfter, in ticks
  BatchLimit,      \* the limit DispatchScheduledSends passes to ClaimDue
  StartTime,       \* the clock when the table is empty
  MaxTime,         \* bound on the clock
  MaxCrashes,      \* bound on process deaths
  MaxDBErrors      \* bound on failed UPDATE statements

ASSUME IdsFinite == IsFiniteSet(Ids)

ASSUME TimesAssumption ==
  /\ TicksPerSecond \in Nat \ {0}
  /\ UndoSendWindow \in Nat \ {0}
  /\ SendAts \subseteq Nat
  /\ StaleAfter \in Nat
  /\ StartTime \in Nat
  /\ StartTime >= TicksPerSecond     \* not the Unix epoch: see claimed_at > 0
  /\ MaxTime \in Nat

ASSUME BoundsAssumption ==
  /\ BatchLimit \in Nat \ {0}
  /\ MaxCrashes \in Nat
  /\ MaxDBErrors \in Nat

VARIABLES
  now,        \* time.Now(), in ticks
  table,      \* the scheduled_send table; a missing row has status "absent"
  up,         \* the process is running
  phase,      \* where the dispatcher goroutine is inside DispatchScheduledSends
  batch,      \* the rows ClaimDue returned, by id (their contents never change)
  pos,        \* the loop index of "for _, row := range claimed"
  requested,  \* history: the exact instant each message was scheduled for
  canceledBy, \* history: <<owner, id>> pairs whose cancel was answered 200
  attempts,   \* history: how often each row was claimed
  submitted,  \* history: how often the SMTP server accepted each message
  saved,      \* history: copies appended to the owner's Sent folder
  crashes,    \* history: process deaths so far
  dbErrors    \* history: failed UPDATEs so far

dispatcher == <<phase, batch, pos>>
history == <<requested, canceledBy, attempts, submitted, saved>>
vars == <<now, table, up, dispatcher, history, crashes, dbErrors>>

-----------------------------------------------------------------------------
Statuses == {"absent", "pending", "sending", "sent", "canceled", "failed"}

Phases == {"idle", "credential", "send", "save", "mark_sent", "mark_failed"}

NoOwner == "none"

ScheduledSendRow ==
  [owner : Owners \cup {NoOwner}, scheduledAt : Nat, status : Statuses,
   claimedAt : Nat]

\* A row that has not been inserted yet.
NoRow ==
  [owner |-> NoOwner, scheduledAt |-> 0, status |-> "absent", claimedAt |-> 0]

\* storage.Unix: a timestamp is stored in whole seconds, rounded down.
Unix(t) == t \div TicksPerSecond

Init ==
  /\ now = StartTime
  /\ table = [id \in Ids |-> NoRow]
  /\ up = TRUE
  /\ phase = "idle"
  /\ batch = << >>
  /\ pos = 1
  /\ requested = [id \in Ids |-> 0]
  /\ canceledBy = {}
  /\ attempts = [id \in Ids |-> 0]
  /\ submitted = [id \in Ids |-> 0]
  /\ saved = [id \in Ids |-> 0]
  /\ crashes = 0
  /\ dbErrors = 0
-----------------------------------------------------------------------------
(* The clock.                                                              *)

Tick ==
  /\ now < MaxTime
  /\ now' = now + 1
  /\ UNCHANGED <<table, up, dispatcher, history, crashes, dbErrors>>

-----------------------------------------------------------------------------
(* The HTTP handlers.                                                      *)

\* POST /api/webmail/scheduled.  Without sendAt the message is due after the
\* undo-send window; an explicit sendAt must lie in the future.  A rejected
\* request changes nothing.  store.Create inserts the row as pending.  (The
\* bounded clock must still be able to reach the instant.)
handleWebmailScheduleCreate(owner, id) ==
  /\ up
  /\ table[id].status = "absent"
  /\ \E scheduledAt \in {now + UndoSendWindow} \cup {t \in SendAts : t > now} :
       /\ scheduledAt <= MaxTime
       /\ table' = [table EXCEPT ![id] = [owner       |-> owner,
                                          scheduledAt |-> Unix(scheduledAt),
                                          status      |-> "pending",
                                          claimedAt   |-> 0]]
       /\ requested' = [requested EXCEPT ![id] = scheduledAt]
  /\ UNCHANGED <<now, up, dispatcher, canceledBy, attempts, submitted, saved,
                 crashes, dbErrors>>

\* Mutant: Cancel without the status = 'pending' guard on a claimed row.
Cancelable_AlsoSending(owner, id) ==
  /\ table[id].owner = owner
  /\ table[id].status \in {"pending", "sending"}

\* The rows the guarded UPDATE of store.Cancel matches.
Cancelable(owner, id) ==
  /\ table[id].owner = owner
  /\ table[id].status = "pending"

\* DELETE /api/webmail/scheduled/{id}.  Zero rows matched is answered 404 and
\* changes nothing.
handleWebmailScheduleCancel(owner, id) ==
  /\ up
  /\ Cancelable(owner, id)
  /\ table' = [table EXCEPT ![id].status = "canceled"]
  /\ canceledBy' = canceledBy \cup {<<owner, id>>}
  /\ UNCHANGED <<now, up, dispatcher, requested, attempts, submitted, saved,
                 crashes, dbErrors>>

\* GET /api/webmail/scheduled: what the owner sees as still outstanding.
ListPending(owner) ==
  {id \in Ids : /\ table[id].owner = owner
                /\ table[id].status \in {"pending", "sending"}}

-----------------------------------------------------------------------------
(* The dispatcher goroutine.                                               *)

\* Mutant: the claim also takes rows that are already in flight.
Due_AlsoSending ==
  {id \in Ids : /\ table[id].status \in {"pending", "sending"}
                /\ table[id].scheduledAt <= Unix(now)}

\* Mutant: rows whose second passed while the process was busy or down are
\* never selected.
Due_ThisSecondOnly ==
  {id \in Ids : /\ table[id].status = "pending"
                /\ table[id].scheduledAt = Unix(now)}

\* status = 'pending' AND scheduled_at <= now.
Due == {id \in Ids : /\ table[id].status = "pending"
                     /\ table[id].scheduledAt <= Unix(now)}

\* SELECT id ... ORDER BY scheduled_at ASC LIMIT: the soonest BatchLimit due
\* rows; rows scheduled for the same second come in any order.
selectDueIDs ==
  LET n == IF Cardinality(Due) <= BatchLimit THEN Cardinality(Due) ELSE BatchLimit
      at(id) == table[id].scheduledAt
  IN  {ids \in [1..n -> Due] :
         /\ \A i, j \in 1..n : i < j => ids[i] # ids[j] /\ at(ids[i]) <= at(ids[j])
         /\ \A id \in Due \ {ids[i] : i \in 1..n}, i \in 1..n : at(ids[i]) <= at(id)}

\* claimIDs: pending -> sending, stamped with the second of the claim.
claimIDs(ids) ==
  [id \in Ids |->
     IF \E i \in DOMAIN ids : ids[i] = id
       THEN [table[id] EXCEPT !.status = "sending", !.claimedAt = Unix(now)]
       ELSE table[id]]

\* DispatchScheduledSends up to the loop: one transaction.  A tick that finds
\* nothing due ends here.
ClaimDue ==
  /\ up
  /\ phase = "idle"
  /\ \E ids \in selectDueIDs :
       /\ table' = claimIDs(ids)
       /\ attempts' = [id \in Ids |-> IF \E i \in DOMAIN ids : ids[i] = id
                                        THEN attempts[id] + 1 ELSE attempts[id]]
       /\ batch' = ids
       /\ phase' = IF ids = << >> THEN "idle" ELSE "credential"
  /\ pos' = 1
  /\ UNCHANGED <<now, up, requested, canceledBy, submitted, saved, crashes, dbErrors>>

\* ssoWebmailCredential: it may fail, and then the row is marked failed.
\* (SSOCredential models what happens inside.)
ResolveCredential ==
  /\ up
  /\ phase = "credential"
  /\ phase' \in {"send", "mark_failed"}
  /\ UNCHANGED <<now, table, up, batch, pos, history, crashes, dbErrors>>

\* webmail.Send: submission fails, or succeeds, or succeeds and then fails at
\* QUIT, which Send also returns as an error.
Send ==
  /\ up
  /\ phase = "send"
  /\ \/ /\ phase' = "mark_failed"
        /\ UNCHANGED submitted
     \/ /\ phase' \in {"save", "mark_failed"}
        /\ submitted' = [submitted EXCEPT ![batch[pos]] = @ + 1]
  /\ UNCHANGED <<now, table, up, batch, pos, requested, canceledBy, attempts, saved,
                 crashes, dbErrors>>

\* webmail.SaveToSent: best effort, its failure is only logged.
SaveToSent ==
  /\ up
  /\ phase = "save"
  /\ \/ UNCHANGED saved
     \/ saved' = [saved EXCEPT ![batch[pos]] = @ + 1]
  /\ phase' = "mark_sent"
  /\ UNCHANGED <<now, table, up, batch, pos, requested, canceledBy, attempts, submitted,
                 crashes, dbErrors>>

\* Mutant: one row's outcome ends the whole batch.
NextRow_AbortsBatch ==
  /\ pos' = 1
  /\ phase' = "idle"
  /\ batch' = << >>

\* The end of one iteration of the loop over the batch.
NextRow ==
  IF pos < Len(batch)
    THEN /\ pos' = pos + 1
         /\ phase' = "credential"
         /\ UNCHANGED batch
    ELSE /\ pos' = 1
         /\ phase' = "idle"
         /\ batch' = << >>

\* store.MarkSent and store.MarkFailed: an UPDATE by id alone.
SetStatus(id, status) == table' = [table EXCEPT ![id].status = status]

\* The two mark calls end dispatchOneScheduledSend; when the UPDATE itself
\* fails this is only logged and the row stays "sending".
Mark(from, status) ==
  /\ up
  /\ phase = from
  /\ \/ /\ SetStatus(batch[pos], status)
        /\ UNCHANGED dbErrors
     \/ /\ dbErrors < MaxDBErrors
        /\ dbErrors' = dbErrors + 1
        /\ UNCHANGED table
  /\ NextRow
  /\ UNCHANGED <<now, up, history, crashes>>

MarkSent == Mark("mark_sent", "sent")
MarkFailed == Mark("mark_failed", "failed")

-----------------------------------------------------------------------------
(* The process.                                                            *)

\* The process dies, or is stopped: app.Run returns without waiting for the
\* dispatcher goroutine, so a graceful stop is the same to the table.
Crash ==
  /\ up
  /\ crashes < MaxCrashes
  /\ crashes' = crashes + 1
  /\ up' = FALSE
  /\ phase' = "idle"
  /\ batch' = << >>
  /\ pos' = 1
  /\ UNCHANGED <<now, table, history, dbErrors>>

\* Mutant: ResetStale without its status guard.
Stale_AnyStatus(id) ==
  /\ table[id].claimedAt > 0
  /\ now >= StaleAfter
  /\ table[id].claimedAt < Unix(now - StaleAfter)

\* Rows matched by store.ResetStale(now - scheduledSendStaleAfter).
Stale(id) ==
  /\ table[id].status = "sending"
  /\ table[id].claimedAt > 0
  /\ now >= StaleAfter
  /\ table[id].claimedAt < Unix(now - StaleAfter)

ResetStale ==
  table' = [id \in Ids |-> IF Stale(id)
                              THEN [table[id] EXCEPT !.status = "pending"]
                              ELSE table[id]]

\* NewServer: ResetStale runs once, before any request or dispatch; if the
\* UPDATE fails this is only logged.
Restart ==
  /\ ~up
  /\ up' = TRUE
  /\ \/ /\ ResetStale
        /\ UNCHANGED dbErrors
     \/ /\ dbErrors < MaxDBErrors
        /\ dbErrors' = dbErrors + 1
        /\ UNCHANGED table
  /\ UNCHANGED <<now, dispatcher, history, crashes>>

-----------------------------------------------------------------------------
Dispatch == ResolveCredential \/ Send \/ SaveToSent \/ MarkSent \/ MarkFailed

Next ==
  \/ Tick
  \/ \E owner \in Owners, id \in Ids : handleWebmailScheduleCreate(owner, id)
  \/ \E owner \in Owners, id \in Ids : handleWebmailScheduleCancel(owner, id)
  \/ ClaimDue
  \/ Dispatch
  \/ Crash
  \/ Restart

Spec == Init /\ [][Next]_vars

\* The ticker keeps calling DispatchScheduledSends, mailcow and SMTP calls end
\* (their clients have timeouts), the IMAP server answers SaveToSent or drops
\* the connection (the IMAP client sets no timeout of its own), time passes,
\* and a supervisor restarts the process.  Nothing forces a user to act or the
\* process to die.
FairSpec ==
  /\ Spec
  /\ WF_vars(Tick)
  /\ WF_vars(ClaimDue)
  /\ WF_vars(Dispatch)
  /\ WF_vars(Restart)
-----------------------------------------------------------------------------
(* Properties.                                                             *)

\* Every variable has its type: the table holds well-formed rows, the batch
\* is a list of row ids and the loop index points into it.
TypeOK ==
  /\ now \in Nat
  /\ table \in [Ids -> ScheduledSendRow]
  /\ up \in BOOLEAN
  /\ phase \in Phases
  /\ batch \in Seq(Ids)
  /\ pos \in Nat \ {0}
  /\ phase # "idle" => pos <= Len(batch)
  /\ phase = "idle" => batch = << >>
  /\ requested \in [Ids -> Nat]
  /\ canceledBy \subseteq Owners \X Ids
  /\ attempts \in [Ids -> Nat]
  /\ submitted \in [Ids -> Nat]
  /\ saved \in [Ids -> Nat]
  /\ crashes \in Nat
  /\ dbErrors \in Nat

\* The rows the dispatcher still holds are "sending" in the table, each held
\* once: neither a cancel, a reset nor an earlier row's outcome touches a row
\* between its claim and its own mark, which are different statements.
HeldRowsAreSending ==
  \A i \in pos..Len(batch) :
    /\ table[batch[i]].status = "sending"
    /\ \A j \in pos..Len(batch) : i # j => batch[i] # batch[j]

\* A message is handed to the SMTP server at most once per life of the
\* process: without a crash between Send and MarkSent nothing is sent twice,
\* whatever the batches, failed UPDATEs and failed sends.
DuplicatesNeedACrash ==
  \A id \in Ids : submitted[id] <= 1 + crashes

\* "Undo send": once a cancel is answered 200 the row is the caller's and
\* stays canceled for good - the unconditional MarkSent / MarkFailed of a
\* dispatch in flight and the reset at startup never overwrite it.
CancelIsFinal ==
  \A owner \in Owners, id \in Ids : <<owner, id>> \in canceledBy =>
    table[id].owner = owner /\ table[id].status = "canceled"

\* An undone message was not sent, unless an attempt died with the process
\* after the SMTP server had taken it: a canceled row was submitted at most
\* once per crash, so never when there was none.
UndoneMeansUnsent ==
  \A id \in Ids : table[id].status = "canceled" => submitted[id] <= crashes

\* No message leaves before the second of the instant it was scheduled for:
\* storing whole seconds may send it early, but by less than one second.
NotBeforeScheduled ==
  \A id \in Ids : submitted[id] > 0 => now + TicksPerSecond > requested[id]

\* A copy in the Sent folder is a copy of a message that was submitted, and
\* a row reads "sent" only if its message was.
SentMeansSubmitted ==
  \A id \in Ids : /\ saved[id] <= submitted[id]
                  /\ table[id].status = "sent" => submitted[id] > 0

\* The table seen as an outbox: the status column, and two histories.
Outbox == INSTANCE Outbox WITH state <- [id \in Ids |-> table[id].status]

\* Refinement: every row of the table goes through the life cycle of an outbox
\* message, whatever the other rows, the users, crashes and faults do.
ImplementsOutbox == Outbox!OutboxSpec

\* A message waiting in the table is eventually taken up or canceled, also
\* across a crash and with more due rows than fit in a batch.
PendingIsTakenUp ==
  \A id \in Ids : table[id].status = "pending" ~> table[id].status # "pending"

\* As long as the process does not crash and the database accepts updates,
\* every message the owner sees as outstanding is eventually settled.
OutstandingIsSettled ==
  \A owner \in Owners, id \in Ids :
    id \in ListPending(owner) ~>
      id \notin ListPending(owner) \/ crashes > 0 \/ dbErrors > 0
=============================================================================
