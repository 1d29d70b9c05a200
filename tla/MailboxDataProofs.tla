------------------------- MODULE MailboxDataProofs -------------------------
(***************************************************************************)
(* Proofs about what a mailbox leaves with the server: the messages it is  *)
(* to send later and its calendar.  The scheduled-send model keeps its     *)
(* safety properties for every set of rows and owners, every window, batch *)
(* limit and clock, and any number of crashes and failed updates, and      *)
(* implements the outbox.  The calendar keeps its own for every set of     *)
(* pages, guests and events made elsewhere, and any number of requests.    *)
(***************************************************************************)
EXTENDS ScheduledSend, Calendar, FiniteSetTheorems, TLAPS

-----------------------------------------------------------------------------
(* Scheduled send: the inductive invariant.                                *)

\* A row that does not exist yet has no history.
NoHistoryYet ==
  \A id \in Ids : table[id].status = "absent" => attempts[id] = 0 /\ submitted[id] = 0

\* Each attempt submits at most once, and the rows the dispatcher has not
\* submitted yet still have that submission to spend.
OneSubmissionPerAttempt ==
  /\ \A id \in Ids : submitted[id] <= attempts[id]
  /\ \A i \in pos..Len(batch) :
       (i > pos \/ phase \in {"credential", "send"}) =>
          submitted[batch[i]] < attempts[batch[i]]

\* A row is claimed again only after the process that held it died.
AttemptsNeedCrashes ==
  \A id \in Ids :
    /\ attempts[id] <= crashes + 1
    /\ table[id].status \in {"pending", "canceled"} => attempts[id] <= crashes
    /\ ~up /\ table[id].status = "sending" => attempts[id] <= crashes

\* The scheduled second is the second of the requested instant, and a row
\* that was ever claimed is past it.
ClaimedWhenDue ==
  \A id \in Ids :
    /\ table[id].status # "absent" => table[id].scheduledAt = Unix(requested[id])
    /\ attempts[id] > 0 => table[id].scheduledAt <= Unix(now)

\* Past Send the row at hand was submitted, and its copy is not yet saved.
SubmittedAtHand ==
  /\ phase \in {"save", "mark_sent"} => submitted[batch[pos]] > 0
  /\ phase = "save" => saved[batch[pos]] < submitted[batch[pos]]

\* A stopped process holds no rows.
StoppedIsIdle == ~up => phase = "idle"

IInv ==
  /\ TypeOK
  /\ HeldRowsAreSending
  /\ NoHistoryYet
  /\ OneSubmissionPerAttempt
  /\ AttemptsNeedCrashes
  /\ CancelIsFinal
  /\ ClaimedWhenDue
  /\ SubmittedAtHand
  /\ SentMeansSubmitted
  /\ StoppedIsIdle

-----------------------------------------------------------------------------
(* Scheduled send: facts about whole seconds.                              *)

\* storage.Unix of an instant is a natural number, and later instants have
\* later or equal seconds.
LEMMA UnixType ==
  ASSUME NEW t \in Nat
  PROVE  Unix(t) \in Nat
  BY TimesAssumption DEF Unix

\* Later ticks fall in later or equal seconds.
LEMMA UnixMonotone ==
  ASSUME NEW s \in Nat, NEW t \in Nat, s <= t
  PROVE  Unix(s) <= Unix(t)
  BY TimesAssumption DEF Unix

\* If the second of s is not after the second of t, then s is less than one
\* second after t.
LEMMA UnixWithinASecond ==
  ASSUME NEW s \in Nat, NEW t \in Nat, Unix(s) <= Unix(t)
  PROVE  s < t + TicksPerSecond
  BY TimesAssumption DEF Unix

-----------------------------------------------------------------------------
(* Scheduled send: facts about a claim.                                    *)

\* The LIMITed SELECT returns a list of distinct due rows, so a claimed batch
\* is a sequence of row ids without repetition.
LEMMA SelectedAreDue ==
  ASSUME TypeOK, NEW ids \in selectDueIDs
  PROVE  /\ ids \in Seq(Ids)
         /\ DOMAIN ids = 1..Len(ids)
         /\ \A i \in 1..Len(ids) : ids[i] \in Due
         /\ \A i, j \in 1..Len(ids) : i # j => ids[i] # ids[j]
<1> DEFINE n == IF Cardinality(Due) <= BatchLimit THEN Cardinality(Due) ELSE BatchLimit
<1>1. IsFiniteSet(Due)
  BY IdsFinite, FS_Subset DEF Due
<1>2. n \in Nat
  BY <1>1, FS_CardinalityType, BoundsAssumption
<1>3. /\ ids \in [1..n -> Due]
      /\ \A i, j \in 1..n : i < j => ids[i] # ids[j]
  BY DEF selectDueIDs
<1>4. \A i, j \in 1..n : i # j => ids[i] # ids[j]
  BY <1>2, <1>3
<1>5. ids \in Seq(Ids) /\ Len(ids) = n
  BY <1>2, <1>3 DEF Due
<1> QED
  BY <1>2, <1>3, <1>4, <1>5

-----------------------------------------------------------------------------
(* Scheduled send: the invariant holds initially.                          *)

\* The empty table satisfies the inductive invariant.
LEMMA InitInv == Init => IInv
<1> SUFFICES ASSUME Init PROVE IInv
  OBVIOUS
<1>1. TypeOK
  BY TimesAssumption DEF Init, TypeOK, ScheduledSendRow, NoRow, Statuses, Phases
<1>2. /\ HeldRowsAreSending
      /\ NoHistoryYet
      /\ OneSubmissionPerAttempt
  BY DEF Init, HeldRowsAreSending, NoHistoryYet, OneSubmissionPerAttempt, NoRow
<1>3. AttemptsNeedCrashes /\ CancelIsFinal /\ ClaimedWhenDue
  BY DEF Init, AttemptsNeedCrashes, CancelIsFinal, ClaimedWhenDue, NoRow
<1>4. SubmittedAtHand /\ SentMeansSubmitted /\ StoppedIsIdle
  BY DEF Init, SubmittedAtHand, SentMeansSubmitted, StoppedIsIdle, NoRow
<1> QED
  BY <1>1, <1>2, <1>3, <1>4 DEF IInv

-----------------------------------------------------------------------------
\* Every position of the batch from the loop index on names a row, and while
\* the dispatcher is busy the loop index itself is such a position.
LEMMA HeldAreRows ==
  ASSUME TypeOK
  PROVE  /\ \A i \in pos..Len(batch) : i \in Nat /\ batch[i] \in Ids
         /\ phase # "idle" => pos \in pos..Len(batch)
<1>1. Len(batch) \in Nat /\ \A i \in 1..Len(batch) : batch[i] \in Ids
  BY DEF TypeOK
<1>2. \A i \in pos..Len(batch) : i \in 1..Len(batch)
  BY <1>1 DEF TypeOK
<1> QED
  BY <1>1, <1>2 DEF TypeOK

-----------------------------------------------------------------------------
(* Scheduled send: what the UPDATE statements leave alone.                 *)

\* An UPDATE of one row's status changes that status and nothing else.
LEMMA SetStatusEffect ==
  ASSUME TypeOK, NEW row \in Ids, NEW st \in Statuses,
         table' = [table EXCEPT ![row].status = st]
  PROVE  /\ table' \in [Ids -> ScheduledSendRow]
         /\ table'[row].status = st
         /\ \A id \in Ids : /\ table'[id].owner = table[id].owner
                            /\ table'[id].scheduledAt = table[id].scheduledAt
                            /\ id # row => table'[id].status = table[id].status
  BY DEF TypeOK, ScheduledSendRow

\* ResetStale only ever moves a row from "sending" to "pending".
LEMMA ResetStaleEffect ==
  ASSUME TypeOK, ResetStale
  PROVE  /\ table' \in [Ids -> ScheduledSendRow]
         /\ \A id \in Ids : /\ table'[id].owner = table[id].owner
                            /\ table'[id].scheduledAt = table[id].scheduledAt
                            /\ \/ table'[id].status = table[id].status
                               \/ /\ table[id].status = "sending"
                                  /\ table'[id].status = "pending"
<1>1. ASSUME NEW id \in Ids
      PROVE  /\ table[id] \in ScheduledSendRow
             /\ [table[id] EXCEPT !.status = "pending"] \in ScheduledSendRow
             /\ [table[id] EXCEPT !.status = "pending"].status = "pending"
             /\ [table[id] EXCEPT !.status = "pending"].owner = table[id].owner
             /\ [table[id] EXCEPT !.status = "pending"].scheduledAt
                  = table[id].scheduledAt
  BY DEF TypeOK, ScheduledSendRow, Statuses
<1>2. ASSUME NEW id \in Ids
      PROVE  table'[id] = IF Stale(id) THEN [table[id] EXCEPT !.status = "pending"]
                                       ELSE table[id]
  BY DEF ResetStale
<1>3. table' \in [Ids -> ScheduledSendRow]
  BY <1>1 DEF ResetStale
<1> QED
  BY <1>1, <1>2, <1>3 DEF Stale

\* claimIDs moves exactly the selected rows to "sending".
LEMMA ClaimEffect ==
  ASSUME TypeOK, NEW ids \in selectDueIDs, table' = claimIDs(ids)
  PROVE  /\ table' \in [Ids -> ScheduledSendRow]
         /\ \A id \in Ids : /\ table'[id].owner = table[id].owner
                            /\ table'[id].scheduledAt = table[id].scheduledAt
         /\ \A i \in DOMAIN ids : table'[ids[i]].status = "sending"
         /\ \A id \in Ids : (\A i \in DOMAIN ids : ids[i] # id) => table'[id] = table[id]
<1> DEFINE claimed(id) == [table[id] EXCEPT !.status = "sending", !.claimedAt = Unix(now)]
<1>0. Unix(now) \in Nat
  BY UnixType DEF TypeOK
<1>1. ASSUME NEW id \in Ids
      PROVE  /\ table[id] \in ScheduledSendRow
             /\ claimed(id) \in ScheduledSendRow
             /\ claimed(id).status = "sending"
             /\ claimed(id).owner = table[id].owner
             /\ claimed(id).scheduledAt = table[id].scheduledAt
  BY <1>0 DEF TypeOK, ScheduledSendRow, Statuses
<1>2. ASSUME NEW id \in Ids
      PROVE  table'[id] = IF \E i \in DOMAIN ids : ids[i] = id
                            THEN claimed(id) ELSE table[id]
  BY DEF claimIDs
<1>3. table' \in [Ids -> ScheduledSendRow]
  <2> HIDE DEF claimed
  <2>1. \A id \in Ids : table'[id] \in ScheduledSendRow
    BY <1>1, <1>2
  <2>2. table' = [id \in Ids |-> table'[id]]
    BY DEF claimIDs
  <2> QED BY <2>1, <2>2
<1>4. \A i \in DOMAIN ids : ids[i] \in Ids
  BY SelectedAreDue DEF Due
<1> HIDE DEF claimed
<1> QED
  BY <1>1, <1>2, <1>3, <1>4

-----------------------------------------------------------------------------
(* Scheduled send: the invariant is preserved: one lemma per action.       *)

\* The passing of time preserves it: nothing but the clock moves.
LEMMA TickInv ==
  ASSUME IInv, Tick
  PROVE  IInv'
<1> USE DEF Tick, dispatcher, history
<1>1. TypeOK'
  BY DEF IInv, TypeOK
<1>2. ClaimedWhenDue'
  <2>0. now \in Nat /\ now' \in Nat /\ now <= now'
    BY DEF IInv, TypeOK
  <2>1. Unix(now) \in Nat /\ Unix(now') \in Nat /\ Unix(now) <= Unix(now')
    BY <2>0, UnixType, UnixMonotone
  <2>2. \A id \in Ids : table[id].scheduledAt \in Nat
    BY DEF IInv, TypeOK, ScheduledSendRow
  <2> QED
    BY <2>1, <2>2 DEF IInv, ClaimedWhenDue
<1>3. HeldRowsAreSending' /\ NoHistoryYet' /\ OneSubmissionPerAttempt'
  BY DEF IInv, HeldRowsAreSending, NoHistoryYet, OneSubmissionPerAttempt
<1>4. AttemptsNeedCrashes' /\ CancelIsFinal'
  BY DEF IInv, AttemptsNeedCrashes, CancelIsFinal
<1>5. SubmittedAtHand' /\ SentMeansSubmitted' /\ StoppedIsIdle'
  BY DEF IInv, SubmittedAtHand, SentMeansSubmitted, StoppedIsIdle
<1> QED
  BY <1>1, <1>2, <1>3, <1>4, <1>5 DEF IInv

\* A create preserves it: the new row was absent, so nobody holds it.
LEMMA CreateInv ==
  ASSUME IInv, NEW owner \in Owners, NEW row \in Ids,
         handleWebmailScheduleCreate(owner, row)
  PROVE  IInv'
<1> USE DEF dispatcher
<1>1. PICK at \in {now + UndoSendWindow} \cup {t \in SendAts : t > now} :
        /\ table' = [table EXCEPT ![row] = [owner       |-> owner,
                                           scheduledAt |-> Unix(at),
                                           status      |-> "pending",
                                           claimedAt   |-> 0]]
        /\ requested' = [requested EXCEPT ![row] = at]
  BY DEF handleWebmailScheduleCreate
<1>2. at \in Nat /\ Unix(at) \in Nat
  <2>1. at \in Nat
    BY TimesAssumption DEF IInv, TypeOK
  <2> QED
    BY <2>1, UnixType
<1>3. /\ table'[row].owner = owner
      /\ table'[row].scheduledAt = Unix(at)
      /\ table'[row].status = "pending"
      /\ requested'[row] = at
      /\ \A id \in Ids \ {row} : table'[id] = table[id] /\ requested'[id] = requested[id]
  BY <1>1 DEF IInv, TypeOK
<1>4. table[row].status = "absent" /\ up
  BY DEF handleWebmailScheduleCreate
<1>5. UNCHANGED <<now, up, phase, batch, pos, canceledBy, attempts, submitted, saved,
                  crashes, dbErrors>>
  BY DEF handleWebmailScheduleCreate
<1>6. TypeOK'
  <2>1. [owner |-> owner, scheduledAt |-> Unix(at), status |-> "pending", claimedAt |-> 0]
          \in ScheduledSendRow
    BY <1>2 DEF ScheduledSendRow, Statuses
  <2>2. table' \in [Ids -> ScheduledSendRow] /\ requested' \in [Ids -> Nat]
    BY <2>1, <1>1, <1>2 DEF IInv, TypeOK
  <2> QED
    BY <2>2, <1>5 DEF IInv, TypeOK
<1>7. HeldRowsAreSending'
  <2>1. \A i \in pos..Len(batch) : batch[i] \in Ids /\ batch[i] # row
    BY <1>4, HeldAreRows DEF IInv, HeldRowsAreSending
  <2> QED
    BY <2>1, <1>3, <1>5 DEF IInv, HeldRowsAreSending
<1>8. NoHistoryYet' /\ AttemptsNeedCrashes'
  <2>1. attempts[row] = 0 /\ crashes \in Nat
    BY <1>4 DEF IInv, NoHistoryYet, TypeOK
  <2> QED
    BY <2>1, <1>3, <1>5 DEF IInv, NoHistoryYet, AttemptsNeedCrashes
<1>9. OneSubmissionPerAttempt' /\ SubmittedAtHand' /\ StoppedIsIdle'
  BY <1>5 DEF IInv, OneSubmissionPerAttempt, SubmittedAtHand, StoppedIsIdle
<1>10. CancelIsFinal'
  BY <1>3, <1>4, <1>5 DEF IInv, CancelIsFinal
<1>11. ClaimedWhenDue'
  <2>1. attempts[row] = 0
    BY <1>4 DEF IInv, NoHistoryYet
  <2> QED
    BY <2>1, <1>3, <1>5 DEF IInv, ClaimedWhenDue
<1>12. SentMeansSubmitted'
  BY <1>3, <1>5 DEF IInv, SentMeansSubmitted
<1> QED
  BY <1>6, <1>7, <1>8, <1>9, <1>10, <1>11, <1>12 DEF IInv

\* A cancel preserves it: the row it matches is pending, so the dispatcher does
\* not hold it.
LEMMA CancelInv ==
  ASSUME IInv, NEW owner \in Owners, NEW row \in Ids,
         handleWebmailScheduleCancel(owner, row)
  PROVE  IInv'
<1> USE DEF dispatcher
<1>1. /\ up
      /\ table[row].owner = owner
      /\ table[row].status = "pending"
      /\ table' = [table EXCEPT ![row].status = "canceled"]
      /\ canceledBy' = canceledBy \cup {<<owner, row>>}
  BY DEF handleWebmailScheduleCancel, Cancelable
<1>2. UNCHANGED <<now, up, phase, batch, pos, requested, attempts, submitted, saved,
                  crashes, dbErrors>>
  BY DEF handleWebmailScheduleCancel
<1>3. /\ table' \in [Ids -> ScheduledSendRow]
      /\ table'[row].status = "canceled"
      /\ \A id \in Ids : /\ table'[id].owner = table[id].owner
                         /\ table'[id].scheduledAt = table[id].scheduledAt
                         /\ id # row => table'[id].status = table[id].status
  <2>1. "canceled" \in Statuses
    BY DEF Statuses
  <2> QED
    BY <1>1, <2>1, SetStatusEffect DEF IInv
<1>4. TypeOK'
  <2>1. canceledBy' \subseteq Owners \X Ids
    BY <1>1, SMTT(30) DEF IInv, TypeOK
  <2> QED
    BY <2>1, <1>2, <1>3 DEF IInv, TypeOK
<1>5. HeldRowsAreSending'
  <2>1. \A i \in pos..Len(batch) : batch[i] \in Ids /\ batch[i] # row
    BY <1>1, HeldAreRows DEF IInv, HeldRowsAreSending
  <2> QED
    BY <2>1, <1>2, <1>3 DEF IInv, HeldRowsAreSending
<1>6. NoHistoryYet' /\ AttemptsNeedCrashes'
  BY <1>1, <1>2, <1>3 DEF IInv, NoHistoryYet, AttemptsNeedCrashes
<1>7. OneSubmissionPerAttempt' /\ SubmittedAtHand' /\ StoppedIsIdle'
  BY <1>2 DEF IInv, OneSubmissionPerAttempt, SubmittedAtHand, StoppedIsIdle
<1>8. CancelIsFinal'
  BY <1>1, <1>3 DEF IInv, CancelIsFinal
<1>9. ClaimedWhenDue' /\ SentMeansSubmitted'
  BY <1>1, <1>2, <1>3 DEF IInv, ClaimedWhenDue, SentMeansSubmitted
<1> QED
  BY <1>4, <1>5, <1>6, <1>7, <1>8, <1>9 DEF IInv

\* Resolving the credential preserves it: only the phase moves.
LEMMA ResolveCredentialInv ==
  ASSUME IInv, ResolveCredential
  PROVE  IInv'
<1> USE DEF ResolveCredential, history
<1>1. TypeOK'
  BY DEF IInv, TypeOK, Phases
<1>2. HeldRowsAreSending' /\ NoHistoryYet' /\ OneSubmissionPerAttempt'
  BY DEF IInv, HeldRowsAreSending, NoHistoryYet, OneSubmissionPerAttempt
<1>3. AttemptsNeedCrashes' /\ CancelIsFinal' /\ ClaimedWhenDue'
  BY DEF IInv, AttemptsNeedCrashes, CancelIsFinal, ClaimedWhenDue
<1>4. SubmittedAtHand' /\ SentMeansSubmitted' /\ StoppedIsIdle'
  BY DEF IInv, SubmittedAtHand, SentMeansSubmitted, StoppedIsIdle
<1> QED
  BY <1>1, <1>2, <1>3, <1>4 DEF IInv

\* A send preserves it: the row in hand has fewer submissions than attempts.
LEMMA SendInv ==
  ASSUME IInv, Send
  PROVE  IInv'
<1> DEFINE row == batch[pos]
<1>1. /\ row \in Ids
      /\ pos \in pos..Len(batch)
      /\ submitted[row] < attempts[row]
      /\ table[row].status = "sending"
  BY HeldAreRows DEF IInv, Send, OneSubmissionPerAttempt, HeldRowsAreSending
<1>2. /\ \/ phase' = "mark_failed" /\ submitted' = submitted
         \/ /\ phase' \in {"save", "mark_failed"}
            /\ submitted' = [submitted EXCEPT ![row] = @ + 1]
      /\ UNCHANGED <<now, table, up, batch, pos, requested, canceledBy, attempts, saved,
                     crashes, dbErrors>>
      /\ up
  BY DEF Send
<1>3. /\ submitted \in [Ids -> Nat] /\ attempts \in [Ids -> Nat] /\ saved \in [Ids -> Nat]
      /\ submitted' \in [Ids -> Nat]
      /\ \A id \in Ids : id # row => submitted'[id] = submitted[id]
      /\ submitted'[row] \in {submitted[row], submitted[row] + 1}
      /\ phase' = "save" => submitted'[row] = submitted[row] + 1
      /\ phase' \in {"save", "mark_failed"}
  <2>1. /\ submitted \in [Ids -> Nat] /\ attempts \in [Ids -> Nat]
        /\ saved \in [Ids -> Nat]
    BY DEF IInv, TypeOK
  <2>2. CASE phase' = "mark_failed" /\ submitted' = submitted
    BY <2>1, <2>2, <1>1
  <2>3. CASE /\ phase' \in {"save", "mark_failed"}
             /\ submitted' = [submitted EXCEPT ![row] = @ + 1]
    BY <2>1, <2>3, <1>1
  <2> QED
    BY <1>2, <2>2, <2>3
<1> HIDE DEF row
<1>4. TypeOK'
  <2>1. phase # "idle" /\ phase' # "idle" /\ phase' \in Phases
    BY <1>3 DEF Send, Phases
  <2> QED
    BY <2>1, <1>2, <1>3 DEF IInv, TypeOK
<1>5. HeldRowsAreSending' /\ AttemptsNeedCrashes' /\ CancelIsFinal' /\ StoppedIsIdle'
  BY <1>2 DEF IInv, HeldRowsAreSending, AttemptsNeedCrashes, CancelIsFinal, StoppedIsIdle
<1>6. NoHistoryYet' /\ ClaimedWhenDue'
  BY <1>1, <1>2, <1>3 DEF IInv, NoHistoryYet, ClaimedWhenDue
<1>7. OneSubmissionPerAttempt'
  <2>1. \A id \in Ids : submitted'[id] <= attempts'[id]
    BY <1>1, <1>2, <1>3 DEF IInv, OneSubmissionPerAttempt
  <2>2. ASSUME NEW i \in pos..Len(batch), i > pos
        PROVE  submitted'[batch[i]] < attempts'[batch[i]]
    <3>1. batch[i] \in Ids /\ i # pos
      BY <2>2, HeldAreRows DEF IInv, TypeOK
    <3>2. batch[i] # row
      BY <3>1, <1>1 DEF IInv, HeldRowsAreSending, row
    <3> QED
      BY <2>2, <3>1, <3>2, <1>2, <1>3 DEF IInv, OneSubmissionPerAttempt
  <2> QED
    BY <2>1, <2>2, <1>2, <1>3 DEF OneSubmissionPerAttempt
<1>8. SubmittedAtHand'
  <2>1. saved[row] <= submitted[row]
    BY <1>1 DEF IInv, SentMeansSubmitted
  <2>2. batch'[pos'] = row
    BY <1>2 DEF row
  <2> QED
    BY <2>1, <2>2, <1>1, <1>2, <1>3 DEF SubmittedAtHand
<1>9. SentMeansSubmitted'
  BY <1>1, <1>2, <1>3 DEF IInv, SentMeansSubmitted
<1> QED
  BY <1>4, <1>5, <1>6, <1>7, <1>8, <1>9 DEF IInv

\* The copy to the Sent folder preserves it: it follows a submission.
LEMMA SaveToSentInv ==
  ASSUME IInv, SaveToSent
  PROVE  IInv'
<1> DEFINE row == batch[pos]
<1>1. row \in Ids /\ saved[row] < submitted[row]
  BY HeldAreRows DEF IInv, SaveToSent, SubmittedAtHand
<1>2. /\ phase' = "mark_sent"
      /\ UNCHANGED <<now, table, up, batch, pos, requested, canceledBy, attempts,
                     submitted, crashes, dbErrors>>
      /\ up
  BY DEF SaveToSent
<1>3. /\ saved' \in [Ids -> Nat]
      /\ saved \in [Ids -> Nat] /\ submitted \in [Ids -> Nat]
      /\ \A id \in Ids : id # row => saved'[id] = saved[id]
      /\ saved'[row] <= submitted[row]
  <2>1. saved \in [Ids -> Nat] /\ submitted \in [Ids -> Nat]
    BY DEF IInv, TypeOK
  <2>2. CASE saved' = saved
    BY <2>1, <2>2, <1>1
  <2>3. CASE saved' = [saved EXCEPT ![row] = @ + 1]
    BY <2>1, <2>3, <1>1
  <2> QED
    BY <2>2, <2>3 DEF SaveToSent
<1> HIDE DEF row
<1>4. TypeOK'
  <2>1. phase # "idle" /\ phase' # "idle" /\ phase' \in Phases
    BY <1>2 DEF SaveToSent, Phases
  <2> QED
    BY <2>1, <1>2, <1>3 DEF IInv, TypeOK
<1>5. HeldRowsAreSending' /\ AttemptsNeedCrashes' /\ CancelIsFinal' /\ StoppedIsIdle'
  BY <1>2 DEF IInv, HeldRowsAreSending, AttemptsNeedCrashes, CancelIsFinal, StoppedIsIdle
<1>6. NoHistoryYet' /\ ClaimedWhenDue' /\ OneSubmissionPerAttempt'
  BY <1>2 DEF IInv, NoHistoryYet, ClaimedWhenDue, OneSubmissionPerAttempt
<1>7. SubmittedAtHand'
  BY <1>2 DEF IInv, SubmittedAtHand, SaveToSent
<1>8. SentMeansSubmitted'
  BY <1>1, <1>2, <1>3 DEF IInv, SentMeansSubmitted
<1> QED
  BY <1>4, <1>5, <1>6, <1>7, <1>8 DEF IInv

\* The last step of a row, whichever outcome it records and whether or not the
\* UPDATE went through: the loop moves on to rows that are still "sending".
LEMMA MarkInv ==
  ASSUME IInv,
         NEW from \in {"mark_sent", "mark_failed"},
         NEW st \in {"sent", "failed"},
         st = "sent" => from = "mark_sent",
         Mark(from, st)
  PROVE  IInv'
<1> DEFINE row == batch[pos]
<1>1. /\ row \in Ids /\ pos \in pos..Len(batch)
      /\ table[row].status = "sending"
      /\ st = "sent" => submitted[row] > 0
  BY HeldAreRows DEF IInv, Mark, HeldRowsAreSending, SubmittedAtHand
<1>2. /\ UNCHANGED <<now, up, requested, canceledBy, attempts, submitted, saved, crashes>>
      /\ up
      /\ dbErrors' \in Nat
  BY DEF Mark, history, IInv, TypeOK
<1>3. /\ table' \in [Ids -> ScheduledSendRow]
      /\ table'[row].status \in {"sending", st}
      /\ \A id \in Ids : /\ table'[id].owner = table[id].owner
                         /\ table'[id].scheduledAt = table[id].scheduledAt
                         /\ id # row => table'[id].status = table[id].status
  <2>1. CASE table' = [table EXCEPT ![row].status = st]
    <3>1. st \in Statuses
      BY DEF Statuses
    <3> QED
      BY <1>1, <2>1, <3>1, SetStatusEffect DEF IInv
  <2>2. CASE table' = table
    BY <1>1, <2>2 DEF IInv, TypeOK
  <2> QED
    BY <2>1, <2>2 DEF Mark, SetStatus
<1>4. \/ /\ pos < Len(batch)
         /\ pos' = pos + 1 /\ phase' = "credential" /\ batch' = batch
      \/ pos' = 1 /\ phase' = "idle" /\ batch' = << >>
  BY DEF Mark, NextRow
<1> HIDE DEF row
<1>5. TypeOK'
  <2>0. pos \in Nat \ {0} /\ batch \in Seq(Ids)
    BY DEF IInv, TypeOK
  <2>1. pos' \in Nat \ {0} /\ phase' \in Phases /\ batch' \in Seq(Ids)
    <3>1. CASE pos' = pos + 1 /\ phase' = "credential" /\ batch' = batch
      BY <2>0, <3>1 DEF Phases
    <3>2. CASE pos' = 1 /\ phase' = "idle" /\ batch' = << >>
      BY <3>2 DEF Phases
    <3> QED
      BY <1>4, <3>1, <3>2
  <2>2. /\ phase' # "idle" => pos' <= Len(batch')
        /\ phase' = "idle" => batch' = << >>
    BY <1>4 DEF IInv, TypeOK
  <2> QED
    BY <2>1, <2>2, <1>2, <1>3 DEF IInv, TypeOK
<1>6. \A i \in pos'..Len(batch') : /\ i \in pos..Len(batch) /\ i > pos
                                  /\ batch'[i] = batch[i]
                                  /\ batch[i] \in Ids \ {row}
  <2>1. CASE batch' = << >> /\ pos' = 1
    BY <2>1
  <2>2. CASE pos' = pos + 1 /\ batch' = batch
    <3>1. \A i \in pos'..Len(batch') : i \in pos..Len(batch) /\ i > pos
      BY <2>2, <1>1 DEF IInv, TypeOK
    <3>2. \A i \in pos..Len(batch) : i > pos => i # pos
      BY HeldAreRows DEF IInv, TypeOK
    <3>3. \A i \in pos..Len(batch) : i > pos => batch[i] \in Ids \ {row}
      BY <3>2, <1>1, HeldAreRows DEF IInv, HeldRowsAreSending, row
    <3> QED
      BY <2>2, <3>1, <3>3
  <2> QED
    BY <1>4, <2>1, <2>2
<1>7. HeldRowsAreSending'
  BY <1>3, <1>6 DEF IInv, HeldRowsAreSending
<1>8. OneSubmissionPerAttempt'
  BY <1>2, <1>6 DEF IInv, OneSubmissionPerAttempt
<1>9. NoHistoryYet' /\ AttemptsNeedCrashes' /\ StoppedIsIdle'
  BY <1>1, <1>2, <1>3 DEF IInv, NoHistoryYet, AttemptsNeedCrashes, StoppedIsIdle
<1>10. CancelIsFinal'
  BY <1>1, <1>2, <1>3 DEF IInv, CancelIsFinal
<1>11. ClaimedWhenDue'
  BY <1>1, <1>2, <1>3 DEF IInv, ClaimedWhenDue
<1>12. SubmittedAtHand'
  BY <1>4 DEF SubmittedAtHand
<1>13. SentMeansSubmitted'
  BY <1>1, <1>2, <1>3 DEF IInv, SentMeansSubmitted
<1> QED
  BY <1>5, <1>7, <1>8, <1>9, <1>10, <1>11, <1>12, <1>13 DEF IInv

\* A crash preserves it: the dispatcher forgets its batch, and one more
\* submission per message becomes possible.
LEMMA CrashInv ==
  ASSUME IInv, Crash
  PROVE  IInv'
<1>1. /\ up /\ up' = FALSE /\ crashes' = crashes + 1
      /\ phase' = "idle" /\ batch' = << >> /\ pos' = 1
      /\ UNCHANGED <<now, table, requested, canceledBy, attempts, submitted, saved, dbErrors>>
  BY DEF Crash, history
<1>2. TypeOK'
  <2>1. phase' \in Phases /\ batch' \in Seq(Ids) /\ pos' \in Nat \ {0} /\ crashes' \in Nat
    BY <1>1 DEF IInv, TypeOK, Phases
  <2> QED
    BY <2>1, <1>1 DEF IInv, TypeOK
<1>3. \A i \in pos'..Len(batch') : FALSE
  BY <1>1
<1>4. HeldRowsAreSending' /\ NoHistoryYet' /\ OneSubmissionPerAttempt'
  BY <1>1, <1>3 DEF IInv, HeldRowsAreSending, NoHistoryYet, OneSubmissionPerAttempt
<1>5. AttemptsNeedCrashes'
  <2>1. crashes \in Nat /\ \A id \in Ids : attempts[id] \in Nat
    BY DEF IInv, TypeOK
  <2> QED
    BY <2>1, <1>1 DEF IInv, AttemptsNeedCrashes
<1>6. CancelIsFinal' /\ ClaimedWhenDue' /\ SentMeansSubmitted'
  BY <1>1 DEF IInv, CancelIsFinal, ClaimedWhenDue, SentMeansSubmitted
<1>7. SubmittedAtHand' /\ StoppedIsIdle'
  BY <1>1 DEF SubmittedAtHand, StoppedIsIdle
<1> QED
  BY <1>2, <1>4, <1>5, <1>6, <1>7 DEF IInv

\* A restart preserves it: nobody holds a row when the sweep runs.
LEMMA RestartInv ==
  ASSUME IInv, Restart
  PROVE  IInv'
<1>1. /\ ~up /\ up' = TRUE /\ dbErrors' \in Nat
      /\ UNCHANGED <<now, phase, batch, pos, requested, canceledBy, attempts, submitted,
                     saved, crashes>>
  BY DEF Restart, dispatcher, history, IInv, TypeOK
<1>2. /\ table' \in [Ids -> ScheduledSendRow]
      /\ \A id \in Ids : /\ table'[id].owner = table[id].owner
                         /\ table'[id].scheduledAt = table[id].scheduledAt
                         /\ \/ table'[id].status = table[id].status
                            \/ /\ table[id].status = "sending"
                               /\ table'[id].status = "pending"
  <2>1. CASE ResetStale
    BY <2>1, ResetStaleEffect DEF IInv
  <2>2. CASE table' = table
    BY <2>2 DEF IInv, TypeOK
  <2> QED
    BY <2>1, <2>2 DEF Restart
<1>3. phase = "idle" /\ batch = << >> /\ \A i \in pos..Len(batch) : FALSE
  BY <1>1 DEF IInv, StoppedIsIdle, TypeOK
<1>4. TypeOK'
  BY <1>1, <1>2 DEF IInv, TypeOK
<1>5. HeldRowsAreSending' /\ OneSubmissionPerAttempt' /\ SubmittedAtHand'
  BY <1>1, <1>3 DEF IInv, HeldRowsAreSending, OneSubmissionPerAttempt, SubmittedAtHand
<1>6. NoHistoryYet' /\ AttemptsNeedCrashes'
  BY <1>1, <1>2 DEF IInv, NoHistoryYet, AttemptsNeedCrashes
<1>7. CancelIsFinal' /\ ClaimedWhenDue'
  BY <1>1, <1>2 DEF IInv, CancelIsFinal, ClaimedWhenDue
<1>8. SentMeansSubmitted' /\ StoppedIsIdle'
  BY <1>1, <1>2 DEF IInv, SentMeansSubmitted, StoppedIsIdle
<1> QED
  BY <1>4, <1>5, <1>6, <1>7, <1>8 DEF IInv

\* A claim preserves it: the claimed rows were pending, are distinct, and
\* become "sending" in the same transaction.
LEMMA ClaimDueInv ==
  ASSUME IInv, ClaimDue
  PROVE  IInv'
<1>1. PICK ids \in selectDueIDs :
        /\ table' = claimIDs(ids)
        /\ attempts' = [id \in Ids |-> IF \E i \in DOMAIN ids : ids[i] = id
                                         THEN attempts[id] + 1 ELSE attempts[id]]
        /\ batch' = ids
        /\ phase' = IF ids = << >> THEN "idle" ELSE "credential"
  BY DEF ClaimDue
<1>2. /\ up /\ pos' = 1
      /\ UNCHANGED <<now, up, requested, canceledBy, submitted, saved, crashes, dbErrors>>
  BY DEF ClaimDue
<1>3. /\ ids \in Seq(Ids)
      /\ DOMAIN ids = 1..Len(ids)
      /\ \A i \in 1..Len(ids) : /\ ids[i] \in Ids
                               /\ table[ids[i]].status = "pending"
                               /\ table[ids[i]].scheduledAt <= Unix(now)
      /\ \A i, j \in 1..Len(ids) : i # j => ids[i] # ids[j]
  BY SelectedAreDue DEF IInv, Due
<1>4. /\ table' \in [Ids -> ScheduledSendRow]
      /\ \A id \in Ids : /\ table'[id].owner = table[id].owner
                         /\ table'[id].scheduledAt = table[id].scheduledAt
      /\ \A i \in 1..Len(ids) : table'[ids[i]].status = "sending"
      /\ \A id \in Ids : (\A i \in 1..Len(ids) : ids[i] # id) => table'[id] = table[id]
  BY <1>1, <1>3, ClaimEffect DEF IInv
<1>5. /\ attempts' \in [Ids -> Nat] /\ attempts \in [Ids -> Nat]
      /\ \A id \in Ids : attempts[id] <= attempts'[id] /\ attempts'[id] <= attempts[id] + 1
      /\ \A i \in 1..Len(ids) : attempts'[ids[i]] = attempts[ids[i]] + 1
      /\ \A id \in Ids : (\A i \in 1..Len(ids) : ids[i] # id) => attempts'[id] = attempts[id]
  <2>1. attempts \in [Ids -> Nat]
    BY DEF IInv, TypeOK
  <2>2. attempts' \in [Ids -> Nat]
    BY <2>1, <1>1
  <2>3. \A id \in Ids : attempts'[id] = IF \E i \in 1..Len(ids) : ids[i] = id
                                          THEN attempts[id] + 1 ELSE attempts[id]
    BY <1>1, <1>3
  <2>4. \A id \in Ids : attempts[id] \in Nat
    BY <2>1
  <2>5. \A id \in Ids : attempts[id] <= attempts'[id] /\ attempts'[id] <= attempts[id] + 1
    BY <2>3, <2>4
  <2>6. \A i \in 1..Len(ids) : attempts'[ids[i]] = attempts[ids[i]] + 1
    BY <2>3, <1>3
  <2> QED
    BY <2>1, <2>2, <2>3, <2>5, <2>6
<1>6. /\ \A id \in Ids : submitted[id] \in Nat /\ attempts[id] \in Nat /\ attempts'[id] \in Nat
      /\ crashes \in Nat
  BY <1>5 DEF IInv, TypeOK
<1>7. TypeOK'
  <2>1. ids # << >> => 1 <= Len(ids)
    BY <1>3
  <2>2. phase' \in Phases /\ batch' \in Seq(Ids) /\ pos' \in Nat \ {0}
        /\ (phase' # "idle" => pos' <= Len(batch'))
        /\ (phase' = "idle" => batch' = << >>)
    BY <2>1, <1>1, <1>2, <1>3 DEF Phases
  <2> QED
    BY <2>2, <1>2, <1>4, <1>5 DEF IInv, TypeOK
<1>8. HeldRowsAreSending'
  BY <1>1, <1>2, <1>3, <1>4 DEF HeldRowsAreSending
<1>9. ASSUME NEW id \in Ids
      PROVE  \/ \E i \in 1..Len(ids) : ids[i] = id
             \/ table'[id] = table[id] /\ attempts'[id] = attempts[id]
  BY <1>4, <1>5
<1>10. NoHistoryYet'
  BY <1>2, <1>4, <1>9 DEF IInv, NoHistoryYet
<1>11. OneSubmissionPerAttempt'
  <2>1. \A id \in Ids : submitted[id] <= attempts'[id]
    BY <1>5, <1>6 DEF IInv, OneSubmissionPerAttempt
  <2>2. \A i \in 1..Len(ids) : submitted[ids[i]] < attempts'[ids[i]]
    BY <1>3, <1>5, <1>6 DEF IInv, OneSubmissionPerAttempt
  <2> QED
    BY <2>1, <2>2, <1>1, <1>2 DEF OneSubmissionPerAttempt
<1>12. AttemptsNeedCrashes'
  <2> SUFFICES ASSUME NEW id \in Ids
               PROVE  /\ attempts'[id] <= crashes + 1
                      /\ table'[id].status \in {"pending", "canceled"} => attempts'[id] <= crashes
    BY <1>2 DEF AttemptsNeedCrashes
  <2>1. CASE \E i \in 1..Len(ids) : ids[i] = id
    <3>1. table[id].status = "pending" /\ table'[id].status = "sending"
      BY <2>1, <1>3, <1>4
    <3>2. attempts[id] <= crashes /\ attempts'[id] <= attempts[id] + 1
      BY <3>1, <1>5 DEF IInv, AttemptsNeedCrashes
    <3> QED
      BY <3>1, <3>2, <1>6
  <2>2. CASE table'[id] = table[id] /\ attempts'[id] = attempts[id]
    BY <2>2 DEF IInv, AttemptsNeedCrashes
  <2> QED
    BY <1>9, <2>1, <2>2
<1>13. CancelIsFinal'
  <2> SUFFICES ASSUME NEW owner \in Owners, NEW id \in Ids, <<owner, id>> \in canceledBy
               PROVE  table'[id].owner = owner /\ table'[id].status = "canceled"
    BY <1>2 DEF CancelIsFinal
  <2>1. table[id].owner = owner /\ table[id].status = "canceled"
    BY DEF IInv, CancelIsFinal
  <2> QED
    BY <2>1, <1>3, <1>4
<1>14. ClaimedWhenDue'
  <2> SUFFICES ASSUME NEW id \in Ids
               PROVE  /\ table'[id].status # "absent" =>
                           table'[id].scheduledAt = Unix(requested[id])
                      /\ attempts'[id] > 0 => table'[id].scheduledAt <= Unix(now)
    BY <1>2 DEF ClaimedWhenDue
  <2>1. CASE \E i \in 1..Len(ids) : ids[i] = id
    BY <2>1, <1>3, <1>4 DEF IInv, ClaimedWhenDue
  <2>2. CASE table'[id] = table[id] /\ attempts'[id] = attempts[id]
    BY <2>2 DEF IInv, ClaimedWhenDue
  <2> QED
    BY <1>9, <2>1, <2>2
<1>15. SubmittedAtHand' /\ StoppedIsIdle'
  BY <1>1, <1>2 DEF SubmittedAtHand, StoppedIsIdle
<1>16. SentMeansSubmitted'
  BY <1>2, <1>4, <1>9 DEF IInv, SentMeansSubmitted
<1> QED
  BY <1>7, <1>8, <1>10, <1>11, <1>12, <1>13, <1>14, <1>15, <1>16 DEF IInv

\* Every step of the system preserves the inductive invariant.
LEMMA NextInv == IInv /\ [Next]_vars => IInv'
<1> SUFFICES ASSUME IInv, [Next]_vars PROVE IInv'
  OBVIOUS
<1>1. CASE Tick
  BY <1>1, TickInv
<1>2. CASE \E owner \in Owners, id \in Ids : handleWebmailScheduleCreate(owner, id)
  BY <1>2, CreateInv
<1>3. CASE \E owner \in Owners, id \in Ids : handleWebmailScheduleCancel(owner, id)
  BY <1>3, CancelInv
<1>4. CASE ClaimDue
  BY <1>4, ClaimDueInv
<1>5. CASE ResolveCredential
  BY <1>5, ResolveCredentialInv
<1>6. CASE Send
  BY <1>6, SendInv
<1>7. CASE SaveToSent
  BY <1>7, SaveToSentInv
<1>8. CASE MarkSent
  BY <1>8, MarkInv DEF MarkSent
<1>9. CASE MarkFailed
  BY <1>9, MarkInv DEF MarkFailed
<1>10. CASE Crash
  BY <1>10, CrashInv
<1>11. CASE Restart
  BY <1>11, RestartInv
<1>12. CASE UNCHANGED vars
  <2> USE <1>12 DEF vars, dispatcher, history
  <2>1. TypeOK'
    BY DEF IInv, TypeOK
  <2>2. HeldRowsAreSending' /\ NoHistoryYet' /\ OneSubmissionPerAttempt' /\ AttemptsNeedCrashes'
    BY DEF IInv, HeldRowsAreSending, NoHistoryYet, OneSubmissionPerAttempt, AttemptsNeedCrashes
  <2>3. CancelIsFinal' /\ ClaimedWhenDue'
    BY DEF IInv, CancelIsFinal, ClaimedWhenDue
  <2>4. SubmittedAtHand' /\ SentMeansSubmitted' /\ StoppedIsIdle'
    BY DEF IInv, SubmittedAtHand, SentMeansSubmitted, StoppedIsIdle
  <2> QED
    BY <2>1, <2>2, <2>3, <2>4 DEF IInv
<1> QED
  BY <1>1, <1>2, <1>3, <1>4, <1>5, <1>6, <1>7, <1>8, <1>9, <1>10, <1>11, <1>12
     DEF Next, Dispatch

\* The inductive invariant holds in every reachable state.
THEOREM Invariance == Spec => []IInv
  BY InitInv, NextInv, PTL DEF Spec

-----------------------------------------------------------------------------
(* Scheduled send: what follows from it.                                   *)

\* The table, the dispatcher's memory and the histories keep their types.
THEOREM TypeCorrect == Spec => []TypeOK
<1>1. IInv => TypeOK
  BY DEF IInv
<1> QED
  BY <1>1, Invariance, PTL

\* Rows held by the dispatcher are "sending", each held once: cancels and
\* resets never reach a row in flight.
THEOREM HeldRowsStaySending == Spec => []HeldRowsAreSending
<1>1. IInv => HeldRowsAreSending
  BY DEF IInv
<1> QED
  BY <1>1, Invariance, PTL

\* A message is submitted at most once per life of the process.
THEOREM NoDuplicateWithoutCrash == Spec => []DuplicatesNeedACrash
<1>1. IInv => DuplicatesNeedACrash
  <2> SUFFICES ASSUME IInv, NEW id \in Ids PROVE submitted[id] <= 1 + crashes
    BY DEF DuplicatesNeedACrash
  <2>1. submitted[id] \in Nat /\ attempts[id] \in Nat /\ crashes \in Nat
    BY DEF IInv, TypeOK
  <2>2. submitted[id] <= attempts[id] /\ attempts[id] <= crashes + 1
    BY DEF IInv, OneSubmissionPerAttempt, AttemptsNeedCrashes
  <2> QED
    BY <2>1, <2>2
<1> QED
  BY <1>1, Invariance, PTL

\* A cancel answered 200 is never undone by the dispatcher or a restart.
THEOREM CancelNeverUndone == Spec => []CancelIsFinal
<1>1. IInv => CancelIsFinal
  BY DEF IInv
<1> QED
  BY <1>1, Invariance, PTL

\* A canceled message was not sent, unless a crash interrupted an attempt.
THEOREM UndoWithoutCrashUnsends == Spec => []UndoneMeansUnsent
<1>1. IInv => UndoneMeansUnsent
  <2> SUFFICES ASSUME IInv, NEW id \in Ids, table[id].status = "canceled"
               PROVE  submitted[id] <= crashes
    BY DEF UndoneMeansUnsent
  <2>1. submitted[id] \in Nat /\ attempts[id] \in Nat /\ crashes \in Nat
    BY DEF IInv, TypeOK
  <2>2. submitted[id] <= attempts[id] /\ attempts[id] <= crashes
    BY DEF IInv, OneSubmissionPerAttempt, AttemptsNeedCrashes
  <2> QED
    BY <2>1, <2>2
<1> QED
  BY <1>1, Invariance, PTL

\* Whatever the clock's resolution, truncation to seconds never sends a
\* message a whole second early.
THEOREM NeverASecondEarly == Spec => []NotBeforeScheduled
<1>1. IInv => NotBeforeScheduled
  <2> SUFFICES ASSUME IInv, NEW id \in Ids, submitted[id] > 0
               PROVE  requested[id] < now + TicksPerSecond
    BY TimesAssumption DEF NotBeforeScheduled, IInv, TypeOK
  <2>1. submitted[id] \in Nat /\ attempts[id] \in Nat /\ requested[id] \in Nat /\ now \in Nat
    BY DEF IInv, TypeOK
  <2>2. attempts[id] > 0
    BY <2>1 DEF IInv, OneSubmissionPerAttempt
  <2>3. table[id].status # "absent"
    BY <2>1, <2>2 DEF IInv, NoHistoryYet
  <2>4. Unix(requested[id]) <= Unix(now)
    BY <2>2, <2>3 DEF IInv, ClaimedWhenDue
  <2> QED
    BY <2>1, <2>4, UnixWithinASecond
<1> QED
  BY <1>1, Invariance, PTL

\* "sent" is only ever reported for a submitted message, and only submitted
\* messages are copied to the Sent folder.
THEOREM SentWasSubmitted == Spec => []SentMeansSubmitted
<1>1. IInv => SentMeansSubmitted
  BY DEF IInv
<1> QED
  BY <1>1, Invariance, PTL

-----------------------------------------------------------------------------
(* Scheduled send: every row is an outbox message.                         *)

\* A row none of whose columns and histories change rests.
LEMMA RowRests ==
  ASSUME NEW id \in Ids, TypeOK,
         table'[id].status = table[id].status,
         attempts'[id] = attempts[id], submitted'[id] = submitted[id],
         table' \in [Ids -> ScheduledSendRow]
  PROVE  Outbox!Rest(id)
<1>1. attempts[id] \in Nat /\ submitted[id] \in Nat
  BY DEF TypeOK
<1> QED
  BY <1>1 DEF Outbox!Rest, Outbox!Moves

\* Every step of the system moves every message along its life cycle or
\* leaves it alone.
LEMMA StepRefines == IInv /\ IInv' /\ [Next]_vars => Outbox!OutboxNext
<1> SUFFICES ASSUME IInv, IInv', [Next]_vars, NEW m \in Ids
             PROVE  \/ Outbox!Accept(m) \/ Outbox!Withdraw(m) \/ Outbox!Begin(m)
                    \/ Outbox!Hand(m) \/ Outbox!Succeed(m) \/ Outbox!Fail(m)
                    \/ Outbox!Requeue(m) \/ Outbox!Rest(m)
  BY DEF Outbox!OutboxNext
<1>0. /\ TypeOK /\ table' \in [Ids -> ScheduledSendRow]
      /\ attempts[m] \in Nat /\ submitted[m] \in Nat
  BY DEF IInv, TypeOK
<1> DEFINE Same == table'[m].status = table[m].status
           Quiet == attempts'[m] = attempts[m] /\ submitted'[m] = submitted[m]
<1>1. ASSUME Same, Quiet PROVE Outbox!Rest(m)
  BY <1>0, <1>1, RowRests
<1>2. CASE UNCHANGED <<table, attempts, submitted>>
  BY <1>1, <1>2
<1>3. CASE \E owner \in Owners, id \in Ids : handleWebmailScheduleCreate(owner, id)
  <2>0. PICK owner \in Owners, id \in Ids : handleWebmailScheduleCreate(owner, id)
    BY <1>3
  <2>1. /\ table[id].status = "absent" /\ table'[id].status = "pending"
        /\ \A o \in Ids \ {id} : table'[o] = table[o]
        /\ attempts' = attempts /\ submitted' = submitted
    <3>1. table \in [Ids -> ScheduledSendRow]
      BY <1>0 DEF TypeOK
    <3> QED
      BY <2>0, <3>1 DEF handleWebmailScheduleCreate
  <2>2. CASE m = id
    BY <2>1, <2>2, <1>0 DEF Outbox!Accept, Outbox!Moves
  <2> QED
    BY <2>1, <2>2, <1>1
<1>4. CASE \E owner \in Owners, id \in Ids : handleWebmailScheduleCancel(owner, id)
  <2>1. PICK id \in Ids : /\ table[id].status = "pending"
                          /\ table' = [table EXCEPT ![id].status = "canceled"]
                          /\ attempts' = attempts /\ submitted' = submitted
    BY <1>4 DEF handleWebmailScheduleCancel, Cancelable
  <2>2. /\ table'[id].status = "canceled"
        /\ \A o \in Ids : o # id => table'[o].status = table[o].status
    BY <2>1, <1>0, SetStatusEffect DEF Statuses
  <2>3. CASE m = id
    BY <2>1, <2>2, <2>3, <1>0 DEF Outbox!Withdraw, Outbox!Moves
  <2> QED
    BY <2>1, <2>2, <2>3, <1>1
<1>5. CASE ClaimDue
  <2>1. PICK ids \in selectDueIDs :
          /\ table' = claimIDs(ids)
          /\ attempts' = [id \in Ids |-> IF \E i \in DOMAIN ids : ids[i] = id
                                           THEN attempts[id] + 1 ELSE attempts[id]]
          /\ submitted' = submitted
    BY <1>5 DEF ClaimDue
  <2>2. CASE \E i \in DOMAIN ids : ids[i] = m
    <3>1. table[m].status = "pending"
      BY <2>2, <1>0, SelectedAreDue DEF Due
    <3>2. table'[m].status = "sending"
      BY <2>1, <2>2, <1>0, ClaimEffect
    <3>3. attempts'[m] = attempts[m] + 1
      BY <2>1, <2>2
    <3> QED
      BY <3>1, <3>2, <3>3, <2>1, <1>0 DEF Outbox!Begin, Outbox!Moves
  <2>3. CASE ~ \E i \in DOMAIN ids : ids[i] = m
    <3>1. table'[m] = table[m]
      BY <2>1, <2>3, <1>0, ClaimEffect
    <3> QED
      BY <3>1, <2>1, <2>3, <1>1
  <2> QED
    BY <2>2, <2>3
<1>6. CASE Send
  <2> DEFINE row == batch[pos]
  <2>1. row \in Ids /\ submitted[row] < attempts[row] /\ table[row].status = "sending"
    BY <1>6, HeldAreRows DEF IInv, Send, OneSubmissionPerAttempt, HeldRowsAreSending
  <2>2. /\ table' = table /\ attempts' = attempts
        /\ \/ submitted' = submitted
           \/ submitted' = [submitted EXCEPT ![row] = @ + 1]
    BY <1>6 DEF Send
  <2> HIDE DEF row
  <2>3. CASE submitted' = submitted
    BY <2>2, <2>3, <1>1
  <2>4. CASE m # row /\ submitted' = [submitted EXCEPT ![row] = @ + 1]
    BY <2>1, <2>2, <2>4, <1>1
  <2>5. CASE m = row /\ submitted' = [submitted EXCEPT ![row] = @ + 1]
    <3>1. submitted'[m] = submitted[m] + 1
      BY <2>5, <1>0 DEF TypeOK
    <3> QED
      BY <3>1, <2>1, <2>2, <2>5, <1>0 DEF Outbox!Hand, Outbox!Moves
  <2> QED
    BY <2>2, <2>3, <2>4, <2>5
<1>7. ASSUME NEW from, NEW st, Mark(from, st),
             \/ from = "mark_sent" /\ st = "sent"
             \/ from = "mark_failed" /\ st = "failed"
      PROVE  Outbox!Succeed(m) \/ Outbox!Fail(m) \/ Outbox!Rest(m)
  <2> DEFINE row == batch[pos]
  <2>1. /\ row \in Ids /\ table[row].status = "sending"
        /\ st = "sent" => submitted[row] > 0
    BY <1>7, HeldAreRows DEF IInv, Mark, HeldRowsAreSending, SubmittedAtHand
  <2>2. /\ attempts' = attempts /\ submitted' = submitted
        /\ table' = table \/ table' = [table EXCEPT ![row].status = st]
    BY <1>7 DEF Mark, SetStatus, history
  <2> HIDE DEF row
  <2>3. CASE table' = table
    BY <2>2, <2>3, <1>1
  <2>4. CASE table' = [table EXCEPT ![row].status = st]
    <3>1. /\ table'[row].status = st
          /\ m # row => table'[m].status = table[m].status
      BY <1>7, <2>1, <2>4, <1>0, SetStatusEffect DEF Statuses
    <3>2. CASE m # row
      BY <3>1, <3>2, <2>2, <1>1
    <3>3. CASE m = row
      BY <3>1, <3>3, <2>1, <2>2, <1>0, <1>7 DEF Outbox!Succeed, Outbox!Fail, Outbox!Moves
    <3> QED
      BY <3>2, <3>3
  <2> QED
    BY <2>2, <2>3, <2>4
<1>8. CASE Restart
  <2>1. attempts' = attempts /\ submitted' = submitted
    BY <1>8 DEF Restart, history
  <2>2. \/ table' = table
        \/ Same
        \/ table[m].status = "sending" /\ table'[m].status = "pending"
    BY <1>8, <1>0, ResetStaleEffect DEF Restart
  <2>3. CASE table[m].status = "sending" /\ table'[m].status = "pending"
    BY <2>1, <2>3, <1>0 DEF Outbox!Requeue, Outbox!Moves
  <2> QED
    BY <2>1, <2>2, <2>3, <1>1
<1>9. CASE MarkSent \/ MarkFailed
  BY <1>7, <1>9 DEF MarkSent, MarkFailed
<1>10. CASE Tick \/ ResolveCredential \/ SaveToSent \/ Crash \/ UNCHANGED vars
  BY <1>2, <1>10 DEF Tick, ResolveCredential, SaveToSent, Crash, vars, history
<1> QED
  BY <1>3, <1>4, <1>5, <1>6, <1>8, <1>9, <1>10 DEF Next, Dispatch

\* The scheduled-send subsystem implements the outbox.
THEOREM Refinement == Spec => ImplementsOutbox
<1>1. Init => Outbox!OutboxInit
  BY DEF Init, NoRow, Outbox!OutboxInit
<1>2. IInv /\ IInv' /\ [Next]_vars => [Outbox!OutboxNext]_(Outbox!outbox)
  BY StepRefines
<1> QED
  BY <1>1, <1>2, Invariance, PTL DEF Spec, ImplementsOutbox, Outbox!OutboxSpec

-----------------------------------------------------------------------------
(* The calendar: sequences.                                                *)

\* How many places of a set come no later than this one.
Rank(places, i) == Cardinality({j \in places : j <= i})

\* The places of a set are numbered 1, 2, ... by their ranks.
LEMMA RanksNumber ==
  ASSUME NEW m \in Nat, NEW places \in SUBSET (1..m)
  PROVE  /\ IsFiniteSet(places) /\ Cardinality(places) \in Nat
         /\ \A i \in places : Rank(places, i) \in 1..Cardinality(places)
         /\ \A i, j \in places : Rank(places, i) = Rank(places, j) => i = j
         /\ \A k \in 1..Cardinality(places) : \E i \in places : Rank(places, i) = k
<1> DEFINE Upto(i) == {j \in places : j <= i}
           c == Cardinality(places)
<1>1. IsFiniteSet(places) /\ c \in Nat
  <2>1. IsFiniteSet(1..m)
    BY FS_Interval
  <2>2. IsFiniteSet(places)
    BY <2>1, FS_Subset
  <2> QED
    BY <2>2, FS_CardinalityType
<1>2. ASSUME NEW i \in places
      PROVE  IsFiniteSet(Upto(i)) /\ Cardinality(Upto(i)) \in 1..c
  <2>1. Upto(i) \in SUBSET places /\ i \in Upto(i)
    OBVIOUS
  <2>2. IsFiniteSet(Upto(i)) /\ Cardinality(Upto(i)) <= c
    BY <1>1, <2>1, FS_Subset
  <2>3. Cardinality(Upto(i)) \in Nat /\ Cardinality(Upto(i)) # 0
    BY <2>1, <2>2, FS_CardinalityType, FS_EmptySet
  <2> QED
    BY <1>1, <2>2, <2>3
<1>3. ASSUME NEW i \in places, NEW j \in places, i < j
      PROVE  Cardinality(Upto(i)) # Cardinality(Upto(j))
  <2>1. Upto(i) \in SUBSET Upto(j) /\ j \in Upto(j) /\ j \notin Upto(i)
    <3>1. \A l \in places : l \in Int
      OBVIOUS
    <3>2. i \in Int /\ j \in Int
      BY <3>1
    <3>3. j \in Upto(j) /\ j \notin Upto(i)
      BY <1>3, <3>2
    <3>4. \A l \in places : l <= i => l <= j
      BY <1>3, <3>1, <3>2
    <3> QED
      BY <3>3, <3>4
  <2> QED
    BY <1>2, <2>1, FS_Subset
<1>4. \A i, j \in places : Rank(places, i) = Rank(places, j) => i = j
  BY <1>3 DEF Rank
<1>5. \A k \in 1..c : \E i \in places : Rank(places, i) = k
  <2> DEFINE f == [i \in places |-> Rank(places, i)]
  <2>1. f \in Injection(places, 1..c)
    BY <1>2, <1>4 DEF Injection, IsInjective, Rank
  <2>2. IsFiniteSet(1..c) /\ Cardinality(1..c) = c
    BY <1>1, FS_Interval
  <2>3. f \in Surjection(places, 1..c)
    BY <2>1, <2>2, FS_Injection
  <2> QED
    BY <2>3 DEF Surjection
<1> QED
  BY <1>1, <1>2, <1>4, <1>5 DEF Rank

\* Pick returns the elements at the places, each once.
LEMMA PickIs ==
  ASSUME NEW S, NEW seq \in Seq(S), NEW places \in SUBSET DOMAIN seq
  PROVE  /\ Pick(seq, places) \in Seq(S) /\ Len(Pick(seq, places)) = Cardinality(places)
         /\ Cardinality(places) \in Nat
         /\ \E at \in [1..Cardinality(places) -> places] :
              /\ \A k \in 1..Cardinality(places) : Pick(seq, places)[k] = seq[at[k]]
              /\ \A k, l \in 1..Cardinality(places) : at[k] = at[l] => k = l
              /\ \A i \in places : \E k \in 1..Cardinality(places) : at[k] = i
<1> DEFINE c == Cardinality(places)
           at == [k \in 1..c |-> CHOOSE i \in places : Rank(places, i) = k]
<1>1. Len(seq) \in Nat /\ DOMAIN seq = 1..Len(seq) /\ \A i \in DOMAIN seq : seq[i] \in S
  OBVIOUS
<1>2. /\ c \in Nat
      /\ \A i \in places : Rank(places, i) \in 1..c
      /\ \A i, j \in places : Rank(places, i) = Rank(places, j) => i = j
      /\ \A k \in 1..c : \E i \in places : Rank(places, i) = k
  BY <1>1, RanksNumber
<1>3. \A k \in 1..c : at[k] \in places /\ Rank(places, at[k]) = k
  BY <1>2
<1>4. Pick(seq, places) = [k \in 1..c |-> seq[at[k]]]
  BY DEF Pick, Rank
<1> HIDE DEF at
<1>5. at \in [1..c -> places]
  BY <1>3 DEF at
<1>6. Pick(seq, places) \in Seq(S) /\ Len(Pick(seq, places)) = c
  BY <1>1, <1>2, <1>3, <1>4
<1>7. \A k, l \in 1..c : at[k] = at[l] => k = l
  BY <1>3
<1>8. \A i \in places : \E k \in 1..c : at[k] = i
  BY <1>2, <1>3
<1> QED
  BY <1>2, <1>4, <1>5, <1>6, <1>7, <1>8

\* A sum over one element is that element.
LEMMA SumOne ==
  ASSUME NEW f, DOMAIN f = {1}, f[1] \in Nat
  PROVE  SumFunction(f) = f[1]
<1> DEFINE body(g, s) == IF s = {} THEN 0
                         ELSE f[CHOOSE x \in s : TRUE] + g[s \ {CHOOSE x \in s : TRUE}]
           it == CHOOSE it : it = [s \in SUBSET {1} |-> body(it, s)]
           e == [s \in SUBSET {1} |-> IF s = {} THEN 0 ELSE f[1]]
<1>1. SumFunction(f) = it[{1}]
  BY DEF SumFunction, SumFunctionOnSet, FoldFunctionOnSet, MapThenFoldSet
<1>2. \A s \in SUBSET {1} : s = {} \/ s = {1}
  OBVIOUS
<1>3. e = [s \in SUBSET {1} |-> body(e, s)]
  <2>1. \A s \in SUBSET {1} : e[s] = body(e, s)
    <3>1. /\ e[{}] = 0 /\ {1} \ {1} = {} /\ {} \in SUBSET {1}
          /\ (CHOOSE x \in {1} : TRUE) = 1 /\ {1} # {}
      OBVIOUS
    <3>2. e[{1}] = f[1] + 0
      OBVIOUS
    <3> QED
      BY <1>2, <3>1, <3>2
  <2> HIDE DEF body
  <2> QED
    BY <2>1
<1>4. it = [s \in SUBSET {1} |-> body(it, s)]
  <2> HIDE DEF body, e
  <2> QED
    BY <1>3
<1>5. it[{}] = 0
  BY <1>4
<1>6. it[{1}] = f[1] + it[{}]
  <2>1. (CHOOSE x \in {1} : TRUE) = 1 /\ {1} \ {1} = {} /\ {1} # {}
    OBVIOUS
  <2>2. it[{1}] = body(it, {1})
    <3> HIDE DEF body
    <3> QED
      BY <1>4
  <2> HIDE DEF it
  <2> QED
    BY <2>1, <2>2
<1> HIDE DEF it
<1> QED
  BY <1>1, <1>5, <1>6

-----------------------------------------------------------------------------
(* The calendar: files.                                                    *)

IdsAt(attach, places) == {attach[i].id : i \in places}

\* A file is a record; every event that is held is an event.
LEMMA AttachmentIs ==
  ASSUME NEW a \in Attachment
  PROVE  a.id \in Nat \ {0} /\ a.size \in Nat /\ (a.id \in Elsewhere \/ a.id \in 1..MaxRequests)
  BY CalendarBounds DEF Attachment, Elsewhere

\* Some of an event's files are distinct when all of them are.
LEMMA PickedFiles ==
  ASSUME NEW attach \in Seq(Attachment), Distinct(attach), NEW places \in SUBSET DOMAIN attach
  PROVE  /\ Pick(attach, places) \in Seq(Attachment)
         /\ Distinct(Pick(attach, places))
         /\ FileIds(Pick(attach, places)) = {attach[i].id : i \in places}
<1> DEFINE p == Pick(attach, places)
           c == Cardinality(places)
<1>1. p \in Seq(Attachment) /\ DOMAIN p = 1..c
  BY PickIs
<1>2. PICK at \in [1..c -> places] :
        /\ \A k \in 1..c : p[k] = attach[at[k]]
        /\ \A k, l \in 1..c : at[k] = at[l] => k = l
        /\ \A i \in places : \E k \in 1..c : at[k] = i
  BY PickIs
<1> HIDE DEF p, c
<1>3. Distinct(p)
  BY <1>1, <1>2 DEF Distinct
<1>4. FileIds(p) = {attach[i].id : i \in places}
  <2>1. FileIds(p) = {p[k].id : k \in 1..c}
    BY <1>1 DEF FileIds
  <2>2. \A k \in 1..c : p[k].id = attach[at[k]].id /\ at[k] \in places
    BY <1>2
  <2>3. \A i \in places : \E k \in 1..c : p[k].id = attach[i].id
    BY <1>2
  <2>4. \A x \in FileIds(p) : x \in {attach[i].id : i \in places}
    BY <2>1, <2>2
  <2>5. \A i \in places : attach[i].id \in FileIds(p)
    BY <2>1, <2>3
  <2> QED
    BY <2>4, <2>5
<1> QED
  BY <1>1, <1>3, <1>4 DEF p

\* A sequence that is not empty has a first element.
LEMMA HeadIs ==
  ASSUME NEW S, NEW s \in Seq(S), s # <<>>
  PROVE  Len(s) \in Nat \ {0} /\ s[1] \in S /\ (Len(s) <= 1 => s = <<s[1]>>)
<1>1. Len(s) \in Nat \ {0} /\ s[1] \in S
  OBVIOUS
<1>2. Len(s) <= 1 => Len(s) = 1
  <2>1. \A k \in Nat \ {0} : k <= 1 => k = 1
    OBVIOUS
  <2> QED
    BY <1>1, <2>1, Zenon
<1>3. Len(s) = 1 => s = <<s[1]>>
  OBVIOUS
<1> QED
  BY <1>1, <1>2, <1>3

\* The sequence of none.
LEMMA NoneIs == ASSUME NEW S PROVE <<>> \in Seq(S) /\ DOMAIN <<>> = {}
  OBVIOUS

\* A sequence of one element.
LEMMA OneIs ==
  ASSUME NEW S, NEW x \in S
  PROVE  /\ <<x>> \in Seq(S) /\ <<x>> # <<>> /\ <<x>>[1] = x /\ DOMAIN <<x>> = {1}
  OBVIOUS

\* A file with an id of its own joins those of an event.
LEMMA FileJoins ==
  ASSUME NEW s \in Seq(Attachment), Distinct(s), NEW a \in Attachment, a.id \notin FileIds(s)
  PROVE  /\ s \o <<a>> \in Seq(Attachment)
         /\ Distinct(s \o <<a>>)
         /\ FileIds(s \o <<a>>) = FileIds(s) \cup {a.id}
<1> DEFINE r == s \o <<a>>
<1>1. /\ r \in Seq(Attachment) /\ DOMAIN s = 1..Len(s) /\ Len(s) \in Nat
      /\ DOMAIN r = 1..(Len(s) + 1) /\ r[Len(s) + 1] = a
      /\ \A i \in 1..Len(s) : r[i] = s[i]
  OBVIOUS
<1> HIDE DEF r
<1>2. \A i \in DOMAIN r : i \in DOMAIN s \/ i = Len(s) + 1
  BY <1>1
<1>3. Distinct(r)
  BY <1>1, <1>2 DEF Distinct, FileIds
<1>4. FileIds(r) = FileIds(s) \cup {a.id}
  <2>1. \A i \in DOMAIN s : i \in DOMAIN r /\ r[i].id = s[i].id
    BY <1>1
  <2>2. Len(s) + 1 \in DOMAIN r /\ r[Len(s) + 1].id = a.id
    BY <1>1
  <2>3. \A i \in DOMAIN r : r[i].id \in FileIds(s) \cup {a.id}
    BY <1>1, <1>2, <2>1, <2>2 DEF FileIds
  <2> QED
    BY <2>1, <2>2, <2>3 DEF FileIds
<1> QED
  BY <1>1, <1>3, <1>4 DEF r

\* Of what is sent with a form, the one file is added if it is usable.
LEMMA UploadIs ==
  ASSUME NEW id, NEW upload \in Uploads(id)
  PROVE  LET sent == {i \in DOMAIN upload : Usable(upload[i])}
             added == addAttachments(upload)
         IN  /\ added \in Seq(Sent(id)) /\ Len(added) = Cardinality(sent)
             /\ \/ added = <<>>
                \/ \E f \in Sent(id) : upload = <<f>> /\ Usable(f) /\ added = <<f>>
<1> DEFINE sent == {i \in DOMAIN upload : Usable(upload[i])}
           added == addAttachments(upload)
<1>1. upload = <<>> \/ \E f \in Sent(id) : upload = <<f>>
  BY DEF Uploads
<1>2. upload \in Seq(Sent(id)) /\ sent \in SUBSET DOMAIN upload
  <2>1. CASE upload = <<>>
    BY <2>1
  <2>2. CASE \E f \in Sent(id) : upload = <<f>>
    BY <2>2, OneIs
  <2> QED
    BY <1>1, <2>1, <2>2
<1>3. /\ added \in Seq(Sent(id)) /\ Len(added) = Cardinality(sent)
      /\ \E at \in [1..Cardinality(sent) -> sent] :
           \A k \in 1..Cardinality(sent) : added[k] = upload[at[k]]
  <2> HIDE DEF sent
  <2>1. addAttachments(upload) = Pick(upload, sent)
    BY DEF addAttachments, sent
  <2> QED
    BY <1>2, <2>1, PickIs
<1> HIDE DEF added
<1>4. CASE sent = {}
  <2>1. Cardinality(sent) = 0
    BY <1>4, FS_EmptySet
  <2>2. added = <<>>
    BY <1>3, <2>1
  <2> QED
    BY <1>3, <2>2 DEF added
<1>5. CASE sent # {}
  <2>1. PICK f \in Sent(id) : upload = <<f>>
    BY <1>1, <1>5
  <2>2. DOMAIN upload = {1} /\ upload[1] = f
    BY <2>1
  <2>3. sent = {1} /\ Usable(f)
    BY <1>5, <2>2
  <2> HIDE DEF sent
  <2>4. Cardinality(sent) = 1
    BY <2>3, FS_Singleton
  <2>5. Len(added) = 1 /\ added[1] = f
    BY <1>3, <2>2, <2>3, <2>4
  <2>6. added = <<f>>
    BY <1>3, <2>5
  <2> QED
    BY <1>3, <2>1, <2>3, <2>6 DEF added, sent
<1> QED
  BY <1>4, <1>5

\* What is added and passes the check is one file at most, under the cap.
LEMMA UploadFits ==
  ASSUME NEW id \in 1..MaxRequests, NEW form, form.upload \in Uploads(id), Fits(form)
  PROVE  \/ addAttachments(form.upload) = <<>>
         \/ \E a \in Attachment : addAttachments(form.upload) = <<a>> /\ a.id = id
<1> SUFFICES ASSUME NEW f \in Sent(id), form.upload = <<f>>, Usable(f)
             PROVE  f \in Attachment /\ f.id = id
  BY UploadIs
<1> DEFINE sizes == [i \in DOMAIN form.upload |-> form.upload[i].size]
<1>1. f.id = id /\ f.size \in Nat \ {0} /\ f = [id |-> id, size |-> f.size]
  BY CalendarBounds DEF Sent, Usable
<1>2. DOMAIN sizes = {1} /\ sizes[1] = f.size
  OBVIOUS
<1> HIDE DEF sizes
<1>3. SumFunction(sizes) = f.size
  BY <1>1, <1>2, SumOne
<1>4. f.size <= maxCalAttachTotal
  BY <1>3 DEF Fits, Size, sizes
<1>5. f.size \in 1..maxCalAttachTotal
  BY <1>1, <1>4, CalendarBounds
<1> QED
  BY <1>1, <1>5 DEF Attachment

-----------------------------------------------------------------------------
(* The calendar: the form.                                                 *)

\* What parseEvent shows of an event has the type of the form's fields.
LEMMA ViewIs ==
  ASSUME NEW e \in Event
  PROVE  LET view == parseEvent(e)
         IN  /\ view.repeat = e.rule.freq /\ view.repeat \in Freqs
             /\ view.calendar = Filed(e) /\ view.calendar \in Categories \cup {""}
             /\ view.reminder = alarmMinutes(e.alarms) /\ view.reminder \in Nat
             /\ view.guests = Invited(e) /\ view.guests \in SUBSET Listable
             /\ view.attachments = Len(e.attach) /\ view.attachments \in Nat
             /\ view.rsvp = partstatToRsvp(e.owner)
<1>1. e.rule.freq \in Freqs
  <2>1. e.rule \in Rule
    BY DEF Event
  <2>2. NoRule.freq \in Freqs
    BY DEF NoRule, Freqs
  <2> QED
    BY <2>1, <2>2 DEF Rule
<1>2. alarmMinutes(e.alarms) \in Nat
  <2>1. e.alarms \in Seq(Alarm)
    BY DEF Event
  <2>2. e.alarms # <<>> => e.alarms[1] \in Alarm
    BY <2>1
  <2> QED
    BY <2>2 DEF alarmMinutes, Alarm
<1>3. Len(e.attach) \in Nat
  BY DEF Event
<1>4. Filed(e) \in Categories \cup {""}
  <2>1. e.categories \in Seq(Categories)
    BY DEF Event
  <2> QED
    BY <2>1, HeadIs DEF Filed
<1> QED
  BY <1>1, <1>2, <1>3, <1>4 DEF parseEvent, Invited

\* What a form asks for, of whichever event it was filled in.
IsForm(form, id) ==
  /\ form.calendar \in Categories \cup {""}
  /\ form.repeat \in Freqs /\ form.reminder \in Nat /\ form.guests \in SUBSET Listable
  /\ form.upload \in Uploads(id)
  /\ form.keep # Untouched => form.keep \in SUBSET (Nat \ {0})

\* A form that was filled in from an event has its type.
LEMMA FormIs ==
  ASSUME NEW e \in Event, NEW id, NEW form \in Forms(parseEvent(e), id)
  PROVE  /\ IsForm(form, id)
         /\ form.keep # Untouched => form.keep \in SUBSET (1..Len(e.attach))
<1> DEFINE view == parseEvent(e)
           echo == Echo(view)
<1>1. /\ view.repeat \in Freqs /\ view.reminder \in Nat /\ view.guests \in SUBSET Listable
      /\ view.calendar \in Categories \cup {""}
      /\ view.attachments = Len(e.attach) /\ view.attachments \in Nat
  BY ViewIs
<1>2. echo = [calendar |-> view.calendar, repeat |-> view.repeat, reminder |-> view.reminder,
              guests |-> view.guests, keep |-> Untouched, upload |-> <<>>]
  BY DEF Echo
<1>3. <<>> \in Uploads(id) /\ "" \in Freqs /\ "DAILY" \in Freqs
  BY DEF Uploads, Freqs, FormFreqs
<1>0. \/ \E c \in Categories \cup {""} : form = [echo EXCEPT !.calendar = c]
      \/ \E r \in {"", "DAILY", view.repeat} : form = [echo EXCEPT !.repeat = r]
      \/ \E m \in 0..2 : form = [echo EXCEPT !.reminder = m]
      \/ \E g \in SUBSET (Guests \cup view.guests) : form = [echo EXCEPT !.guests = g]
      \/ form \in [calendar : {view.calendar}, repeat : {view.repeat},
                  reminder : {view.reminder}, guests : {view.guests}, keep : SUBSET (1..view.attachments), upload : Uploads(id)]
  <2> HIDE DEF view
  <2>0. \A x \in {[echo EXCEPT !.calendar = c] : c \in Categories \cup {""}} :
          \E c \in Categories \cup {""} : x = [echo EXCEPT !.calendar = c]
    OBVIOUS
  <2>1. \A x \in {[echo EXCEPT !.repeat = r] : r \in {"", "DAILY", view.repeat}} :
          \E r \in {"", "DAILY", view.repeat} : x = [echo EXCEPT !.repeat = r]
    OBVIOUS
  <2>2. \A x \in {[echo EXCEPT !.reminder = m] : m \in 0..2} :
          \E m \in 0..2 : x = [echo EXCEPT !.reminder = m]
    OBVIOUS
  <2>3. \A x \in {[echo EXCEPT !.guests = g] : g \in SUBSET (Guests \cup view.guests)} :
          \E g \in SUBSET (Guests \cup view.guests) : x = [echo EXCEPT !.guests = g]
    OBVIOUS
  <2>4. \/ form \in {[echo EXCEPT !.calendar = c] : c \in Categories \cup {""}}
        \/ form \in {[echo EXCEPT !.repeat = r] : r \in {"", "DAILY", view.repeat}}
        \/ form \in {[echo EXCEPT !.reminder = m] : m \in 0..2}
        \/ form \in {[echo EXCEPT !.guests = g] : g \in SUBSET (Guests \cup view.guests)}
        \/ form \in [calendar : {view.calendar}, repeat : {view.repeat},
                    reminder : {view.reminder}, guests : {view.guests}, keep : SUBSET (1..view.attachments), upload : Uploads(id)]
    BY DEF Forms, view
  <2> HIDE DEF echo
  <2> QED
    BY <2>0, <2>1, <2>2, <2>3, <2>4
<1> HIDE DEF view, echo
<1>8. CASE \E c \in Categories \cup {""} : form = [echo EXCEPT !.calendar = c]
  <2>1. PICK c \in Categories \cup {""} : form = [echo EXCEPT !.calendar = c]
    BY <1>8
  <2> QED
    BY <1>1, <1>2, <1>3, <2>1 DEF IsForm
<1>4. CASE \E r \in {"", "DAILY", view.repeat} : form = [echo EXCEPT !.repeat = r]
  <2>1. PICK r \in Freqs : form = [echo EXCEPT !.repeat = r]
    BY <1>1, <1>3, <1>4
  <2> QED
    BY <1>1, <1>2, <1>3, <2>1 DEF IsForm
<1>5. CASE \E m \in 0..2 : form = [echo EXCEPT !.reminder = m]
  <2>1. PICK m \in Nat : form = [echo EXCEPT !.reminder = m]
    BY <1>5
  <2> QED
    BY <1>1, <1>2, <1>3, <2>1 DEF IsForm
<1>6. CASE \E g \in SUBSET (Guests \cup view.guests) : form = [echo EXCEPT !.guests = g]
  <2>1. PICK g \in SUBSET Listable : form = [echo EXCEPT !.guests = g]
    BY <1>1, <1>6 DEF Listable
  <2> QED
    BY <1>1, <1>2, <1>3, <2>1 DEF IsForm
<1>7. CASE form \in [calendar : {view.calendar}, repeat : {view.repeat},
                   reminder : {view.reminder}, guests : {view.guests}, keep : SUBSET (1..view.attachments), upload : Uploads(id)]
  <2>1. form.keep \in SUBSET (1..Len(e.attach)) /\ form.keep \in SUBSET (Nat \ {0})
    <3>1. form.keep \in SUBSET (1..view.attachments)
      BY <1>7
    <3>2. 1..view.attachments = 1..Len(e.attach) /\ 1..view.attachments \subseteq Nat \ {0}
      <4>1. view.attachments = Len(e.attach) /\ view.attachments \in Nat
        BY <1>1
      <4>2. \A k \in Nat : 1..k \subseteq Nat \ {0}
        OBVIOUS
      <4> QED
        BY <4>1, <4>2, Zenon
    <3> QED
      BY <3>1, <3>2
  <2> QED
    BY <1>1, <1>7, <2>1 DEF IsForm
<1> QED
  BY <1>0, <1>4, <1>5, <1>6, <1>7, <1>8

-----------------------------------------------------------------------------
(* The calendar: edits.                                                    *)

\* A rule keeps its parts or is one that has none.
LEMMA RuleEdited ==
  ASSUME NEW rule \in Rule, NEW repeat \in Freqs
  PROVE  /\ editRRule(rule, repeat) \in Rule
         /\ editRRule(rule, repeat).freq = normalizeFreq(repeat)
  BY DEF editRRule, normalizeFreq, Rule, NoRule, Freqs, FormFreqs

\* The form's reminder is one alarm, or none.
LEMMA ReminderIs ==
  ASSUME NEW minutes \in Nat
  PROVE  /\ Reminder(minutes) \in Seq(Alarm) /\ alarmMinutes(Reminder(minutes)) = minutes
         /\ minutes = 0 => Reminder(minutes) = <<>>
<1>1. CASE minutes = 0
  BY <1>1 DEF Reminder, alarmMinutes
<1>2. CASE minutes > 0
  <2>1. [action |-> "DISPLAY", minutes |-> minutes] \in Alarm
    BY DEF Alarm
  <2> QED
    BY <1>2, <2>1 DEF Reminder, alarmMinutes
<1> QED
  BY <1>1, <1>2

\* Alarms stay alarms; when all of them are the form's, the form's reminder is
\* what the first one says afterwards.
LEMMA AlarmsEdited ==
  ASSUME NEW alarms \in Seq(Alarm), NEW minutes \in Nat
  PROVE  /\ editReminder(alarms, minutes) \in Seq(Alarm)
         /\ (\A i \in DOMAIN alarms : isSimpleReminder(alarms[i])) =>
              alarmMinutes(editReminder(alarms, minutes)) = minutes
<1> DEFINE others == {i \in DOMAIN alarms : ~ isSimpleReminder(alarms[i])}
           kept == Pick(alarms, others)
<1>1. kept \in Seq(Alarm) /\ Len(kept) = Cardinality(others)
  BY PickIs
<1>2. Reminder(minutes) \in Seq(Alarm) /\ alarmMinutes(Reminder(minutes)) = minutes
  BY ReminderIs
<1>3. editReminder(alarms, minutes) = IF minutes = alarmMinutes(alarms) THEN alarms
                                      ELSE kept \o Reminder(minutes)
  BY DEF editReminder
<1>4. ASSUME others = {} PROVE kept \o Reminder(minutes) = Reminder(minutes)
  <2>1. Len(kept) = 0
    BY <1>1, <1>4, FS_EmptySet
  <2> HIDE DEF kept
  <2>2. kept = <<>>
    BY <1>1, <2>1
  <2> QED
    BY <1>2, <2>2
<1> HIDE DEF kept
<1>5. kept \o Reminder(minutes) \in Seq(Alarm)
  BY <1>1, <1>2
<1>6. (\A i \in DOMAIN alarms : isSimpleReminder(alarms[i])) => others = {}
  OBVIOUS
<1> HIDE DEF others
<1> QED
  BY <1>2, <1>3, <1>4, <1>5, <1>6

\* The guests of the form are the guests of the event, the owner by another
\* spelling among them, and the owner's answer stays but for that.
LEMMA GuestsEdited ==
  ASSUME NEW e \in Event, NEW want \in SUBSET Listable
  PROVE  /\ editGuests(e, want) \in [Listable -> Partstats] /\ editOwner(e, want) \in Partstats
         /\ \A r : r.guests = editGuests(e, want) /\ r.owner = editOwner(e, want)
                   /\ r.upper = e.upper => Invited(r) = want
<1>1. /\ "" \in Partstats /\ "absent" \in Partstats /\ "" # "absent"
      /\ e.guests \in [Listable -> Partstats] /\ e.owner \in Partstats
  BY DEF Partstats, Event
<1>2. editGuests(e, want) \in [Listable -> Partstats] /\ editOwner(e, want) \in Partstats
  BY <1>1 DEF editGuests, editOwner
<1>3. ASSUME NEW r, r.guests = editGuests(e, want), r.owner = editOwner(e, want),
             r.upper = e.upper
      PROVE  Invited(r) = want
  <2>1. ASSUME NEW g \in Listable, g # Myself PROVE g \in Invited(r) <=> g \in want
    BY <1>1, <1>3, <2>1 DEF Invited, editGuests
  <2>2. Myself \in Invited(r) <=> Myself \in want
    <3>1. Myself \in Listable
      BY DEF Listable
    <3>2. OwnerListed(r) <=> OwnerListed(e) /\ Myself \in want
      BY <1>3 DEF OwnerListed, editOwner, Unlisted
    <3>3. r.guests[Myself] = IF Myself \notin want THEN "absent"
                             ELSE IF e.guests[Myself] # "absent" THEN e.guests[Myself]
                             ELSE IF OwnerListed(e) THEN "absent" ELSE ""
      BY <1>3, <3>1 DEF editGuests
    <3> QED
      BY <1>1, <3>1, <3>2, <3>3 DEF Invited
  <2>3. Invited(r) \subseteq Listable
    BY DEF Invited
  <2> QED
    BY <2>1, <2>2, <2>3
<1> QED
  BY <1>2, <1>3

\* Files stay distinct, and are those kept and the one uploaded.
LEMMA FilesEdited ==
  ASSUME NEW attach \in Seq(Attachment), Distinct(attach), NEW id \in 1..MaxRequests,
         id \notin FileIds(attach), NEW form, IsForm(form, id), Fits(form)
  PROVE  LET r == editAttachments(attach, form.keep, form.upload)
         IN  /\ r \in Seq(Attachment) /\ Distinct(r)
             /\ FileIds(r) \subseteq FileIds(attach) \cup {id}
             /\ form.keep # Untouched =>
                  FileIds(r) = (FileIds(attach) \ IdsAt(attach, DOMAIN attach \ form.keep)) \cup
                               FileIds(addAttachments(form.upload))
<1> DEFINE places == form.keep \cap DOMAIN attach
           kept == Pick(attach, places)
           added == addAttachments(form.upload)
           r == editAttachments(attach, form.keep, form.upload)
<1>1. CASE form.keep = Untouched
  BY <1>1 DEF editAttachments
<1>2. CASE form.keep # Untouched
  <2>1. /\ kept \in Seq(Attachment) /\ Distinct(kept)
        /\ FileIds(kept) = {attach[i].id : i \in places}
    BY PickedFiles
  <2>2. FileIds(kept) = FileIds(attach) \ {attach[i].id : i \in DOMAIN attach \ form.keep}
    <3>1. \A x \in FileIds(attach) \ {attach[i].id : i \in DOMAIN attach \ form.keep} :
            x \in FileIds(kept)
      BY <2>1 DEF FileIds
    <3>2. \A i \in places : \A j \in DOMAIN attach \ form.keep : attach[i].id # attach[j].id
      BY DEF Distinct
    <3>3. \A i \in places : attach[i].id \in FileIds(attach)
      BY DEF FileIds
    <3>4. \A x \in FileIds(kept) :
            x \in FileIds(attach) \ {attach[i].id : i \in DOMAIN attach \ form.keep}
      BY <2>1, <3>2, <3>3
    <3> QED
      BY <3>1, <3>4
  <2>3. r = kept \o added
    BY <1>2 DEF editAttachments
  <2> HIDE DEF kept, added
  <2>4. CASE added = <<>>
    <3>1. r = kept /\ FileIds(added) = {}
      BY <2>1, <2>3, <2>4 DEF FileIds
    <3> QED
      BY <1>2, <2>1, <2>2, <3>1 DEF IdsAt, added
  <2>5. ASSUME NEW a \in Attachment, added = <<a>>, a.id = id
        PROVE  /\ r \in Seq(Attachment) /\ Distinct(r)
               /\ FileIds(r) = FileIds(kept) \cup {id}
               /\ {added[i].id : i \in DOMAIN added} = {id}
    <3>1. id \notin FileIds(kept)
      BY <2>2
    <3>2. {added[i].id : i \in DOMAIN added} = {id}
      <4>1. DOMAIN added = {1} /\ added[1].id = id
        BY <2>5
      <4> QED
        BY <4>1
    <3>3. r = kept \o <<a>>
      BY <2>3, <2>5
    <3> HIDE DEF r
    <3>4. r \in Seq(Attachment) /\ Distinct(r) /\ FileIds(r) = FileIds(kept) \cup {a.id}
      BY <2>1, <2>5, <3>1, <3>3, FileJoins
    <3> QED
      BY <2>5, <3>2, <3>4
  <2>6. added = <<>> \/ \E a \in Attachment : added = <<a>> /\ a.id = id
    BY UploadFits DEF IsForm, added
  <2> HIDE DEF r
  <2>7. CASE \E a \in Attachment : added = <<a>> /\ a.id = id
    BY <2>2, <2>5, <2>7 DEF r, IdsAt, FileIds, added
  <2> QED
    BY <2>4, <2>6, <2>7
<1> QED
  BY <1>1, <1>2

\* A form files an event under one category or none.
LEMMA Refiled ==
  ASSUME NEW calendar \in Categories \cup {""}
  PROVE  /\ setOrDelete(calendar) \in Seq(Categories)
         /\ \A r : r.categories = setOrDelete(calendar) => Filed(r) = calendar
<1>1. CASE calendar = ""
  <2>1. setOrDelete(calendar) = <<>>
    BY <1>1 DEF setOrDelete
  <2>2. \A r : r.categories = <<>> => Filed(r) = ""
    BY DEF Filed
  <2>3. <<>> \in Seq(Categories)
    BY NoneIs
  <2> QED
    BY <1>1, <2>1, <2>2, <2>3
<1>2. CASE calendar # ""
  <2>1. setOrDelete(calendar) = <<calendar>> /\ calendar \in Categories
    BY <1>2 DEF setOrDelete
  <2>2. <<calendar>> \in Seq(Categories) /\ <<calendar>> # <<>> /\ <<calendar>>[1] = calendar
    BY <2>1, OneIs
  <2>3. \A r : r.categories = <<calendar>> => Filed(r) = calendar
    BY <2>2 DEF Filed
  <2> QED
    BY <2>1, <2>2, <2>3
<1> QED
  BY <1>1, <1>2

\* An edited event is an event, of the request's number and with the answer the
\* owner had given, unless that was taken for a guest's.
LEMMA EventEdited ==
  ASSUME NEW e \in Event, NEW id \in 1..MaxRequests, NEW form, IsForm(form, id), Fits(form),
         Distinct(e.attach), id \notin FileIds(e.attach)
  PROVE  LET r == editEvent(e, form, id)
         IN  /\ r \in Event /\ Distinct(r.attach) /\ r.text = id
             /\ r.owner = editOwner(e, form.guests)
             /\ r.attach = editAttachments(e.attach, form.keep, form.upload)
<1> DEFINE r == editEvent(e, form, id)
<1>1. e.rule \in Rule /\ e.alarms \in Seq(Alarm) /\ e.attach \in Seq(Attachment)
  BY DEF Event
<1>2. /\ form.repeat \in Freqs /\ form.reminder \in Nat /\ form.guests \in SUBSET Listable
      /\ form.calendar \in Categories \cup {""}
  BY DEF IsForm
<1> DEFINE categories == setOrDelete(form.calendar)
           rule == editRRule(e.rule, form.repeat)
           alarms == editReminder(e.alarms, form.reminder)
           guests == editGuests(e, form.guests)
           owner == editOwner(e, form.guests)
           attach == editAttachments(e.attach, form.keep, form.upload)
<1>3. /\ rule \in Rule /\ alarms \in Seq(Alarm) /\ guests \in [Listable -> Partstats]
      /\ owner \in Partstats /\ categories \in Seq(Categories)
  BY <1>1, <1>2, RuleEdited, AlarmsEdited, GuestsEdited, Refiled
<1>4. attach \in Seq(Attachment) /\ Distinct(attach)
  BY <1>1, FilesEdited
<1>5. id \in 0..MaxRequests
  OBVIOUS
<1>6. r = [e EXCEPT !.text = id, !.categories = categories, !.rule = rule, !.alarms = alarms,
                    !.guests = guests, !.owner = owner, !.attach = attach]
  BY DEF editEvent, Event
<1> HIDE DEF r, categories, rule, alarms, guests, owner, attach
<1>7. r \in Event /\ r.text = id /\ r.owner = owner /\ r.attach = attach
  BY <1>3, <1>4, <1>5, <1>6 DEF Event
<1> QED
  BY <1>4, <1>7 DEF r, owner, attach

\* What the page answers is a PARTSTAT.
LEMMA PartstatIs ==
  ASSUME NEW rsvp \in DOMAIN rsvpToPartstat
  PROVE  rsvpToPartstat[rsvp] \in Partstats
<1>1. DOMAIN rsvpToPartstat = {"yes", "maybe", "no", "none"}
  BY DEF rsvpToPartstat
<1>2. /\ rsvpToPartstat["yes"] = "ACCEPTED" /\ rsvpToPartstat["maybe"] = "TENTATIVE"
      /\ rsvpToPartstat["no"] = "DECLINED" /\ rsvpToPartstat["none"] = "NEEDS-ACTION"
  BY DEF rsvpToPartstat
<1> QED
  BY <1>1, <1>2 DEF Partstats

\* The event of a row that is not there.
LEMMA NoEventIs ==
  /\ NoEvent \in Event /\ NoEvent.text = 0 /\ NoEvent.owner = "absent"
  /\ NoEvent.attach = <<>> /\ NoEvent.alarms = <<>> /\ NoEvent.rule = NoRule
<1>1. NoRule \in Rule /\ [g \in Listable |-> "absent"] \in [Listable -> Partstats]
  BY DEF Rule, Partstats
<1>2. /\ 0 \in 0..MaxRequests /\ "absent" \in Partstats /\ <<>> \in Seq(Alarm)
      /\ <<>> \in Seq(Attachment) /\ <<>> \in Seq(Categories) /\ FALSE \in BOOLEAN
  BY CalendarBounds DEF Partstats
<1> QED
  BY <1>1, <1>2 DEF NoEvent, Event

\* A new event is an event, with the owner's answer and the file uploaded.
LEMMA EventBuilt ==
  ASSUME NEW uid \in Names, NEW id \in 1..MaxRequests, NEW form, IsForm(form, id), Fits(form),
         NEW rsvp \in DOMAIN rsvpToPartstat
  PROVE  LET r == buildEvent(uid, form, rsvp, id)
         IN  /\ r \in Event /\ Distinct(r.attach) /\ r.text = id
             /\ r.owner = rsvpToPartstat[rsvp] /\ FileIds(r.attach) \subseteq {id}
<1> DEFINE r == buildEvent(uid, form, rsvp, id)
           added == addAttachments(form.upload)
<1>1. /\ form.repeat \in Freqs /\ form.reminder \in Nat /\ form.guests \in SUBSET Listable
      /\ form.calendar \in Categories \cup {""}
  BY DEF IsForm
<1>2. NoRule \in Rule /\ NoEvent \in Event
  BY NoEventIs DEF Rule
<1>3. /\ editRRule(NoRule, form.repeat) \in Rule /\ Reminder(form.reminder) \in Seq(Alarm)
      /\ editGuests(NoEvent, form.guests) \in [Listable -> Partstats]
      /\ setOrDelete(form.calendar) \in Seq(Categories)
  BY <1>1, <1>2, RuleEdited, ReminderIs, GuestsEdited, Refiled
<1>4. added \in Seq(Attachment) /\ Distinct(added) /\ FileIds(added) \subseteq {id}
  <2>0. added = <<>> \/ \E a \in Attachment : added = <<a>> /\ a.id = id
    BY UploadFits DEF IsForm
  <2> HIDE DEF added
  <2>1. CASE added = <<>>
    BY <2>1 DEF Distinct, FileIds
  <2>2. CASE \E a \in Attachment : added = <<a>> /\ a.id = id
    <3>1. PICK a \in Attachment : added = <<a>> /\ a.id = id
      BY <2>2
    <3>2. added \in Seq(Attachment) /\ DOMAIN added = {1} /\ added[1].id = id
      BY <3>1
    <3> QED
      BY <3>2 DEF Distinct, FileIds
  <2> QED
    BY <2>0, <2>1, <2>2
<1>5. rsvpToPartstat[rsvp] \in Partstats
  BY PartstatIs
<1>6. r = [uid |-> uid, text |-> id, categories |-> setOrDelete(form.calendar),
           rule |-> editRRule(NoRule, form.repeat), alarms |-> Reminder(form.reminder),
           guests |-> editGuests(NoEvent, form.guests), owner |-> rsvpToPartstat[rsvp],
           upper |-> FALSE, attach |-> added]
  BY DEF buildEvent
<1>7. id \in 0..MaxRequests /\ uid \in Names \cup {0} /\ FALSE \in BOOLEAN
  OBVIOUS
<1> HIDE DEF r, added
<1> QED
  BY <1>3, <1>4, <1>5, <1>6, <1>7 DEF Event, r

-----------------------------------------------------------------------------
(* The calendar: the form and the event agree.                             *)

\* An event that is sent back as it was listed changes its time only.
LEMMA EchoChangesNothing ==
  ASSUME NEW e \in Event, Draggable(e)
  PROVE  Dragged(e) = [e EXCEPT !.text = 0]
<1> DEFINE form == Echo(parseEvent(e))
<1>1. /\ form.repeat = e.rule.freq /\ form.reminder = alarmMinutes(e.alarms)
      /\ form.guests = Invited(e) /\ form.keep = Untouched /\ form.upload = <<>>
      /\ form.calendar = Filed(e)
  BY DEF Echo, parseEvent
<1> HIDE DEF form
<1>2. editRRule(e.rule, form.repeat) = e.rule
  BY <1>1 DEF editRRule, normalizeFreq, Draggable
<1>3. editReminder(e.alarms, form.reminder) = e.alarms
  BY <1>1 DEF editReminder
<1>4. editGuests(e, form.guests) = e.guests
  <2>1. e.guests \in [Listable -> Partstats]
    BY DEF Event
  <2>2. \A g \in Listable :
          g \in form.guests <=> e.guests[g] # "absent" \/ (g = Myself /\ OwnerListed(e))
    BY <1>1 DEF Invited
  <2>3. \A g \in Listable :
          e.guests[g] = IF g \notin form.guests THEN "absent"
                        ELSE IF e.guests[g] # "absent" THEN e.guests[g]
                        ELSE IF g = Myself /\ OwnerListed(e) THEN "absent" ELSE ""
    BY <2>2
  <2> QED
    BY <2>1, <2>3 DEF editGuests
<1>5. editAttachments(e.attach, form.keep, form.upload) = e.attach
  BY <1>1 DEF editAttachments
<1>6. editOwner(e, form.guests) = e.owner
  BY <1>1 DEF editOwner, Unlisted, Invited, Listable
<1>7. setOrDelete(form.calendar) = e.categories
  <2>1. e.categories \in Seq(Categories) /\ Len(e.categories) <= 1
    BY DEF Event, Draggable
  <2>2. CASE e.categories = <<>>
    BY <1>1, <2>2 DEF Filed, setOrDelete
  <2>3. CASE e.categories # <<>>
    <3>1. e.categories[1] \in Categories
      BY <2>1, <2>3, HeadIs
    <3>2. e.categories = <<e.categories[1]>>
      BY <2>1, <2>3, HeadIs
    <3>3. form.calendar = e.categories[1] /\ form.calendar # ""
      BY <1>1, <2>3, <3>1, CalendarNames DEF Filed
    <3> QED
      BY <3>2, <3>3 DEF setOrDelete
  <2> QED
    BY <2>2, <2>3
<1> QED
  BY <1>2, <1>3, <1>4, <1>5, <1>6, <1>7 DEF Dragged, editEvent, Event, form

\* What a form asks for is what the calendar then shows.
LEMMA FormIsShown ==
  ASSUME NEW e \in Event, NEW id, NEW form \in Forms(parseEvent(e), id)
  PROVE  LET view == parseEvent(editEvent(e, form, 0))
             own == \A i \in DOMAIN e.alarms : isSimpleReminder(e.alarms[i])
             sent == {i \in DOMAIN form.upload : Usable(form.upload[i])}
         IN  /\ view.calendar = form.calendar
             /\ form.repeat \in FormFreqs \cup {""} => view.repeat = form.repeat
             /\ view.guests = form.guests
             /\ own => view.reminder = form.reminder
             /\ form.keep # Untouched =>
                  view.attachments = Cardinality(form.keep) + Cardinality(sent)
             /\ ~ Unlisted(e, form.guests) => view.rsvp = parseEvent(e).rsvp
<1> DEFINE r == editEvent(e, form, 0)
           view == parseEvent(r)
           sent == {i \in DOMAIN form.upload : Usable(form.upload[i])}
           added == addAttachments(form.upload)
<1>1. /\ IsForm(form, id)
      /\ form.keep # Untouched => form.keep \in SUBSET (1..Len(e.attach))
  BY FormIs
<1>2. e.rule \in Rule /\ e.alarms \in Seq(Alarm) /\ e.attach \in Seq(Attachment)
  BY DEF Event
<1>3. /\ form.repeat \in Freqs /\ form.reminder \in Nat /\ form.guests \in SUBSET Listable
      /\ form.calendar \in Categories \cup {""} /\ form.upload \in Uploads(id)
  BY <1>1 DEF IsForm
<1>4. /\ r.rule = editRRule(e.rule, form.repeat) /\ r.categories = setOrDelete(form.calendar)
      /\ r.alarms = editReminder(e.alarms, form.reminder) /\ r.upper = e.upper
      /\ r.guests = editGuests(e, form.guests) /\ r.owner = editOwner(e, form.guests)
      /\ r.attach = editAttachments(e.attach, form.keep, form.upload)
  BY DEF editEvent, Event
<1>5. /\ view.repeat = r.rule.freq /\ view.reminder = alarmMinutes(r.alarms)
      /\ view.guests = Invited(r) /\ view.calendar = Filed(r)
      /\ view.attachments = Len(r.attach) /\ view.rsvp = partstatToRsvp(r.owner)
  BY DEF parseEvent
<1> HIDE DEF r, view
<1>6. form.repeat \in FormFreqs \cup {""} => view.repeat = form.repeat
  <2>1. view.repeat = normalizeFreq(form.repeat)
    BY <1>2, <1>3, <1>4, <1>5, RuleEdited
  <2> QED
    BY <2>1 DEF normalizeFreq
<1>7. view.guests = form.guests
  BY <1>3, <1>4, <1>5, GuestsEdited
<1>8. (\A i \in DOMAIN e.alarms : isSimpleReminder(e.alarms[i])) => view.reminder = form.reminder
  BY <1>2, <1>3, <1>4, <1>5, AlarmsEdited
<1>9. ASSUME form.keep # Untouched
      PROVE  view.attachments = Cardinality(form.keep) + Cardinality(sent)
  <2> DEFINE kept == Pick(e.attach, form.keep)
  <2>1. form.keep \cap DOMAIN e.attach = form.keep
    BY <1>1, <1>2, <1>9
  <2>2. form.keep \in SUBSET DOMAIN e.attach
    BY <2>1
  <2>3. kept \in Seq(Attachment) /\ Len(kept) = Cardinality(form.keep)
    BY <1>2, <2>2, PickIs
  <2>4. r.attach = kept \o added
    BY <1>4, <1>9, <2>1 DEF editAttachments
  <2>5. added \in Seq(Sent(id)) /\ Len(added) = Cardinality(sent)
    BY <1>3, UploadIs
  <2> HIDE DEF kept, added, sent
  <2>6. Len(kept \o added) = Len(kept) + Len(added)
    BY <2>3, <2>5
  <2> QED
    BY <1>5, <2>3, <2>4, <2>5, <2>6
<1>10. ~ Unlisted(e, form.guests) => view.rsvp = parseEvent(e).rsvp
  BY <1>4, <1>5 DEF parseEvent, editOwner
<1>11. view.calendar = form.calendar
  BY <1>3, <1>4, <1>5, Refiled
<1> QED
  BY <1>6, <1>7, <1>8, <1>9, <1>10, <1>11 DEF view, r, sent

-----------------------------------------------------------------------------
(* The calendar: the inductive invariant.                                  *)

\* The files of an event are distinct, and no request to come has the number of
\* one of them.
Sound(e, top) ==
  /\ Distinct(e.attach)
  /\ \A x \in FileIds(e.attach) : x \in Elsewhere \/ x \in 1..top

\* A row is what its owner last asked for, unless it was written from an event
\* that was another by then; whoever has a row, or had one, asked for something.
RowWell(n) ==
  /\ Sound(objects[n], requests) /\ objects[n].text <= requests /\ asked[n].text <= requests
  /\ objects[n] # NoEvent \/ n \in deleted => asked[n].text > 0
  /\ objects[n] # NoEvent /\ n \notin crossed =>
       /\ objects[n].text = asked[n].text /\ objects[n].owner = asked[n].owner
       /\ n \notin stale => Files(objects[n]) = asked[n].files
  /\ n \in deleted \ crossed => objects[n] = NoEvent

\* What a request is about to write is what its owner then wants.
Right(t) ==
  /\ tab[t].data.text = tab[t].want.text /\ tab[t].data.owner = tab[t].want.owner
  /\ tab[t].name \notin stale => Files(tab[t].data) = tab[t].want.files

\* It is, unless the row was crossed or has been written since it was read.
PutWell(t) ==
  /\ tab[t].name \in Names /\ tab[t].base # NoEvent
  /\ tab[t].base.text <= tab[t].data.text /\ tab[t].data.text <= requests
  /\ tab[t].want.text \in 1..requests
  /\ \/ tab[t].name \in crossed
     \/ tab[t].base.text < asked[tab[t].name].text
     \/ Right(t)

TabWell(t) == Sound(tab[t].data, requests) /\ (tab[t].step = "put" => PutWell(t))

CopyWell ==
  /\ Sound(copy.event, requests)
  /\ copy # NothingShown => copy.name \in Names /\ copy.event # NoEvent

CalendarInv ==
  /\ CalendarTypeOK
  /\ \A n \in Names : RowWell(n)
  /\ \A t \in Tabs : TabWell(t)
  /\ CopyWell

\* Sound files stay sound while requests go on.
LEMMA SoundLasts ==
  ASSUME NEW e, NEW a \in Nat, NEW b \in Nat, a <= b, Sound(e, a)
  PROVE  Sound(e, b)
  BY DEF Sound

\* An event that is not there has no files.
LEMMA EmptyIsSound == ASSUME NEW a \in Nat PROVE Sound(NoEvent, a)
  BY NoEventIs DEF Sound, Distinct, FileIds

\* The number of the next request is no file's.
LEMMA NextIsFresh ==
  ASSUME NEW e, requests \in Nat, requests < MaxRequests, Sound(e, requests)
  PROVE  /\ NextRequest \notin FileIds(e.attach)
         /\ NextRequest \in 1..MaxRequests /\ NextRequest \in Nat /\ requests < NextRequest
  BY CalendarBounds DEF Sound, Elsewhere, NextRequest

\* The types of a state in the invariant.
LEMMA Typed ==
  ASSUME CalendarTypeOK
  PROVE  /\ requests \in Nat /\ requests <= MaxRequests
         /\ objects \in [Names -> Event] /\ asked \in [Names -> Asked]
         /\ tab \in [Tabs -> Page] /\ copy \in Shown
         /\ \A n \in Names : objects[n].text \in Nat /\ asked[n].text \in Nat
         /\ \A t \in Tabs : /\ tab[t].shown \in Shown /\ tab[t].data \in Event /\ tab[t].base \in Event
                            /\ tab[t].want \in Asked /\ tab[t].data.text \in Nat
                            /\ tab[t].base.text \in Nat /\ tab[t].want.text \in Nat
<1>1. /\ requests \in Nat /\ requests <= MaxRequests
      /\ objects \in [Names -> Event] /\ asked \in [Names -> Asked]
      /\ tab \in [Tabs -> Page] /\ copy \in Shown
  BY CalendarBounds DEF CalendarTypeOK
<1>2. \A e \in Event : e.text \in Nat
  BY CalendarBounds DEF Event
<1>3. \A a \in Asked : a.text \in Nat
  BY CalendarBounds DEF Asked
<1>4. \A t \in Tabs : /\ tab[t].shown \in Shown /\ tab[t].data \in Event /\ tab[t].base \in Event
                      /\ tab[t].want \in Asked
  BY <1>1 DEF Page
<1> QED
  BY <1>1, <1>2, <1>3, <1>4

\* The idle page, with nothing shown or with what was listed.
LEMMA IdleIs ==
  /\ Idle \in Page /\ Idle.step = "idle" /\ Idle.data = NoEvent
  /\ \A s \in Shown : LET i == [Idle EXCEPT !.shown = s]
                      IN  i \in Page /\ i.step = "idle" /\ i.data = NoEvent
  /\ NothingShown \in Shown /\ NothingShown.event = NoEvent /\ NobodyAsked \in Asked
  /\ NobodyAsked.text = 0
<1>1. NoEvent \in Event
  BY NoEventIs
<1>2. NobodyAsked \in Asked /\ NobodyAsked.text = 0
  BY CalendarBounds DEF NobodyAsked, Asked, Partstats
<1>3. NothingShown \in Shown /\ NothingShown.event = NoEvent
  BY <1>1 DEF NothingShown, Shown
<1>4. /\ Idle \in Page /\ Idle.step = "idle" /\ Idle.data = NoEvent
      /\ \A s \in Shown : LET i == [Idle EXCEPT !.shown = s]
                          IN  i \in Page /\ i.step = "idle" /\ i.data = NoEvent
  BY <1>1, <1>2, <1>3 DEF Idle, Page
<1> QED
  BY <1>2, <1>3, <1>4

\* A row that a step leaves alone stays well.
LEMMA RowStays ==
  ASSUME CalendarInv, NEW n \in Names, requests' \in Nat, requests <= requests',
         objects'[n] = objects[n], asked'[n] = asked[n], n \in crossed => n \in crossed',
         n \in stale => n \in stale', n \in deleted' => n \in deleted
  PROVE  RowWell(n)'
<1>1. requests \in Nat /\ objects[n].text \in Nat /\ asked[n].text \in Nat /\ RowWell(n)
  BY Typed DEF CalendarInv
<1>2. Sound(objects'[n], requests')
  BY <1>1, SoundLasts DEF RowWell
<1> QED
  BY <1>1, <1>2 DEF RowWell, Files

\* What a step may do while a request is about to write: what it does to a row
\* crosses it, is a later request's, or is no earlier than what was there.
Advances ==
  /\ requests' \in Nat /\ requests <= requests'
  /\ \A n \in Names : \/ n \in crossed'
                      \/ asked'[n].text \in Nat /\ requests < asked'[n].text
                      \/ /\ n \notin crossed
                         /\ n \in stale => n \in stale'
                         /\ asked'[n].text \in Nat /\ asked[n].text <= asked'[n].text

\* A page whose request a step leaves alone stays well.
LEMMA TabGoesOn ==
  ASSUME CalendarInv, NEW u \in Tabs, Advances, tab'[u].step = tab[u].step,
         tab'[u].name = tab[u].name, tab'[u].data = tab[u].data, tab'[u].base = tab[u].base,
         tab'[u].want = tab[u].want
  PROVE  TabWell(u)'
<1>1. /\ requests \in Nat /\ TabWell(u) /\ tab[u].data.text \in Nat /\ tab[u].base.text \in Nat
      /\ tab[u].want.text \in Nat /\ \A n \in Names : asked[n].text \in Nat
  BY Typed DEF CalendarInv
<1>2. Sound(tab'[u].data, requests')
  BY <1>1, SoundLasts DEF TabWell, Advances
<1>3. ASSUME tab[u].step = "put" PROVE PutWell(u)'
  <2> DEFINE n == tab[u].name
  <2>1. PutWell(u) /\ n \in Names
    BY <1>1, <1>3 DEF TabWell, PutWell
  <2>2. /\ tab[u].base.text <= tab[u].data.text /\ tab[u].data.text <= requests'
        /\ tab[u].want.text \in 1..requests'
    BY <1>1, <2>1 DEF PutWell, Advances
  <2>3. Right(u) /\ (n \in stale => n \in stale') => Right(u)'
    BY DEF Right, Files
  <2>4. n \in crossed' \/ tab[u].base.text < asked'[n].text \/ Right(u)'
    BY <1>1, <2>1, <2>3 DEF PutWell, Advances
  <2> QED
    BY <2>1, <2>2, <2>4 DEF PutWell
<1> QED
  BY <1>2, <1>3 DEF TabWell

-----------------------------------------------------------------------------
(* The calendar: the steps.                                                *)

\* A step that touches neither the rows nor what was asked of them.
LEMMA QuietStep ==
  ASSUME CalendarInv, UNCHANGED <<objects, requests, asked, crossed, stale, deleted>>
  PROVE  (\A n \in Names : RowWell(n)') /\ Advances
<1>1. requests \in Nat /\ \A n \in Names : asked[n].text \in Nat
  BY Typed DEF CalendarInv
<1>2. Advances
  BY <1>1 DEF Advances
<1>3. \A n \in Names : RowWell(n)'
  BY <1>1, RowStays
<1> QED
  BY <1>2, <1>3

\* CopyWell depends on the copy and grows with the requests.
LEMMA CopyStays ==
  ASSUME CalendarInv, requests' \in Nat, requests <= requests', UNCHANGED copy
  PROVE  CopyWell'
<1>1. requests \in Nat /\ CopyWell
  BY Typed DEF CalendarInv
<1>2. Sound(copy', requests') \/ Sound(copy'.event, requests')
  BY <1>1, SoundLasts DEF CopyWell
<1> QED
  BY <1>1, <1>2, SoundLasts DEF CopyWell

\* Every other page goes on as it was.
LEMMA OthersGoOn ==
  ASSUME CalendarInv, NEW t \in Tabs, NEW page \in Page, tab' = [tab EXCEPT ![t] = page],
         Advances, TabWell(t)'
  PROVE  tab' \in [Tabs -> Page] /\ \A u \in Tabs : TabWell(u)'
<1>1. tab \in [Tabs -> Page]
  BY Typed DEF CalendarInv
<1>2. \A u \in Tabs : u # t => tab'[u] = tab[u]
  BY <1>1
<1>3. ASSUME NEW u \in Tabs, u # t PROVE TabWell(u)'
  BY <1>2, <1>3, TabGoesOn
<1> QED
  BY <1>1, <1>3

\* A page whose request is through has nothing to write.
LEMMA IdleIsWell ==
  ASSUME NEW t \in Tabs, requests' \in Nat, tab'[t].step = "idle", tab'[t].data = NoEvent
  PROVE  TabWell(t)'
  BY EmptyIsSound DEF TabWell

\* The page whose request was answered is idle, and the others go on.
LEMMA AnsweredIs ==
  ASSUME CalendarInv, NEW t \in Tabs, Answered(t), Advances
  PROVE  tab' \in [Tabs -> Page] /\ \A u \in Tabs : TabWell(u)'
<1> DEFINE page == [Idle EXCEPT !.shown = tab[t].shown]
<1>1. tab \in [Tabs -> Page] /\ tab[t].shown \in Shown
  BY Typed DEF CalendarInv
<1>2. page \in Page /\ page.step = "idle" /\ page.data = NoEvent
  BY <1>1, IdleIs
<1>3. tab' = [tab EXCEPT ![t] = page]
  BY DEF Answered
<1> HIDE DEF page
<1>4. tab'[t] = page
  BY <1>1, <1>3
<1>5. TabWell(t)'
  BY <1>2, <1>4, IdleIsWell DEF Advances
<1> QED
  BY <1>2, <1>3, <1>5, OthersGoOn

\* The page is about to write what its request made of the row it read.
LEMMA WritingIs ==
  ASSUME CalendarInv, NEW t \in Tabs, NEW data \in Event, NEW want \in Asked, Target(t) \in Names,
         Write(t, data, want), Advances,
         Sound(data, requests'), UNCHANGED objects, objects[Target(t)] # NoEvent,
         objects[Target(t)].text <= data.text, data.text <= requests', want.text \in 1..requests',
         \/ Target(t) \in crossed'
         \/ /\ data.text = want.text /\ data.owner = want.owner
            /\ Target(t) \notin stale' => Files(data) = want.files
  PROVE  tab' \in [Tabs -> Page] /\ \A u \in Tabs : TabWell(u)'
<1> DEFINE n == Target(t)
           page == [tab[t] EXCEPT !.step = "put", !.name = n, !.data = data,
                                  !.base = objects[n], !.want = want]
<1>1. tab \in [Tabs -> Page] /\ objects \in [Names -> Event] /\ n \in Names \cup {0}
  BY Typed DEF CalendarInv
<1>2. tab[t] \in Page /\ objects[n] \in Event
  BY <1>1
<1> HIDE DEF n
<1>3. /\ page \in Page /\ page.step = "put" /\ page.name = n /\ page.data = data
      /\ page.base = objects[n] /\ page.want = want
  BY <1>1, <1>2 DEF Page
<1>4. tab' = [tab EXCEPT ![t] = page]
  BY <1>1 DEF Write, n
<1> HIDE DEF page
<1>5. tab'[t] = page
  BY <1>1, <1>4
<1>6. n \in crossed' \/ Right(t)'
  BY <1>3, <1>5 DEF Right, Files, n
<1>7. PutWell(t)'
  BY <1>3, <1>5, <1>6 DEF PutWell, n
<1>8. TabWell(t)'
  BY <1>3, <1>5, <1>7 DEF TabWell
<1> QED
  BY <1>3, <1>4, <1>8, OthersGoOn

\* The empty calendar satisfies the inductive invariant.
LEMMA CalendarInitHolds == CalendarInit => CalendarInv
<1> SUFFICES ASSUME CalendarInit PROVE CalendarInv
  OBVIOUS
<1>1. /\ NoEvent \in Event /\ NobodyAsked \in Asked /\ NobodyAsked.text = 0 /\ NoEvent.text = 0
      /\ Idle \in Page /\ Idle.step = "idle" /\ Idle.data = NoEvent
      /\ NothingShown \in Shown /\ NothingShown.event = NoEvent
  BY NoEventIs, IdleIs
<1>2. /\ objects = [n \in Names |-> NoEvent] /\ tab = [t \in Tabs |-> Idle]
      /\ copy = NothingShown /\ requests = 0 /\ asked = [n \in Names |-> NobodyAsked]
      /\ crossed = {} /\ stale = {} /\ deleted = {}
  BY DEF CalendarInit
<1>3. CalendarTypeOK
  BY <1>1, <1>2, CalendarBounds DEF CalendarTypeOK
<1>4. Sound(NoEvent, 0)
  BY EmptyIsSound
<1> QED
  BY <1>1, <1>2, <1>3, <1>4 DEF CalendarInv, RowWell, TabWell, CopyWell

\* A page that lists looks at a row.
LEMMA CalendarListHolds ==
  ASSUME CalendarInv, NEW t \in Tabs, CalendarList(t)
  PROVE  CalendarInv'
<1>1. PICK n \in Names :
        tab' = [tab EXCEPT ![t] = [tab[t] EXCEPT !.shown = [name |-> n, event |-> objects[n]]]]
  BY DEF CalendarList
<1>2. /\ tab \in [Tabs -> Page] /\ objects \in [Names -> Event] /\ requests \in Nat
      /\ CalendarTypeOK
  BY Typed DEF CalendarInv
<1> DEFINE page == [tab[t] EXCEPT !.shown = [name |-> n, event |-> objects[n]]]
<1>3. tab[t] \in Page /\ [name |-> n, event |-> objects[n]] \in Shown
  BY <1>2 DEF Shown
<1>4. /\ page \in Page /\ page.step = tab[t].step /\ page.name = tab[t].name
      /\ page.data = tab[t].data /\ page.base = tab[t].base /\ page.want = tab[t].want
  BY <1>3 DEF Page
<1> HIDE DEF page
<1>5. tab'[t] = page
  BY <1>1, <1>2 DEF page
<1>6. UNCHANGED <<objects, copy, requests, asked, crossed, stale, deleted>>
  BY DEF CalendarList
<1>7. (\A m \in Names : RowWell(m)') /\ Advances
  BY <1>6, QuietStep
<1>8. TabWell(t)'
  BY <1>4, <1>5, <1>7, TabGoesOn
<1>9. tab' \in [Tabs -> Page] /\ \A u \in Tabs : TabWell(u)'
  BY <1>1, <1>4, <1>7, <1>8, OthersGoOn DEF page
<1>10. CopyWell'
  BY <1>2, <1>6, CopyStays
<1>11. CalendarTypeOK'
  BY <1>2, <1>6, <1>9 DEF CalendarTypeOK
<1> QED
  BY <1>7, <1>9, <1>10, <1>11 DEF CalendarInv

\* A put that fails leaves everything as it was but the page's request.
LEMMA PutFailsHolds ==
  ASSUME CalendarInv, NEW t \in Tabs, PutFails(t)
  PROVE  CalendarInv'
<1>1. Answered(t) /\ UNCHANGED <<objects, copy, requests, asked, crossed, stale, deleted>>
  BY DEF PutFails
<1>2. requests \in Nat /\ CalendarTypeOK
  BY Typed DEF CalendarInv
<1>3. (\A m \in Names : RowWell(m)') /\ Advances
  BY <1>1, QuietStep
<1>4. tab' \in [Tabs -> Page] /\ \A u \in Tabs : TabWell(u)'
  BY <1>1, <1>3, AnsweredIs
<1>5. CopyWell'
  BY <1>1, <1>2, CopyStays
<1>6. CalendarTypeOK'
  BY <1>1, <1>2, <1>4 DEF CalendarTypeOK
<1> QED
  BY <1>3, <1>4, <1>5, <1>6 DEF CalendarInv

\* The CalDAV client fetches a row.
LEMMA GetCalendarObjectHolds ==
  ASSUME CalendarInv, GetCalendarObject
  PROVE  CalendarInv'
<1>1. PICK n \in Names : objects[n] # NoEvent /\ copy' = [name |-> n, event |-> objects[n]]
  BY DEF GetCalendarObject
<1>2. UNCHANGED <<objects, tab, requests, asked, crossed, stale, deleted>>
  BY DEF GetCalendarObject
<1>3. requests \in Nat /\ objects \in [Names -> Event] /\ RowWell(n) /\ CalendarTypeOK
  BY Typed DEF CalendarInv
<1>4. (\A m \in Names : RowWell(m)') /\ Advances
  BY <1>2, QuietStep
<1>5. \A u \in Tabs : TabWell(u)'
  BY <1>2, <1>4, TabGoesOn
<1>6. CopyWell'
  BY <1>1, <1>2, <1>3 DEF CopyWell, RowWell
<1>7. copy' \in Shown
  BY <1>1, <1>3 DEF Shown
<1>8. CalendarTypeOK'
  BY <1>2, <1>3, <1>7 DEF CalendarTypeOK
<1> QED
  BY <1>4, <1>5, <1>6, <1>8 DEF CalendarInv

\* A step that only empties a row and marks it deleted.
LEMMA DeletionIs ==
  ASSUME CalendarInv, NEW n \in Names, objects[n] # NoEvent,
         objects' = [objects EXCEPT ![n] = NoEvent], deleted' = deleted \cup {n},
         UNCHANGED <<copy, requests, asked, crossed, stale>>
  PROVE  /\ objects' \in [Names -> Event] /\ deleted' \subseteq Names
         /\ \A m \in Names : RowWell(m)'
         /\ Advances /\ CopyWell'
<1>1. /\ requests \in Nat /\ objects \in [Names -> Event] /\ RowWell(n) /\ deleted \subseteq Names
      /\ \A m \in Names : asked[m].text \in Nat
  BY Typed DEF CalendarInv, CalendarTypeOK
<1>2. ASSUME NEW m \in Names, m # n PROVE RowWell(m)'
  BY <1>1, <1>2, RowStays
<1>3. objects'[n] = NoEvent /\ NoEvent \in Event /\ NoEvent.text = 0 /\ Sound(NoEvent, requests)
  BY <1>1, NoEventIs, EmptyIsSound
<1>4. RowWell(n)'
  BY <1>1, <1>3 DEF RowWell
<1>5. Advances
  BY <1>1 DEF Advances
<1>6. CopyWell'
  BY <1>1, CopyStays
<1> QED
  BY <1>1, <1>2, <1>3, <1>4, <1>5, <1>6

\* The CalDAV client deletes a row.
LEMMA DeleteCalendarObjectHolds ==
  ASSUME CalendarInv, NEW n \in Names, DeleteCalendarObject(n)
  PROVE  CalendarInv'
<1>1. /\ objects[n] # NoEvent /\ objects' = [objects EXCEPT ![n] = NoEvent]
      /\ deleted' = deleted \cup {n} /\ UNCHANGED <<tab, copy, requests, asked, crossed, stale>>
  BY DEF DeleteCalendarObject
<1>2. /\ objects' \in [Names -> Event] /\ deleted' \subseteq Names
      /\ (\A m \in Names : RowWell(m)') /\ Advances /\ CopyWell'
  BY <1>1, DeletionIs
<1>3. \A u \in Tabs : TabWell(u)'
  BY <1>1, <1>2, TabGoesOn
<1>4. CalendarTypeOK'
  BY <1>1, <1>2 DEF CalendarInv, CalendarTypeOK
<1> QED
  BY <1>2, <1>3, <1>4 DEF CalendarInv

\* The page deletes the row it shows.
LEMMA CalendarDeleteHolds ==
  ASSUME CalendarInv, NEW t \in Tabs, CalendarDelete(t)
  PROVE  CalendarInv'
<1> DEFINE n == Target(t)
<1>1. /\ n \in Names /\ objects[n] # NoEvent /\ objects' = [objects EXCEPT ![n] = NoEvent]
      /\ deleted' = deleted \cup {n} /\ tab' = [tab EXCEPT ![t] = Idle]
      /\ UNCHANGED <<copy, requests, asked, crossed, stale>>
  BY DEF CalendarDelete, Found
<1> HIDE DEF n
<1>2. /\ objects' \in [Names -> Event] /\ deleted' \subseteq Names
      /\ (\A m \in Names : RowWell(m)') /\ Advances /\ CopyWell'
  BY <1>1, DeletionIs
<1>3. tab \in [Tabs -> Page] /\ requests' \in Nat
  BY <1>1, Typed DEF CalendarInv
<1>4. TabWell(t)'
  BY <1>1, <1>3, IdleIs, IdleIsWell
<1>5. tab' \in [Tabs -> Page] /\ \A u \in Tabs : TabWell(u)'
  BY <1>1, <1>2, <1>4, IdleIs, OthersGoOn
<1>6. CalendarTypeOK'
  BY <1>1, <1>2, <1>5 DEF CalendarInv, CalendarTypeOK
<1> QED
  BY <1>2, <1>5, <1>6 DEF CalendarInv

\* A step that writes one row: that row is well, and what was asked of it is a
\* later request's, or it is crossed, or goes on from what was asked before.
LEMMA RowWritten ==
  ASSUME CalendarInv, NEW n \in Names, NEW e \in Event, NEW a \in Asked,
         objects' = [objects EXCEPT ![n] = e], asked' = [asked EXCEPT ![n] = a],
         requests' \in Nat, requests <= requests',
         \A m \in Names \ {n} : /\ m \in crossed => m \in crossed'
                                /\ m \in stale => m \in stale'
                                /\ m \in deleted' => m \in deleted,
         RowWell(n)',
         \/ n \in crossed'
         \/ requests < a.text
         \/ n \notin crossed /\ (n \in stale => n \in stale') /\ asked[n].text <= a.text
  PROVE  /\ objects' \in [Names -> Event] /\ asked' \in [Names -> Asked]
         /\ \A m \in Names : RowWell(m)'
         /\ Advances
<1>1. /\ requests \in Nat /\ objects \in [Names -> Event] /\ asked \in [Names -> Asked]
      /\ \A m \in Names : asked[m].text \in Nat
  BY Typed DEF CalendarInv
<1>2. a.text \in Nat
  BY CalendarBounds DEF Asked
<1>3. asked'[n] = a /\ \A m \in Names \ {n} : asked'[m] = asked[m] /\ objects'[m] = objects[m]
  BY <1>1
<1>4. ASSUME NEW m \in Names \ {n} PROVE RowWell(m)'
  BY <1>3, <1>4, RowStays
<1>5. ASSUME NEW m \in Names \ {n}
      PROVE  \/ m \in crossed'
             \/ /\ m \notin crossed /\ (m \in stale => m \in stale')
                /\ asked'[m].text \in Nat /\ asked[m].text <= asked'[m].text
  BY <1>1, <1>3, <1>5
<1>6. Advances
  BY <1>2, <1>3, <1>5 DEF Advances
<1> QED
  BY <1>1, <1>4, <1>6

\* A new event, under a name nobody had.
LEMMA CalendarCreateHolds ==
  ASSUME CalendarInv, NEW t \in Tabs, NEW form \in Forms(parseEvent(NoEvent), NextRequest),
         NEW rsvp \in DOMAIN rsvpToPartstat, CalendarCreate(t, form, rsvp)
  PROVE  CalendarInv'
<1> DEFINE built(n) == buildEvent(n, form, rsvp, NextRequest)
           a(n) == [text |-> NextRequest, owner |-> rsvpToPartstat[rsvp], files |-> Files(built(n))]
<1>1. /\ requests < MaxRequests /\ requests' = NextRequest /\ Fits(form)
      /\ UNCHANGED <<tab, copy, crossed, stale, deleted>>
  BY DEF CalendarCreate, Writes
<1>2. requests \in Nat /\ CalendarTypeOK /\ objects \in [Names -> Event] /\ Sound(NoEvent, requests)
  BY Typed, EmptyIsSound DEF CalendarInv
<1>3. NextRequest \in 1..MaxRequests /\ NextRequest \in Nat /\ requests < NextRequest
  BY <1>1, <1>2, NextIsFresh
<1>4. IsForm(form, NextRequest)
  BY NoEventIs, FormIs
<1>5. PICK n \in Names :
        /\ asked[n] = NobodyAsked /\ objects' = [objects EXCEPT ![n] = built(n)]
        /\ asked' = [asked EXCEPT ![n] = a(n)]
  <2>1. PICK n \in Names :
          /\ asked[n] = NobodyAsked /\ objects' = [objects EXCEPT ![n] = built(n)]
          /\ asked' = [asked EXCEPT ![n] = [text |-> NextRequest, owner |-> rsvpToPartstat[rsvp],
                                            files |-> Files(objects'[n])]]
    BY <1>1 DEF CalendarCreate
  <2>2. objects'[n] = built(n)
    BY <1>2, <2>1
  <2> QED
    BY <2>1, <2>2
<1>6. /\ built(n) \in Event /\ Distinct(built(n).attach) /\ built(n).text = NextRequest
      /\ built(n).owner = rsvpToPartstat[rsvp] /\ FileIds(built(n).attach) \subseteq {NextRequest}
  BY <1>1, <1>3, <1>4, EventBuilt
<1>7. /\ a(n) \in Asked /\ a(n).text = NextRequest /\ a(n).owner = built(n).owner
      /\ a(n).files = Files(built(n))
  BY <1>3, <1>6 DEF Asked, Event, Files, FileIds
<1> HIDE DEF built, a
<1>8. Sound(built(n), requests')
  BY <1>1, <1>3, <1>6 DEF Sound
<1>9. n \notin deleted
  <2>1. RowWell(n) /\ asked[n].text = 0
    BY <1>5, IdleIs DEF CalendarInv
  <2> QED
    BY <2>1 DEF RowWell
<1>10. objects'[n] = built(n) /\ asked'[n] = a(n)
  BY <1>2, <1>5 DEF CalendarTypeOK
<1>11. RowWell(n)'
  BY <1>1, <1>3, <1>6, <1>7, <1>8, <1>9, <1>10 DEF RowWell, Files
<1>12. requests' \in Nat /\ requests <= requests'
  BY <1>1, <1>2, <1>3
<1>13. /\ objects' \in [Names -> Event] /\ asked' \in [Names -> Asked]
       /\ (\A m \in Names : RowWell(m)') /\ Advances
  BY <1>1, <1>3, <1>5, <1>6, <1>7, <1>11, <1>12, RowWritten
<1>14. \A u \in Tabs : TabWell(u)'
  BY <1>1, <1>13, TabGoesOn
<1>15. CopyWell'
  BY <1>1, <1>12, CopyStays
<1>16. CalendarTypeOK'
  BY <1>1, <1>2, <1>3, <1>13 DEF CalendarTypeOK
<1> QED
  BY <1>13, <1>14, <1>15, <1>16 DEF CalendarInv

\* An event made elsewhere replaces whatever was there.
LEMMA PutCalendarObjectHolds ==
  ASSUME CalendarInv, NEW n \in Names, NEW uid \in Names \cup {0}, NEW e \in Authored,
         PutCalendarObject(n, uid, e)
  PROVE  CalendarInv'
<1> DEFINE put == [e EXCEPT !.uid = uid, !.text = NextRequest]
           a == [text |-> NextRequest, owner |-> e.owner, files |-> Files(e)]
<1>1. /\ requests < MaxRequests /\ requests' = NextRequest
      /\ objects' = [objects EXCEPT ![n] = put] /\ asked' = [asked EXCEPT ![n] = a]
      /\ crossed' = crossed \ {n} /\ stale' = stale \ {n} /\ deleted' = deleted \ {n}
      /\ UNCHANGED <<tab, copy>>
  BY DEF PutCalendarObject, Writes
<1>2. requests \in Nat /\ CalendarTypeOK /\ Sound(NoEvent, requests)
  BY Typed, EmptyIsSound DEF CalendarInv
<1>3. NextRequest \in 1..MaxRequests /\ NextRequest \in Nat /\ requests < NextRequest
  BY <1>1, <1>2, NextIsFresh
<1>4. /\ e \in Event /\ Distinct(e.attach)
      /\ \A i \in DOMAIN e.attach : e.attach[i].id \in Elsewhere
  BY AuthoredAssumption
<1>5. NextRequest \in 0..MaxRequests
  BY <1>3
<1>6. /\ put \in Event /\ put.text = NextRequest /\ put.owner = e.owner
      /\ put.attach = e.attach
  BY <1>4, <1>5 DEF Event
<1>7. a \in Asked /\ a.text = NextRequest /\ a.owner = put.owner /\ a.files = Files(put)
  <2>1. Files(e) \subseteq Nat
    BY <1>4 DEF Files, FileIds, Elsewhere
  <2> QED
    BY <1>4, <1>5, <1>6, <2>1 DEF Asked, Event, Files
<1> HIDE DEF put, a
<1>8. Sound(put, requests')
  BY <1>4, <1>6 DEF Sound, FileIds
<1>9. objects'[n] = put /\ asked'[n] = a
  BY <1>1, <1>2 DEF CalendarTypeOK
<1>10. RowWell(n)'
  BY <1>1, <1>3, <1>6, <1>7, <1>8, <1>9 DEF RowWell
<1>11. requests' \in Nat /\ requests <= requests'
  BY <1>1, <1>2, <1>3
<1>12. /\ objects' \in [Names -> Event] /\ asked' \in [Names -> Asked]
       /\ (\A m \in Names : RowWell(m)') /\ Advances
  BY <1>1, <1>3, <1>6, <1>7, <1>10, <1>11, RowWritten
<1>13. \A u \in Tabs : TabWell(u)'
  BY <1>1, <1>12, TabGoesOn
<1>14. CopyWell'
  BY <1>1, <1>11, CopyStays
<1>15. CalendarTypeOK'
  BY <1>1, <1>2, <1>5, <1>12 DEF CalendarTypeOK
<1> QED
  BY <1>12, <1>13, <1>14, <1>15 DEF CalendarInv

\* The copy that is put back is that of the row, or crosses it.
LEMMA PutCopyHolds ==
  ASSUME CalendarInv, PutCopy
  PROVE  CalendarInv'
<1>0. PICK n : n = copy.name
  OBVIOUS
<1> DEFINE put == [copy.event EXCEPT !.text = NextRequest]
           a == [asked[n] EXCEPT !.text = NextRequest]
<1>1. /\ copy # NothingShown /\ requests < MaxRequests /\ requests' = NextRequest
      /\ objects' = [objects EXCEPT ![n] = put] /\ asked' = [asked EXCEPT ![n].text = NextRequest]
      /\ crossed' = IF objects[n] # copy.event THEN crossed \cup {n} ELSE crossed
      /\ copy' = NothingShown /\ UNCHANGED <<tab, stale, deleted>>
  BY <1>0 DEF PutCopy, Writes
<1>2. /\ requests \in Nat /\ CalendarTypeOK /\ Sound(NoEvent, requests) /\ copy \in Shown
      /\ objects \in [Names -> Event] /\ asked \in [Names -> Asked]
  BY Typed, EmptyIsSound DEF CalendarInv
<1>3. NextRequest \in 0..MaxRequests /\ NextRequest \in Nat /\ requests < NextRequest
  <2>1. NextRequest \in 1..MaxRequests /\ NextRequest \in Nat /\ requests < NextRequest
    BY <1>1, <1>2, NextIsFresh
  <2> QED
    BY <2>1
<1>4. n \in Names /\ copy.event # NoEvent /\ Sound(copy.event, requests)
  BY <1>0, <1>1 DEF CalendarInv, CopyWell
<1>5. RowWell(n) /\ copy.event \in Event /\ asked[n] \in Asked
  BY <1>2, <1>4 DEF CalendarInv, Shown
<1>6. /\ put \in Event /\ put.text = NextRequest /\ put.owner = copy.event.owner
      /\ put.attach = copy.event.attach
  BY <1>3, <1>5 DEF Event
<1>7. /\ a \in Asked /\ a.text = NextRequest /\ a.owner = asked[n].owner
      /\ a.files = asked[n].files
  BY <1>3, <1>5 DEF Asked
<1>8. asked' = [asked EXCEPT ![n] = a]
  BY <1>1
<1> HIDE DEF put, a
<1>9. objects'[n] = put /\ asked'[n] = a
  BY <1>1, <1>2, <1>4, <1>8
<1>10. Sound(put, requests')
  BY <1>1, <1>2, <1>3, <1>4, <1>6, SoundLasts DEF Sound
<1>11. ASSUME n \notin crossed'
       PROVE  /\ objects[n] = copy.event /\ n \notin crossed /\ n \notin deleted
              /\ put.owner = a.owner
              /\ n \notin stale => Files(put) = a.files
  <2>1. objects[n] = copy.event /\ n \notin crossed
    BY <1>1, <1>11
  <2> QED
    BY <1>4, <1>5, <1>6, <1>7, <2>1 DEF RowWell, Files
<1>12. RowWell(n)'
  <2>1. /\ Sound(objects'[n], requests') /\ objects'[n].text = requests'
        /\ asked'[n].text = requests' /\ requests' > 0 /\ requests' \in Nat
    BY <1>1, <1>2, <1>3, <1>6, <1>7, <1>9, <1>10
  <2>2. ASSUME n \notin crossed'
        PROVE  /\ objects'[n].owner = asked'[n].owner /\ n \notin deleted'
               /\ n \notin stale' => Files(objects'[n]) = asked'[n].files
    BY <2>2, <1>1, <1>9, <1>11
  <2> QED
    BY <2>1, <2>2 DEF RowWell, Files
<1>13. requests' \in Nat /\ requests <= requests'
  BY <1>1, <1>2, <1>3
<1>14. \A m \in Names \ {n} : m \in crossed => m \in crossed'
  BY <1>1
<1>15. /\ objects' \in [Names -> Event] /\ asked' \in [Names -> Asked]
       /\ (\A m \in Names : RowWell(m)') /\ Advances
  BY <1>1, <1>3, <1>4, <1>6, <1>7, <1>8, <1>12, <1>13, <1>14, RowWritten
<1>16. \A u \in Tabs : TabWell(u)'
  BY <1>1, <1>15, TabGoesOn
<1>17. CopyWell'
  BY <1>1, <1>13, EmptyIsSound, IdleIs DEF CopyWell
<1>18. CalendarTypeOK'
  BY <1>1, <1>2, <1>3, <1>4, <1>15, IdleIs DEF CalendarTypeOK
<1> QED
  BY <1>15, <1>16, <1>17, <1>18 DEF CalendarInv

\* What a request writes is right when the row is what it read.
LEMMA PutCalObjectHolds ==
  ASSUME CalendarInv, NEW t \in Tabs, PutCalObject(t)
  PROVE  CalendarInv'
<1>0. PICK n : n = tab[t].name
  OBVIOUS
<1> DEFINE data == tab[t].data
           want == tab[t].want
<1>1. /\ tab[t].step = "put" /\ objects' = [objects EXCEPT ![n] = data]
      /\ asked' = [asked EXCEPT ![n] = want]
      /\ crossed' = IF objects[n] # tab[t].base THEN crossed \cup {n} ELSE crossed
      /\ Answered(t) /\ UNCHANGED <<copy, requests, stale, deleted>>
  BY <1>0 DEF PutCalObject, At
<1>2. /\ requests \in Nat /\ CalendarTypeOK /\ data \in Event /\ want \in Asked
      /\ objects \in [Names -> Event] /\ asked \in [Names -> Asked]
      /\ data.text \in Nat /\ tab[t].base.text \in Nat /\ want.text \in Nat
  BY Typed DEF CalendarInv
<1>3. PutWell(t) /\ Sound(data, requests)
  BY <1>1 DEF CalendarInv, TabWell
<1>4. /\ n \in Names /\ tab[t].base # NoEvent /\ tab[t].base.text <= data.text
      /\ data.text <= requests /\ want.text \in 1..requests
  BY <1>0, <1>3 DEF PutWell
<1>5. RowWell(n)
  BY <1>4 DEF CalendarInv
<1>6. objects'[n] = data /\ asked'[n] = want
  BY <1>1, <1>2, <1>4
<1>7. ASSUME n \notin crossed'
      PROVE  /\ n \notin crossed /\ n \notin deleted /\ asked[n].text <= want.text
             /\ data.text = want.text /\ data.owner = want.owner
             /\ n \notin stale => Files(data) = want.files
  <2>1. objects[n] = tab[t].base /\ n \notin crossed
    BY <1>1, <1>7
  <2>2. tab[t].base.text = asked[n].text /\ n \notin deleted
    BY <1>4, <1>5, <2>1 DEF RowWell
  <2>3. ~ (tab[t].base.text < asked[n].text)
    BY <1>2, <2>2
  <2>4. Right(t)
    BY <1>0, <1>3, <2>1, <2>3 DEF PutWell
  <2> QED
    BY <1>0, <1>4, <2>1, <2>2, <2>4 DEF Right
<1> HIDE DEF data, want
<1>8. RowWell(n)'
  BY <1>1, <1>2, <1>3, <1>4, <1>6, <1>7 DEF RowWell
<1>9. \A m \in Names \ {n} : m \in crossed => m \in crossed'
  BY <1>1
<1>10. /\ requests' \in Nat /\ requests <= requests'
       /\ \A m \in Names \ {n} : /\ m \in crossed => m \in crossed'
                                 /\ m \in stale => m \in stale'
                                 /\ m \in deleted' => m \in deleted
  BY <1>1, <1>2, <1>9
<1>11. \/ n \in crossed' \/ requests < want.text
       \/ n \notin crossed /\ (n \in stale => n \in stale') /\ asked[n].text <= want.text
  BY <1>1, <1>7
<1>12. /\ objects' \in [Names -> Event] /\ asked' \in [Names -> Asked]
       /\ (\A m \in Names : RowWell(m)') /\ Advances
  BY <1>1, <1>2, <1>4, <1>8, <1>10, <1>11, RowWritten
<1>13. tab' \in [Tabs -> Page] /\ \A u \in Tabs : TabWell(u)'
  BY <1>1, <1>12, AnsweredIs
<1>14. CopyWell'
  BY <1>1, <1>2, CopyStays
<1>15. CalendarTypeOK'
  BY <1>1, <1>2, <1>4, <1>12, <1>13 DEF CalendarTypeOK
<1> QED
  BY <1>12, <1>13, <1>14, <1>15 DEF CalendarInv

\* A request that has read its row and is about to write leaves the rows alone.
LEMMA ReadingIs ==
  ASSUME CalendarInv, Writes, UNCHANGED <<objects, asked, crossed, deleted>>,
         \A n \in Names : n \in stale => n \in stale'
  PROVE  /\ \A n \in Names : RowWell(n)'
         /\ Advances
         /\ requests' = NextRequest /\ requests < requests' /\ requests' \in 1..MaxRequests
<1>1. requests \in Nat /\ Sound(NoEvent, requests) /\ \A n \in Names : asked[n].text \in Nat
  BY Typed, EmptyIsSound DEF CalendarInv
<1>2. requests' = NextRequest /\ requests < requests' /\ requests' \in 1..MaxRequests
  BY <1>1, NextIsFresh DEF Writes
<1>3. requests' \in Nat /\ requests <= requests'
  BY <1>1, <1>2
<1>4. \A n \in Names : RowWell(n)'
  BY <1>3, RowStays
<1>5. Advances
  BY <1>1, <1>3 DEF Advances
<1> QED
  BY <1>2, <1>4, <1>5

\* An edit of an event that was read.
LEMMA CalendarUpdateHolds ==
  ASSUME CalendarInv, NEW t \in Tabs,
         NEW form \in Forms(parseEvent(tab[t].shown.event), NextRequest), CalendarUpdate(t, form)
  PROVE  CalendarInv'
<1> DEFINE n == Target(t)
           shown == tab[t].shown.event.attach
           data == editEvent(objects[n], form, NextRequest)
           uploaded == FileIds(addAttachments(form.upload))
           files == IF form.keep = Untouched THEN asked[n].files
                    ELSE (asked[n].files \ {shown[i].id : i \in DOMAIN shown \ form.keep}) \cup
                         uploaded
           owner == IF Unlisted(objects[n], form.guests) THEN "absent" ELSE asked[n].owner
           want == [asked[n] EXCEPT !.text = NextRequest, !.owner = owner, !.files = files]
<1>1. /\ Writes /\ requests < MaxRequests /\ Fits(form) /\ n \in Names /\ objects[n] # NoEvent
      /\ stale' = IF form.keep # Untouched /\ objects[n].attach # shown
                  THEN stale \cup {n} ELSE stale
      /\ UNCHANGED <<objects, copy, asked, crossed, deleted>>
  BY DEF CalendarUpdate, Found, Writes
<1>2. /\ requests \in Nat /\ CalendarTypeOK /\ objects[n] \in Event /\ asked[n] \in Asked
      /\ tab[t].shown.event \in Event /\ RowWell(n) /\ objects[n].text \in Nat
  BY <1>1, Typed DEF CalendarInv, Shown
<1>3. (\A m \in Names : RowWell(m)') /\ Advances
  BY <1>1, ReadingIs
<1>4. requests' = NextRequest /\ requests < requests' /\ requests' \in 1..MaxRequests
  BY <1>1, ReadingIs
<1>5. NextRequest \in 1..MaxRequests
  BY <1>4
<1>6. NextRequest \notin FileIds(objects[n].attach) /\ Distinct(objects[n].attach)
  BY <1>1, <1>2, NextIsFresh DEF RowWell, Sound
<1>7. IsForm(form, NextRequest)
  BY <1>2, FormIs
<1>8. /\ data \in Event /\ Distinct(data.attach) /\ data.text = NextRequest
      /\ data.owner = editOwner(objects[n], form.guests)
      /\ data.attach = editAttachments(objects[n].attach, form.keep, form.upload)
  BY <1>1, <1>2, <1>5, <1>6, <1>7, EventEdited
<1>9. /\ FileIds(data.attach) \subseteq FileIds(objects[n].attach) \cup {NextRequest}
      /\ form.keep # Untouched =>
           FileIds(data.attach) =
             (FileIds(objects[n].attach) \
               IdsAt(objects[n].attach, DOMAIN objects[n].attach \ form.keep)) \cup
             FileIds(addAttachments(form.upload))
  <2>1. objects[n].attach \in Seq(Attachment)
    BY <1>2 DEF Event
  <2> QED
    BY <1>1, <1>5, <1>6, <1>7, <1>8, <2>1, FilesEdited
<1>10. Sound(data, requests')
  BY <1>2, <1>4, <1>8, <1>9 DEF Sound, RowWell
<1>11. uploaded \subseteq Nat
  <2> DEFINE added == addAttachments(form.upload)
  <2>0. added = <<>> \/ \E a \in Attachment : added = <<a>> /\ a.id = NextRequest
    BY <1>1, <1>5, <1>7, UploadFits DEF IsForm
  <2> HIDE DEF added
  <2>1. CASE added = <<>>
    BY <2>1 DEF added, FileIds
  <2>2. CASE \E a \in Attachment : added = <<a>> /\ a.id = NextRequest
    <3>1. PICK a \in Attachment : added = <<a>> /\ a.id = NextRequest
      BY <2>2
    <3>2. DOMAIN added = {1} /\ added[1].id = NextRequest
      BY <3>1
    <3> QED
      BY <1>5, <3>2 DEF added, FileIds
  <2> QED
    BY <2>0, <2>1, <2>2
<1>12. files \subseteq Nat
  BY <1>2, <1>11 DEF Asked
<1>13. Write(t, data, want)
  <2>1. Write(t, editEvent(objects[n], form, requests'), [asked[n] EXCEPT !.text = requests',
                  !.owner = IF Unlisted(objects[n], form.guests) THEN "absent" ELSE asked[n].owner,
                  !.files = IF form.keep = Untouched THEN asked[n].files
                            ELSE (asked[n].files \ {shown[i].id : i \in DOMAIN shown \ form.keep}) \cup
                                 FileIds(addAttachments(form.upload))])
    BY <1>2 DEF CalendarUpdate, Asked
  <2> QED
    BY <1>4, <2>1
<1>14. n \notin crossed' /\ n \notin stale' => Files(data) = files
  <2>1. CASE form.keep = Untouched
    BY <1>1, <1>2, <1>8, <2>1 DEF editAttachments, RowWell, Files, FileIds
  <2>2. CASE form.keep # Untouched
    <3>1. n \notin stale' => objects[n].attach = shown /\ n \notin stale
      BY <1>1, <2>2
    <3>2. n \notin crossed /\ n \notin stale => FileIds(objects[n].attach) = asked[n].files
      BY <1>1, <1>2 DEF RowWell, Files, FileIds
    <3>3. Files(data) = FileIds(data.attach)
      BY DEF Files, FileIds
    <3> QED
      BY <1>1, <1>9, <2>2, <3>1, <3>2, <3>3 DEF IdsAt
  <2> QED
    BY <2>1, <2>2
<1> HIDE DEF data, files, uploaded, shown, owner
<1>15. want \in Asked /\ want.text = NextRequest /\ want.owner = owner /\ want.files = files
  <2>1. NextRequest \in 0..MaxRequests
    BY <1>5
  <2>2. owner \in Partstats
    BY <1>2 DEF owner, Partstats, Asked
  <2> QED
    BY <1>2, <1>12, <2>1, <2>2 DEF Asked
<1> HIDE DEF want
<1>16. n \notin crossed' => data.owner = owner
  BY <1>1, <1>2, <1>8 DEF RowWell, editOwner, owner
<1>17. /\ objects[n].text <= data.text /\ data.text <= requests' /\ want.text \in 1..requests'
  BY <1>2, <1>4, <1>8, <1>15 DEF RowWell
<1>18. \/ n \in crossed'
       \/ /\ data.text = want.text /\ data.owner = want.owner
          /\ n \notin stale' => Files(data) = want.files
  BY <1>8, <1>14, <1>15, <1>16
<1>19. tab' \in [Tabs -> Page] /\ \A u \in Tabs : TabWell(u)'
  BY <1>1, <1>3, <1>8, <1>10, <1>13, <1>15, <1>17, <1>18, WritingIs
<1>20. CopyWell'
  BY <1>1, <1>2, <1>4, CopyStays
<1>21. CalendarTypeOK'
  BY <1>1, <1>2, <1>4, <1>19 DEF CalendarTypeOK
<1> QED
  BY <1>3, <1>19, <1>20, <1>21 DEF CalendarInv

\* An answer to an event that was read.
LEMMA CalendarRsvpHolds ==
  ASSUME CalendarInv, NEW t \in Tabs, NEW rsvp \in DOMAIN rsvpToPartstat, CalendarRsvp(t, rsvp)
  PROVE  CalendarInv'
<1> DEFINE n == Target(t)
           p == rsvpToPartstat[rsvp]
           data == setOwnerPartstat(objects[n], p)
           want == [asked[n] EXCEPT !.owner = p]
<1>1. /\ Writes /\ n \in Names /\ objects[n] # NoEvent /\ Write(t, data, want)
      /\ UNCHANGED <<objects, copy, asked, crossed, stale, deleted>>
  BY DEF CalendarRsvp, Found
<1>2. /\ requests \in Nat /\ CalendarTypeOK /\ objects[n] \in Event /\ asked[n] \in Asked
      /\ RowWell(n) /\ objects[n].text \in Nat /\ asked[n].text \in Nat
  BY <1>1, Typed DEF CalendarInv
<1>3. (\A m \in Names : RowWell(m)') /\ Advances
  BY <1>1, ReadingIs
<1>4. requests' = NextRequest /\ requests < requests' /\ requests' \in 1..MaxRequests
  BY <1>1, ReadingIs
<1>5. p \in Partstats
  BY PartstatIs
<1>6. /\ data \in Event /\ data.owner = p /\ data.text = objects[n].text
      /\ data.attach = objects[n].attach
  BY <1>2, <1>5 DEF setOwnerPartstat, OwnerListed, Event
<1>7. /\ want \in Asked /\ want.owner = p /\ want.text = asked[n].text
      /\ want.files = asked[n].files
  BY <1>2, <1>5 DEF Asked
<1> HIDE DEF data, want, p
<1>8. Sound(data, requests')
  BY <1>2, <1>4, <1>6, SoundLasts DEF RowWell, Sound
<1>9. /\ objects[n].text <= data.text /\ data.text <= requests' /\ want.text \in 1..requests'
  BY <1>1, <1>2, <1>4, <1>6, <1>7 DEF RowWell
<1>10. \/ n \in crossed'
       \/ /\ data.text = want.text /\ data.owner = want.owner
          /\ n \notin stale' => Files(data) = want.files
  BY <1>1, <1>2, <1>6, <1>7 DEF RowWell, Files
<1>11. tab' \in [Tabs -> Page] /\ \A u \in Tabs : TabWell(u)'
  BY <1>1, <1>3, <1>6, <1>7, <1>8, <1>9, <1>10, WritingIs
<1>12. CopyWell'
  BY <1>1, <1>2, <1>4, CopyStays
<1>13. CalendarTypeOK'
  BY <1>1, <1>2, <1>4, <1>11 DEF CalendarTypeOK
<1> QED
  BY <1>3, <1>11, <1>12, <1>13 DEF CalendarInv

\* Every step preserves the inductive invariant: one lemma per action.
LEMMA CalendarInvIsInductive ==
  ASSUME CalendarInv, [CalendarNext]_calendarVars
  PROVE  CalendarInv'
<1>1. CASE UNCHANGED calendarVars
  <2>1. /\ UNCHANGED <<objects, tab, copy, requests, asked, crossed, stale, deleted>>
        /\ CalendarTypeOK /\ requests \in Nat
    BY <1>1, Typed DEF calendarVars, CalendarInv
  <2>2. (\A n \in Names : RowWell(n)') /\ Advances
    BY <2>1, QuietStep
  <2>3. \A u \in Tabs : TabWell(u)'
    BY <2>1, <2>2, TabGoesOn
  <2>4. CopyWell'
    BY <2>1, CopyStays
  <2>5. CalendarTypeOK'
    BY <2>1 DEF CalendarTypeOK
  <2> QED
    BY <2>2, <2>3, <2>4, <2>5 DEF CalendarInv
<1>2. CASE CalDAV
  <2>1. \/ GetCalendarObject \/ PutCopy
        \/ \E n \in Names : DeleteCalendarObject(n)
        \/ \E n \in Names : \E uid \in Names \cup {0}, e \in Authored : PutCalendarObject(n, uid, e)
    BY <1>2 DEF CalDAV
  <2> QED
    BY <2>1, GetCalendarObjectHolds, PutCopyHolds, DeleteCalendarObjectHolds, PutCalendarObjectHolds
<1>3. ASSUME NEW t \in Tabs, Web(t) PROVE CalendarInv'
  <2>1. {"none", "yes"} \subseteq DOMAIN rsvpToPartstat
    BY DEF rsvpToPartstat
  <2>2. \/ CalendarList(t) \/ PutCalObject(t) \/ PutFails(t) \/ CalendarDelete(t)
        \/ \E rsvp \in {"none", "yes"} : CalendarRsvp(t, rsvp)
        \/ \E rsvp \in {"none", "yes"} :
             \E form \in Forms(parseEvent(NoEvent), NextRequest) : CalendarCreate(t, form, rsvp)
        \/ \E form \in Forms(parseEvent(tab[t].shown.event), NextRequest) : CalendarUpdate(t, form)
    BY <1>3 DEF Web
  <2>3. CASE CalendarList(t) \/ PutCalObject(t) \/ PutFails(t) \/ CalendarDelete(t)
    BY <2>3, CalendarListHolds, PutCalObjectHolds, PutFailsHolds, CalendarDeleteHolds
  <2>4. CASE \E rsvp \in {"none", "yes"} : CalendarRsvp(t, rsvp)
    BY <2>1, <2>4, CalendarRsvpHolds
  <2>5. CASE \E rsvp \in {"none", "yes"} :
               \E form \in Forms(parseEvent(NoEvent), NextRequest) : CalendarCreate(t, form, rsvp)
    BY <2>1, <2>5, CalendarCreateHolds
  <2>6. CASE \E form \in Forms(parseEvent(tab[t].shown.event), NextRequest) : CalendarUpdate(t, form)
    BY <2>6, CalendarUpdateHolds
  <2> QED
    BY <2>2, <2>3, <2>4, <2>5, <2>6
<1> QED
  BY <1>1, <1>2, <1>3 DEF CalendarNext

\* The inductive invariant holds in every state of the calendar.
THEOREM CalendarInvariant == CalendarSpec => []CalendarInv
<1>1. CalendarInit => CalendarInv
  BY CalendarInitHolds
<1>2. CalendarInv /\ [CalendarNext]_calendarVars => CalendarInv'
  BY CalendarInvIsInductive
<1> QED
  BY <1>1, <1>2, PTL DEF CalendarSpec

\* Every variable has its type: no edit leaves parts behind of a rule whose
\* frequency it took away, no file of the page's is over the cap.
THEOREM CalendarTyped == CalendarSpec => []CalendarTypeOK
<1>1. CalendarInv => CalendarTypeOK
  BY DEF CalendarInv
<1> QED
  BY <1>1, CalendarInvariant, PTL

\* Edits of the page, answers and changes by CalDAV survive one another, deleted
\* events stay away, but for what was written from an event that was another.
THEOREM WritesOutlast == CalendarSpec => []WritesSurvive
<1>1. CalendarInv => WritesSurvive
  <2> SUFFICES ASSUME CalendarInv PROVE WritesSurvive
    OBVIOUS
  <2>1. \A n \in Names : RowWell(n)
    BY DEF CalendarInv
  <2>2. deleted \subseteq Names
    BY DEF CalendarInv, CalendarTypeOK
  <2> QED
    BY <2>1, <2>2 DEF RowWell, WritesSurvive, Stored
<1> QED
  BY <1>1, CalendarInvariant, PTL

\* An event sent back as it was listed changes but its time, and what a form
\* asks for is what the calendar then shows, whatever was done to the event.
THEOREM FormAgrees == CalendarSpec => []FormRoundTrips
<1>1. CalendarTypeOK => FormRoundTrips
  <2> SUFFICES ASSUME CalendarTypeOK PROVE FormRoundTrips
    OBVIOUS
  <2>1. \A n \in Stored : objects[n] \in Event
    BY Typed DEF Stored
  <2> QED
    BY <2>1, EchoChangesNothing, FormIsShown DEF FormRoundTrips
<1> QED
  BY <1>1, CalendarTyped, PTL
=============================================================================
