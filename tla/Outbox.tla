------------------------------- MODULE Outbox -------------------------------
(***************************************************************************)
(* What the scheduled-send outbox promises for each queued message, with   *)
(* the database, the batches, the clock and the process hidden.            *)
(*                                                                         *)
(*   - it can be canceled only while no attempt to send it is under way,   *)
(*     and a canceled message is never attempted again;                    *)
(*   - one attempt submits it to the mail server at most once;             *)
(*   - "sent" is reported only for a message that was submitted;           *)
(*   - "sent", "failed" and "canceled" are final.                          *)
(*                                                                         *)
(* An attempt may be abandoned (Requeue): this is the at-least-once side   *)
(* of the outbox, the price of recovering from a crash mid-send.  Messages *)
(* are independent, so one step may move several.                          *)
(***************************************************************************)
EXTENDS Naturals

CONSTANT Ids

VARIABLES
  state,       \* the life-cycle state of each message
  attempts,    \* attempts begun
  submitted    \* times the mail server accepted it

outbox == <<state, attempts, submitted>>

OutboxInit ==
  /\ state = [m \in Ids |-> "absent"]
  /\ attempts = [m \in Ids |-> 0]
  /\ submitted = [m \in Ids |-> 0]

\* Message m moves from one life-cycle state to another, is attempted and is
\* submitted the given number of times more.
Moves(m, from, to, tries, copies) ==
  /\ state[m] = from
  /\ state'[m] = to
  /\ attempts'[m] = attempts[m] + tries
  /\ submitted'[m] = submitted[m] + copies

Accept(m) == Moves(m, "absent", "pending", 0, 0)
Withdraw(m) == Moves(m, "pending", "canceled", 0, 0)
Begin(m) == Moves(m, "pending", "sending", 1, 0)
Hand(m) == submitted[m] < attempts[m] /\ Moves(m, "sending", "sending", 0, 1)
Succeed(m) == submitted[m] > 0 /\ Moves(m, "sending", "sent", 0, 0)
Fail(m) == Moves(m, "sending", "failed", 0, 0)
Requeue(m) == Moves(m, "sending", "pending", 0, 0)
Rest(m) == Moves(m, state[m], state[m], 0, 0)

OutboxNext ==
  \A m \in Ids : \/ Accept(m) \/ Withdraw(m) \/ Begin(m) \/ Hand(m)
                 \/ Succeed(m) \/ Fail(m) \/ Requeue(m) \/ Rest(m)

OutboxSpec == OutboxInit /\ [][OutboxNext]_outbox
=============================================================================
