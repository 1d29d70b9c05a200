------------------------------ MODULE WebPush ------------------------------
(***************************************************************************)
(* Notifications of new mail to subscribed browsers.                       *)
(*   internal/api/webmail_push.go   subscribe, unsubscribe and the poller  *)
(*   internal/webpush/store.go      webpush_subscription, the VAPID keys   *)
(*   internal/webmail/client.go     CheckSince                             *)
(*                                                                         *)
(* Instances of the backend share the database, and each has a poller that *)
(* sweeps the subscriptions one after the other.  An endpoint is a browser *)
(* and may subscribe again, for the same mailbox or another.  An inbox is  *)
(* the UIDs of its messages and the highest UID it ever gave out.  IMAP,   *)
(* the push service and the browsers are external.                         *)
(***************************************************************************)
EXTENDS Integers, FiniteSets, Functions

CONSTANTS
  Instances,  \* backends that share the database
  Endpoints,  \* browsers
  Mailboxes,
  MaxMail,    \* bound on the messages of an inbox
  MaxPasswords, \* bound on the passwords of a mailbox
  MaxSubs,    \* bound on subscribe requests
  MaxFaults,  \* bound on failures of IMAP, statements and processes
  MaxEvents   \* bound on all that happens outside the pollers, taken together

ASSUME WebPushAssumption ==
  /\ MaxMail \in Nat \ {0} /\ MaxPasswords \in Nat \ {0}
  /\ MaxSubs \in Nat /\ MaxFaults \in Nat /\ MaxEvents \in Nat

VARIABLES
  vapid,     \* webpush_vapid_key: the instance whose pair was stored, or none
  row,       \* webpush_subscription: endpoint -> the subscription, or NoRow
  given,     \* external: mailbox -> the highest UID given out, UIDNEXT - 1
  inbox,     \* external: mailbox -> the UIDs of the messages that are there
  password,  \* external: mailbox -> the number of its password
  live,      \* external: endpoints the push service knows
  poller,    \* instance -> where it is in its start-up or its sweep
  subs,      \* history: subscribe requests
  notified,  \* history: [endpoint, sub, uid] in the notifications sent
  early,     \* history: those of a message above the UID the sweep stored
  again,     \* history: a UID was told of twice, and nothing excused it
  old,       \* history: mail from before the baseline was told of, unexcused
  crossed,   \* history: a subscribe came while a sweep held an older row of it
  together,  \* history: two sweeps were under way at once
  wronged,   \* history: a poller removed a row that was good, unexcused
  faults

vars == <<vapid, row, given, inbox, password, live, poller, subs, notified, early, again,
          old, crossed, together, wronged, faults>>

-----------------------------------------------------------------------------
\* sub: the subscribe request that wrote the row; last: last_uid.  History: base,
\* the UID the first sweep of the row stored, -1 before it.
NoRow == [sub |-> 0, box |-> "none", password |-> 0, last |-> 0, base |-> -1]
None == "none"

Rows == [sub : 0..MaxSubs, box : Mailboxes \union {None}, password : 0..MaxPasswords,
         last : 0..MaxMail, base : -1..MaxMail]

PollerSteps ==
  {"down", "insert", "reread", "idle", "sweep", "fetch", "update", "send", "remove"}

Pollers == [step : PollerSteps, key : Instances \union {None},
            todo : SUBSET [at : Endpoints, row : Rows], at : Endpoints \union {None},
            row : Rows, uid : 0..MaxMail, msgs : SUBSET (1..MaxMail)]

Idle == [step |-> "idle", key |-> None, todo |-> {}, at |-> None, row |-> NoRow, uid |-> 0,
         msgs |-> {}]
Down == [Idle EXCEPT !.step = "down"]

Init ==
  /\ vapid = None
  /\ row = [e \in Endpoints |-> NoRow]
  /\ given \in [Mailboxes -> 0..1]
  /\ inbox = [m \in Mailboxes |-> 1..given[m]]
  /\ password = [m \in Mailboxes |-> 1]
  /\ live = Endpoints
  /\ poller = [i \in Instances |-> Down]
  /\ subs = 0
  /\ notified = {} /\ early = {} /\ again = FALSE /\ old = FALSE
  /\ crossed = FALSE /\ together = FALSE /\ wronged = FALSE
  /\ faults = 0

At(i, step) == poller[i].step = step
Running(i) == ~ At(i, "down") /\ poller[i].key # None

\* A mailbox sees messages come and go, and its password change; browsers
\* subscribe and disappear; calls fail.  MaxEvents bounds the sum.
Seen(m) == given[m] + Cardinality((1..given[m]) \ inbox[m]) + password[m] - 1
Events ==
  subs + faults + Cardinality(Endpoints \ live) + SumFunction([m \in Mailboxes |-> Seen(m)])
EventsLeft == Events < MaxEvents

Fault == faults < MaxFaults /\ EventsLeft /\ faults' = faults + 1
outside == <<given, inbox, password, live>>
told == <<notified, early, again, old>>
ghosts == <<told, crossed, together, wronged>>

-----------------------------------------------------------------------------
(* Start-up: GetOrCreateVAPIDKeys.  A pair is named by who generated it.   *)

\* The SELECT, and generate when there is no row.
ReadKeys(i) ==
  /\ At(i, "down")
  /\ poller' = [poller EXCEPT ![i] =
       IF vapid # None THEN [Idle EXCEPT !.key = vapid] ELSE [Idle EXCEPT !.step = "insert"]]
  /\ UNCHANGED <<vapid, row, outside, subs, ghosts, faults>>

\* The INSERT, ON CONFLICT DO NOTHING.
InsertKeys(i) ==
  /\ At(i, "insert")
  /\ vapid' = IF vapid = None THEN i ELSE vapid
  /\ poller' = [poller EXCEPT ![i].step = "reread"]
  /\ UNCHANGED <<row, outside, subs, ghosts, faults>>

\* The row that actually won.
KeysToUse(i) == vapid

\* The SELECT after the INSERT.
RereadKeys(i) ==
  /\ At(i, "reread")
  /\ poller' = [poller EXCEPT ![i] = [Idle EXCEPT !.key = KeysToUse(i)]]
  /\ UNCHANGED <<vapid, row, outside, subs, ghosts, faults>>

-----------------------------------------------------------------------------
(* Requests.                                                               *)

\* A sweep holds a row of the endpoint it has not finished with.
Held(e) == \E i \in Instances : poller[i].at = e \/ \E t \in poller[i].todo : t.at = e

\* AddSubscription writes last_uid 0, whether it inserts or updates.
FirstUID(e) == 0

\* POST /api/webmail/push/subscribe: the password is the session's, perhaps an
\* old one.
WebPushSubscribe(e, m, pw) ==
  /\ \E i \in Instances : Running(i)
  /\ subs < MaxSubs /\ EventsLeft
  /\ e \in live
  /\ subs' = subs + 1
  /\ row' = [row EXCEPT ![e] = [sub |-> subs', box |-> m, password |-> pw,
                                last |-> FirstUID(e), base |-> -1]]
  /\ crossed' = (crossed \/ Held(e))
  /\ UNCHANGED <<vapid, outside, poller, told, together, wronged, faults>>

\* DELETE /api/webmail/push/subscribe.
WebPushUnsubscribe(e) ==
  /\ \E i \in Instances : Running(i)
  /\ row[e] # NoRow
  /\ row' = [row EXCEPT ![e] = NoRow]
  /\ UNCHANGED <<vapid, outside, poller, subs, ghosts, faults>>

-----------------------------------------------------------------------------
(* The poller.                                                             *)

Sweeping(i) == poller[i].step \in {"sweep", "fetch", "update", "send", "remove"}

\* PollWebPush: ListAll.  The sweep keeps the rows it was given.
ListAll(i) ==
  /\ At(i, "idle") /\ Running(i)
  /\ \E e \in Endpoints : row[e] # NoRow
  /\ poller' = [poller EXCEPT ![i].step = "sweep",
       ![i].todo = {[at |-> e, row |-> row[e]] : e \in {d \in Endpoints : row[d] # NoRow}}]
  /\ together' = (together \/ \E j \in Instances : Sweeping(j))
  /\ UNCHANGED <<vapid, row, outside, subs, told, crossed, wronged, faults>>

\* The loop goes on to the next row of the sweep, or the sweep is over.
GoOn(i, rest) ==
  IF rest = {} THEN [Idle EXCEPT !.key = poller[i].key]
  ELSE [Idle EXCEPT !.key = poller[i].key, !.step = "sweep", !.todo = rest]

Continue(i) == GoOn(i, poller[i].todo)

Accepted(r) == r.password = password[r.box]

\* Mutant: a row whose check fails stays and is tried at the next sweep.
AfterFailure_Retried(i, t) == GoOn(i, poller[i].todo \ {t})

\* Any error of the check removes the subscription.
AfterFailure(i, t) ==
  [poller[i] EXCEPT !.step = "remove", !.todo = @ \ {t}, !.at = t.at, !.row = t.row]

\* Mutant: UIDNEXT itself is taken for the highest UID.
Highest_UidNext(r) == IF given[r.box] + 1 < r.last THEN r.last ELSE given[r.box] + 1

\* CheckSince: the UID it returns.  It is UIDNEXT - 1, whether or not that
\* message still exists.
Highest(r) == IF given[r.box] < r.last THEN r.last ELSE given[r.box]

\* CheckSince fetches: there is a baseline, and a UID above it was given out.
MustFetch(r) == r.last # 0 /\ given[r.box] > r.last

\* The top of pollOneWebPushSubscription: the password is opened, and CheckSince
\* logs in with it and selects the inbox.  An IMAP error counts as a password that
\* no longer works.
CheckOne(i) ==
  /\ At(i, "sweep")
  /\ \E t \in poller[i].todo :
       \/ /\ Accepted(t.row)
          /\ poller' = [poller EXCEPT
                          ![i].step = IF MustFetch(t.row) THEN "fetch" ELSE "update",
                          ![i].todo = @ \ {t}, ![i].at = t.at, ![i].row = t.row,
                          ![i].uid = Highest(t.row)]
          /\ UNCHANGED faults
       \/ /\ IF Accepted(t.row) THEN Fault ELSE UNCHANGED faults
          /\ poller' = [poller EXCEPT ![i] = AfterFailure(i, t)]
  /\ UNCHANGED <<vapid, row, outside, subs, ghosts>>

\* Mutant: the last message is left out.
Fetched_OneShort(r, seen) == {u \in seen : u > r.last /\ \E v \in seen : v > u}

\* UID FETCH last+1:*, not filtered afterwards.  "*" is the last message there is,
\* and a range is one in either direction: with none above last_uid the answer is
\* the last message, which the sweep has seen before.
Fetched(r, seen) == {u \in seen : u > r.last \/ \A v \in seen : v <= u}

\* The FETCH is of what is in the inbox by now; of what came after the SELECT, the
\* session may have been told or not.  Its failure is one of CheckSince.
Fetch(i) ==
  LET p == poller[i] IN
  /\ At(i, "fetch")
  /\ \/ /\ \E n \in p.uid..given[p.row.box] :
             poller' = [poller EXCEPT ![i].step = "update",
                          ![i].msgs = Fetched(p.row, {u \in inbox[p.row.box] : u <= n})]
        /\ UNCHANGED faults
     \/ /\ Fault
        /\ poller' = [poller EXCEPT ![i].step = "remove", ![i].uid = 0]
  /\ UNCHANGED <<vapid, row, outside, subs, ghosts>>

UIDToStore(i) == poller[i].uid

\* UpdateLastUID, by endpoint; its failure is logged.  The first sweep, and one
\* that found no message, sends nothing.
UpdateLastUID(i) ==
  LET p == poller[i] IN
  /\ At(i, "update")
  /\ \/ /\ row' = IF row[p.at] = NoRow THEN row
                  ELSE [row EXCEPT ![p.at].last = UIDToStore(i),
                                   ![p.at].base = IF @ = -1 THEN UIDToStore(i) ELSE @]
        /\ UNCHANGED faults
     \/ Fault /\ UNCHANGED row
  /\ poller' = [poller EXCEPT ![i] =
       IF p.row.last = 0 \/ p.msgs = {} THEN Continue(i) ELSE [p EXCEPT !.step = "send"]]
  /\ UNCHANGED <<vapid, outside, subs, ghosts>>

\* The sweep was given a row that an earlier sweep had updated.
Swept(r) == r.base # -1

\* What the notification tells of.
News(i) == {[at |-> poller[i].at, sub |-> poller[i].row.sub, uid |-> u] : u \in poller[i].msgs}

\* None of it is above last_uid: the answer to an empty range.
LastAgain(i) == \A u \in poller[i].msgs : u <= poller[i].row.last

Calm == ~ together /\ faults = 0

\* Mutant: any error of the push service is taken for "gone".
AfterError_Gone(i) == [poller[i] EXCEPT !.step = "remove"]

\* An error of the push service that is not "gone" is logged.
AfterError(i) == Continue(i)

\* sendWebPushNotification: sent, failed, or the push service says 404 or 410.
Send(i) ==
  /\ At(i, "send")
  /\ \/ /\ poller[i].at \in live
        /\ notified' = notified \union News(i)
        /\ early' = early \union {n \in News(i) : n.uid > poller[i].uid}
        /\ again' = (again \/ (Calm /\ ~ LastAgain(i) /\ News(i) \intersect (notified \ early) # {}))
        /\ old' = (old \/ (/\ ~ crossed
                           /\ \/ ~ Swept(poller[i].row)
                              \/ /\ Calm /\ ~ LastAgain(i)
                                 /\ \E u \in poller[i].msgs : u <= poller[i].row.base))
        /\ poller' = [poller EXCEPT ![i] = Continue(i)]
        /\ UNCHANGED faults
     \/ /\ Fault
        /\ poller' = [poller EXCEPT ![i] = AfterError(i)]
        /\ UNCHANGED told
     \/ /\ poller[i].at \notin live
        /\ poller' = [poller EXCEPT ![i].step = "remove"]
        /\ UNCHANGED <<told, faults>>
  /\ UNCHANGED <<vapid, row, outside, subs, crossed, together, wronged>>

\* The check of this row succeeded: the removal follows a send.
Checked(i) == poller[i].uid # 0

\* RemoveSubscription, by endpoint; its failure is dropped.
RemoveSubscription(i) ==
  LET e == poller[i].at IN
  /\ At(i, "remove")
  /\ \/ /\ row' = [row EXCEPT ![e] = NoRow]
        /\ wronged' = (wronged \/ (/\ ~ crossed /\ (faults = 0 \/ Checked(i))
                                   /\ row[e] # NoRow /\ Accepted(row[e]) /\ e \in live))
        /\ UNCHANGED faults
     \/ Fault /\ UNCHANGED <<row, wronged>>
  /\ poller' = [poller EXCEPT ![i] = Continue(i)]
  /\ UNCHANGED <<vapid, outside, subs, told, crossed, together>>

-----------------------------------------------------------------------------
(* The environment.                                                        *)

Deliver(m) ==
  /\ given[m] < MaxMail /\ EventsLeft
  /\ given' = [given EXCEPT ![m] = @ + 1]
  /\ inbox' = [inbox EXCEPT ![m] = @ \union {given'[m]}]
  /\ UNCHANGED <<vapid, row, password, live, poller, subs, ghosts, faults>>

\* A message is deleted, or moved to another folder.
Expunge(m) ==
  /\ EventsLeft
  /\ \E u \in inbox[m] : inbox' = [inbox EXCEPT ![m] = @ \ {u}]
  /\ UNCHANGED <<vapid, row, given, password, live, poller, subs, ghosts, faults>>

ChangePassword(m) ==
  /\ password[m] < MaxPasswords /\ EventsLeft
  /\ password' = [password EXCEPT ![m] = @ + 1]
  /\ UNCHANGED <<vapid, row, given, inbox, live, poller, subs, ghosts, faults>>

\* The browser is uninstalled, or its endpoint expires.
BrowserGone(e) ==
  /\ e \in live /\ EventsLeft
  /\ live' = live \ {e}
  /\ UNCHANGED <<vapid, row, given, inbox, password, poller, subs, ghosts, faults>>

\* A crash or a restart of the process.
Crash(i) ==
  /\ ~ At(i, "down")
  /\ Fault
  /\ poller' = [poller EXCEPT ![i] = Down]
  /\ UNCHANGED <<vapid, row, outside, subs, ghosts>>

-----------------------------------------------------------------------------
StartUp(i) == ReadKeys(i) \/ InsertKeys(i) \/ RereadKeys(i)

Poll(i) ==
  \/ ListAll(i) \/ CheckOne(i) \/ Fetch(i) \/ UpdateLastUID(i) \/ Send(i)
  \/ RemoveSubscription(i)

Next ==
  \/ \E i \in Instances : StartUp(i) \/ Poll(i) \/ Crash(i)
  \/ \E e \in Endpoints : \E m \in Mailboxes : \E pw \in 1..password[m] :
       WebPushSubscribe(e, m, pw)
  \/ \E e \in Endpoints : WebPushUnsubscribe(e) \/ BrowserGone(e)
  \/ \E m \in Mailboxes : Deliver(m) \/ Expunge(m) \/ ChangePassword(m)

\* Every process is started, and its ticker keeps the poller going.  Nothing is
\* assumed of the users, the mail or the browsers.
Fairness == \A i \in Instances : WF_vars(StartUp(i)) /\ WF_vars(Poll(i))

Spec == Init /\ [][Next]_vars /\ Fairness

-----------------------------------------------------------------------------
(* Properties.                                                             *)

\* Every variable has its type: in particular a last_uid is one an inbox can give
\* out (CheckSince takes one from UIDNEXT), and no message is above the highest.
TypeOK ==
  /\ vapid \in Instances \union {None}
  /\ row \in [Endpoints -> Rows]
  /\ given \in [Mailboxes -> 0..MaxMail]
  /\ DOMAIN inbox = Mailboxes /\ \A m \in Mailboxes : inbox[m] \subseteq 1..given[m]
  /\ password \in [Mailboxes -> 1..MaxPasswords]
  /\ live \subseteq Endpoints
  /\ poller \in [Instances -> Pollers]
  /\ subs \in 0..MaxSubs /\ faults \in 0..MaxFaults
  /\ early \subseteq notified
  /\ notified \subseteq [at : Endpoints, sub : 1..MaxSubs, uid : 1..MaxMail]
  /\ {again, old, crossed, together, wronged} \subseteq BOOLEAN

\* The instances that share a database sign with one VAPID pair, the one stored,
\* also when they start at once on a database that is empty: a browser is bound
\* to the key it subscribed with, whichever instance polls for it.
VapidKeysAgree == \A i \in Instances : Running(i) => poller[i].key = vapid

Announced(e, u) ==
  \/ [at |-> e, sub |-> row[e].sub, uid |-> u] \in notified
  \/ \E i \in Instances : /\ At(i, "send") /\ poller[i].at = e
                          /\ poller[i].row.sub = row[e].sub
                          /\ u \in poller[i].msgs

\* A subscription hears of every message past its baseline once, and of none
\* before, under three conditions: no two instances swept at the same time and
\* nothing failed (Calm), for the rest no subscribe came while a sweep held an
\* older row of the endpoint (the sweep then stores another subscription's UID
\* over the fresh zero).  In detail:
\*  - no notification tells of mail that was there at the first sweep;
\*  - none tells of a message again, but of one that came between the SELECT and
\*    the FETCH of a sweep, which is told of and then not stored as seen (early);
\*  - both unless the new messages were gone when they were fetched: the FETCH
\*    then answers with the last message there is (LastAgain);
\*  - last_uid is never ahead of what was announced, or is about to be, or is no
\*    longer in the inbox, where the baseline is not 0: last_uid 0 means both "never
\*    swept" and "swept when the inbox was empty", so the first mail of an
\*    empty inbox is taken for a baseline.
EachMessageOnce ==
  /\ ~ old
  /\ ~ again
  /\ \A e \in Endpoints : e \in live /\ row[e].base > 0 /\ ~ crossed /\ Calm =>
       \A u \in (row[e].base + 1)..row[e].last : Announced(e, u) \/ u \notin inbox[row[e].box]

Outdated(e) == row[e] # NoRow /\ ~ Accepted(row[e])

\* The poller removes the subscriptions that cannot work: a row whose password
\* was changed does not stay, it is not "retried forever against credentials that
\* will never succeed again", unless the browser subscribes again first.
OutdatedRowsGo == \A e \in Endpoints : Outdated(e) ~> ~ Outdated(e)

\* And no others: a row that goes is of a browser that is gone or of a password
\* that was changed, unless another error of IMAP was taken for it, or the browser
\* subscribed again after the sweep had read its old row.
GoodRowsStay == ~ wronged
=============================================================================
