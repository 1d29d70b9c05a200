--------------------------- MODULE WebPushProofs ---------------------------
(***************************************************************************)
(* The instances that run sign with the VAPID pair that is stored, however *)
(* many start at once and however often they crash.  A subscription hears  *)
(* of each message once.  A row goes only if it could not work.            *)
(***************************************************************************)
EXTENDS WebPush, TLAPS

Fields == {"step", "key", "todo", "at", "row", "uid", "msgs"}

\* Every poller has its fields; VapidKeysAgree is inductive with it: the stored
\* pair changes only while there is none, and then nobody runs.
PInv ==
  /\ DOMAIN poller = Instances
  /\ \A i \in Instances : DOMAIN poller[i] = Fields
  /\ VapidKeysAgree

\* Every instance is down at the start.
LEMMA PInit == Init => PInv
  BY DEF Init, PInv, VapidKeysAgree, Running, At, Down, Idle, Fields

\* A sweep keeps the key its process started with.
LEMMA PollKeepsKey ==
  ASSUME PInv, NEW i \in Instances, Poll(i)
  PROVE  /\ vapid' = vapid
         /\ DOMAIN poller' = Instances /\ DOMAIN poller'[i] = Fields
         /\ \A j \in Instances : j # i => poller'[j] = poller[j]
         /\ poller'[i].key = poller[i].key
         /\ ~ At(i, "down")
<1> USE DEF PInv, At, Fields
<1>1. CASE ListAll(i)
  BY <1>1 DEF ListAll
<1>2. CASE CheckOne(i)
  <2>1. PICK t \in poller[i].todo :
          \/ poller' = [poller EXCEPT ![i].step = IF MustFetch(t.row) THEN "fetch" ELSE "update",
                          ![i].todo = @ \ {t}, ![i].at = t.at, ![i].row = t.row,
                          ![i].uid = Highest(t.row)]
          \/ poller' = [poller EXCEPT ![i] = AfterFailure(i, t)]
    BY <1>2 DEF CheckOne
  <2>2. vapid' = vapid /\ At(i, "sweep")
    BY <1>2 DEF CheckOne
  <2>3. CASE poller' = [poller EXCEPT ![i] = AfterFailure(i, t)]
    BY <2>2, <2>3 DEF AfterFailure
  <2>4. CASE poller' = [poller EXCEPT ![i].step = IF MustFetch(t.row) THEN "fetch" ELSE "update",
                          ![i].todo = @ \ {t}, ![i].at = t.at, ![i].row = t.row,
                          ![i].uid = Highest(t.row)]
    BY <2>2, <2>4
  <2> QED
    BY <2>1, <2>3, <2>4
<1>3. CASE UpdateLastUID(i)
  BY <1>3 DEF UpdateLastUID, Continue, GoOn, Idle
<1>4. CASE Send(i)
  BY <1>4 DEF Send, AfterError, Continue, GoOn, Idle
<1>5. CASE RemoveSubscription(i)
  BY <1>5 DEF RemoveSubscription, Continue, GoOn, Idle
<1>6. CASE Fetch(i)
  BY <1>6 DEF Fetch
<1> QED
  BY <1>1, <1>2, <1>3, <1>4, <1>5, <1>6 DEF Poll

\* Every step keeps the instances that run on the stored pair.
LEMMA PNext == PInv /\ [Next]_vars => PInv'
<1> SUFFICES ASSUME PInv, [Next]_vars PROVE PInv'
  OBVIOUS
<1>1. ASSUME NEW i \in Instances, ReadKeys(i) PROVE PInv'
  BY <1>1 DEF ReadKeys, PInv, VapidKeysAgree, Running, At, Idle, Fields
<1>2. ASSUME NEW i \in Instances, InsertKeys(i) PROVE PInv'
  BY <1>2 DEF InsertKeys, PInv, VapidKeysAgree, Running, At, Fields
<1>3. ASSUME NEW i \in Instances, RereadKeys(i) PROVE PInv'
  BY <1>3 DEF RereadKeys, KeysToUse, PInv, VapidKeysAgree, Running, At, Idle, Fields
<1>4. ASSUME NEW i \in Instances, Poll(i) PROVE PInv'
  BY <1>4, PollKeepsKey DEF PInv, VapidKeysAgree, Running, At
<1>5. ASSUME NEW i \in Instances, Crash(i) PROVE PInv'
  BY <1>5 DEF Crash, PInv, VapidKeysAgree, Running, At, Down, Idle, Fields
<1>6. CASE UNCHANGED <<vapid, poller>>
  BY <1>6 DEF PInv, VapidKeysAgree, Running, At
<1>7. (\A i \in Instances : ~ StartUp(i) /\ ~ Poll(i) /\ ~ Crash(i)) => UNCHANGED <<vapid, poller>>
  BY DEF Next, vars, WebPushSubscribe, WebPushUnsubscribe, BrowserGone, Deliver, Expunge, ChangePassword
<1> QED
  BY <1>1, <1>2, <1>3, <1>4, <1>5, <1>6, <1>7 DEF StartUp

\* A browser is bound to the key it subscribed with, whichever instance polls.
THEOREM OneSigningKey == Spec => []VapidKeysAgree
<1>1. PInv => VapidKeysAgree
  BY DEF PInv
<1> QED
  BY <1>1, PInit, PNext, PTL DEF Spec

-----------------------------------------------------------------------------
(* Types.  A sweep holds rows as they were when it read them.              *)

\* A row that stands for a subscription.
Good(r) == r.sub >= 1 /\ r.box \in Mailboxes

Holds(p) == p.step \in {"fetch", "update", "send", "remove"}

\* What a poller holds is a subscription of an endpoint; one that holds nothing
\* has no UID and no messages, and one that does not sweep no rows to check.
HeldInv ==
  \A i \in Instances :
    /\ \A t \in poller[i].todo : Good(t.row)
    /\ Holds(poller[i]) => poller[i].at \in Endpoints /\ Good(poller[i].row)
    /\ ~ Holds(poller[i]) => poller[i].uid = 0
    /\ ~ Holds(poller[i]) \/ poller[i].step = "fetch" => poller[i].msgs = {}
    /\ ~ Sweeping(i) => poller[i].todo = {}

RowInv == \A e \in Endpoints : row[e] # NoRow => Good(row[e])

TypeInv == TypeOK /\ RowInv /\ HeldInv

\* The rows a sweep can be given.
Items == [at : Endpoints, row : Rows]

\* The pollers that do not sweep.
AtRest(q) ==
  /\ q \in Pollers
  /\ q.step \in {"down", "insert", "reread", "idle"} /\ q.todo = {} /\ q.uid = 0
  /\ q.msgs = {}

\* The pollers that go on with the rest of their sweep, or are through with it.
Between(q, rest) ==
  /\ q \in Pollers
  /\ q.step \in {"idle", "sweep"} /\ q.todo = rest /\ q.uid = 0 /\ q.msgs = {}
  /\ q.step = "idle" => rest = {}

Only(i) ==
  /\ DOMAIN poller' = Instances
  /\ \A j \in Instances : j # i => poller'[j] = poller[j]

LEMMA NoRowTyped == NoRow \in Rows
  BY WebPushAssumption DEF Rows, NoRow, None

LEMMA IdleTyped == AtRest(Idle) /\ AtRest(Down)
<1>1. Idle \in Pollers
  BY NoRowTyped, WebPushAssumption DEF Idle, Pollers, PollerSteps, None
<1>2. Down \in Pollers
  BY <1>1 DEF Down, Pollers, PollerSteps
<1> QED
  BY <1>1, <1>2 DEF AtRest, Idle, Down

LEMMA GoOnTyped ==
  ASSUME TypeOK, NEW i \in Instances, NEW rest \in SUBSET Items
  PROVE  Between(GoOn(i, rest), rest)
<1>1. poller[i].key \in Instances \union {None}
  BY DEF TypeOK, Pollers
<1>2. CASE rest = {}
  <2> DEFINE q == [Idle EXCEPT !.key = poller[i].key]
  <2>1. q \in Pollers /\ q.step = "idle" /\ q.todo = {} /\ q.uid = 0 /\ q.msgs = {}
    BY <1>1, IdleTyped DEF AtRest, Pollers, Idle
  <2>2. GoOn(i, rest) = q
    BY <1>2 DEF GoOn
  <2> QED
    BY <1>2, <2>1, <2>2 DEF Between
<1>3. CASE rest # {}
  <2> DEFINE q == [Idle EXCEPT !.key = poller[i].key]
             r == [q EXCEPT !.step = "sweep"]
             s == [r EXCEPT !.todo = rest]
  <2>1. q \in Pollers /\ q.uid = 0 /\ q.msgs = {}
    BY <1>1, IdleTyped DEF AtRest, Pollers, Idle
  <2>2. r \in Pollers /\ r.step = "sweep" /\ r.uid = 0 /\ r.msgs = {}
    <3> HIDE DEF q
    <3> QED
      BY <2>1 DEF Pollers, PollerSteps
  <2>3. s \in Pollers /\ s.step = "sweep" /\ s.uid = 0 /\ s.msgs = {} /\ s.todo = rest
    <3> HIDE DEF r
    <3> QED
      BY <2>2 DEF Pollers, Items
  <2>4. GoOn(i, rest) = s
    BY <1>3 DEF GoOn, Idle
  <2> QED
    BY <2>3, <2>4 DEF Between
<1> QED
  BY <1>2, <1>3

\* What each step of a poller makes of it.
LEMMA RestedShape ==
  ASSUME TypeInv, NEW i \in Instances, StartUp(i) \/ Crash(i)
  PROVE  Only(i) /\ AtRest(poller'[i])
<1> USE DEF TypeInv, TypeOK, HeldInv
<1>1. CASE ReadKeys(i)
  <2>1. \A k \in Instances : [Idle EXCEPT !.key = k] \in Pollers
    BY IdleTyped DEF AtRest, Pollers
  <2>2. [Idle EXCEPT !.step = "insert"] \in Pollers
    BY IdleTyped DEF AtRest, Pollers, PollerSteps
  <2>3. Only(i) /\ poller'[i] \in Pollers
    BY <1>1, <2>1, <2>2 DEF ReadKeys, Only
  <2> QED
    BY <1>1, <2>3 DEF ReadKeys, AtRest, Idle
<1>2. CASE InsertKeys(i)
  <2>1. Only(i) /\ poller'[i] = [poller[i] EXCEPT !.step = "reread"]
    BY <1>2 DEF InsertKeys, Only
  <2>2. poller[i].todo = {} /\ poller[i].uid = 0 /\ poller[i].msgs = {}
    BY <1>2 DEF InsertKeys, At, Holds, Sweeping
  <2> QED
    BY <2>1, <2>2 DEF AtRest, Pollers, PollerSteps
<1>3. CASE RereadKeys(i)
  <2>1. Only(i) /\ poller'[i] = [Idle EXCEPT !.key = vapid]
    BY <1>3 DEF RereadKeys, KeysToUse, Only
  <2>2. [Idle EXCEPT !.key = vapid] \in Pollers
    BY IdleTyped DEF AtRest, Pollers
  <2> QED
    BY <2>1, <2>2 DEF AtRest, Idle
<1>4. CASE Crash(i)
  BY <1>4, IdleTyped DEF Crash, Only
<1> QED
  BY <1>1, <1>2, <1>3, <1>4 DEF StartUp

LEMMA ListAllShape ==
  ASSUME TypeInv, NEW i \in Instances, ListAll(i)
  PROVE  /\ Only(i) /\ poller'[i] \in Pollers
         /\ poller[i].step = "idle" /\ poller'[i].step = "sweep" /\ poller'[i].uid = 0
         /\ poller'[i].msgs = {}
         /\ \A t \in poller'[i].todo : /\ t.at \in Endpoints /\ t.row = row[t.at]
                                       /\ t.row # NoRow
         /\ \A t, u \in poller'[i].todo : t.at = u.at => t = u
<1> USE DEF TypeInv, TypeOK, HeldInv
<1> DEFINE S == {[at |-> e, row |-> row[e]] : e \in {d \in Endpoints : row[d] # NoRow}}
           q == [poller[i] EXCEPT !.step = "sweep"]
           r == [q EXCEPT !.todo = S]
<1>1. Only(i) /\ poller[i].step = "idle" /\ poller'[i] = r
  BY DEF ListAll, Only, At
<1>2. S \subseteq Items
  BY DEF Items
<1>3. q \in Pollers /\ q.step = "sweep" /\ q.uid = 0 /\ q.msgs = {}
  BY <1>1 DEF Pollers, PollerSteps, Holds
<1>4. r \in Pollers /\ r.step = "sweep" /\ r.uid = 0 /\ r.msgs = {} /\ r.todo = S
  <2> HIDE DEF q, S
  <2> QED
    BY <1>2, <1>3 DEF Pollers, Items
<1>5. \A t \in S : t.at \in Endpoints /\ t.row = row[t.at] /\ t.row # NoRow
  OBVIOUS
<1>6. \A t, u \in S : t.at = u.at => t = u
  OBVIOUS
<1> QED
  <2> HIDE DEF r, S
  <2> QED
    BY <1>1, <1>4, <1>5, <1>6

\* A check: the row is accepted and its UID is to be stored, or it is to go.
Stores(q, t) ==
  /\ q.step = IF MustFetch(t.row) THEN "fetch" ELSE "update"
  /\ q.uid = Highest(t.row) /\ q.msgs = {}
Drops(q) == q.step = "remove" /\ q.uid = 0 /\ q.msgs = {}

LEMMA HighestTyped ==
  ASSUME TypeOK, NEW r \in Rows, Good(r)
  PROVE  /\ Highest(r) \in 0..MaxMail /\ r.last <= Highest(r)
         /\ Highest(r) = r.last \/ Highest(r) <= given[r.box]
  BY WebPushAssumption DEF TypeOK, Good, Highest, Rows

LEMMA CheckOneShape ==
  ASSUME TypeInv, NEW i \in Instances, CheckOne(i)
  PROVE  /\ Only(i) /\ poller'[i] \in Pollers /\ poller[i].step = "sweep"
         /\ \E t \in poller[i].todo :
              /\ t.at \in Endpoints /\ Good(t.row)
              /\ poller'[i].todo = poller[i].todo \ {t}
              /\ poller'[i].at = t.at /\ poller'[i].row = t.row
              /\ \/ Stores(poller'[i], t) /\ UNCHANGED faults
                 \/ /\ Drops(poller'[i])
                    /\ \/ ~ Accepted(t.row) /\ UNCHANGED faults
                       \/ Fault
<1> USE DEF TypeInv, TypeOK, HeldInv
<1>1. PICK t \in poller[i].todo :
        \/ /\ Accepted(t.row)
           /\ poller' = [poller EXCEPT ![i].step = IF MustFetch(t.row) THEN "fetch" ELSE "update",
                           ![i].todo = @ \ {t}, ![i].at = t.at, ![i].row = t.row,
                           ![i].uid = Highest(t.row)]
           /\ UNCHANGED faults
        \/ /\ IF Accepted(t.row) THEN Fault ELSE UNCHANGED faults
           /\ poller' = [poller EXCEPT ![i] = AfterFailure(i, t)]
  BY DEF CheckOne
<1>2. poller[i].step = "sweep" /\ poller[i] \in Pollers /\ poller[i].uid = 0 /\ poller[i].msgs = {}
  BY DEF CheckOne, At, Holds
<1>3. t.at \in Endpoints /\ t.row \in Rows /\ Good(t.row)
  BY <1>2 DEF Pollers
<1>4. Highest(t.row) \in 0..MaxMail
  BY <1>3, HighestTyped
<1> DEFINE a(s) == [poller[i] EXCEPT !.step = s]
           b(s) == [a(s) EXCEPT !.todo = poller[i].todo \ {t}]
           c(s) == [b(s) EXCEPT !.at = t.at]
           d(s) == [c(s) EXCEPT !.row = t.row]
           next == IF MustFetch(t.row) THEN "fetch" ELSE "update"
           f == [d(next) EXCEPT !.uid = Highest(t.row)]
<1>5. ASSUME NEW s \in {"fetch", "update", "remove"}
      PROVE  d(s) \in Pollers /\ d(s).step = s /\ d(s).uid = 0 /\ d(s).at = t.at
             /\ d(s).row = t.row /\ d(s).todo = poller[i].todo \ {t} /\ d(s).msgs = {}
  <2>1. a(s) \in Pollers /\ a(s).step = s /\ a(s).uid = 0 /\ a(s).msgs = {}
    BY <1>2, <1>5 DEF Pollers, PollerSteps
  <2>2. b(s) \in Pollers /\ b(s).step = s /\ b(s).uid = 0 /\ b(s).todo = poller[i].todo \ {t}
        /\ b(s).msgs = {}
    <3>1. poller[i].todo \ {t} \in SUBSET Items
      BY <1>2 DEF Pollers, Items
    <3> HIDE DEF a
    <3> QED
      BY <2>1, <3>1 DEF Pollers, Items
  <2>3. c(s) \in Pollers /\ c(s).step = s /\ c(s).uid = 0 /\ c(s).at = t.at
        /\ c(s).todo = poller[i].todo \ {t} /\ c(s).msgs = {}
    <3> HIDE DEF b
    <3> QED
      BY <2>2, <1>3 DEF Pollers
  <2> HIDE DEF c
  <2> QED
    BY <2>3, <1>3 DEF Pollers
<1>6. CASE poller' = [poller EXCEPT ![i] = AfterFailure(i, t)]
           /\ IF Accepted(t.row) THEN Fault ELSE UNCHANGED faults
  <2>1. AfterFailure(i, t) = d("remove")
    BY <1>2 DEF AfterFailure, Pollers
  <2>2. Only(i) /\ poller'[i] = d("remove")
    BY <1>6, <2>1 DEF Only
  <2>3. d("remove") \in Pollers /\ Drops(d("remove")) /\ d("remove").at = t.at
             /\ d("remove").row = t.row /\ d("remove").todo = poller[i].todo \ {t}
    <3> HIDE DEF d
    <3> QED
      BY <1>5 DEF Drops
  <2> HIDE DEF d
  <2> QED
    BY <1>1, <1>2, <1>3, <1>6, <2>2, <2>3
<1>7. CASE poller' = [poller EXCEPT ![i].step = IF MustFetch(t.row) THEN "fetch" ELSE "update",
                           ![i].todo = @ \ {t}, ![i].at = t.at, ![i].row = t.row,
                           ![i].uid = Highest(t.row)]
           /\ UNCHANGED faults
  <2>1. Only(i) /\ poller'[i] = f
    BY <1>7, <1>2 DEF Only, Pollers
  <2>2. f \in Pollers /\ Stores(f, t) /\ f.at = t.at
             /\ f.row = t.row /\ f.todo = poller[i].todo \ {t}
    <3>1. next \in {"fetch", "update", "remove"}
      OBVIOUS
    <3>2. /\ d(next) \in Pollers /\ d(next).step = next /\ d(next).at = t.at
          /\ d(next).row = t.row /\ d(next).todo = poller[i].todo \ {t} /\ d(next).msgs = {}
      <4> HIDE DEF d, next
      <4> QED
        BY <1>5, <3>1
    <3> HIDE DEF d
    <3> QED
      BY <1>4, <3>2 DEF Stores, Pollers
  <2> HIDE DEF f
  <2> QED
    BY <1>1, <1>2, <1>3, <1>7, <2>1, <2>2
<1> QED
  BY <1>1, <1>6, <1>7

LEMMA ContinueShape ==
  ASSUME TypeInv, NEW i \in Instances, poller' = [poller EXCEPT ![i] = Continue(i)]
  PROVE  Only(i) /\ Between(poller'[i], poller[i].todo)
<1>1. poller[i].todo \in SUBSET Items
  BY DEF TypeInv, TypeOK, Pollers, Items
<1> QED
  BY <1>1, GoOnTyped DEF Continue, TypeInv, TypeOK, Only

\* q is p but for its step.
LEMMA StepShape ==
  ASSUME TypeInv, NEW i \in Instances, NEW s \in PollerSteps,
         poller' = [poller EXCEPT ![i].step = s]
  PROVE  /\ Only(i) /\ poller'[i] \in Pollers /\ poller'[i].step = s
         /\ poller'[i].todo = poller[i].todo /\ poller'[i].at = poller[i].at
         /\ poller'[i].row = poller[i].row /\ poller'[i].uid = poller[i].uid
         /\ poller'[i].msgs = poller[i].msgs
  BY DEF TypeInv, TypeOK, Only, Pollers

\* Going on to the step s with the row that is held.
Keeps(i, s) ==
  /\ poller'[i] \in Pollers /\ poller'[i].step = s
  /\ poller'[i].todo = poller[i].todo /\ poller'[i].at = poller[i].at
  /\ poller'[i].row = poller[i].row /\ poller'[i].uid = poller[i].uid
  /\ poller'[i].msgs = poller[i].msgs

LEMMA UpdateShape ==
  ASSUME TypeInv, NEW i \in Instances, UpdateLastUID(i)
  PROVE  /\ Only(i) /\ poller[i].step = "update"
         /\ \/ /\ poller[i].row.last = 0 \/ poller[i].msgs = {}
               /\ Between(poller'[i], poller[i].todo)
            \/ /\ poller[i].row.last # 0 /\ poller[i].msgs # {}
               /\ Keeps(i, "send")
<1>1. poller[i].step = "update"
  BY DEF UpdateLastUID, At
<1>2. CASE poller[i].row.last = 0 \/ poller[i].msgs = {}
  <2>1. poller' = [poller EXCEPT ![i] = Continue(i)]
    BY <1>2 DEF UpdateLastUID
  <2> QED
    BY <1>1, <1>2, <2>1, ContinueShape
<1>3. CASE poller[i].row.last # 0 /\ poller[i].msgs # {}
  <2>1. poller' = [poller EXCEPT ![i] = [poller[i] EXCEPT !.step = "send"]]
    BY <1>3 DEF UpdateLastUID
  <2>2. poller' = [poller EXCEPT ![i].step = "send"]
    BY <2>1 DEF TypeInv, TypeOK
  <2> QED
    BY <1>1, <1>3, <2>2, StepShape DEF Keeps, PollerSteps
<1> QED
  BY <1>2, <1>3

\* What sending does: it told the browser, failed, or learned it is gone.
Told(i) ==
  /\ poller[i].at \in live
  /\ notified' = notified \union News(i)
  /\ early' = early \union {n \in News(i) : n.uid > poller[i].uid}
  /\ again' = (again \/ (Calm /\ ~ LastAgain(i) /\ News(i) \intersect (notified \ early) # {}))
  /\ old' = (old \/ (/\ ~ crossed
                     /\ \/ ~ Swept(poller[i].row)
                        \/ /\ Calm /\ ~ LastAgain(i)
                           /\ \E u \in poller[i].msgs : u <= poller[i].row.base))
  /\ UNCHANGED faults

LEMMA SendShape ==
  ASSUME TypeInv, NEW i \in Instances, Send(i)
  PROVE  /\ Only(i) /\ poller[i].step = "send"
         /\ \/ Told(i) /\ Between(poller'[i], poller[i].todo)
            \/ /\ Fault /\ UNCHANGED told
               /\ Between(poller'[i], poller[i].todo)
            \/ /\ poller[i].at \notin live /\ UNCHANGED <<told, faults>>
               /\ Keeps(i, "remove")
<1>1. poller[i].step = "send"
  BY DEF Send, At
<1>2. CASE Told(i) /\ poller' = [poller EXCEPT ![i] = Continue(i)]
  BY <1>1, <1>2, ContinueShape
<1>3. CASE Fault /\ UNCHANGED told /\ poller' = [poller EXCEPT ![i] = Continue(i)]
  BY <1>1, <1>3, ContinueShape
<1>4. CASE /\ poller[i].at \notin live /\ UNCHANGED <<told, faults>>
           /\ poller' = [poller EXCEPT ![i].step = "remove"]
  <2>1. "remove" \in PollerSteps
    BY DEF PollerSteps
  <2> QED
    BY <1>1, <1>4, <2>1, StepShape DEF Keeps
<1> QED
  BY <1>2, <1>3, <1>4 DEF Send, Told, AfterError

\* What the FETCH makes of a poller.
LEMMA FetchShape ==
  ASSUME TypeInv, NEW i \in Instances, Fetch(i)
  PROVE  /\ Only(i) /\ poller'[i] \in Pollers /\ poller[i].step = "fetch"
         /\ poller'[i].todo = poller[i].todo /\ poller'[i].at = poller[i].at
         /\ poller'[i].row = poller[i].row
         /\ \/ /\ poller'[i].step = "update" /\ poller'[i].uid = poller[i].uid
               /\ \E n \in poller[i].uid..given[poller[i].row.box] :
                    poller'[i].msgs =
                      Fetched(poller[i].row, {u \in inbox[poller[i].row.box] : u <= n})
               /\ UNCHANGED faults
            \/ Drops(poller'[i]) /\ Fault
<1>1. /\ poller[i].step = "fetch" /\ poller[i] \in Pollers /\ poller[i].row.box \in Mailboxes
      /\ poller[i].msgs = {}
  BY DEF Fetch, At, TypeInv, TypeOK, HeldInv, Holds, Good
<1>2. ASSUME NEW n \in poller[i].uid..given[poller[i].row.box],
             poller' = [poller EXCEPT ![i].step = "update",
               ![i].msgs = Fetched(poller[i].row, {u \in inbox[poller[i].row.box] : u <= n})]
      PROVE  /\ Only(i) /\ poller'[i] \in Pollers
             /\ poller'[i].todo = poller[i].todo /\ poller'[i].at = poller[i].at
             /\ poller'[i].row = poller[i].row
             /\ poller'[i].step = "update" /\ poller'[i].uid = poller[i].uid
             /\ poller'[i].msgs =
                  Fetched(poller[i].row, {u \in inbox[poller[i].row.box] : u <= n})
  <2> DEFINE f == Fetched(poller[i].row, {u \in inbox[poller[i].row.box] : u <= n})
             q == [poller[i] EXCEPT !.step = "update"]
  <2>1. f \subseteq 1..MaxMail
    <3>1. /\ inbox[poller[i].row.box] \subseteq 1..given[poller[i].row.box]
          /\ given[poller[i].row.box] \in 0..MaxMail
      BY <1>1 DEF TypeInv, TypeOK
    <3> QED
      BY <3>1, WebPushAssumption DEF Fetched
  <2>2. q \in Pollers
    BY <1>1 DEF Pollers, PollerSteps
  <2>3. [q EXCEPT !.msgs = f] \in Pollers
    <3> HIDE DEF f, q
    <3> QED
      BY <2>1, <2>2 DEF Pollers
  <2> HIDE DEF f
  <2>4. poller' = [poller EXCEPT ![i] = [q EXCEPT !.msgs = f]]
    BY <1>1, <1>2 DEF f, TypeInv, TypeOK
  <2>5. Only(i) /\ poller'[i] = [q EXCEPT !.msgs = f]
    <3> HIDE DEF q
    <3> QED
      BY <2>4 DEF Only, TypeInv, TypeOK
  <2>6. LET r == [q EXCEPT !.msgs = f] IN
          /\ r.todo = poller[i].todo /\ r.at = poller[i].at /\ r.row = poller[i].row
          /\ r.step = "update" /\ r.uid = poller[i].uid /\ r.msgs = f
    BY <1>1 DEF Pollers
  <2> QED
    <3> HIDE DEF q
    <3> QED
      BY <2>3, <2>5, <2>6 DEF f
<1>3. ASSUME poller' = [poller EXCEPT ![i].step = "remove", ![i].uid = 0]
      PROVE  /\ Only(i) /\ poller'[i] \in Pollers
             /\ poller'[i].todo = poller[i].todo /\ poller'[i].at = poller[i].at
             /\ poller'[i].row = poller[i].row /\ Drops(poller'[i])
  <2> DEFINE q == [poller[i] EXCEPT !.step = "remove"]
             r == [q EXCEPT !.uid = 0]
  <2>1. /\ q \in Pollers /\ q.todo = poller[i].todo /\ q.at = poller[i].at
        /\ q.row = poller[i].row /\ q.step = "remove" /\ q.msgs = {}
    BY <1>1 DEF Pollers, PollerSteps
  <2>2. poller' = [poller EXCEPT ![i] = r]
    BY <1>1, <1>3 DEF TypeInv, TypeOK
  <2>3. /\ r \in Pollers /\ r.todo = poller[i].todo /\ r.at = poller[i].at
        /\ r.row = poller[i].row /\ r.step = "remove" /\ r.uid = 0 /\ r.msgs = {}
    <3>1. 0 \in 0..MaxMail
      BY WebPushAssumption
    <3> HIDE DEF q
    <3> QED
      BY <2>1, <3>1 DEF Pollers
  <2>4. Only(i) /\ poller'[i] = r
    <3> HIDE DEF r
    <3> QED
      BY <2>2 DEF Only, TypeInv, TypeOK
  <2> QED
    <3> HIDE DEF r
    <3> QED
      BY <2>3, <2>4 DEF Drops
<1> QED
  BY <1>1, <1>2, <1>3 DEF Fetch

LEMMA RemoveShape ==
  ASSUME TypeInv, NEW i \in Instances, RemoveSubscription(i)
  PROVE  /\ Only(i) /\ poller[i].step = "remove"
         /\ Between(poller'[i], poller[i].todo)
  BY ContinueShape DEF RemoveSubscription, At

\* The pollers of a step stay pollers, and hold subscriptions.
LEMMA HeldStep ==
  ASSUME TypeInv, NEW i \in Instances, StartUp(i) \/ Crash(i) \/ Poll(i)
  PROVE  HeldInv' /\ poller' \in [Instances -> Pollers]
<1>1. ASSUME Only(i), poller'[i] \in Pollers,
             \A t \in poller'[i].todo : Good(t.row),
             Holds(poller'[i]) => poller'[i].at \in Endpoints /\ Good(poller'[i].row),
             ~ Holds(poller'[i]) => poller'[i].uid = 0,
             ~ Holds(poller'[i]) \/ poller'[i].step = "fetch" => poller'[i].msgs = {},
             poller'[i].step \notin {"sweep", "fetch", "update", "send", "remove"} =>
               poller'[i].todo = {}
      PROVE  HeldInv' /\ poller' \in [Instances -> Pollers]
  <2>1. \A j \in Instances : poller'[j] \in Pollers
    BY <1>1 DEF Only, TypeInv, TypeOK
  <2>2. poller' \in [Instances -> Pollers]
    <3>1. poller' = [j \in Instances |-> poller'[j]]
      <4>1. DOMAIN poller' = Instances
        BY <1>1 DEF Only
      <4>2. \E f : poller' = [poller EXCEPT ![i] = f]
        BY DEF StartUp, ReadKeys, InsertKeys, RereadKeys, Crash, Poll, ListAll, CheckOne, Fetch,
               UpdateLastUID, Send, RemoveSubscription
      <4> QED
        BY <4>1, <4>2 DEF TypeInv, TypeOK
    <3> QED
      BY <2>1, <3>1
  <2>3. HeldInv'
    BY <1>1 DEF Only, TypeInv, HeldInv, Sweeping
  <2> QED
    BY <2>2, <2>3
<1> USE DEF Holds
<1>2. CASE StartUp(i) \/ Crash(i)
  BY <1>2, RestedShape, <1>1 DEF AtRest
<1>3. ASSUME Only(i), Between(poller'[i], poller[i].todo)
      PROVE  HeldInv' /\ poller' \in [Instances -> Pollers]
  BY <1>3, <1>1 DEF Between, TypeInv, HeldInv
<1>4. ASSUME NEW s \in {"send", "remove"}, Only(i), Keeps(i, s), Holds(poller[i])
      PROVE  HeldInv' /\ poller' \in [Instances -> Pollers]
  BY <1>4, <1>1 DEF Keeps, TypeInv, HeldInv
<1>5. CASE ListAll(i)
  <2>1. \A t \in poller'[i].todo : Good(t.row)
    BY <1>5, ListAllShape DEF TypeInv, RowInv
  <2> QED
    BY <1>5, <2>1, ListAllShape, <1>1
<1>6. CASE CheckOne(i)
  <2>1. \A t \in poller[i].todo : Good(t.row)
    BY DEF TypeInv, HeldInv
  <2> QED
    BY <1>6, <2>1, CheckOneShape, <1>1 DEF Stores, Drops
<1>7. CASE UpdateLastUID(i)
  BY <1>7, <1>3, <1>4, UpdateShape
<1>8. CASE Send(i)
  BY <1>8, <1>3, <1>4, SendShape
<1>9. CASE RemoveSubscription(i)
  BY <1>9, <1>3, RemoveShape
<1>10. CASE Fetch(i)
  BY <1>10, FetchShape, <1>1 DEF Drops, TypeInv, HeldInv
<1> QED
  BY <1>2, <1>5, <1>6, <1>7, <1>8, <1>9, <1>10 DEF Poll

\* The UID that is stored is one the inbox can have.
LEMMA RowStep ==
  ASSUME TypeInv, [Next]_vars
  PROVE  RowInv' /\ row' \in [Endpoints -> Rows] /\ subs' \in 0..MaxSubs
<1> USE DEF TypeInv, TypeOK, RowInv
<1>1. ASSUME NEW e \in Endpoints, NEW m \in Mailboxes, NEW pw \in 1..password[m],
             WebPushSubscribe(e, m, pw)
      PROVE  RowInv' /\ row' \in [Endpoints -> Rows] /\ subs' \in 0..MaxSubs
  <2> DEFINE r == [sub |-> subs + 1, box |-> m, password |-> pw, last |-> 0, base |-> -1]
  <2>1. r \in Rows /\ Good(r)
    BY <1>1, WebPushAssumption DEF WebPushSubscribe, Rows, Good
  <2>2. row' = [row EXCEPT ![e] = r] /\ subs' \in 0..MaxSubs
    BY <1>1, WebPushAssumption DEF WebPushSubscribe, FirstUID
  <2> HIDE DEF r
  <2> QED
    BY <2>1, <2>2
<1>2. ASSUME NEW e \in Endpoints, row' = [row EXCEPT ![e] = NoRow], subs' = subs
      PROVE  RowInv' /\ row' \in [Endpoints -> Rows] /\ subs' \in 0..MaxSubs
  BY <1>2, NoRowTyped
<1>3. ASSUME NEW i \in Instances, UpdateLastUID(i)
      PROVE  RowInv' /\ row' \in [Endpoints -> Rows] /\ subs' \in 0..MaxSubs
  <2> DEFINE e == poller[i].at
             u == poller[i].uid
             r == [row[e] EXCEPT !.last = u]
             s == [r EXCEPT !.base = IF @ = -1 THEN u ELSE @]
  <2>1. e \in Endpoints /\ u \in 0..MaxMail
    BY <1>3 DEF UpdateLastUID, At, HeldInv, Holds, Pollers
  <2>2. subs' = subs
    BY <1>3 DEF UpdateLastUID
  <2>3. CASE row' = row
    BY <2>2, <2>3
  <2>4. CASE row[e] # NoRow /\ row' # row
    <3>1. row' = [row EXCEPT ![e].last = u, ![e].base = IF @ = -1 THEN u ELSE @]
      BY <1>3, <2>4 DEF UpdateLastUID, UIDToStore
    <3>2. row' = [row EXCEPT ![e] = s]
      BY <2>1, <3>1 DEF Rows
    <3>3. r \in Rows /\ r.sub = row[e].sub /\ r.box = row[e].box
      BY <2>1 DEF Rows
    <3>4. s \in Rows /\ s.sub = row[e].sub /\ s.box = row[e].box
      <4> HIDE DEF r
      <4> QED
        BY <2>1, <3>3, WebPushAssumption DEF Rows
    <3> HIDE DEF s
    <3> QED
      BY <2>1, <2>2, <2>4, <3>2, <3>4 DEF Good
  <2> QED
    BY <1>3, <2>3, <2>4 DEF UpdateLastUID
<1>4. ASSUME NEW i \in Instances, RemoveSubscription(i)
      PROVE  RowInv' /\ row' \in [Endpoints -> Rows] /\ subs' \in 0..MaxSubs
  <2>1. poller[i].at \in Endpoints
    BY <1>4 DEF RemoveSubscription, At, HeldInv, Holds
  <2> QED
    BY <1>2, <1>4, <2>1 DEF RemoveSubscription
<1>5. CASE UNCHANGED <<row, subs>>
  BY <1>5
<1>6. \/ UNCHANGED <<row, subs>>
      \/ \E i \in Instances : UpdateLastUID(i) \/ RemoveSubscription(i)
      \/ \E e \in Endpoints : WebPushUnsubscribe(e)
      \/ \E e \in Endpoints : \E m \in Mailboxes : \E pw \in 1..password[m] : WebPushSubscribe(e, m, pw)
  BY Zenon DEF Next, vars, StartUp, Poll, ReadKeys, InsertKeys, RereadKeys, ListAll, CheckOne, Fetch, Send,
               Crash, BrowserGone, Deliver, Expunge, ChangePassword
<1>7. ASSUME NEW e \in Endpoints, WebPushUnsubscribe(e)
      PROVE  RowInv' /\ row' \in [Endpoints -> Rows] /\ subs' \in 0..MaxSubs
  BY <1>2, <1>7 DEF WebPushUnsubscribe
<1> QED
  BY <1>1, <1>3, <1>4, <1>5, <1>6, <1>7

\* What is sent tells of messages of a subscription.
LEMMA NewsTyped ==
  ASSUME TypeInv, NEW i \in Instances, poller[i].step = "send"
  PROVE  News(i) \subseteq [at : Endpoints, sub : 1..MaxSubs, uid : 1..MaxMail]
<1>1. poller[i] \in Pollers /\ poller[i].at \in Endpoints /\ poller[i].row.sub >= 1
  BY DEF TypeInv, TypeOK, HeldInv, Holds, Good
<1>2. poller[i].row.sub \in 1..MaxSubs /\ poller[i].msgs \subseteq 1..MaxMail
  BY <1>1 DEF Pollers, Rows
<1> QED
  BY <1>1, <1>2 DEF News

LEMMA HistoryStep ==
  ASSUME TypeInv, [Next]_vars
  PROVE  /\ notified' \subseteq [at : Endpoints, sub : 1..MaxSubs, uid : 1..MaxMail]
         /\ early' \subseteq notified'
         /\ {again, old, crossed, together, wronged}' \subseteq BOOLEAN
<1> USE DEF TypeInv, TypeOK
<1>1. ASSUME NEW i \in Instances, Send(i)
      PROVE  notified' \subseteq [at : Endpoints, sub : 1..MaxSubs, uid : 1..MaxMail]
  BY <1>1, NewsTyped, SendShape DEF Told, told
<1>2. (\A i \in Instances : ~ Send(i)) => UNCHANGED told
  BY Zenon DEF Next, vars, ghosts, told, StartUp, Poll, ReadKeys, InsertKeys, RereadKeys, ListAll, CheckOne, Fetch,
               UpdateLastUID, RemoveSubscription, WebPushSubscribe, WebPushUnsubscribe,
               Crash, BrowserGone, Deliver, Expunge, ChangePassword
<1>3. ASSUME NEW i \in Instances, Send(i) PROVE {again, old}' \subseteq BOOLEAN
  BY <1>3, SendShape DEF Told, told
<1>4. crossed' \in BOOLEAN
  <2>1. (\A e \in Endpoints : \A m \in Mailboxes : \A pw \in 1..password[m] :
           ~ WebPushSubscribe(e, m, pw)) => crossed' = crossed
    BY Zenon DEF Next, vars, ghosts, told, StartUp, Poll, ReadKeys, InsertKeys, RereadKeys, ListAll, CheckOne, Fetch,
               UpdateLastUID, Send, RemoveSubscription, WebPushUnsubscribe,
               Crash, BrowserGone, Deliver, Expunge, ChangePassword
  <2> QED
    BY <2>1 DEF WebPushSubscribe
<1>5. together' \in BOOLEAN
  <2>1. (\A i \in Instances : ~ ListAll(i)) => together' = together
    BY Zenon DEF Next, vars, ghosts, told, StartUp, Poll, ReadKeys, InsertKeys, RereadKeys, CheckOne, Fetch,
               UpdateLastUID, Send, RemoveSubscription, WebPushSubscribe, WebPushUnsubscribe,
               Crash, BrowserGone, Deliver, Expunge, ChangePassword
  <2> QED
    BY <2>1 DEF ListAll
<1>6. wronged' \in BOOLEAN
  <2>1. (\A i \in Instances : ~ RemoveSubscription(i)) => wronged' = wronged
    BY Zenon DEF Next, vars, ghosts, told, StartUp, Poll, ReadKeys, InsertKeys, RereadKeys, ListAll, CheckOne, Fetch,
               UpdateLastUID, Send, WebPushSubscribe, WebPushUnsubscribe,
               Crash, BrowserGone, Deliver, Expunge, ChangePassword
  <2> QED
    BY <2>1 DEF RemoveSubscription
<1>7. ASSUME NEW i \in Instances, Send(i) PROVE early' \subseteq notified'
  BY <1>7, SendShape DEF Told, told
<1> QED
  BY <1>1, <1>2, <1>3, <1>4, <1>5, <1>6, <1>7 DEF told

\* Mail comes and goes; the highest UID only grows, and new mail is above it.
LEMMA MailStep ==
  ASSUME TypeInv, [Next]_vars
  PROVE  /\ given' \in [Mailboxes -> 0..MaxMail]
         /\ DOMAIN inbox' = Mailboxes
         /\ \A m \in Mailboxes :
              /\ inbox'[m] \subseteq 1..given'[m]
              /\ given[m] <= given'[m]
              /\ \A u \in inbox'[m] : u \in inbox[m] \/ u > given[m]
<1> USE DEF TypeInv, TypeOK
<1>1. (\A m \in Mailboxes : ~ Deliver(m) /\ ~ Expunge(m)) => UNCHANGED <<given, inbox>>
  BY Zenon DEF Next, vars, outside, StartUp, Poll, ReadKeys, InsertKeys, RereadKeys, ListAll, CheckOne, Fetch,
               UpdateLastUID, Send, RemoveSubscription, WebPushSubscribe, WebPushUnsubscribe,
               Crash, BrowserGone, ChangePassword
<1>2. ASSUME NEW k \in Mailboxes, Deliver(k), NEW m \in Mailboxes
      PROVE  /\ given' \in [Mailboxes -> 0..MaxMail] /\ DOMAIN inbox' = Mailboxes
             /\ inbox'[m] \subseteq 1..given'[m] /\ given[m] <= given'[m]
             /\ \A u \in inbox'[m] : u \in inbox[m] \/ u > given[m]
  <2>1. given[k] \in 0..MaxMail /\ given[m] \in 0..MaxMail /\ given[k] < MaxMail
    BY <1>2 DEF Deliver
  <2>2. given' = [given EXCEPT ![k] = given[k] + 1] /\ given'[k] = given[k] + 1
    BY <1>2 DEF Deliver
  <2>3. given' \in [Mailboxes -> 0..MaxMail] /\ given[m] <= given'[m]
    BY <2>1, <2>2, WebPushAssumption
  <2>4. inbox'[m] = (IF m = k THEN inbox[m] \union {given[m] + 1} ELSE inbox[m])
        /\ DOMAIN inbox' = Mailboxes
    BY <1>2, <2>2 DEF Deliver
  <2>5. inbox[m] \subseteq 1..given[m]
    OBVIOUS
  <2>6. ASSUME NEW u \in inbox'[m] PROVE u \in 1..given'[m] /\ (u \in inbox[m] \/ u > given[m])
    <3>1. u \in inbox[m] \/ (m = k /\ u = given[m] + 1)
      BY <2>4
    <3> QED
      BY <2>1, <2>2, <2>3, <2>5, <3>1
  <2> QED
    BY <2>3, <2>4, <2>6
<1>3. ASSUME NEW k \in Mailboxes, Expunge(k), NEW m \in Mailboxes
      PROVE  /\ given' = given /\ DOMAIN inbox' = Mailboxes /\ inbox'[m] \subseteq inbox[m]
  BY <1>3 DEF Expunge
<1>4. \A m \in Mailboxes : given[m] \in Int /\ inbox[m] \subseteq 1..given[m]
  OBVIOUS
<1>5. CASE UNCHANGED <<given, inbox>>
  BY <1>4, <1>5
<1>6. CASE \E k \in Mailboxes : Deliver(k)
  BY <1>2, <1>6
<1>7. CASE \E k \in Mailboxes : Expunge(k)
  BY <1>3, <1>4, <1>7
<1> QED
  BY <1>1, <1>5, <1>6, <1>7

LEMMA WorldStep ==
  ASSUME TypeInv, [Next]_vars
  PROVE  /\ vapid' \in Instances \union {None} /\ live' \subseteq Endpoints
         /\ faults' \in 0..MaxFaults
         /\ given' \in [Mailboxes -> 0..MaxMail]
         /\ DOMAIN inbox' = Mailboxes /\ \A m \in Mailboxes : inbox'[m] \subseteq 1..given'[m]
         /\ password' \in [Mailboxes -> 1..MaxPasswords]
<1> USE DEF TypeInv, TypeOK
<1>1. vapid' \in Instances \union {None}
  <2>1. (\A i \in Instances : ~ InsertKeys(i)) => vapid' = vapid
    BY Zenon DEF Next, vars, StartUp, Poll, ReadKeys, RereadKeys, ListAll, CheckOne, Fetch,
               UpdateLastUID, Send, RemoveSubscription, WebPushSubscribe, WebPushUnsubscribe,
               Crash, BrowserGone, Deliver, Expunge, ChangePassword
  <2> QED
    BY <2>1 DEF InsertKeys
<1>2. live' \subseteq Endpoints
  <2>1. (\A e \in Endpoints : ~ BrowserGone(e)) => live' = live
    BY Zenon DEF Next, vars, outside, StartUp, Poll, ReadKeys, InsertKeys, RereadKeys, ListAll, CheckOne, Fetch,
               UpdateLastUID, Send, RemoveSubscription, WebPushSubscribe, WebPushUnsubscribe,
               Crash, Deliver, Expunge, ChangePassword
  <2> QED
    BY <2>1 DEF BrowserGone
<1>3. faults' \in 0..MaxFaults
  <2>1. (\A i \in Instances : ~ CheckOne(i)) => Fault \/ faults' = faults
    BY Zenon DEF Next, vars, StartUp, Poll, ReadKeys, InsertKeys, RereadKeys, ListAll, Fetch,
               UpdateLastUID, Send, RemoveSubscription, WebPushSubscribe, WebPushUnsubscribe,
               Crash, BrowserGone, Deliver, Expunge, ChangePassword
  <2>2. Fault \/ faults' = faults
    BY <2>1, CheckOneShape
  <2> QED
    BY <2>2, WebPushAssumption DEF Fault
<1>4. /\ given' \in [Mailboxes -> 0..MaxMail]
      /\ DOMAIN inbox' = Mailboxes /\ \A m \in Mailboxes : inbox'[m] \subseteq 1..given'[m]
  BY MailStep
<1>5. password' \in [Mailboxes -> 1..MaxPasswords]
  <2>1. (\A m \in Mailboxes : ~ ChangePassword(m)) => password' = password
    BY Zenon DEF Next, vars, outside, StartUp, Poll, ReadKeys, InsertKeys, RereadKeys, ListAll, CheckOne, Fetch,
               UpdateLastUID, Send, RemoveSubscription, WebPushSubscribe, WebPushUnsubscribe,
               Crash, BrowserGone, Deliver, Expunge
  <2> QED
    BY <2>1, WebPushAssumption DEF ChangePassword
<1> QED
  BY <1>1, <1>2, <1>3, <1>4, <1>5

LEMMA TypeInit == Init => TypeInv
<1> SUFFICES ASSUME Init PROVE TypeInv
  OBVIOUS
<1>1. TypeOK
  <2>1. row \in [Endpoints -> Rows] /\ poller \in [Instances -> Pollers]
    BY NoRowTyped, IdleTyped DEF Init, AtRest
  <2>2. given \in [Mailboxes -> 0..MaxMail] /\ password \in [Mailboxes -> 1..MaxPasswords]
    <3>1. 0..1 \subseteq 0..MaxMail /\ 1 \in 1..MaxPasswords
      BY WebPushAssumption
    <3> QED
      BY <3>1 DEF Init
  <2>3. {again, old, crossed, together, wronged} \subseteq BOOLEAN
    BY Zenon DEF Init
  <2>4. subs \in 0..MaxSubs /\ faults \in 0..MaxFaults
    BY WebPushAssumption DEF Init
  <2>6. DOMAIN inbox = Mailboxes /\ \A m \in Mailboxes : inbox[m] \subseteq 1..given[m]
    BY DEF Init
  <2>5. /\ vapid \in Instances \union {None} /\ live \subseteq Endpoints
        /\ notified \subseteq [at : Endpoints, sub : 1..MaxSubs, uid : 1..MaxMail]
        /\ early \subseteq notified
    BY DEF Init
  <2> QED
    BY <2>1, <2>2, <2>3, <2>4, <2>5, <2>6 DEF TypeOK
<1>2. HeldInv
  BY DEF Init, HeldInv, Holds, Down, Idle, Sweeping
<1> QED
  BY <1>1, <1>2 DEF TypeInv, RowInv, Init

LEMMA TypeNext == TypeInv /\ [Next]_vars => TypeInv'
<1> SUFFICES ASSUME TypeInv, [Next]_vars PROVE TypeInv'
  OBVIOUS
<1>1. HeldInv' /\ poller' \in [Instances -> Pollers]
  <2>1. (\A i \in Instances : ~ StartUp(i) /\ ~ Poll(i) /\ ~ Crash(i)) => poller' = poller
    BY Zenon DEF Next, vars, WebPushSubscribe, WebPushUnsubscribe, BrowserGone, Deliver, Expunge, ChangePassword
  <2>2. CASE poller' = poller
    BY <2>2 DEF TypeInv, TypeOK, HeldInv, Sweeping
  <2> QED
    BY <2>1, <2>2, HeldStep
<1> QED
  BY <1>1, RowStep, HistoryStep, WorldStep DEF TypeInv, TypeOK

\* Every variable has its type: a last_uid is one an inbox can give out, no message
\* is above the highest UID given out, and a UID told of is one of a message.
THEOREM Typing == Spec => []TypeOK
<1>1. TypeInv => TypeOK
  BY DEF TypeInv
<1> QED
  BY <1>1, TypeInit, TypeNext, PTL DEF Spec

-----------------------------------------------------------------------------
(* What a sweep holds against what is stored.                              *)

\* The sweep has still to be done with the row r of the endpoint e.
Taken(p, e, r) == [at |-> e, row |-> r] \in p.todo \/ (Holds(p) /\ p.at = e /\ p.row = r)

\* It has still to store what it finds.
Open(p, e, r) ==
  [at |-> e, row |-> r] \in p.todo \/ (p.step \in {"fetch", "update"} /\ p.at = e /\ p.row = r)

\* UpdateLastUID of the poller p was carried out on the row of e.
Stored(p, e) ==
  /\ p.at = e /\ row[e] # NoRow
  /\ row'[e].sub = row[e].sub /\ row'[e].box = row[e].box /\ row'[e].password = row[e].password
  /\ row'[e].last = p.uid /\ row'[e].base = IF row[e].base = -1 THEN p.uid ELSE row[e].base
  /\ \A d \in Endpoints : d # e => row'[d] = row[d]

Subscribed(e) == \E m \in Mailboxes : \E pw \in 1..password[m] : WebPushSubscribe(e, m, pw)

\* A sweep meets an endpoint once.
SweepInv ==
  \A i \in Instances :
    /\ \A t, u \in poller[i].todo : t.at = u.at => t = u
    /\ Holds(poller[i]) => \A t \in poller[i].todo : t.at # poller[i].at

\* The subscribe requests are numbered.
NumbersInv ==
  /\ \A e \in Endpoints : row[e].sub <= subs
  /\ \A n \in notified : n.sub <= subs
  /\ \A i \in Instances, e \in Endpoints, r \in Rows :
       Taken(poller[i], e, r) => r.sub <= subs

\* One request, one mailbox and password; nobody subscribes with a password of
\* the future.
OriginInv ==
  /\ \A e \in Endpoints : row[e] # NoRow => row[e].password <= password[row[e].box]
  /\ \A i \in Instances, e \in Endpoints, r \in Rows :
       Taken(poller[i], e, r) =>
         /\ r.password <= password[r.box]
         /\ row[e].sub = r.sub => row[e].box = r.box /\ row[e].password = r.password

\* Before the first sweep of a row its last_uid is 0; the first sweep fetches and
\* sends nothing, and the later ones only when UIDs above it were given out.
BaseInv ==
  /\ \A e \in Endpoints : row[e].base = -1 => row[e].last = 0
  /\ \A i \in Instances, e \in Endpoints, r \in Rows :
       Taken(poller[i], e, r) => (r.base = -1 => r.last = 0)
  /\ \A i \in Instances :
       /\ poller[i].step = "update" => poller[i].row.last <= poller[i].uid
       /\ (\/ poller[i].step \in {"fetch", "send"}
           \/ poller[i].step = "update" /\ poller[i].msgs # {}) =>
            poller[i].row.last # 0 /\ poller[i].row.last < poller[i].uid

\* The UID to store was given out, or is the stored one; what is fetched is all new
\* or all old, and leaves out nothing that is there up to the UID to store.
MailInv ==
  \A i \in Instances :
    LET p == poller[i] IN
    /\ p.step \in {"fetch", "update"} => p.uid = p.row.last \/ p.uid <= given[p.row.box]
    /\ p.step = "update" /\ p.row.last # 0 =>
         \A u \in inbox[p.row.box] : p.row.last < u /\ u <= p.uid => u \in p.msgs
    /\ (\E u \in p.msgs : u > p.row.last) => \A u \in p.msgs : u > p.row.last

LEMMA TakenTyped ==
  ASSUME TypeInv, NEW i \in Instances, NEW e, NEW r, Taken(poller[i], e, r)
  PROVE  e \in Endpoints /\ r \in Rows /\ Good(r)
<1>1. poller[i] \in Pollers
  BY DEF TypeInv, TypeOK
<1>2. CASE [at |-> e, row |-> r] \in poller[i].todo
  <2> DEFINE t == [at |-> e, row |-> r]
  <2>1. t \in Items /\ Good(t.row)
    BY <1>1, <1>2 DEF Pollers, Items, TypeInv, HeldInv
  <2> QED
    BY <2>1 DEF Items
<1>3. CASE Holds(poller[i]) /\ poller[i].at = e /\ poller[i].row = r
  BY <1>1, <1>3 DEF Pollers, TypeInv, HeldInv
<1> QED
  BY <1>2, <1>3 DEF Taken

\* A poller changes by a step of its own.
LEMMA Movers ==
  ASSUME TypeInv, [Next]_vars, NEW i \in Instances
  PROVE  poller'[i] = poller[i] \/ StartUp(i) \/ Crash(i) \/ Poll(i)
<1>1. poller' = poller \/ \E j \in Instances : StartUp(j) \/ Poll(j) \/ Crash(j)
  BY Zenon DEF Next, vars, WebPushSubscribe, WebPushUnsubscribe, BrowserGone, Deliver, Expunge, ChangePassword
<1>2. ASSUME NEW j \in Instances, StartUp(j) \/ Poll(j) \/ Crash(j) PROVE Only(j)
  BY <1>2, RestedShape, ListAllShape, CheckOneShape, FetchShape, UpdateShape, SendShape,
     RemoveShape DEF Poll
<1> QED
  BY <1>1, <1>2 DEF Only

\* The update finds the row, or there is none, or it fails.
LEMMA UpdateRow ==
  ASSUME TypeInv, NEW i \in Instances, UpdateLastUID(i)
  PROVE  \/ UNCHANGED row /\ (Fault \/ row[poller[i].at] = NoRow)
         \/ Stored(poller[i], poller[i].at)
<1> USE DEF TypeInv, TypeOK
<1> DEFINE d == poller[i].at
           u == poller[i].uid
           r == [row[d] EXCEPT !.last = u]
           s == [r EXCEPT !.base = IF @ = -1 THEN u ELSE @]
<1>1. d \in Endpoints /\ row[d] \in Rows
  BY DEF UpdateLastUID, At, HeldInv, Holds
<1>2. CASE row[d] # NoRow /\ row' = [row EXCEPT ![d].last = u, ![d].base = IF @ = -1 THEN u ELSE @]
  <2>1. row' = [row EXCEPT ![d] = s]
    BY <1>1, <1>2 DEF Rows
  <2>2. /\ s.sub = row[d].sub /\ s.box = row[d].box /\ s.password = row[d].password
        /\ s.last = u /\ s.base = IF row[d].base = -1 THEN u ELSE row[d].base
    BY <1>1 DEF Rows
  <2> HIDE DEF s
  <2> QED
    BY <1>1, <1>2, <2>1, <2>2 DEF Stored
<1> QED
  BY <1>2 DEF UpdateLastUID, UIDToStore

\* The row of an endpoint changes by a request, a removal or a sweep that stores.
LEMMA RowMoves ==
  ASSUME TypeInv, [Next]_vars, NEW e \in Endpoints
  PROVE  \/ row'[e] = row[e]
         \/ row'[e] = NoRow
         \/ Subscribed(e)
         \/ \E i \in Instances : UpdateLastUID(i) /\ Stored(poller[i], e)
<1> USE DEF TypeInv, TypeOK
<1>1. \/ UNCHANGED row
      \/ \E i \in Instances : UpdateLastUID(i) \/ RemoveSubscription(i)
      \/ \E d \in Endpoints : WebPushUnsubscribe(d)
      \/ \E d \in Endpoints : \E m \in Mailboxes : \E pw \in 1..password[m] : WebPushSubscribe(d, m, pw)
  BY Zenon DEF Next, vars, StartUp, Poll, ReadKeys, InsertKeys, RereadKeys, ListAll, CheckOne, Fetch, Send,
               Crash, BrowserGone, Deliver, Expunge, ChangePassword
<1>2. ASSUME NEW i \in Instances, UpdateLastUID(i)
      PROVE  row'[e] = row[e] \/ Stored(poller[i], e)
  BY <1>2, UpdateRow DEF Stored
<1>3. ASSUME NEW i \in Instances, RemoveSubscription(i)
      PROVE  row'[e] = row[e] \/ row'[e] = NoRow
  BY <1>3 DEF RemoveSubscription
<1>4. ASSUME NEW d \in Endpoints, WebPushUnsubscribe(d)
      PROVE  row'[e] = row[e] \/ row'[e] = NoRow
  BY <1>4 DEF WebPushUnsubscribe
<1>5. ASSUME NEW d \in Endpoints, NEW m \in Mailboxes, NEW pw \in 1..password[m],
             WebPushSubscribe(d, m, pw)
      PROVE  row'[e] = row[e] \/ Subscribed(e)
  BY <1>5 DEF WebPushSubscribe, Subscribed
<1> QED
  BY <1>1, <1>2, <1>3, <1>4, <1>5

\* What a request stores.
LEMMA SubscribeRow ==
  ASSUME TypeInv, NEW e \in Endpoints, Subscribed(e)
  PROVE  /\ subs' = subs + 1
         /\ row'[e].sub = subs + 1 /\ row'[e].last = 0 /\ row'[e].base = -1
         /\ row'[e] # NoRow
         /\ row'[e].box \in Mailboxes /\ row'[e].password <= password[row'[e].box]
         /\ \A d \in Endpoints : d # e => row'[d] = row[d]
         /\ crossed' = (crossed \/ Held(e))
         /\ UNCHANGED <<given, inbox, password, live, poller, told, together, wronged, faults>>
<1>1. PICK m \in Mailboxes : \E pw \in 1..password[m] : WebPushSubscribe(e, m, pw)
  BY DEF Subscribed
<1>2. PICK pw \in 1..password[m] : WebPushSubscribe(e, m, pw)
  BY <1>1
<1> DEFINE r == [sub |-> subs + 1, box |-> m, password |-> pw, last |-> 0, base |-> -1]
<1>3. row' = [row EXCEPT ![e] = r] /\ subs' = subs + 1
  BY <1>2 DEF WebPushSubscribe, FirstUID
<1>4. row'[e] = r /\ \A d \in Endpoints : d # e => row'[d] = row[d]
  <2> HIDE DEF r
  <2> QED
    BY <1>3 DEF TypeInv, TypeOK
<1>5. pw <= password[m] /\ r # NoRow
  <2>1. password[m] \in Nat
    BY WebPushAssumption DEF TypeInv, TypeOK
  <2>2. r.box # NoRow.box \/ r.sub # NoRow.sub
    BY DEF NoRow, TypeInv, TypeOK
  <2> QED
    BY <2>1, <2>2
<1> QED
  BY <1>2, <1>3, <1>4, <1>5 DEF WebPushSubscribe, outside

\* Rows come into a sweep by ListAll.
LEMMA TakenStep ==
  ASSUME TypeInv, [Next]_vars, NEW i \in Instances, NEW e, NEW r, Taken(poller'[i], e, r)
  PROVE  \/ Taken(poller[i], e, r)
         \/ ListAll(i) /\ e \in Endpoints /\ r = row[e] /\ r # NoRow
<1>1. CASE poller'[i] = poller[i]
  BY <1>1
<1>2. CASE StartUp(i) \/ Crash(i)
  BY <1>2, RestedShape DEF AtRest, Taken, Holds
<1>3. CASE ListAll(i)
  <2>1. [at |-> e, row |-> r] \in poller'[i].todo
    BY <1>3, ListAllShape DEF Taken, Holds
  <2> DEFINE t == [at |-> e, row |-> r]
  <2>2. t.at \in Endpoints /\ t.row = row[t.at] /\ t.row # NoRow
    <3> HIDE DEF t
    <3>1. t \in poller'[i].todo
      BY <2>1 DEF t
    <3> QED
      BY <1>3, <3>1, ListAllShape
  <2> QED
    BY <1>3, <2>2
<1>4. CASE CheckOne(i)
  <2>1. PICK t \in poller[i].todo : /\ poller'[i].todo = poller[i].todo \ {t}
                                    /\ poller'[i].at = t.at /\ poller'[i].row = t.row
    BY <1>4, CheckOneShape
  <2>2. t = [at |-> t.at, row |-> t.row]
    BY DEF TypeInv, TypeOK, Pollers
  <2> QED
    BY <2>1, <2>2 DEF Taken
<1>5. CASE Between(poller'[i], poller[i].todo)
  BY <1>5 DEF Between, Taken, Holds
<1>6. ASSUME NEW s \in {"send", "remove"}, Keeps(i, s), Holds(poller[i])
      PROVE  Taken(poller[i], e, r)
  BY <1>6 DEF Keeps, Taken
<1>7. CASE UpdateLastUID(i)
  BY <1>5, <1>6, <1>7, UpdateShape DEF Holds
<1>8. CASE Send(i)
  BY <1>5, <1>6, <1>8, SendShape DEF Holds
<1>9. CASE RemoveSubscription(i)
  BY <1>5, <1>9, RemoveShape
<1>10. CASE Fetch(i)
  BY <1>10, FetchShape DEF Taken, Holds
<1> QED
  BY <1>1, <1>2, <1>3, <1>4, <1>7, <1>8, <1>9, <1>10, Movers DEF Poll

\* An action that is no request leaves subs, and none lowers it.
LEMMA SubsGrow ==
  ASSUME TypeInv, [Next]_vars
  PROVE  subs' = subs \/ \E e \in Endpoints : Subscribed(e)
  BY Zenon DEF Next, vars, Subscribed, StartUp, Poll, ReadKeys, InsertKeys, RereadKeys, ListAll, CheckOne, Fetch,
               UpdateLastUID, Send, RemoveSubscription, WebPushUnsubscribe,
               Crash, BrowserGone, Deliver, Expunge, ChangePassword

LEMMA SubsRise == ASSUME TypeInv, [Next]_vars PROVE subs' \in Int /\ subs \in Int /\ subs <= subs'
  BY SubsGrow, SubscribeRow DEF TypeInv, TypeOK

LEMMA PasswordsRise ==
  ASSUME TypeInv, [Next]_vars, NEW m \in Mailboxes
  PROVE  password[m] \in Int /\ password'[m] \in Int /\ password[m] <= password'[m]
<1>1. password' = password \/ \E k \in Mailboxes : ChangePassword(k)
  BY Zenon DEF Next, vars, outside, StartUp, Poll, ReadKeys, InsertKeys, RereadKeys, ListAll, CheckOne, Fetch,
               UpdateLastUID, Send, RemoveSubscription, WebPushSubscribe, WebPushUnsubscribe,
               Crash, BrowserGone, Deliver, Expunge
<1>2. password[m] \in Int
  BY DEF TypeInv, TypeOK
<1>3. ASSUME NEW k \in Mailboxes, ChangePassword(k) PROVE password'[m] \in Int /\ password[m] <= password'[m]
  BY <1>2, <1>3 DEF ChangePassword, TypeInv, TypeOK
<1> QED
  BY <1>1, <1>2, <1>3

LEMMA NotifiedStep ==
  ASSUME TypeInv, [Next]_vars
  PROVE  \/ UNCHANGED <<notified, early>>
         \/ \E i \in Instances : Send(i) /\ Told(i) /\ notified' = notified \union News(i)
<1>1. (\A i \in Instances : ~ Send(i)) => UNCHANGED told
  <2>1. ASSUME NEW i \in Instances, Poll(i), ~ Send(i) PROVE UNCHANGED told
    BY <2>1 DEF Poll, ListAll, CheckOne, Fetch, UpdateLastUID, RemoveSubscription, ghosts, told
  <2>2. ASSUME NEW i \in Instances, StartUp(i) \/ Crash(i) PROVE UNCHANGED told
    BY <2>2 DEF StartUp, ReadKeys, InsertKeys, RereadKeys, Crash, ghosts, told
  <2>3. ASSUME NEW e \in Endpoints, WebPushUnsubscribe(e) \/ BrowserGone(e)
        PROVE  UNCHANGED told
    BY <2>3 DEF WebPushUnsubscribe, BrowserGone, ghosts, told
  <2>4. ASSUME NEW e \in Endpoints, NEW m \in Mailboxes, NEW pw \in 1..password[m],
               WebPushSubscribe(e, m, pw)
        PROVE  UNCHANGED told
    BY <2>4 DEF WebPushSubscribe
  <2>5. ASSUME NEW m \in Mailboxes, Deliver(m) \/ Expunge(m) \/ ChangePassword(m)
        PROVE  UNCHANGED told
    BY <2>5 DEF Deliver, Expunge, ChangePassword, ghosts
  <2> QED
    BY <2>1, <2>2, <2>3, <2>4, <2>5 DEF Next, vars, told
<1>2. ASSUME NEW i \in Instances, Send(i) PROVE Told(i) \/ UNCHANGED <<notified, early>>
  <2>1. Told(i) \/ UNCHANGED told
    BY <1>2, SendShape
  <2> QED
    BY <2>1 DEF told
<1>3. \A i \in Instances : Told(i) => notified' = notified \union News(i)
  BY DEF Told
<1> QED
  BY <1>1, <1>2, <1>3 DEF told

LEMMA SweepStep ==
  ASSUME TypeInv, SweepInv, [Next]_vars
  PROVE  SweepInv'
<1> SUFFICES ASSUME NEW i \in Instances
             PROVE  /\ \A t, u \in poller'[i].todo : t.at = u.at => t = u
                    /\ Holds(poller'[i]) => \A t \in poller'[i].todo : t.at # poller'[i].at
  BY DEF SweepInv
<1> USE DEF SweepInv, Holds
<1>1. CASE poller'[i] = poller[i]
  BY <1>1
<1>2. CASE StartUp(i) \/ Crash(i)
  BY <1>2, RestedShape DEF AtRest
<1>3. CASE ListAll(i)
  BY <1>3, ListAllShape
<1>4. CASE CheckOne(i)
  BY <1>4, CheckOneShape
<1>5. CASE Between(poller'[i], poller[i].todo)
  BY <1>5 DEF Between
<1>6. ASSUME NEW s \in {"send", "remove"}, Keeps(i, s), Holds(poller[i])
      PROVE  /\ \A t, u \in poller'[i].todo : t.at = u.at => t = u
             /\ Holds(poller'[i]) => \A t \in poller'[i].todo : t.at # poller'[i].at
  BY <1>6 DEF Keeps
<1>7. CASE UpdateLastUID(i)
  BY <1>5, <1>6, <1>7, UpdateShape
<1>8. CASE Send(i)
  BY <1>5, <1>6, <1>8, SendShape
<1>9. CASE RemoveSubscription(i)
  BY <1>5, <1>9, RemoveShape
<1>10. CASE Fetch(i)
  BY <1>10, FetchShape
<1> QED
  BY <1>1, <1>2, <1>3, <1>4, <1>7, <1>8, <1>9, <1>10, Movers DEF Poll

LEMMA NumbersStep ==
  ASSUME TypeInv, NumbersInv, [Next]_vars
  PROVE  NumbersInv'
<1> USE DEF NumbersInv
<1>1. subs' \in Int /\ subs \in Int /\ subs <= subs'
  BY SubsRise
<1>2. \A e \in Endpoints : row[e].sub \in Int
  BY DEF TypeInv, TypeOK, Rows
<1>3. ASSUME NEW e \in Endpoints PROVE row'[e].sub <= subs'
  <2>1. NoRow.sub = 0 /\ subs >= 0
    BY DEF NoRow, TypeInv, TypeOK
  <2>2. CASE Subscribed(e)
    BY <1>1, <2>2, SubscribeRow
  <2> QED
    BY <1>1, <1>2, <2>1, <2>2, RowMoves DEF Stored
<1>4. ASSUME NEW n \in notified' PROVE n.sub <= subs'
  <2>1. CASE n \in notified
    <3>1. n.sub \in Int
      BY <2>1 DEF TypeInv, TypeOK
    <3> QED
      BY <1>1, <2>1, <3>1
  <2>2. ASSUME NEW i \in Instances, Send(i), n \in News(i) PROVE n.sub <= subs'
    <3>1. n.sub = poller[i].row.sub
      BY <2>2 DEF News
    <3>2. Taken(poller[i], poller[i].at, poller[i].row)
      BY <2>2, SendShape DEF Taken, Holds
    <3>3. poller[i].row \in Rows /\ poller[i].at \in Endpoints
      BY <3>2, TakenTyped
    <3>4. poller[i].row.sub \in Int
      BY <3>3 DEF Rows
    <3> QED
      BY <1>1, <3>1, <3>2, <3>3, <3>4
  <2> QED
    BY <2>1, <2>2, NotifiedStep
<1>5. ASSUME NEW i \in Instances, NEW e \in Endpoints, NEW r \in Rows, Taken(poller'[i], e, r)
      PROVE  r.sub <= subs'
  <2>1. r.sub \in Int
    BY DEF Rows
  <2>2. r.sub <= subs
    BY <1>5, TakenStep
  <2> QED
    BY <1>1, <2>1, <2>2
<1> QED
  BY <1>3, <1>4, <1>5

LEMMA OriginStep ==
  ASSUME TypeInv, NumbersInv, OriginInv, [Next]_vars
  PROVE  OriginInv'
<1> USE DEF OriginInv
<1>1. ASSUME NEW e \in Endpoints, row'[e] # NoRow PROVE row'[e].password <= password'[row'[e].box]
  <2>1. CASE Subscribed(e)
    BY <2>1, SubscribeRow
  <2>2. CASE row'[e].box = row[e].box /\ row'[e].password = row[e].password /\ row[e] # NoRow
    <3>1. row[e].box \in Mailboxes /\ row[e].password \in Int
      BY <2>2 DEF TypeInv, RowInv, Good, TypeOK, Rows
    <3> QED
      BY <2>2, <3>1, PasswordsRise
  <2> QED
    BY <1>1, <2>1, <2>2, RowMoves DEF Stored
<1>2. ASSUME NEW i \in Instances, NEW e \in Endpoints, NEW r \in Rows, Taken(poller'[i], e, r)
      PROVE  /\ r.password <= password'[r.box]
             /\ row'[e].sub = r.sub => row'[e].box = r.box /\ row'[e].password = r.password
  <2>1. CASE ListAll(i) /\ r = row[e] /\ r # NoRow
    BY <2>1 DEF ListAll, outside
  <2>2. CASE Taken(poller[i], e, r)
    <3>1. r.box \in Mailboxes /\ r.password \in Int /\ r.sub \in Int /\ r.sub >= 1 /\ r.sub <= subs
      BY <2>2, TakenTyped DEF Good, Rows, NumbersInv
    <3>2. r.password <= password'[r.box]
      BY <2>2, <3>1, PasswordsRise
    <3>3. CASE Subscribed(e)
      <4>1. row'[e].sub # r.sub
        BY <3>1, <3>3, SubscribeRow DEF TypeInv, TypeOK
      <4> QED
        BY <3>2, <4>1
    <3>4. CASE row'[e] = NoRow
      BY <3>1, <3>2, <3>4 DEF NoRow
    <3> QED
      BY <2>2, <3>2, <3>3, <3>4, RowMoves DEF Stored
  <2> QED
    BY <1>2, <2>1, <2>2, TakenStep
<1> QED
  BY <1>1, <1>2

LEMMA BaseStep ==
  ASSUME TypeInv, BaseInv, [Next]_vars
  PROVE  BaseInv'
<1> USE DEF BaseInv
<1>1. ASSUME NEW e \in Endpoints, row'[e].base = -1 PROVE row'[e].last = 0
  <2>1. CASE Subscribed(e)
    BY <2>1, SubscribeRow
  <2>2. ASSUME NEW i \in Instances, Stored(poller[i], e) PROVE row'[e].base # -1
    <3>1. poller[i].uid \in Nat
      BY DEF TypeInv, TypeOK, Pollers
    <3> QED
      BY <2>2, <3>1 DEF Stored
  <2> QED
    BY <1>1, <2>1, <2>2, RowMoves DEF NoRow
<1>2. ASSUME NEW i \in Instances, NEW e \in Endpoints, NEW r \in Rows, Taken(poller'[i], e, r)
      PROVE  r.base = -1 => r.last = 0
  BY <1>2, TakenStep
<1>3. ASSUME NEW i \in Instances
      PROVE  /\ poller'[i].step = "update" => poller'[i].row.last <= poller'[i].uid
             /\ (\/ poller'[i].step \in {"fetch", "send"}
                 \/ poller'[i].step = "update" /\ poller'[i].msgs # {}) =>
                  poller'[i].row.last # 0 /\ poller'[i].row.last < poller'[i].uid
  <2>1. CASE poller'[i] = poller[i]
    BY <2>1
  <2>2. CASE CheckOne(i)
    <3>1. PICK t \in poller[i].todo : /\ poller'[i].row = t.row /\ Good(t.row)
                                      /\ Stores(poller'[i], t) \/ Drops(poller'[i])
      BY <2>2, CheckOneShape
    <3>2. t.row \in Rows
      BY DEF TypeInv, TypeOK, Pollers
    <3>3. MustFetch(t.row) => t.row.last # 0 /\ t.row.last < Highest(t.row)
      BY <3>1, <3>2 DEF MustFetch, Highest, Rows, Good, TypeInv, TypeOK
    <3> QED
      BY <3>1, <3>2, <3>3, HighestTyped DEF Stores, Drops, TypeInv
  <2>3. CASE UpdateLastUID(i)
    BY <2>3, UpdateShape DEF Between, Keeps
  <2>4. CASE Fetch(i)
    <3>1. poller[i].row.last \in Int /\ poller[i].uid \in Int
      BY DEF TypeInv, TypeOK, Pollers, Rows
    <3> QED
      BY <2>4, <3>1, FetchShape DEF Drops
  <2>5. CASE ~ CheckOne(i) /\ ~ UpdateLastUID(i) /\ ~ Fetch(i) /\ poller'[i] # poller[i]
    <3>1. poller'[i].step \notin {"fetch", "update", "send"}
      BY <2>5, Movers, RestedShape, ListAllShape, SendShape, RemoveShape
         DEF Poll, AtRest, Between, Keeps
    <3> QED
      BY <3>1
  <2> QED
    BY <2>1, <2>2, <2>3, <2>4, <2>5
<1> QED
  BY <1>1, <1>2, <1>3

LEMMA MailInvStep ==
  ASSUME TypeInv, MailInv, [Next]_vars
  PROVE  MailInv'
<1> SUFFICES ASSUME NEW i \in Instances
             PROVE  LET p == poller'[i] IN
                    /\ p.step \in {"fetch", "update"} => p.uid = p.row.last \/ p.uid <= given'[p.row.box]
                    /\ p.step = "update" /\ p.row.last # 0 =>
                         \A u \in inbox'[p.row.box] : p.row.last < u /\ u <= p.uid => u \in p.msgs
                    /\ (\E u \in p.msgs : u > p.row.last) => \A u \in p.msgs : u > p.row.last
  BY DEF MailInv
<1>1. CASE poller'[i] = poller[i]
  <2> DEFINE p == poller[i]
             m == p.row.box
  <2>1. /\ p.step \in {"fetch", "update"} => p.uid = p.row.last \/ p.uid <= given[m]
        /\ p.step = "update" /\ p.row.last # 0 =>
             \A u \in inbox[m] : p.row.last < u /\ u <= p.uid => u \in p.msgs
        /\ (\E u \in p.msgs : u > p.row.last) => \A u \in p.msgs : u > p.row.last
    BY DEF MailInv
  <2>2. ASSUME p.step \in {"fetch", "update"}
        PROVE  /\ given[m] <= given'[m] /\ given[m] \in Int /\ given'[m] \in Int
               /\ p.uid \in Int /\ p.row.last \in Int /\ inbox'[m] \subseteq Int
               /\ \A u \in inbox'[m] : u \in inbox[m] \/ u > given[m]
    <3>1. m \in Mailboxes /\ p.uid \in Int /\ p.row.last \in Int
      BY <2>2 DEF TypeInv, TypeOK, HeldInv, Holds, Good, Pollers, Rows
    <3>2. given[m] \in Int
      BY <3>1 DEF TypeInv, TypeOK
    <3> HIDE DEF m, p
    <3> QED
      BY <3>1, <3>2, MailStep
  <2> HIDE DEF p, m
  <2>3. p.step \in {"fetch", "update"} => p.uid = p.row.last \/ p.uid <= given'[m]
    BY <2>1, <2>2
  <2>4. ASSUME p.step = "update", p.row.last # 0, NEW u \in inbox'[m], p.row.last < u, u <= p.uid
        PROVE  u \in p.msgs
    <3>1. u \in Int /\ (u \in inbox[m] \/ u > given[m])
      BY <2>2, <2>4
    <3>2. u > given[m] => FALSE
      BY <2>1, <2>2, <2>4, <3>1
    <3> QED
      BY <2>1, <2>4, <3>1, <3>2
  <2> QED
    BY <1>1, <2>1, <2>3, <2>4 DEF p, m
<1>2. CASE CheckOne(i)
  <2>1. PICK t \in poller[i].todo : /\ poller'[i].row = t.row /\ Good(t.row)
                                    /\ Stores(poller'[i], t) \/ Drops(poller'[i])
    BY <1>2, CheckOneShape
  <2>2. t.row \in Rows /\ UNCHANGED <<given, inbox>>
    BY <1>2 DEF TypeInv, TypeOK, Pollers, CheckOne, outside
  <2>3. CASE Drops(poller'[i])
    BY <2>3 DEF Drops
  <2>4. CASE Stores(poller'[i], t)
    <3> DEFINE r == t.row
    <3>1. Highest(r) = r.last \/ Highest(r) <= given[r.box]
      BY <2>1, <2>2, HighestTyped DEF TypeInv
    <3>2. ~ MustFetch(r) /\ r.last # 0 => Highest(r) = r.last
      <4>1. r.last \in Int /\ given[r.box] \in Int
        BY <2>1, <2>2 DEF Rows, Good, TypeInv, TypeOK
      <4> HIDE DEF r
      <4> QED
        BY <4>1 DEF MustFetch, Highest
    <3>3. ASSUME NEW u \in inbox[r.box], r.last < u, u <= r.last PROVE FALSE
      <4>1. u \in Int /\ r.last \in Int
        BY <2>1, <2>2 DEF Rows, Good, TypeInv, TypeOK
      <4> QED
        BY <3>3, <4>1
    <3>4. /\ poller'[i].row = r /\ poller'[i].uid = Highest(r) /\ poller'[i].msgs = {}
          /\ poller'[i].step = "update" => ~ MustFetch(r)
          /\ given' = given /\ inbox' = inbox
      BY <2>1, <2>2, <2>4 DEF Stores
    <3> DEFINE q == poller'[i]
    <3> HIDE DEF r
    <3>5. q.step \in {"fetch", "update"} => q.uid = q.row.last \/ q.uid <= given'[q.row.box]
      BY <3>1, <3>4
    <3>6. ASSUME q.step = "update", q.row.last # 0, NEW u \in inbox'[q.row.box],
                 q.row.last < u, u <= q.uid
          PROVE  FALSE
      <4>1. q.uid = r.last /\ q.row = r /\ inbox' = inbox
        BY <3>2, <3>4, <3>6
      <4> QED
        BY <3>3, <3>6, <4>1
    <3>7. q.msgs = {}
      BY <3>4
    <3> QED
      <4> HIDE DEF q
      <4>1. /\ q.step \in {"fetch", "update"} => q.uid = q.row.last \/ q.uid <= given'[q.row.box]
            /\ q.step = "update" /\ q.row.last # 0 =>
                 \A u \in inbox'[q.row.box] : q.row.last < u /\ u <= q.uid => u \in q.msgs
            /\ (\E u \in q.msgs : u > q.row.last) => \A u \in q.msgs : u > q.row.last
        BY <3>5, <3>6, <3>7
      <4> QED
        BY <4>1 DEF q
  <2> QED
    BY <2>1, <2>3, <2>4
<1>3. CASE Fetch(i)
  <2> DEFINE r == poller[i].row
             p == poller'[i]
  <2>1. p.row = r /\ UNCHANGED <<given, inbox>> /\ poller[i].step = "fetch"
    BY <1>3, FetchShape DEF Fetch, outside
  <2>2. /\ r.last \in Int /\ r.box \in Mailboxes /\ poller[i].uid \in Int
        /\ inbox[r.box] \subseteq Int /\ given[r.box] \in Int
    <3>1. r.last \in Int /\ r.box \in Mailboxes /\ poller[i].uid \in Int
      BY <2>1 DEF TypeInv, TypeOK, HeldInv, Holds, Good, Pollers, Rows
    <3> QED
      BY <3>1 DEF TypeInv, TypeOK
  <2>3. CASE Drops(p)
    BY <2>3 DEF Drops
  <2>4. ASSUME p.step = "update", p.uid = poller[i].uid,
               NEW n \in poller[i].uid..given[r.box],
               p.msgs = Fetched(r, {u \in inbox[r.box] : u <= n})
        PROVE  /\ \A u \in inbox[r.box] : r.last < u /\ u <= p.uid => u \in p.msgs
               /\ (\E u \in p.msgs : u > r.last) => \A u \in p.msgs : u > r.last
    <3> DEFINE S == {u \in inbox[r.box] : u <= n}
    <3>1. ASSUME NEW u \in inbox[r.box], r.last < u, u <= p.uid PROVE u \in p.msgs
      <4>1. u \in S
        BY <2>2, <2>4, <3>1
      <4> QED
        BY <2>2, <2>4, <3>1, <4>1 DEF Fetched
    <3>2. ASSUME NEW u \in p.msgs, u > r.last, NEW v \in p.msgs PROVE v > r.last
      <4>1. u \in S /\ v \in S /\ (v > r.last \/ \A w \in S : w <= v)
        BY <2>4, <3>2 DEF Fetched
      <4> QED
        BY <2>2, <3>2, <4>1
    <3> HIDE DEF p
    <3> QED
      BY <3>1, <3>2
  <2>5. p.step = "update" /\ p.uid = poller[i].uid => p.uid = r.last \/ p.uid <= given[r.box]
    BY <2>1 DEF MailInv
  <2> QED
    <3>1. \/ Drops(p)
          \/ /\ p.step = "update" /\ p.uid = poller[i].uid
             /\ \E n \in poller[i].uid..given[r.box] :
                   p.msgs = Fetched(r, {u \in inbox[r.box] : u <= n})
      BY <1>3, FetchShape
    <3> HIDE DEF p, r
    <3>2. p.row = r /\ given' = given /\ inbox' = inbox
      BY <2>1
    <3>3. CASE Drops(p)
      BY <2>3, <3>3 DEF p
    <3>4. CASE ~ Drops(p)
      BY <2>4, <2>5, <3>1, <3>2, <3>4 DEF p
    <3> QED
      BY <3>3, <3>4
<1>4. CASE UpdateLastUID(i) \/ Send(i)
  <2>1. poller'[i].step \notin {"fetch", "update"}
    BY <1>4, UpdateShape, SendShape DEF Between, Keeps
  <2>2. poller'[i].msgs = {} \/ (poller'[i].msgs = poller[i].msgs /\ poller'[i].row = poller[i].row)
    BY <1>4, UpdateShape, SendShape DEF Between, Keeps
  <2> QED
    BY <2>1, <2>2 DEF MailInv
<1>5. CASE StartUp(i) \/ Crash(i) \/ ListAll(i) \/ RemoveSubscription(i)
  <2>1. poller'[i].step \notin {"fetch", "update"} /\ poller'[i].msgs = {}
    BY <1>5, RestedShape, ListAllShape, RemoveShape DEF AtRest, Between
  <2> QED
    BY <2>1
<1> QED
  BY <1>1, <1>2, <1>3, <1>4, <1>5, Movers DEF Poll

-----------------------------------------------------------------------------
(* One sweep at a time, and nothing fails.                                 *)

AloneInv == Calm => \A i, j \in Instances : Sweeping(i) /\ Sweeping(j) => i = j

\* Nothing was told of above the stored UID, but for what was told of early.
ToldInv ==
  Calm => \A n \in notified \ early : n.sub = row[n.at].sub => n.uid <= row[n.at].last

\* What a sweep has still to store is as it is stored, unless the row is another
\* by now; and nothing was told of above its UID.
FreshInv ==
  Calm => \A i \in Instances, e \in Endpoints, r \in Rows :
    Open(poller[i], e, r) =>
      /\ row[e] = r \/ (row[e].sub # r.sub /\ row[e].last = 0)
      /\ \A n \in notified \ early : n.at = e /\ n.sub = r.sub => n.uid <= r.last

\* What a sweep is about to tell of is stored, and was not told of.
SendInv ==
  Calm => \A i \in Instances : poller[i].step = "send" =>
    /\ row[poller[i].at].sub = poller[i].row.sub => row[poller[i].at].last = poller[i].uid
    /\ \A n \in notified \ early :
         n.at = poller[i].at /\ n.sub = poller[i].row.sub => n.uid <= poller[i].row.last

CalmInv == AloneInv /\ ToldInv /\ FreshInv /\ SendInv

LEMMA CalmBack ==
  ASSUME TypeInv, [Next]_vars, Calm'
  PROVE  Calm /\ ~ Fault
<1>1. Fault \/ faults' = faults
  <2>1. (\A i \in Instances : ~ CheckOne(i)) => Fault \/ faults' = faults
    BY Zenon DEF Next, vars, StartUp, Poll, ReadKeys, InsertKeys, RereadKeys, ListAll, Fetch,
               UpdateLastUID, Send, RemoveSubscription, WebPushSubscribe, WebPushUnsubscribe,
               Crash, BrowserGone, Deliver, Expunge, ChangePassword
  <2> QED
    BY <2>1, CheckOneShape
<1>2. ~ Fault
  BY DEF Fault, Calm, TypeInv, TypeOK
<1>3. together => together'
  <2>1. (\A i \in Instances : ~ ListAll(i)) => together' = together
    BY Zenon DEF Next, vars, ghosts, told, StartUp, Poll, ReadKeys, InsertKeys, RereadKeys, CheckOne, Fetch,
               UpdateLastUID, Send, RemoveSubscription, WebPushSubscribe, WebPushUnsubscribe,
               Crash, BrowserGone, Deliver, Expunge, ChangePassword
  <2> QED
    BY <2>1 DEF ListAll
<1> QED
  BY <1>1, <1>2, <1>3 DEF Calm

LEMMA OpenTaken ==
  ASSUME NEW p, NEW e, NEW r, Open(p, e, r)
  PROVE  Taken(p, e, r)
  BY DEF Open, Taken, Holds

LEMMA TakenSweeps ==
  ASSUME TypeInv, NEW i \in Instances, NEW e, NEW r, Taken(poller[i], e, r)
  PROVE  Sweeping(i)
  BY DEF TypeInv, HeldInv, Taken, Holds, Sweeping

\* ListAll alone starts a sweep.
LEMMA SweepingStep ==
  ASSUME TypeInv, [Next]_vars, NEW i \in Instances, Sweeping(i)'
  PROVE  Sweeping(i) \/ ListAll(i)
<1>1. poller'[i].step \in {"sweep", "fetch", "update", "send", "remove"}
  BY DEF Sweeping
<1>2. CASE StartUp(i) \/ Crash(i)
  BY <1>1, <1>2, RestedShape DEF AtRest
<1>3. CASE CheckOne(i) \/ Fetch(i) \/ UpdateLastUID(i) \/ Send(i) \/ RemoveSubscription(i)
  BY <1>3 DEF Sweeping, CheckOne, Fetch, UpdateLastUID, Send, RemoveSubscription, At
<1> QED
  BY <1>1, <1>2, <1>3, Movers DEF Sweeping, Poll

LEMMA AloneStep ==
  ASSUME TypeInv, AloneInv, [Next]_vars
  PROVE  AloneInv'
<1> SUFFICES ASSUME Calm', NEW i \in Instances, NEW j \in Instances,
                    Sweeping(i)', Sweeping(j)', i # j
             PROVE  FALSE
  BY DEF AloneInv
<1>1. Calm
  BY CalmBack
<1>2. ASSUME NEW k \in Instances, NEW l \in Instances, k # l, ListAll(k), Sweeping(l)'
      PROVE  FALSE
  <2>1. Sweeping(l)
    BY <1>2, ListAllShape DEF Only, Sweeping
  <2> QED
    BY <1>2, <2>1 DEF ListAll, Calm
<1> QED
  BY <1>1, <1>2, SweepingStep DEF AloneInv

\* A sweep opens what it lists.
LEMMA OpenStep ==
  ASSUME TypeInv, [Next]_vars, NEW i \in Instances, NEW e, NEW r, Open(poller'[i], e, r)
  PROVE  \/ Open(poller[i], e, r)
         \/ ListAll(i) /\ e \in Endpoints /\ r = row[e] /\ r # NoRow
<1>1. Taken(poller'[i], e, r)
  BY OpenTaken
<1>2. CASE Taken(poller[i], e, r) /\ ~ Open(poller[i], e, r)
  <2>1. poller[i].step \in {"send", "remove"} /\ [at |-> e, row |-> r] \notin poller[i].todo
    BY <1>2 DEF Taken, Open, Holds
  <2>2. ~ StartUp(i) /\ ~ ListAll(i) /\ ~ CheckOne(i) /\ ~ Fetch(i) /\ ~ UpdateLastUID(i)
    BY <2>1 DEF StartUp, ReadKeys, InsertKeys, RereadKeys, ListAll, CheckOne, Fetch, UpdateLastUID, At
  <2>3. poller'[i].todo \subseteq poller[i].todo /\ poller'[i].step \notin {"fetch", "update"}
    <3>1. CASE poller'[i] = poller[i]
      BY <2>1, <3>1
    <3>2. CASE Crash(i)
      BY <3>2, RestedShape DEF AtRest
    <3>3. CASE Send(i)
      BY <3>3, SendShape DEF Between, Keeps
    <3>4. CASE RemoveSubscription(i)
      BY <3>4, RemoveShape DEF Between
    <3> QED
      BY <2>2, <3>1, <3>2, <3>3, <3>4, Movers DEF Poll
  <2> QED
    BY <2>1, <2>3 DEF Open
<1> QED
  BY <1>1, <1>2, TakenStep

\* What is stored is no longer open.
LEMMA StoredCloses ==
  ASSUME TypeInv, SweepInv, NEW i \in Instances, UpdateLastUID(i), NEW r
  PROVE  ~ Open(poller'[i], poller[i].at, r)
<1> DEFINE t == [at |-> poller[i].at, row |-> r]
<1>1. Holds(poller[i])
  BY UpdateShape DEF Holds
<1>2. t \notin poller[i].todo
  <2>1. t.at = poller[i].at
    OBVIOUS
  <2> HIDE DEF t
  <2> QED
    BY <1>1, <2>1 DEF SweepInv
<1>3. poller'[i].todo = poller[i].todo /\ poller'[i].step \notin {"fetch", "update"}
  BY UpdateShape DEF Between, Keeps
<1> QED
  BY <1>2, <1>3 DEF Open

LEMMA ToldStep ==
  ASSUME TypeInv, NumbersInv, BaseInv, CalmInv, [Next]_vars
  PROVE  ToldInv'
<1> SUFFICES ASSUME Calm', NEW n \in notified', n \notin early', n.sub = row'[n.at].sub
             PROVE  n.uid <= row'[n.at].last
  BY DEF ToldInv
<1>1. Calm /\ ~ Fault
  BY CalmBack
<1>2. ASSUME NEW i \in Instances, Send(i), Told(i), n \in News(i)
      PROVE  n.uid <= row'[n.at].last
  <2>1. poller[i].step = "send" /\ poller[i].uid \in Int /\ row' = row
    BY <1>2, SendShape DEF Send, TypeInv, TypeOK, Pollers
  <2>2. n.at = poller[i].at /\ n.sub = poller[i].row.sub /\ n.uid \in Int
    BY <1>2, <2>1, NewsTyped DEF News
  <2>3. n.uid <= poller[i].uid
    BY <1>2, <2>1, <2>2 DEF Told
  <2> QED
    BY <1>1, <2>1, <2>2, <2>3 DEF CalmInv, SendInv
<1>3. CASE n \in notified /\ n \notin early
  <2>1. /\ n.at \in Endpoints /\ n.uid \in Int /\ n.sub \in Int /\ n.sub >= 1 /\ n.sub <= subs
        /\ subs \in Int
    BY <1>3 DEF TypeInv, TypeOK, NumbersInv
  <2>2. n.sub = row[n.at].sub => n.uid <= row[n.at].last
    BY <1>1, <1>3 DEF CalmInv, ToldInv
  <2>3. CASE Subscribed(n.at)
    <3>1. row'[n.at].sub = subs + 1
      BY <2>1, <2>3, SubscribeRow
    <3> QED
      BY <2>1, <3>1
  <2>4. ASSUME NEW i \in Instances, UpdateLastUID(i), Stored(poller[i], n.at)
        PROVE  n.uid <= row'[n.at].last
    <3> DEFINE r == poller[i].row
    <3>1. Open(poller[i], n.at, r)
      BY <2>4, UpdateShape DEF Open, Stored
    <3>2. r \in Rows
      BY DEF TypeInv, TypeOK, Pollers
    <3>3. n.sub = row[n.at].sub /\ row'[n.at].last = poller[i].uid /\ poller[i].uid \in Nat
      BY <2>4 DEF Stored, TypeInv, TypeOK, Pollers
    <3>4. CASE row[n.at] = r
      <4>1. n.uid <= r.last
        BY <2>2, <3>3, <3>4
      <4>2. r.last <= poller[i].uid
        BY <2>4, UpdateShape DEF BaseInv
      <4> QED
        BY <2>1, <3>2, <3>3, <4>1, <4>2 DEF Rows
    <3>5. CASE row[n.at].last = 0
      BY <2>1, <2>2, <3>3, <3>5
    <3> HIDE DEF r
    <3> QED
      BY <1>1, <2>1, <3>1, <3>2, <3>4, <3>5 DEF CalmInv, FreshInv
  <2>5. CASE row'[n.at] = NoRow
    BY <2>1, <2>5 DEF NoRow
  <2> QED
    BY <2>1, <2>2, <2>3, <2>4, <2>5, RowMoves
<1> QED
  BY <1>2, <1>3, NotifiedStep DEF Told

LEMMA FreshStep ==
  ASSUME TypeInv, SweepInv, NumbersInv, CalmInv, [Next]_vars
  PROVE  FreshInv'
<1> SUFFICES ASSUME Calm', NEW i \in Instances, NEW e \in Endpoints, NEW r \in Rows,
                    Open(poller'[i], e, r)
             PROVE  /\ row'[e] = r \/ (row'[e].sub # r.sub /\ row'[e].last = 0)
                    /\ \A n \in notified' \ early' : n.at = e /\ n.sub = r.sub => n.uid <= r.last
  BY DEF FreshInv
<1>1. Calm /\ ~ Fault
  BY CalmBack
<1>2. CASE ListAll(i) /\ r = row[e] /\ r # NoRow
  <2>1. row' = row /\ notified' = notified /\ early' = early
    BY <1>2 DEF ListAll, told
  <2> QED
    BY <1>1, <1>2, <2>1 DEF CalmInv, ToldInv
<1>3. CASE Open(poller[i], e, r)
  <2>1. Sweeping(i) /\ r.sub \in Int /\ r.sub >= 1 /\ r.sub <= subs /\ subs \in Int
    <3>1. Taken(poller[i], e, r)
      BY <1>3, OpenTaken
    <3> QED
      BY <3>1, TakenSweeps, TakenTyped DEF NumbersInv, Good, Rows, TypeInv, TypeOK
  <2>2. /\ row[e] = r \/ (row[e].sub # r.sub /\ row[e].last = 0)
        /\ \A n \in notified \ early : n.at = e /\ n.sub = r.sub => n.uid <= r.last
    BY <1>1, <1>3 DEF CalmInv, FreshInv
  <2>3. row'[e] = r \/ (row'[e].sub # r.sub /\ row'[e].last = 0)
    <3>1. CASE Subscribed(e)
      <4>1. row'[e].sub = subs + 1 /\ row'[e].last = 0
        BY <3>1, SubscribeRow
      <4> QED
        BY <2>1, <4>1
    <3>2. CASE row'[e] = NoRow
      BY <2>1, <3>2 DEF NoRow
    <3>3. ASSUME NEW j \in Instances, UpdateLastUID(j), Stored(poller[j], e) PROVE FALSE
      <4>1. Sweeping(j)
        BY <3>3 DEF UpdateLastUID, At, Sweeping
      <4>2. i = j
        BY <1>1, <2>1, <4>1 DEF CalmInv, AloneInv
      <4> QED
        BY <1>3, <3>3, <4>2, StoredCloses DEF Stored
    <3> QED
      BY <2>2, <3>1, <3>2, <3>3, RowMoves
  <2>4. ASSUME NEW n \in notified', n \notin early', n.at = e, n.sub = r.sub PROVE n.uid <= r.last
    <3>1. ASSUME NEW j \in Instances, Send(j), n \in News(j) PROVE FALSE
      <4>1. Sweeping(j) /\ poller[j].step = "send" /\ Holds(poller[j])
        BY <3>1, SendShape DEF Sweeping, Holds
      <4>2. i = j
        BY <1>1, <2>1, <4>1 DEF CalmInv, AloneInv
      <4>3. n.at = poller[i].at
        BY <3>1, <4>2 DEF News
      <4> DEFINE t == [at |-> e, row |-> r]
      <4>4. t \in poller[i].todo /\ t.at = e
        BY <1>3, <4>1, <4>2 DEF Open
      <4> HIDE DEF t
      <4> QED
        BY <2>4, <4>1, <4>2, <4>3, <4>4 DEF SweepInv
    <3> QED
      BY <2>2, <2>4, <3>1, NotifiedStep DEF Told
  <2> QED
    BY <2>3, <2>4
<1> QED
  BY <1>2, <1>3, OpenStep

LEMMA SendInvStep ==
  ASSUME TypeInv, NumbersInv, CalmInv, [Next]_vars
  PROVE  SendInv'
<1> SUFFICES ASSUME Calm', NEW i \in Instances, poller'[i].step = "send"
             PROVE  /\ row'[poller'[i].at].sub = poller'[i].row.sub =>
                         row'[poller'[i].at].last = poller'[i].uid
                    /\ \A n \in notified' \ early' :
                         n.at = poller'[i].at /\ n.sub = poller'[i].row.sub =>
                           n.uid <= poller'[i].row.last
  BY DEF SendInv
<1>1. Calm /\ ~ Fault
  BY CalmBack
<1> DEFINE e == poller[i].at
           r == poller[i].row
<1>2. CASE UpdateLastUID(i)
  <2>1. Keeps(i, "send") /\ poller[i].step = "update"
        /\ notified' = notified /\ early' = early
    BY <1>2, UpdateShape DEF Between, UpdateLastUID, ghosts, told
  <2>2. e \in Endpoints /\ r \in Rows /\ Open(poller[i], e, r) /\ r.sub \in Int /\ r.sub >= 1
    BY <2>1 DEF Open, TypeInv, TypeOK, HeldInv, Holds, Pollers, Good, Rows
  <2>3. row'[e].sub = r.sub => row'[e].last = poller[i].uid
    BY <1>1, <1>2, <2>2, UpdateRow DEF Stored, NoRow
  <2>4. \A n \in notified \ early : n.at = e /\ n.sub = r.sub => n.uid <= r.last
    BY <1>1, <2>2 DEF CalmInv, FreshInv
  <2> QED
    BY <2>1, <2>3, <2>4 DEF Keeps
<1>3. CASE poller'[i] = poller[i] /\ ~ Send(i)
  <2>1. /\ Sweeping(i) /\ e \in Endpoints /\ r.sub \in Int /\ r.sub >= 1 /\ r.sub <= subs
        /\ subs \in Int
    <3>1. Taken(poller[i], e, r)
      BY <1>3 DEF Taken, Holds
    <3> QED
      BY <3>1, TakenSweeps, TakenTyped DEF NumbersInv, Good, Rows, TypeInv, TypeOK
  <2>2. /\ row[e].sub = r.sub => row[e].last = poller[i].uid
        /\ \A n \in notified \ early : n.at = e /\ n.sub = r.sub => n.uid <= r.last
    BY <1>1, <1>3 DEF CalmInv, SendInv
  <2>3. row'[e].sub = r.sub => row'[e].last = poller[i].uid
    <3>1. CASE Subscribed(e)
      <4>1. row'[e].sub = subs + 1
        BY <2>1, <3>1, SubscribeRow
      <4> QED
        BY <2>1, <4>1
    <3>2. CASE row'[e] = NoRow
      BY <2>1, <3>2 DEF NoRow
    <3>3. ASSUME NEW j \in Instances, UpdateLastUID(j) PROVE FALSE
      <4>1. Sweeping(j) /\ poller[j].step = "update"
        BY <3>3 DEF UpdateLastUID, At, Sweeping
      <4>2. i = j
        BY <1>1, <2>1, <4>1 DEF CalmInv, AloneInv
      <4> QED
        BY <1>3, <4>1, <4>2
    <3> QED
      BY <2>1, <2>2, <3>1, <3>2, <3>3, RowMoves
  <2>4. ASSUME NEW j \in Instances, Send(j) PROVE FALSE
    <3>1. Sweeping(j)
      BY <2>4 DEF Send, At, Sweeping
    <3>2. i = j
      BY <1>1, <2>1, <3>1 DEF CalmInv, AloneInv
    <3> QED
      BY <1>3, <2>4, <3>2
  <2>5. notified' = notified /\ early' = early
    BY <2>4, NotifiedStep
  <2> QED
    BY <1>3, <2>2, <2>3, <2>5
<1>4. UpdateLastUID(i) \/ (poller'[i] = poller[i] /\ ~ Send(i))
  <2>1. Send(i) => FALSE
    BY SendShape DEF Between, Keeps
  <2>2. StartUp(i) \/ Crash(i) => FALSE
    BY RestedShape DEF AtRest
  <2>3. ListAll(i) => FALSE
    BY ListAllShape
  <2>4. CheckOne(i) => FALSE
    BY CheckOneShape DEF Stores, Drops
  <2>5. RemoveSubscription(i) => FALSE
    BY RemoveShape DEF Between
  <2>6. Fetch(i) => FALSE
    BY FetchShape DEF Drops
  <2> QED
    BY <2>1, <2>2, <2>3, <2>4, <2>5, <2>6, Movers DEF Poll
<1> QED
  BY <1>2, <1>3, <1>4

-----------------------------------------------------------------------------
(* What is told of, and what is removed.                                   *)

\* Without a request in between, the row of a sweep is the stored one or gone.
SameInv ==
  ~ crossed => \A i \in Instances, e \in Endpoints, r \in Rows :
    Taken(poller[i], e, r) => row[e] = NoRow \/ row[e].sub = r.sub

\* The baseline of a row is not above its last_uid, which was given out.
FloorInv ==
  Calm /\ ~ crossed =>
    /\ \A e \in Endpoints :
         /\ row[e].base <= row[e].last
         /\ row[e] # NoRow => row[e].last <= given[row[e].box]
    /\ \A i \in Instances, e \in Endpoints, r \in Rows :
         Taken(poller[i], e, r) => r.base <= r.last

HeardInv ==
  Calm /\ ~ crossed => \A e \in Endpoints :
    e \in live /\ row[e].base > 0 =>
      \A u \in (row[e].base + 1)..row[e].last : Announced(e, u) \/ u \notin inbox[row[e].box]

\* A row is removed because its browser is gone, because its password was
\* changed, or because IMAP failed.
RemovalInv ==
  \A i \in Instances : poller[i].step = "remove" =>
    \/ poller[i].at \notin live
    \/ poller[i].uid = 0 /\ (faults > 0 \/ ~ Accepted(poller[i].row))

LEMMA CrossedStays ==
  ASSUME TypeInv, [Next]_vars, crossed
  PROVE  crossed'
<1>1. (\A e \in Endpoints : \A m \in Mailboxes : \A pw \in 1..password[m] :
         ~ WebPushSubscribe(e, m, pw)) => crossed' = crossed
  BY Zenon DEF Next, vars, ghosts, told, StartUp, Poll, ReadKeys, InsertKeys, RereadKeys, ListAll, CheckOne, Fetch,
             UpdateLastUID, Send, RemoveSubscription, WebPushUnsubscribe,
             Crash, BrowserGone, Deliver, Expunge, ChangePassword
<1> QED
  BY <1>1 DEF WebPushSubscribe

LEMMA LiveShrinks ==
  ASSUME TypeInv, [Next]_vars
  PROVE  live' \subseteq live
<1>1. (\A e \in Endpoints : ~ BrowserGone(e)) => live' = live
  BY Zenon DEF Next, vars, outside, StartUp, Poll, ReadKeys, InsertKeys, RereadKeys, ListAll, CheckOne, Fetch,
             UpdateLastUID, Send, RemoveSubscription, WebPushSubscribe, WebPushUnsubscribe,
             Crash, Deliver, Expunge, ChangePassword
<1> QED
  BY <1>1 DEF BrowserGone

LEMMA SameStep ==
  ASSUME TypeInv, SameInv, [Next]_vars
  PROVE  SameInv'
<1> SUFFICES ASSUME ~ crossed', NEW i \in Instances, NEW e \in Endpoints, NEW r \in Rows,
                    Taken(poller'[i], e, r)
             PROVE  row'[e] = NoRow \/ row'[e].sub = r.sub
  BY DEF SameInv
<1>1. CASE ListAll(i) /\ r = row[e]
  BY <1>1 DEF ListAll
<1>2. CASE Taken(poller[i], e, r)
  <2>1. row[e] = NoRow \/ row[e].sub = r.sub
    BY <1>2, CrossedStays DEF SameInv
  <2>2. Held(e)
    <3> DEFINE t == [at |-> e, row |-> r]
    <3>1. CASE t \in poller[i].todo
      <4>1. t.at = e
        OBVIOUS
      <4> HIDE DEF t
      <4> QED
        BY <3>1, <4>1 DEF Held
    <3> QED
      BY <1>2, <3>1 DEF Taken, Held
  <2>3. CASE Subscribed(e)
    BY <2>2, <2>3, SubscribeRow
  <2> QED
    BY <2>1, <2>3, RowMoves DEF Stored
<1> QED
  BY <1>1, <1>2, TakenStep

\* What was announced, or was about to be, stays so while nothing fails.
LEMMA AnnouncedStep ==
  ASSUME TypeInv, [Next]_vars, Calm', NEW e \in Endpoints, e \in live',
         row'[e].sub = row[e].sub, NEW u, Announced(e, u)
  PROVE  Announced(e, u)'
<1> DEFINE n == [at |-> e, sub |-> row[e].sub, uid |-> u]
           Near(p) == /\ p.step = "send" /\ p.at = e /\ p.row.sub = row[e].sub
                      /\ u \in p.msgs
<1>1. SUFFICES n \in notified' \/ \E i \in Instances : Near(poller'[i])
  BY DEF Announced, At
<1>2. CASE n \in notified
  <2> HIDE DEF n
  <2> QED
    BY <1>2, NotifiedStep
<1>3. ASSUME NEW i \in Instances, Near(poller[i])
      PROVE  n \in notified' \/ Near(poller'[i])
  <2>1. CASE poller'[i] = poller[i]
    BY <1>3, <2>1
  <2>2. CASE Send(i)
    <3>1. poller[i].at \in live
      BY <1>3, LiveShrinks
    <3>2. Told(i)
      BY <2>2, <3>1, SendShape, CalmBack
    <3>3. n \in News(i)
      BY <1>3 DEF News
    <3> HIDE DEF n
    <3> QED
      BY <3>2, <3>3 DEF Told
  <2>3. poller'[i] = poller[i] \/ Send(i)
    <3>1. ~ Crash(i)
      BY CalmBack DEF Crash
    <3>2. ~ StartUp(i) /\ ~ ListAll(i) /\ ~ CheckOne(i) /\ ~ Fetch(i) /\ ~ UpdateLastUID(i)
          /\ ~ RemoveSubscription(i)
      BY <1>3 DEF StartUp, ReadKeys, InsertKeys, RereadKeys, ListAll, CheckOne, Fetch, UpdateLastUID,
                  RemoveSubscription, At
    <3> QED
      BY <3>1, <3>2, Movers DEF Poll
  <2> QED
    BY <2>1, <2>2, <2>3
<1>4. n \in notified \/ \E i \in Instances : Near(poller[i])
  BY DEF Announced, At
<1> QED
  BY <1>1, <1>2, <1>3, <1>4

\* While nothing failed and no request came in between, the row a sweep stores to
\* is the one it was given.
LEMMA StoredSame ==
  ASSUME TypeInv, BaseInv, MailInv, CalmInv, SameInv, Calm, ~ crossed,
         NEW e \in Endpoints, NEW i \in Instances, UpdateLastUID(i), Stored(poller[i], e)
  PROVE  /\ poller[i].step = "update" /\ row[e] = poller[i].row /\ row[e].box \in Mailboxes
         /\ row[e].last \in Nat /\ poller[i].uid \in Nat /\ row[e].base \in Int
         /\ row[e].last <= poller[i].uid
         /\ poller[i].uid = row[e].last \/ poller[i].uid <= given[row[e].box]
         /\ UNCHANGED <<given, inbox, live>>
<1> DEFINE r == poller[i].row
<1>1. /\ poller[i].step = "update" /\ poller[i].at = e /\ r \in Rows /\ r.box \in Mailboxes
      /\ poller[i].uid \in Nat /\ r.last <= poller[i].uid /\ r.last \in Nat /\ r.base \in Int
  BY UpdateShape DEF Stored, BaseInv, TypeInv, TypeOK, HeldInv, Holds, Good, Pollers, Rows
<1>2. Open(poller[i], e, r) /\ Taken(poller[i], e, r)
  BY <1>1 DEF Open, Taken, Holds
<1>3. row[e] # NoRow /\ row[e].sub = r.sub
  BY <1>1, <1>2 DEF Stored, SameInv
<1>4. row[e] = r
  BY <1>1, <1>2, <1>3 DEF CalmInv, FreshInv
<1>5. poller[i].uid = r.last \/ poller[i].uid <= given[r.box]
  BY <1>1 DEF MailInv
<1> QED
  BY <1>1, <1>4, <1>5 DEF UpdateLastUID, outside

LEMMA FloorStep ==
  ASSUME TypeInv, BaseInv, MailInv, CalmInv, SameInv, FloorInv, [Next]_vars
  PROVE  FloorInv'
<1> SUFFICES ASSUME Calm', ~ crossed'
             PROVE  /\ \A e \in Endpoints :
                         /\ row'[e].base <= row'[e].last
                         /\ row'[e] # NoRow => row'[e].last <= given'[row'[e].box]
                    /\ \A i \in Instances, e \in Endpoints, r \in Rows :
                         Taken(poller'[i], e, r) => r.base <= r.last
  BY DEF FloorInv
<1>1. Calm /\ ~ Fault /\ ~ crossed
  BY CalmBack, CrossedStays
<1>2. ASSUME NEW e \in Endpoints
      PROVE  /\ row'[e].base <= row'[e].last
             /\ row'[e] # NoRow => row'[e].last <= given'[row'[e].box]
  <2>1. /\ row[e].base <= row[e].last
        /\ row[e] # NoRow => row[e].last <= given[row[e].box]
    BY <1>1 DEF FloorInv
  <2>2. CASE row'[e] = row[e]
    <3>1. ASSUME row[e] # NoRow PROVE row[e].last <= given'[row[e].box]
      <4>1. row[e].box \in Mailboxes /\ row[e].last \in Int
        BY <3>1 DEF TypeInv, TypeOK, RowInv, Good, Rows
      <4>2. given[row[e].box] \in Int /\ given'[row[e].box] \in Int
        BY <4>1, MailStep DEF TypeInv, TypeOK
      <4> QED
        BY <2>1, <3>1, <4>1, <4>2, MailStep
    <3> QED
      BY <2>1, <2>2, <3>1
  <2>3. CASE row'[e] = NoRow
    BY <2>3 DEF NoRow
  <2>4. CASE Subscribed(e)
    <3>1. row'[e].last = 0 /\ row'[e].base = -1 /\ row'[e].box \in Mailboxes
      BY <2>4, SubscribeRow
    <3>2. given'[row'[e].box] \in Nat
      BY <3>1, MailStep
    <3> QED
      BY <3>1, <3>2
  <2>5. ASSUME NEW i \in Instances, UpdateLastUID(i), Stored(poller[i], e)
        PROVE  /\ row'[e].base <= row'[e].last
               /\ row'[e] # NoRow => row'[e].last <= given'[row'[e].box]
    <3>1. /\ row[e].last \in Nat /\ poller[i].uid \in Nat /\ row[e].base \in Int
          /\ row[e].last <= poller[i].uid
          /\ poller[i].uid = row[e].last \/ poller[i].uid <= given[row[e].box]
          /\ given' = given
      BY <1>1, <2>5, StoredSame
    <3>2. /\ row'[e].last = poller[i].uid /\ row'[e].box = row[e].box /\ row[e] # NoRow
          /\ row'[e].base = IF row[e].base = -1 THEN poller[i].uid ELSE row[e].base
      BY <2>5 DEF Stored
    <3> QED
      BY <2>1, <3>1, <3>2
  <2> QED
    BY <2>2, <2>3, <2>4, <2>5, RowMoves
<1>3. ASSUME NEW i \in Instances, NEW e \in Endpoints, NEW r \in Rows, Taken(poller'[i], e, r)
      PROVE  r.base <= r.last
  BY <1>1, <1>3, TakenStep DEF FloorInv
<1> QED
  BY <1>2, <1>3

LEMMA HeardStep ==
  ASSUME TypeInv, BaseInv, MailInv, CalmInv, SameInv, FloorInv, HeardInv, [Next]_vars
  PROVE  HeardInv'
<1> SUFFICES ASSUME Calm', ~ crossed', NEW e \in Endpoints, e \in live', row'[e].base > 0,
                    NEW u \in (row'[e].base + 1)..row'[e].last, u \in inbox'[row'[e].box]
             PROVE  Announced(e, u)'
  BY DEF HeardInv
<1>1. Calm /\ ~ Fault /\ ~ crossed /\ e \in live
  BY CalmBack, CrossedStays, LiveShrinks
<1>2. row[e].base > 0 =>
        \A v \in (row[e].base + 1)..row[e].last : Announced(e, v) \/ v \notin inbox[row[e].box]
  BY <1>1 DEF HeardInv
<1>3. CASE row'[e] = row[e]
  <2>1. row[e] # NoRow
    BY <1>3 DEF NoRow
  <2>2. row[e].box \in Mailboxes /\ row[e].last \in Int /\ row[e].base \in Int /\ u \in Int
    BY <1>3, <2>1 DEF TypeInv, TypeOK, RowInv, Good, Rows
  <2>3. row[e].last <= given[row[e].box] /\ given[row[e].box] \in Int
    BY <1>1, <2>1, <2>2 DEF FloorInv, TypeInv, TypeOK
  <2>4. u \in inbox[row[e].box] \/ u > given[row[e].box]
    BY <1>3, <2>2, MailStep
  <2>5. u \in inbox[row[e].box]
    BY <1>3, <2>2, <2>3, <2>4
  <2> QED
    BY <1>2, <1>3, <2>5, AnnouncedStep
<1>4. CASE row'[e] = NoRow
  BY <1>4 DEF NoRow
<1>5. CASE Subscribed(e)
  BY <1>5, SubscribeRow
<1>6. ASSUME NEW i \in Instances, UpdateLastUID(i), Stored(poller[i], e)
      PROVE  Announced(e, u)'
  <2> DEFINE r == row[e]
  <2>1. /\ poller[i].step = "update" /\ poller[i].row = r /\ poller[i].at = e
        /\ r.last \in Nat /\ poller[i].uid \in Nat /\ r.base \in Int
        /\ inbox' = inbox
    BY <1>1, <1>6, StoredSame DEF Stored
  <2>2. /\ row'[e].last = poller[i].uid /\ row'[e].sub = r.sub /\ row'[e].box = r.box
        /\ row'[e].base = IF r.base = -1 THEN poller[i].uid ELSE r.base
    BY <1>6 DEF Stored
  <2>3. /\ r.base # -1 /\ r.base > 0 /\ row'[e].base = r.base /\ r.base <= r.last
        /\ u \in Int /\ r.base < u /\ u <= poller[i].uid /\ u \in inbox[r.box]
    <3>1. r.base <= r.last
      BY <1>1 DEF FloorInv
    <3> HIDE DEF r
    <3> QED
      BY <2>1, <2>2, <3>1
  <2>4. CASE u <= r.last
    <3>1. Announced(e, u)
      BY <1>2, <2>1, <2>3, <2>4
    <3> QED
      BY <2>2, <3>1, AnnouncedStep
  <2>5. CASE u > r.last
    <3>1. u \in poller[i].msgs /\ r.last # 0
      <4>1. r.last < u /\ r.last # 0
        <5> HIDE DEF r
        <5> QED
          BY <2>1, <2>3, <2>5
      <4> QED
        BY <2>1, <2>3, <4>1 DEF MailInv
    <3>2. Keeps(i, "send")
      BY <1>6, <2>1, <3>1, UpdateShape
    <3>3. /\ poller'[i].step = "send" /\ poller'[i].at = e
          /\ poller'[i].row.sub = row'[e].sub /\ u \in poller'[i].msgs
      BY <2>1, <2>2, <3>1, <3>2 DEF Keeps
    <3> QED
      BY <3>3 DEF Announced, At
  <2> QED
    BY <2>1, <2>3, <2>4, <2>5
<1> QED
  BY <1>3, <1>4, <1>5, <1>6, RowMoves

\* No UID is told of twice, and the first sweep tells of none.
LEMMA TwiceStep ==
  ASSUME TypeInv, BaseInv, MailInv, CalmInv, FloorInv, ~ again, ~ old, [Next]_vars
  PROVE  ~ again' /\ ~ old'
<1>1. (\A i \in Instances : ~ Send(i)) => UNCHANGED told
  BY Zenon DEF Next, vars, ghosts, told, StartUp, Poll, ReadKeys, InsertKeys, RereadKeys, ListAll, CheckOne, Fetch,
             UpdateLastUID, RemoveSubscription, WebPushSubscribe, WebPushUnsubscribe,
             Crash, BrowserGone, Deliver, Expunge, ChangePassword
<1>2. ASSUME NEW i \in Instances, Send(i), Told(i) PROVE ~ again' /\ ~ old'
  <2> DEFINE r == poller[i].row
  <2>1. /\ poller[i].step = "send" /\ poller[i].at \in Endpoints /\ r \in Rows
        /\ poller[i].uid \in Int /\ r.last \in Int
    BY <1>2, SendShape DEF TypeInv, TypeOK, HeldInv, Holds, Pollers, Rows
  <2>2. Taken(poller[i], poller[i].at, r) /\ r.last # 0
    BY <2>1 DEF Taken, Holds, BaseInv
  <2>3. Swept(r)
    BY <2>1, <2>2 DEF BaseInv, Swept
  <2>4. ASSUME ~ LastAgain(i), NEW u \in poller[i].msgs PROVE u > r.last /\ u \in Int
    <3>1. poller[i].msgs \subseteq Int
      BY DEF TypeInv, TypeOK, Pollers
    <3>2. \E v \in poller[i].msgs : v > r.last
      BY <2>1, <2>4, <3>1 DEF LastAgain
    <3>3. (\E v \in poller[i].msgs : v > r.last) => \A v \in poller[i].msgs : v > r.last
      BY DEF MailInv
    <3> QED
      BY <2>4, <3>1, <3>2, <3>3
  <2>5. ASSUME Calm, ~ LastAgain(i), NEW n \in News(i), n \in notified \ early PROVE FALSE
    <3>1. n.at = poller[i].at /\ n.sub = r.sub /\ n.uid \in poller[i].msgs
      BY <2>5 DEF News
    <3>2. n.uid <= r.last
      BY <2>1, <2>5, <3>1 DEF CalmInv, SendInv
    <3>3. n.uid > r.last /\ n.uid \in Int
      BY <2>4, <2>5, <3>1
    <3> HIDE DEF r
    <3> QED
      BY <2>1, <3>2, <3>3
  <2>6. ASSUME Calm, ~ crossed, ~ LastAgain(i), NEW u \in poller[i].msgs, u <= r.base PROVE FALSE
    <3>1. r.base <= r.last /\ r.base \in Int
      BY <2>1, <2>2, <2>6 DEF FloorInv, Rows
    <3>2. u > r.last /\ u \in Int
      BY <2>4, <2>6
    <3> HIDE DEF r
    <3> QED
      BY <2>1, <2>6, <3>1, <3>2
  <2>7. ~ again'
    BY <1>2, <2>5 DEF Told
  <2>8. ~ old'
    BY <1>2, <2>3, <2>6 DEF Told
  <2> QED
    BY <2>7, <2>8
<1> QED
  BY <1>1, <1>2, SendShape DEF told

LEMMA RemovalStep ==
  ASSUME TypeInv, OriginInv, RemovalInv, [Next]_vars
  PROVE  RemovalInv'
<1> SUFFICES ASSUME NEW i \in Instances, poller'[i].step = "remove"
             PROVE  \/ poller'[i].at \notin live'
                    \/ /\ poller'[i].uid = 0
                       /\ faults' > 0 \/ poller'[i].row.password # password'[poller'[i].row.box]
  BY DEF RemovalInv, Accepted
<1> USE DEF Accepted
<1>1. faults \in Nat /\ faults' \in Nat /\ (faults > 0 => faults' > 0)
  <2>1. (\A j \in Instances : ~ CheckOne(j)) => Fault \/ faults' = faults
    BY Zenon DEF Next, vars, StartUp, Poll, ReadKeys, InsertKeys, RereadKeys, ListAll, Fetch,
               UpdateLastUID, Send, RemoveSubscription, WebPushSubscribe, WebPushUnsubscribe,
               Crash, BrowserGone, Deliver, Expunge, ChangePassword
  <2> QED
    BY <2>1, CheckOneShape DEF Fault, TypeInv, TypeOK
<1>2. CASE poller'[i] = poller[i]
  <2>1. poller[i].step = "remove" /\ Taken(poller[i], poller[i].at, poller[i].row)
    BY <1>2 DEF Taken, Holds
  <2>2. poller[i].at \in Endpoints /\ poller[i].row \in Rows /\ Good(poller[i].row)
    BY <2>1, TakenTyped
  <2>3. /\ poller[i].row.password \in Int /\ poller[i].row.box \in Mailboxes
        /\ poller[i].row.password <= password[poller[i].row.box]
    BY <2>1, <2>2 DEF OriginInv, Rows, Good
  <2>4. poller[i].row.password # password[poller[i].row.box] =>
          poller[i].row.password # password'[poller[i].row.box]
    BY <2>3, PasswordsRise
  <2> QED
    BY <1>1, <1>2, <2>1, <2>4, LiveShrinks DEF RemovalInv
<1>3. CASE CheckOne(i)
  <2>1. PICK t \in poller[i].todo :
          /\ poller'[i].row = t.row
          /\ \/ Stores(poller'[i], t) /\ UNCHANGED faults
             \/ Drops(poller'[i]) /\ (~ Accepted(t.row) \/ Fault)
    BY <1>3, CheckOneShape
  <2>2. password' = password
    BY <1>3 DEF CheckOne, outside
  <2> QED
    BY <1>1, <2>1, <2>2 DEF Stores, Drops, Fault
<1>4. CASE Send(i)
  <2>1. Keeps(i, "remove") /\ poller[i].at \notin live
    BY <1>4, SendShape DEF Between
  <2> QED
    BY <2>1, LiveShrinks DEF Keeps
<1>6. CASE Fetch(i)
  BY <1>1, <1>6, FetchShape DEF Drops, Fault
<1>5. poller'[i] = poller[i] \/ CheckOne(i) \/ Fetch(i) \/ Send(i)
  <2>1. StartUp(i) \/ Crash(i) => FALSE
    BY RestedShape DEF AtRest
  <2>2. ListAll(i) => FALSE
    BY ListAllShape
  <2>3. UpdateLastUID(i) => FALSE
    BY UpdateShape DEF Keeps, Between
  <2>4. RemoveSubscription(i) => FALSE
    BY RemoveShape DEF Between
  <2> QED
    BY <2>1, <2>2, <2>3, <2>4, Movers DEF Poll
<1> QED
  BY <1>2, <1>3, <1>4, <1>5, <1>6

\* A row is removed while it is good only if something failed, or if it is the
\* row of a later request.
LEMMA WrongedStep ==
  ASSUME TypeInv, OriginInv, SameInv, RemovalInv, ~ wronged, [Next]_vars
  PROVE  ~ wronged'
<1>1. (\A i \in Instances : ~ RemoveSubscription(i)) => wronged' = wronged
  BY Zenon DEF Next, vars, ghosts, told, StartUp, Poll, ReadKeys, InsertKeys, RereadKeys, ListAll, CheckOne, Fetch,
             UpdateLastUID, Send, WebPushSubscribe, WebPushUnsubscribe,
             Crash, BrowserGone, Deliver, Expunge, ChangePassword
<1>2. ASSUME NEW i \in Instances, RemoveSubscription(i) PROVE ~ wronged'
  <2> DEFINE e == poller[i].at
             r == poller[i].row
  <2>1. poller[i].step = "remove" /\ Taken(poller[i], e, r)
    BY <1>2, RemoveShape DEF Taken, Holds
  <2>2. e \in Endpoints /\ r \in Rows
    BY <2>1, TakenTyped
  <2>3. ASSUME ~ crossed, faults = 0 \/ Checked(i), row[e] # NoRow, Accepted(row[e]), e \in live
        PROVE  FALSE
    <3>1. poller[i].uid = 0 /\ ~ Accepted(r)
      BY <2>1, <2>3 DEF RemovalInv, Checked
    <3>2. row[e].sub = r.sub
      BY <2>1, <2>2, <2>3 DEF SameInv
    <3>3. row[e].box = r.box /\ row[e].password = r.password
      BY <2>1, <2>2, <3>2 DEF OriginInv
    <3> QED
      BY <2>3, <3>1, <3>3 DEF Accepted
  <2> QED
    BY <1>2, <2>3 DEF RemoveSubscription
<1> QED
  BY <1>1, <1>2

-----------------------------------------------------------------------------
PushInv ==
  /\ TypeInv /\ SweepInv /\ NumbersInv /\ OriginInv /\ BaseInv /\ MailInv
  /\ CalmInv /\ SameInv /\ FloorInv /\ HeardInv /\ RemovalInv
  /\ ~ again /\ ~ old /\ ~ wronged

LEMMA PushInit == Init => PushInv
<1> SUFFICES ASSUME Init PROVE PushInv
  OBVIOUS
<1>1. TypeInv
  BY TypeInit
<1>2. \A i \in Instances : poller[i].step = "down" /\ poller[i].todo = {}
  BY DEF Init, Down, Idle
<1>3. \A i \in Instances : \A e, r : ~ Taken(poller[i], e, r) /\ ~ Open(poller[i], e, r)
  BY <1>2 DEF Taken, Open, Holds
<1>4. /\ \A e \in Endpoints : row[e] = NoRow
      /\ notified = {} /\ subs = 0
  BY DEF Init
<1>5. SweepInv /\ AloneInv /\ SendInv /\ RemovalInv
  BY <1>2 DEF SweepInv, AloneInv, SendInv, RemovalInv, Holds, Sweeping
<1>9. MailInv
  BY DEF Init, MailInv, Down, Idle
<1>6. NumbersInv /\ OriginInv /\ BaseInv
  BY <1>2, <1>3, <1>4 DEF NumbersInv, OriginInv, BaseInv, NoRow
<1>7. ToldInv /\ FreshInv /\ SameInv /\ FloorInv /\ HeardInv
  BY <1>3, <1>4 DEF ToldInv, FreshInv, SameInv, FloorInv, HeardInv, NoRow
<1>8. ~ again /\ ~ old /\ ~ wronged
  BY DEF Init
<1> QED
  BY <1>1, <1>5, <1>6, <1>7, <1>8, <1>9 DEF PushInv, CalmInv

LEMMA PushNext == PushInv /\ [Next]_vars => PushInv'
<1> SUFFICES ASSUME PushInv, [Next]_vars PROVE PushInv'
  OBVIOUS
<1>1. TypeInv' /\ SweepInv' /\ NumbersInv' /\ OriginInv' /\ BaseInv' /\ MailInv'
  BY TypeNext, SweepStep, NumbersStep, OriginStep, BaseStep, MailInvStep DEF PushInv
<1>2. AloneInv'
  BY AloneStep DEF PushInv, CalmInv
<1>3. ToldInv' /\ FreshInv' /\ SendInv'
  BY ToldStep, FreshStep, SendInvStep DEF PushInv
<1>4. SameInv' /\ FloorInv' /\ HeardInv' /\ RemovalInv'
  BY SameStep, FloorStep, HeardStep, RemovalStep DEF PushInv
<1>5. ~ again' /\ ~ old' /\ ~ wronged'
  BY TwiceStep, WrongedStep DEF PushInv
<1> QED
  BY <1>1, <1>2, <1>3, <1>4, <1>5 DEF PushInv, CalmInv

\* A subscription hears of every message past its baseline once, and of none
\* before, with mail deleted at any time: but for what a FETCH with nothing new left
\* answers, and for what came between the SELECT and the FETCH.
THEOREM OnceEach == Spec => []EachMessageOnce
<1>1. PushInv => EachMessageOnce
  BY DEF PushInv, EachMessageOnce, HeardInv, Calm
<1> QED
  BY <1>1, PushInit, PushNext, PTL DEF Spec

\* A row goes only because it could not work: its browser is gone or its
\* password is old, unless IMAP failed or the browser subscribed again meanwhile.
THEOREM NoGoodRowGoes == Spec => []GoodRowsStay
<1>1. PushInv => GoodRowsStay
  BY DEF PushInv, GoodRowsStay
<1> QED
  BY <1>1, PushInit, PushNext, PTL DEF Spec
=============================================================================
