---------------------------- MODULE RateLimiter ----------------------------
(***************************************************************************)
(* internal/ratelimit: the per-key fixed-window limiter in front of login, *)
(* password reset and the API, shared by all request goroutines and swept  *)
(* by the collector of app.Run every ten minutes.                          *)
(*                                                                         *)
(* Allow and GC both read the clock BEFORE they take the mutex, so a       *)
(* goroutine may decide with a time other goroutines are already past. How  *)
(* far the clock moves on in between is bounded by stall, which is one of  *)
(* 0..MaxStall in each behaviour.                                          *)
(*                                                                         *)
(* Clock, initial states and steps have names of their own, so that the    *)
(* module can be extended together with ApiKeys.                           *)
(***************************************************************************)
EXTENDS Integers, FiniteSets

CONSTANTS
  Keys,         \* client addresses or API-key ids
  Goroutines,   \* requests being decided at the same time
  Limit,        \* max: requests per window, 0 disables the limiter
  Window,       \* window
  MaxStall,     \* bound on stall
  MaxClock,     \* bound on the clock
  MaxRequests   \* bound on requests per key

ASSUME LimiterAssumption ==
  /\ Limit \in Nat
  /\ Window \in Nat \ {0}
  /\ MaxStall \in Nat
  /\ MaxClock \in Nat
  /\ MaxRequests \in Nat

VARIABLES
  stall,     \* bound on the time between reading the clock and the mutex
  clock,     \* the clock
  entries,   \* key -> [count, windowStart], or NoEntry
  waiting,   \* goroutine -> [key, now] it is about to decide with, or Idle
  sweeper,   \* the clock value GC has read and not yet used, or NotSweeping
  unswept,   \* history: the entries as they would be without GC
  admitted,  \* history: the requests admitted, [key, at, start, nth]: decided with
             \* the clock value at, counted in the window that began at start
  windows,   \* history: <<key, start>> of every window opened
  requests   \* history: key -> requests decided

limiterVars == <<stall, clock, entries, waiting, sweeper, unswept, admitted, windows, requests>>

-----------------------------------------------------------------------------
Times == 0..MaxClock
NoEntry == [count |-> 0, windowStart |-> -1]
Idle == [key |-> "none", now |-> -1]
NotSweeping == -1

LimiterInit ==
  /\ stall \in 0..MaxStall
  /\ clock = 0
  /\ entries = [k \in Keys |-> NoEntry]
  /\ waiting = [g \in Goroutines |-> Idle]
  /\ sweeper = NotSweeping
  /\ unswept = [k \in Keys |-> NoEntry]
  /\ admitted = {}
  /\ windows = {}
  /\ requests = [k \in Keys |-> 0]

\* The window of entry e is over at time t: t - windowStart >= window.
Elapsed(e, t) == t - e.windowStart >= Window

\* A request at time t starts a fresh window.
Fresh(e, t) == e = NoEntry \/ Elapsed(e, t)

\* Mutant: one request too many.
Permits_OneMore(e, t) == Limit = 0 \/ Fresh(e, t) \/ e.count <= Limit

\* The request is permitted; with max <= 0 every request is.
Permits(e, t) == Limit = 0 \/ Fresh(e, t) \/ e.count < Limit

\* What Allow leaves in the map for the key.
After(e, t) ==
  IF Limit = 0 THEN e
  ELSE IF Fresh(e, t) THEN [count |-> 1, windowStart |-> t]
  ELSE IF e.count < Limit THEN [e EXCEPT !.count = @ + 1]
  ELSE e

-----------------------------------------------------------------------------
\* No goroutine stalls for longer than the behaviour allows.
ClockTick ==
  /\ clock < MaxClock
  /\ \A g \in Goroutines : waiting[g] # Idle => clock < waiting[g].now + stall
  /\ sweeper # NotSweeping => clock < sweeper + stall
  /\ clock' = clock + 1
  /\ UNCHANGED <<stall, entries, waiting, sweeper, unswept, admitted, windows, requests>>

\* Allow up to the mutex: now := l.now().
Arrive(g, k) ==
  /\ waiting[g] = Idle
  /\ requests[k] + Cardinality({h \in Goroutines : waiting[h].key = k}) < MaxRequests
  /\ waiting' = [waiting EXCEPT ![g] = [key |-> k, now |-> clock]]
  /\ UNCHANGED <<stall, clock, entries, sweeper, unswept, admitted, windows, requests>>

\* Allow under the mutex.
Decide(g) ==
  /\ waiting[g] # Idle
  /\ LET k == waiting[g].key
         t == waiting[g].now
     IN  /\ requests' = [requests EXCEPT ![k] = @ + 1]
         /\ entries' = [entries EXCEPT ![k] = After(@, t)]
         /\ unswept' = [unswept EXCEPT ![k] = After(@, t)]
         /\ windows' = IF Fresh(entries[k], t) THEN windows \cup {<<k, t>>} ELSE windows
         /\ admitted' = IF Permits(entries[k], t)
              THEN admitted \cup {[key |-> k, at |-> t, start |-> entries'[k].windowStart,
                                   nth |-> requests[k]]}
              ELSE admitted
  /\ waiting' = [waiting EXCEPT ![g] = Idle]
  /\ UNCHANGED <<stall, clock, sweeper>>

\* GC up to the mutex.
GCRead ==
  /\ sweeper = NotSweeping
  /\ sweeper' = clock
  /\ UNCHANGED <<stall, clock, entries, waiting, unswept, admitted, windows, requests>>

\* Mutant: GC drops every entry.
Collectable_All(e, t) == e # NoEntry

\* The entries GC deletes.
Collectable(e, t) == e # NoEntry /\ Elapsed(e, t)

\* GC under the mutex.
GC ==
  /\ sweeper # NotSweeping
  /\ entries' = [k \in Keys |-> IF Collectable(entries[k], sweeper)
                                  THEN NoEntry ELSE entries[k]]
  /\ sweeper' = NotSweeping
  /\ UNCHANGED <<stall, clock, waiting, unswept, admitted, windows, requests>>

LimiterNext ==
  \/ ClockTick
  \/ \E g \in Goroutines, k \in Keys : Arrive(g, k)
  \/ \E g \in Goroutines : Decide(g)
  \/ GCRead
  \/ GC

LimiterSpec == LimiterInit /\ [][LimiterNext]_limiterVars

-----------------------------------------------------------------------------
\* Requests of key k admitted with a clock value in [from, to).
AdmittedIn(k, from, to) ==
  Cardinality({a \in admitted : a.key = k /\ from <= a.at /\ a.at < to})

\* Every variable has its type; no entry counts past the budget.
LimiterTypeOK ==
  /\ stall \in 0..MaxStall
  /\ clock \in Times
  /\ entries \in [Keys -> [count : 0..Limit, windowStart : -1..MaxClock]]
  /\ waiting \in [Goroutines -> [key : Keys, now : Times] \cup {Idle}]
  /\ sweeper \in Times \cup {NotSweeping}
  /\ unswept \in [Keys -> [count : 0..Limit, windowStart : -1..MaxClock]]
  /\ admitted \subseteq [key : Keys, at : Times, start : -1..MaxClock, nth : Nat]
  /\ windows \subseteq Keys \X Times
  /\ requests \in [Keys -> Nat]

\* "Each key may make at most max requests within each window".  The price of
\* fixed windows: any other stretch of time as long as a window sees twice the
\* budget.  And of the clock read before the mutex: one budget more, if goroutines
\* stall for at most a third of a window.  With longer stalls the collector adds to
\* it: it drops the entry, and each goroutine that decides with an older time opens
\* another window.
BudgetIsKept ==
  Limit > 0 => \A k \in Keys, from \in Times :
    LET admittedSince == AdmittedIn(k, from, from + Window)
    IN  /\ stall = 0 /\ <<k, from>> \in windows => admittedSince <= Limit
        /\ stall = 0 => admittedSince <= 2 * Limit
        /\ 3 * stall <= Window => admittedSince <= 3 * Limit

\* The sweep frees memory and nothing else: the map with deleted entries
\* permits exactly the requests the map without a collector would permit, now
\* and at every later time, if nobody stalls.
GCIsTransparent ==
  stall = 0 => \A k \in Keys, t \in clock..MaxClock :
    Permits(entries[k], t) <=> Permits(unswept[k], t)
=============================================================================
