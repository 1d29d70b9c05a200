----------------------------- MODULE SSOProofs -----------------------------
(***************************************************************************)
(* Single sign-on: SSOFlow and SSOCredential, side by side.                *)
(*                                                                         *)
(* SSOFlow.  A flow is in one place at a time, so it ends in at most one   *)
(* session; a session comes from a domain its provider had, and of a       *)
(* provider that was switched on; only its owner changes a provider; what  *)
(* a finished change leaves in the tables and in the cache is what it was  *)
(* asked for.  The sections are the invariants, the shape of each action,  *)
(* and one section for each property.                                      *)
(*                                                                         *)
(* SSOCredential.  As long as calls of ssoWebmailCredential for a mailbox  *)
(* do not overlap, the cached credential works and its id is its own,      *)
(* whatever calls to mailcow or the database fail, wherever the process    *)
(* restarts, and however often the master key rotates.  Two overlapping    *)
(* calls break it: one may delete by name what the other has just created  *)
(* and cached.                                                             *)
(***************************************************************************)
EXTENDS SSOFlow, SSOCredential, FiniteSetTheorems, TLAPS

\* What of worker v's request only the worker itself changes is as it was; to a
\* callback more may have been granted, and it may be in time.
Alike(v) ==
  /\ req'[v].step = req[v].step /\ req'[v].op = req[v].op /\ req'[v].by = req[v].by
  /\ req'[v].id = req[v].id /\ req'[v].row = req[v].row /\ req'[v].scope = req[v].scope
  /\ req'[v].flow = req[v].flow /\ req'[v].code = req[v].code /\ req'[v].rt = req[v].rt
  /\ req[v].granted \subseteq req'[v].granted
  /\ req'[v].late => req[v].late

Others(w) == \A v \in Workers : v # w => Alike(v)

\* Callbacks have seen the tables as they are now.
Watched ==
  \A v \in Workers : req'[v].op = "callback" =>
    /\ Covered(providers', scopes', req'[v].id) \subseteq req'[v].granted
    /\ req'[v].late => ~ providers'[req'[v].id].active

LEMMA IdleType == Idle \in Request /\ NoRow \in Row
<1>1. NoRow \in Row
  BY DEF NoRow, Row, Admins
<1> QED
  BY <1>1 DEF Idle, Request, NoRuntime, Admins

LEMMA IdleIs ==
  /\ Idle.step = "idle" /\ Idle.op = "none" /\ Idle.id = 0 /\ Idle.flow = 0 /\ Idle.scope = {}
  /\ Idle.by = "super" /\ Idle.late = FALSE
  BY DEF Idle

\* A worker that runs has a provider.
LEMMA Busy ==
  ASSUME TypeOK, NEW w \in Workers, req[w].step # "idle" \/ req[w].op # "none"
  PROVE  req[w] \in Request /\ req[w].id \in Ids /\ req[w].step # "idle"
  BY IdleIs DEF TypeOK, At

\* A request is taken up in the table of requests.
LEMMA Taken ==
  ASSUME TypeOK, NEW w \in Workers, NEW R \in Request, R = Idle \/ (R.step # "idle" /\ R.id \in Ids),
         NEW r, r = [req EXCEPT ![w] = R]
  PROVE  /\ r \in [Workers -> Request] /\ r[w] = R
         /\ \A v \in Workers : v # w => r[v] = req[v]
         /\ \A v \in Workers : r[v] # Idle => r[v].step # "idle" /\ r[v].id \in Ids
  BY DEF TypeOK, At

LEMMA CoveredType ==
  ASSUME providers \in [Ids -> Row], scopes \subseteq Ids \X Domains, NEW i \in Ids
  PROVE  Covered(providers, scopes, i) \in SUBSET Domains
  BY DEF Covered

\* Watching the tables changes only what is granted to callbacks and whether they
\* are late.
LEMMA Watching ==
  ASSUME NEW r \in [Workers -> Request], req' = Watch(r),
         \A v \in Workers : r[v] # Idle => r[v].step # "idle" /\ r[v].id \in Ids,
         providers' \in [Ids -> Row], scopes' \subseteq Ids \X Domains
  PROVE  /\ req' \in [Workers -> Request]
         /\ \A v \in Workers : req'[v] # Idle => req'[v].step # "idle" /\ req'[v].id \in Ids
         /\ \A v \in Workers : r[v].op # "callback" => req'[v] = r[v]
         /\ \A v \in Workers :
              /\ req'[v].step = r[v].step /\ req'[v].op = r[v].op /\ req'[v].by = r[v].by
              /\ req'[v].id = r[v].id /\ req'[v].row = r[v].row /\ req'[v].scope = r[v].scope
              /\ req'[v].flow = r[v].flow /\ req'[v].code = r[v].code /\ req'[v].rt = r[v].rt
              /\ r[v].granted \subseteq req'[v].granted
              /\ req'[v].late => r[v].late
         /\ Watched
<1>1. \A v \in Workers : r[v].op # "callback" => req'[v] = r[v]
  BY DEF Watch
<1>2. ASSUME NEW v \in Workers, r[v].op = "callback"
      PROVE  /\ r[v] \in Request /\ r[v].id \in Ids /\ r[v].step # "idle"
             /\ Covered(providers', scopes', r[v].id) \in SUBSET Domains
             /\ req'[v] = [r[v] EXCEPT !.granted = @ \cup Covered(providers', scopes', r[v].id),
                                       !.late = @ /\ ~ providers'[r[v].id].active]
  <2>1. r[v] # Idle /\ r[v] \in Request
    BY <1>2, IdleIs
  <2>2. r[v].id \in Ids /\ r[v].step # "idle"
    BY <2>1
  <2>3. Covered(providers', scopes', r[v].id) \in SUBSET Domains
    BY <2>2 DEF Covered
  <2> QED
    BY <1>2, <2>1, <2>2, <2>3 DEF Watch
<1>3. ASSUME NEW v \in Workers, r[v].op = "callback"
      PROVE  /\ req'[v] \in Request
             /\ req'[v].step = r[v].step /\ req'[v].op = r[v].op /\ req'[v].by = r[v].by
             /\ req'[v].id = r[v].id /\ req'[v].row = r[v].row /\ req'[v].scope = r[v].scope
             /\ req'[v].flow = r[v].flow /\ req'[v].code = r[v].code /\ req'[v].rt = r[v].rt
             /\ req'[v].granted = r[v].granted \cup Covered(providers', scopes', r[v].id)
             /\ req'[v].late = (r[v].late /\ ~ providers'[r[v].id].active)
  <2> DEFINE C == Covered(providers', scopes', r[v].id)
  <2> HIDE DEF C
  <2>1. /\ C \in SUBSET Domains /\ r[v] \in Request
        /\ req'[v] = [r[v] EXCEPT !.granted = @ \cup C,
                                  !.late = @ /\ ~ providers'[r[v].id].active]
    BY <1>2, <1>3 DEF C
  <2>2. providers'[r[v].id].active \in BOOLEAN
    BY <1>2, <1>3 DEF Row
  <2>3. req'[v].granted = r[v].granted \cup C
    BY <2>1 DEF Request
  <2> QED
    BY <2>1, <2>2, <2>3 DEF Request, C
<1>4. DOMAIN req' = Workers /\ req' = [v \in Workers |-> req'[v]]
  BY DEF Watch
<1>5. ASSUME NEW v \in Workers PROVE req'[v] \in Request
  BY <1>1, <1>3
<1>6. req' \in [Workers -> Request]
  BY <1>4, <1>5
<1>7. ASSUME NEW v \in Workers, req'[v] # Idle PROVE req'[v].step # "idle" /\ req'[v].id \in Ids
  <2>1. CASE r[v].op = "callback"
    BY <1>2, <1>3, <2>1
  <2>2. CASE r[v].op # "callback"
    BY <1>1, <1>7, <2>2
  <2> QED
    BY <2>1, <2>2
<1>8. ASSUME NEW v \in Workers
      PROVE  /\ req'[v].step = r[v].step /\ req'[v].op = r[v].op /\ req'[v].by = r[v].by
             /\ req'[v].id = r[v].id /\ req'[v].row = r[v].row /\ req'[v].scope = r[v].scope
             /\ req'[v].flow = r[v].flow /\ req'[v].code = r[v].code /\ req'[v].rt = r[v].rt
             /\ r[v].granted \subseteq req'[v].granted
             /\ req'[v].late => r[v].late
  <2>1. CASE r[v].op = "callback"
    BY <1>3, <2>1
  <2>2. CASE r[v].op # "callback"
    BY <1>1, <2>2
  <2> QED
    BY <2>1, <2>2
<1>9. Watched
  <2> SUFFICES ASSUME NEW v \in Workers, req'[v].op = "callback"
               PROVE  /\ Covered(providers', scopes', req'[v].id) \subseteq req'[v].granted
                      /\ req'[v].late => ~ providers'[req'[v].id].active
    BY DEF Watched
  <2>1. r[v].op = "callback" /\ req'[v].id = r[v].id
    BY <1>8
  <2> QED
    BY <1>3, <2>1
<1> QED
  BY <1>1, <1>6, <1>7, <1>8, <1>9

\* What a request does at each of its steps, and what it holds there.
Kind(r) ==
  /\ r.step = "idle" <=> r.op = "none"
  /\ r.step = "update" => r.op = "edit" /\ r.row.exists
  /\ r.step \in {"delete_domains", "insert_domain"} => r.op \in {"create", "edit"}
  /\ r.step \in {"delete_scope", "delete_row"} => r.op = "delete"
  /\ r.step = "invalidate" => r.op \in {"edit", "delete"}
  /\ r.step \in {"lookup", "read_provider", "discover"} => r.op \in {"start", "callback"}
  /\ r.step \in {"exchange", "read_scope", "read_domains", "mint"} => r.op = "callback"
  /\ r.op \in {"start", "callback"} => r.flow \in Flows
  /\ r.step = "discover" => Usable(r.row)
  /\ r.step \in {"read_scope", "read_domains", "mint"} => \E d \in Domains : r.scope = {d}

KindInv == \A w \in Workers : Kind(req[w])

\* Worker w serves flow f.
Serves(w, f) == req[w].op \in {"start", "callback"} /\ req[w].flow = f

\* A flow is in one place: a request, the pending flows or a session.
FlowsInv ==
  /\ \A f \in Flows : f > requests => pending[f] = 0
  /\ \A w \in Workers : req[w].flow <= requests
  /\ \A s \in sessions : s.flow <= requests /\ pending[s.flow] = 0
  /\ \A v, w \in Workers, f \in Flows : Serves(v, f) /\ Serves(w, f) => v = w
  /\ \A w \in Workers, f \in Flows : Serves(w, f) =>
       pending[f] = 0 /\ \A s \in sessions : s.flow # f
  /\ \A s, t \in sessions : s.flow = t.flow => s = t

\* What a callback's provider covers has been granted to it.
GrantInv ==
  /\ \A w \in Workers : req[w].op = "callback" =>
       /\ Covered(providers, scopes, req[w].id) \subseteq req[w].granted
       /\ At(w, "mint") => req[w].scope \subseteq req[w].granted
  /\ \A s \in sessions : s.mailbox \in s.granted

\* Provider i is out of service, and has been since a callback under way came.
Dead(i) == i \in retired \/ \E w \in Workers :
                              req[w].op = "callback" /\ req[w].late /\ req[w].id = i

\* Nobody gets a runtime of a provider that is out of service.
LateInv ==
  /\ \A i \in Ids : Dead(i) => ~ providers[i].active
  /\ ~ crossed =>
       /\ \A i \in Ids : Dead(i) => runtimes[i] = NoRuntime
       /\ \A w \in Workers, i \in Ids : At(w, "discover") /\ req[w].id = i => ~ Dead(i)
       /\ \A w \in Workers : req[w].op = "callback" /\ req[w].late =>
            req[w].step \in {"lookup", "read_provider"}
       /\ \A s \in sessions : ~ s.late

\* Whoever is about to change a provider of a domain admin is that admin.
OwnerInv ==
  /\ \A i \in Ids : providers[i].exists => i \in ids
  /\ ~ reused =>
       \A w \in Workers : req[w].step \in {"update", "delete_scope", "delete_row"} /\ req[w].by # "super" =>
         /\ req[w].id \in ids
         /\ providers[req[w].id].exists => providers[req[w].id].owner = req[w].by
  /\ trespassed => reused

DomainsOf(i) == {d \in Domains : <<i, d>> \in scopes}

\* Worker w writes the domains of provider i.
Scoping(w, i) == req[w].step \in {"delete_domains", "insert_domain"} /\ req[w].id = i

\* Worker w has changed provider i and not yet invalidated its runtime.
Dirties(w, i) ==
  /\ req[w].id = i
  /\ \/ req[w].op = "edit" /\ req[w].step \in {"delete_domains", "insert_domain", "invalidate"}
     \/ req[w].op = "delete" /\ req[w].step = "invalidate"

\* Changes that do not overlap: one worker at most changes a provider.
AloneInv ==
  \A v, w \in Workers :
    req[v].step \in ChangeSteps /\ req[w].step \in ChangeSteps /\ req[v].id = req[w].id => v = w

\* The domains in the table and those still to be inserted are those asked for.
ScopeInv ==
  /\ \A i \in Ids : (\A w \in Workers : ~ Scoping(w, i)) => DomainsOf(i) = requested[i]
  /\ \A w \in Workers :
       /\ At(w, "delete_domains") => req[w].scope = requested[req[w].id]
       /\ At(w, "insert_domain") =>
            /\ req[w].scope # {}
            /\ DomainsOf(req[w].id) \cup req[w].scope = requested[req[w].id]
            /\ DomainsOf(req[w].id) \cap req[w].scope = {}

\* Providers that are gone cover nothing, and only deletions are of such.
GoneInv ==
  /\ \A i \in Ids : ~ providers[i].exists /\ ~ Changing(i) => requested[i] = {}
  /\ \A w \in Workers :
       /\ req[w].step \in {"update", "delete_domains", "insert_domain"} => providers[req[w].id].exists
       /\ At(w, "invalidate") /\ req[w].op = "edit" => providers[req[w].id].exists
       /\ At(w, "delete_row") => requested[req[w].id] = {}
       /\ At(w, "invalidate") /\ req[w].op = "delete" => requested[req[w].id] = {}

\* Runtimes, those just being discovered too, are of the row as it is.
CacheInv ==
  ~ crossed =>
    \A i \in Ids : (\A w \in Workers : ~ Dirties(w, i)) =>
      /\ runtimes[i] # NoRuntime => Usable(providers[i]) /\ runtimes[i] = providers[i].issuer
      /\ \A w \in Workers : At(w, "discover") /\ req[w].id = i =>
           Usable(providers[i]) /\ req[w].row.issuer = providers[i].issuer

InOrder == AloneInv /\ ScopeInv /\ GoneInv /\ CacheInv

SettledInv == faults = 0 /\ ~ overlapped => InOrder
-----------------------------------------------------------------------------
(* The steps.                                                              *)

ReqOK ==
  /\ req \in [Workers -> Request]
  /\ \A w \in Workers : req[w] # Idle => ~ At(w, "idle") /\ req[w].id \in Ids

LEMMA KindAlike ==
  ASSUME NEW a, NEW b, Kind(a), b.step = a.step, b.op = a.op, b.row = a.row,
         b.flow = a.flow, b.scope = a.scope
  PROVE  Kind(b)
  BY DEF Kind

LEMMA IdleKind == Kind(Idle)
  BY IdleIs DEF Kind

\* A step that watches nothing.
LEMMA PlainStep ==
  ASSUME TypeOK, KindInv, NEW w \in Workers, NEW R \in Request, Kind(R),
         R = Idle \/ (R.step # "idle" /\ R.id \in Ids), req' = [req EXCEPT ![w] = R]
  PROVE  /\ ReqOK' /\ KindInv' /\ req'[w] = R /\ Others(w)
         /\ \A v \in Workers : v # w => req'[v] = req[v]
<1>1. /\ req' \in [Workers -> Request] /\ req'[w] = R
      /\ \A v \in Workers : v # w => req'[v] = req[v]
      /\ \A v \in Workers : req'[v] # Idle => req'[v].step # "idle" /\ req'[v].id \in Ids
  BY DEF TypeOK, At
<1>2. KindInv'
  BY <1>1 DEF KindInv
<1>3. Others(w)
  BY <1>1 DEF Others, Alike
<1> QED
  BY <1>1, <1>2, <1>3 DEF ReqOK, At

\* A step that changes what providers cover.
LEMMA WatchStep ==
  ASSUME TypeOK, KindInv, NEW w \in Workers, NEW R \in Request, Kind(R), R.op # "callback",
         R = Idle \/ (R.step # "idle" /\ R.id \in Ids), req' = Watch([req EXCEPT ![w] = R]),
         providers' \in [Ids -> Row], scopes' \subseteq Ids \X Domains
  PROVE  ReqOK' /\ KindInv' /\ req'[w] = R /\ Others(w) /\ Watched
<1> DEFINE r == [req EXCEPT ![w] = R]
<1>1. /\ r \in [Workers -> Request] /\ r[w] = R
      /\ \A v \in Workers : v # w => r[v] = req[v]
      /\ \A v \in Workers : r[v] # Idle => r[v].step # "idle" /\ r[v].id \in Ids
  BY Taken
<1>2. req' = Watch(r)
  OBVIOUS
<1> HIDE DEF r
<1>3. /\ req' \in [Workers -> Request]
      /\ \A v \in Workers : req'[v] # Idle => req'[v].step # "idle" /\ req'[v].id \in Ids
      /\ req'[w] = r[w]
      /\ \A v \in Workers :
           /\ req'[v].step = r[v].step /\ req'[v].op = r[v].op /\ req'[v].by = r[v].by
           /\ req'[v].id = r[v].id /\ req'[v].row = r[v].row /\ req'[v].scope = r[v].scope
           /\ req'[v].flow = r[v].flow /\ req'[v].code = r[v].code /\ req'[v].rt = r[v].rt
           /\ r[v].granted \subseteq req'[v].granted
           /\ req'[v].late => r[v].late
      /\ Watched
  BY <1>1, <1>2, Watching
<1>4. KindInv'
  <2> SUFFICES ASSUME NEW v \in Workers PROVE Kind(req'[v])
    BY DEF KindInv
  <2>1. Kind(r[v])
    BY <1>1 DEF KindInv
  <2> QED
    BY <1>3, <2>1, KindAlike
<1>5. Others(w)
  <2> SUFFICES ASSUME NEW v \in Workers, v # w PROVE Alike(v)
    BY DEF Others
  <2>1. r[v] = req[v]
    BY <1>1
  <2>2. /\ req'[v].step = r[v].step /\ req'[v].op = r[v].op /\ req'[v].by = r[v].by
        /\ req'[v].id = r[v].id /\ req'[v].row = r[v].row /\ req'[v].scope = r[v].scope
        /\ req'[v].flow = r[v].flow /\ req'[v].code = r[v].code /\ req'[v].rt = r[v].rt
        /\ r[v].granted \subseteq req'[v].granted
        /\ req'[v].late => r[v].late
    BY <1>3
  <2> QED
    BY <2>1, <2>2 DEF Alike
<1> QED
  BY <1>1, <1>3, <1>4, <1>5 DEF ReqOK, At

\* The types but for the requests.
Tables ==
  /\ providers \in [Ids -> Row]
  /\ scopes \subseteq Ids \X Domains
  /\ runtimes \in [Ids -> Nat]
  /\ pending \in [Flows -> Ids \cup {0}]
  /\ codes \subseteq [flow : Flows, issuer : Nat, mailbox : Domains]
  /\ requests \in 0..MaxRequests
  /\ sent \in [Flows -> Nat]
  /\ sessions \subseteq [flow : Flows, mailbox : Domains, granted : SUBSET Domains,
                        late : BOOLEAN, nth : Nat]
  /\ requested \in [Ids -> SUBSET Domains] /\ retired \subseteq Ids
  /\ crossed \in BOOLEAN /\ overlapped \in BOOLEAN
  /\ ids \subseteq Ids /\ reused \in BOOLEAN /\ trespassed \in BOOLEAN
  /\ faults \in 0..MaxFaults

LEMMA TypeParts == TypeOK <=> Tables /\ ReqOK
  BY DEF TypeOK, Tables, ReqOK

\* A request arrives at a worker that holds nothing.
LEMMA Arriving ==
  ASSUME TypeOK, NEW w \in Workers, Arrive(w)
  PROVE  /\ req[w] = Idle /\ requests \in Nat /\ requests' = requests + 1
         /\ requests' \in 0..MaxRequests /\ requests' \in Flows /\ requests' \in Nat
<1>1. requests \in 0..MaxRequests /\ requests < MaxRequests /\ requests' = requests + 1 /\ MaxRequests \in Nat
  BY SSOFlowAssumption DEF Arrive, TypeOK
<1> QED
  BY <1>1 DEF Arrive, TypeOK, At, Flows

\* A provider is added under the next id.
LEMMA CreateShape ==
  ASSUME TypeOK, KindInv, NEW w \in Workers, NEW by \in Admins, NEW all \in BOOLEAN,
         NEW scope \in SUBSET Domains, CreateProvider(w, by, all, scope)
  PROVE  /\ TypeOK' /\ KindInv' /\ Others(w) /\ Watched /\ req[w] = Idle
         /\ UNCHANGED <<scopes, manager, sessions, trespassed, crossed, faults>>
         /\ requests \in Nat /\ requests' = requests + 1
         /\ \E id \in Ids :
              /\ NextId(id)
              /\ providers'[id].exists /\ providers'[id].active
              /\ \A i \in Ids : i # id => providers'[i] = providers[i] /\ requested'[i] = requested[i]
              /\ retired' = retired \ {id} /\ ids' = ids \cup {id}
              /\ reused' = (reused \/ id \in ids)
              /\ overlapped' = (overlapped \/ Changing(id))
              /\ \/ req'[w] = Idle /\ requested'[id] = {}
                 \/ /\ req'[w].step = "delete_domains" /\ req'[w].op = "create"
                    /\ req'[w].id = id /\ req'[w].scope = requested'[id]
                    /\ req'[w].flow = 0
<1>1. PICK id \in Ids :
       /\ NextId(id)
       /\ providers' = [providers EXCEPT ![id] =
                          [exists |-> TRUE, issuer |-> requests', all |-> all,
                           owner |-> by, active |-> TRUE]]
       /\ requested' = [requested EXCEPT ![id] = IF all THEN {} ELSE scope]
       /\ retired' = retired \ {id}
       /\ ids' = ids \cup {id} /\ reused' = (reused \/ id \in ids)
       /\ Overlaps(id)
       /\ UNCHANGED scopes
       /\ req' = Watch([req EXCEPT ![w] =
                          IF all THEN Idle
                          ELSE [Idle EXCEPT !.step = "delete_domains", !.op = "create",
                                            !.by = by, !.id = id, !.scope = scope]])
  BY DEF CreateProvider
<1>2. UNCHANGED <<manager, outside, sessions, trespassed, crossed, faults>>
  BY DEF CreateProvider
<1>3. /\ req[w] = Idle /\ requests \in Nat /\ requests' = requests + 1
      /\ requests' \in 0..MaxRequests /\ requests' \in Nat
  BY Arriving DEF CreateProvider
<1>4. Tables
  BY TypeParts
<1> DEFINE row == [exists |-> TRUE, issuer |-> requests', all |-> all, owner |-> by, active |-> TRUE]
           R == IF all THEN Idle
                ELSE [Idle EXCEPT !.step = "delete_domains", !.op = "create",
                                  !.by = by, !.id = id, !.scope = scope]
<1>5. row \in Row /\ row.exists /\ row.active
  BY <1>3 DEF Row
<1>6. providers' = [providers EXCEPT ![id] = row]
  BY <1>1
<1>7. /\ R \in Request /\ Kind(R) /\ R.op # "callback"
      /\ R = Idle \/ (R.step # "idle" /\ R.id \in Ids)
      /\ \/ R = Idle /\ all
         \/ /\ R.step = "delete_domains" /\ R.op = "create" /\ R.id = id /\ R.scope = scope
            /\ R.flow = 0 /\ ~ all
  <2>1. CASE all
    BY <2>1, IdleType, IdleKind, IdleIs
  <2>2. CASE ~ all
    <3>1. R = [Idle EXCEPT !.step = "delete_domains", !.op = "create",
                           !.by = by, !.id = id, !.scope = scope]
      BY <2>2
    <3>2. R \in Request
      BY <3>1, IdleType DEF Request, ChangeSteps
    <3>3. /\ R.step = "delete_domains" /\ R.op = "create" /\ R.id = id /\ R.scope = scope /\ R.flow = 0
      BY <3>1 DEF Idle
    <3> HIDE DEF R
    <3> QED
      BY <2>2, <3>2, <3>3 DEF Kind
  <2> QED
    BY <2>1, <2>2
<1>8. req' = Watch([req EXCEPT ![w] = R])
  BY <1>1
<1> HIDE DEF row, R
<1>9. /\ providers' \in [Ids -> Row] /\ providers'[id] = row
      /\ \A i \in Ids : i # id => providers'[i] = providers[i]
  BY <1>4, <1>5, <1>6 DEF Tables
<1>10. scopes' \subseteq Ids \X Domains
  BY <1>1, <1>4 DEF Tables
<1>11. ReqOK' /\ KindInv' /\ req'[w] = R /\ Others(w) /\ Watched
  BY <1>7, <1>8, <1>9, <1>10, WatchStep
<1>12. /\ requested' \in [Ids -> SUBSET Domains]
       /\ requested'[id] = (IF all THEN {} ELSE scope)
       /\ \A i \in Ids : i # id => requested'[i] = requested[i]
  BY <1>1, <1>4 DEF Tables
<1>13. overlapped' = (overlapped \/ Changing(id)) /\ overlapped' \in BOOLEAN
  BY <1>1, <1>4 DEF Overlaps, Tables, Changing
<1>14. Tables'
  BY <1>1, <1>2, <1>3, <1>4, <1>9, <1>10, <1>12, <1>13 DEF Tables, manager, outside
<1>15. TypeOK'
  BY <1>11, <1>14, TypeParts DEF TypeOK, Tables, ReqOK
<1>16. \/ req'[w] = Idle /\ requested'[id] = {}
       \/ /\ req'[w].step = "delete_domains" /\ req'[w].op = "create"
          /\ req'[w].id = id /\ req'[w].scope = requested'[id]
          /\ req'[w].flow = 0
  BY <1>7, <1>11, <1>12
<1> QED
  BY <1>1, <1>2, <1>3, <1>5, <1>9, <1>11, <1>12, <1>13, <1>15, <1>16

\* An edit begins with the row it will write.
LEMMA EditShape ==
  ASSUME TypeOK, KindInv, NEW w \in Workers, NEW by \in Admins, NEW i \in Ids, NEW all \in BOOLEAN,
         NEW scope \in SUBSET Domains, NEW active \in BOOLEAN, NEW keep \in BOOLEAN,
         EditProvider(w, by, i, all, scope, active, keep)
  PROVE  /\ TypeOK' /\ KindInv' /\ req[w] = Idle /\ Owns(by, i)
         /\ UNCHANGED <<tables, manager, sessions, requested, retired, ids, reused, trespassed,
                        crossed, faults>>
         /\ requests \in Nat /\ requests' = requests + 1
         /\ overlapped' = (overlapped \/ Changing(i))
         /\ req'[w].step = "update" /\ req'[w].op = "edit" /\ req'[w].id = i
         /\ req'[w].by = by /\ req'[w].flow = 0
         /\ \A v \in Workers : v # w => req'[v] = req[v]
<1>1. UNCHANGED <<tables, manager, outside, sessions, requested, retired, ids, reused,
                  trespassed, crossed, faults>> /\ Owns(by, i)
  BY DEF EditProvider
<1>2. /\ req[w] = Idle /\ requests \in Nat /\ requests' = requests + 1
      /\ requests' \in 0..MaxRequests /\ requests' \in Nat
  BY Arriving DEF EditProvider
<1>3. Tables
  BY TypeParts
<1> DEFINE row == [providers[i] EXCEPT !.all = all, !.active = active,
                                       !.issuer = IF keep THEN @ ELSE requests']
           sc == IF all THEN {} ELSE scope
           R == [Idle EXCEPT !.step = "update", !.op = "edit", !.by = by, !.id = i,
                             !.scope = sc, !.row = row]
<1>4. row \in Row /\ row.exists
  BY <1>1, <1>2, <1>3 DEF Row, Tables, Owns
<1>5. req' = [req EXCEPT ![w] = R]
  BY DEF EditProvider
<1>6. sc \in SUBSET Domains
  OBVIOUS
<1> HIDE DEF row, sc
<1>7. /\ R \in Request /\ R.step = "update" /\ R.op = "edit" /\ R.id = i /\ R.by = by
      /\ R.flow = 0 /\ R.row = row
  BY <1>4, <1>6, IdleType DEF Request, ChangeSteps, Idle
<1> HIDE DEF R
<1>8. Kind(R)
  BY <1>4, <1>7 DEF Kind
<1>9. ReqOK' /\ KindInv' /\ req'[w] = R /\ \A v \in Workers : v # w => req'[v] = req[v]
  BY <1>5, <1>7, <1>8, PlainStep
<1>10. overlapped' = (overlapped \/ Changing(i)) /\ overlapped' \in BOOLEAN
  BY <1>3 DEF EditProvider, Overlaps, Tables, Changing
<1>11. Tables'
  BY <1>1, <1>2, <1>3, <1>10 DEF Tables, manager, outside, tables
<1>12. TypeOK'
  BY <1>9, <1>11 DEF TypeOK, Tables, ReqOK
<1> QED
  BY <1>1, <1>2, <1>7, <1>9, <1>10, <1>12

\* The row is written, if it is there.
LEMMA UpdateShape ==
  ASSUME TypeOK, KindInv, NEW w \in Workers, UpdateProvider(w), NEW i, i = req[w].id
  PROVE  /\ TypeOK' /\ KindInv' /\ Others(w) /\ Watched
         /\ i \in Ids /\ req[w].step = "update" /\ req[w].op = "edit"
         /\ UNCHANGED <<scopes, manager, requests, sessions, overlapped, ids, reused, crossed, faults>>
         /\ providers'[i].exists = providers[i].exists /\ providers'[i].owner = providers[i].owner
         /\ ~ providers[i].exists => providers'[i] = providers[i]
         /\ providers'[i].active => ~ (i \in retired') \/ providers[i].active
         /\ retired' \subseteq retired
         /\ requested'[i] = req[w].scope
         /\ \A j \in Ids : j # i => /\ providers'[j] = providers[j] /\ requested'[j] = requested[j]
                                    /\ j \in retired' <=> j \in retired
         /\ trespassed' => trespassed \/ (/\ providers[i].exists
                                          /\ req[w].by \notin {"super", providers[i].owner})
         /\ req'[w].step = "delete_domains" /\ req'[w].op = "edit" /\ req'[w].id = i
         /\ req'[w].scope = req[w].scope /\ req'[w].flow = req[w].flow /\ req'[w].by = req[w].by
<1>1. /\ req[w].step = "update" /\ Trespass(w)
      /\ providers' = [providers EXCEPT ![i] =
              IF @.exists THEN [req[w].row EXCEPT !.owner = providers[i].owner] ELSE @]
      /\ requested' = [requested EXCEPT ![i] = req[w].scope]
      /\ retired' = IF req[w].row.active THEN retired \ {i} ELSE retired
      /\ req' = Watch([req EXCEPT ![w].step = "delete_domains"])
      /\ UNCHANGED <<scopes, manager, outside, requests, sessions, overlapped, ids, reused, crossed, faults>>
  BY DEF UpdateProvider, At
<1>2. req[w] \in Request /\ i \in Ids
  BY <1>1, Busy
<1>3. req[w].op = "edit" /\ req[w].row.exists /\ Kind(req[w])
  BY <1>1 DEF KindInv, Kind
<1>4. Tables
  BY TypeParts
<1> DEFINE row == IF providers[i].exists THEN [req[w].row EXCEPT !.owner = providers[i].owner]
                  ELSE providers[i]
           R == [req[w] EXCEPT !.step = "delete_domains"]
<1>5. /\ row \in Row /\ row.exists = providers[i].exists /\ row.owner = providers[i].owner
      /\ ~ providers[i].exists => row = providers[i]
      /\ row.active => req[w].row.active \/ providers[i].active
  <2>1. req[w].row \in Row /\ providers[i] \in Row
    BY <1>2, <1>4 DEF Tables, Request
  <2>2. [req[w].row EXCEPT !.owner = providers[i].owner] \in Row
    BY <2>1 DEF Row
  <2> QED
    BY <1>3, <2>1, <2>2 DEF Row
<1>6. providers' = [providers EXCEPT ![i] = row]
  BY <1>1, <1>2, <1>4 DEF Tables
<1>7. /\ R \in Request /\ R.step = "delete_domains" /\ R.op = "edit" /\ R.id = i
      /\ R.scope = req[w].scope /\ R.flow = req[w].flow /\ R.by = req[w].by
  BY <1>2, <1>3 DEF Request, ChangeSteps
<1>8. req' = Watch([req EXCEPT ![w] = R])
  BY <1>1, <1>2 DEF TypeOK
<1> HIDE DEF row, R
<1>9. Kind(R)
  BY <1>7 DEF Kind
<1>10. /\ providers' \in [Ids -> Row] /\ providers'[i] = row
       /\ \A j \in Ids : j # i => providers'[j] = providers[j]
  BY <1>2, <1>4, <1>5, <1>6 DEF Tables
<1>11. scopes' \subseteq Ids \X Domains
  BY <1>1, <1>4 DEF Tables
<1>12. ReqOK' /\ KindInv' /\ req'[w] = R /\ Others(w) /\ Watched
  BY <1>2, <1>7, <1>8, <1>9, <1>10, <1>11, WatchStep
<1>13. /\ requested' \in [Ids -> SUBSET Domains] /\ requested'[i] = req[w].scope
       /\ \A j \in Ids : j # i => requested'[j] = requested[j]
  <2>1. req[w].scope \in SUBSET Domains
    BY <1>2 DEF Request
  <2> QED
    BY <1>1, <1>2, <1>4, <2>1 DEF Tables
<1>14. /\ trespassed' \in BOOLEAN
       /\ trespassed' => trespassed \/ (/\ providers[i].exists
                                        /\ req[w].by \notin {"super", providers[i].owner})
  <2>1. trespassed' = (trespassed \/ (/\ providers[i].exists
                                      /\ req[w].by \notin {"super", providers[i].owner}))
    BY <1>1 DEF Trespass
  <2>2. trespassed \in BOOLEAN /\ providers[i].exists \in BOOLEAN
    BY <1>2, <1>4 DEF Tables, Row
  <2> QED
    BY <2>1, <2>2
<1>15. /\ retired' \subseteq retired /\ retired' \subseteq Ids
       /\ req[w].row.active => ~ (i \in retired')
       /\ \A j \in Ids : j # i => (j \in retired' <=> j \in retired)
  BY <1>1, <1>4 DEF Tables
<1>16. Tables'
  BY <1>1, <1>4, <1>10, <1>11, <1>13, <1>14, <1>15 DEF Tables, manager, outside
<1>17. TypeOK'
  BY <1>12, <1>16 DEF TypeOK, Tables, ReqOK
<1>18. providers'[i].active => ~ (i \in retired') \/ providers[i].active
  BY <1>5, <1>10, <1>15
<1> QED
  BY <1>1, <1>2, <1>3, <1>5, <1>7, <1>10, <1>12, <1>13, <1>14, <1>15, <1>17, <1>18

\* The old domains go.
LEMMA DeleteDomainsShape ==
  ASSUME TypeOK, KindInv, NEW w \in Workers, DeleteDomains(w), NEW i, i = req[w].id
  PROVE  /\ TypeOK' /\ KindInv' /\ Others(w) /\ Watched
         /\ i \in Ids /\ req[w].step = "delete_domains" /\ req[w].op \in {"create", "edit"}
         /\ UNCHANGED <<providers, manager, requests, sessions, changes, crossed, faults>>
         /\ \A j \in Ids, d \in Domains : <<j, d>> \in scopes' <=> <<j, d>> \in scopes /\ j # i
         /\ \/ req'[w] = Idle /\ req[w].op = "create" /\ req[w].scope = {}
            \/ req'[w] = [req[w] EXCEPT !.step = "invalidate"] /\ req[w].op = "edit" /\ req[w].scope = {}
            \/ req'[w] = [req[w] EXCEPT !.step = "insert_domain"] /\ req[w].scope # {}
<1>1. /\ req[w].step = "delete_domains"
      /\ scopes' = {s \in scopes : s[1] # i}
      /\ UNCHANGED <<providers, manager, outside, requests, sessions, changes, crossed, faults>>
      /\ req' = Watch(IF req[w].scope = {} THEN AfterDomains(w)
                      ELSE [req EXCEPT ![w].step = "insert_domain"])
  BY DEF DeleteDomains, At
<1>2. req[w] \in Request /\ i \in Ids
  BY <1>1, Busy
<1>3. req[w].op \in {"create", "edit"} /\ Kind(req[w])
  BY <1>1 DEF KindInv, Kind
<1>4. Tables
  BY TypeParts
<1> DEFINE R == IF req[w].scope = {}
                THEN IF req[w].op = "edit" THEN [req[w] EXCEPT !.step = "invalidate"] ELSE Idle
                ELSE [req[w] EXCEPT !.step = "insert_domain"]
<1>5. req' = Watch([req EXCEPT ![w] = R])
  <2>1. CASE req[w].scope = {}
    BY <1>1, <1>2, <2>1 DEF AfterDomains, TypeOK
  <2>2. CASE req[w].scope # {}
    BY <1>1, <1>2, <2>2 DEF TypeOK
  <2> QED
    BY <2>1, <2>2
<1>6. /\ R \in Request /\ Kind(R) /\ R.op # "callback"
      /\ R = Idle \/ (R.step # "idle" /\ R.id \in Ids)
  <2>1. CASE R = Idle
    BY <2>1, IdleType, IdleKind, IdleIs
  <2>2. CASE R = [req[w] EXCEPT !.step = "invalidate"] /\ req[w].op = "edit"
    <3>1. /\ R \in Request /\ R.step = "invalidate" /\ R.op = "edit" /\ R.id = i
      BY <1>2, <2>2 DEF Request, ChangeSteps
    <3> HIDE DEF R
    <3> QED
      BY <1>2, <3>1 DEF Kind
  <2>3. CASE R = [req[w] EXCEPT !.step = "insert_domain"]
    <3>1. /\ R \in Request /\ R.step = "insert_domain" /\ R.op = req[w].op /\ R.id = i
      BY <1>2, <2>3 DEF Request, ChangeSteps
    <3> HIDE DEF R
    <3> QED
      BY <1>2, <1>3, <3>1 DEF Kind
  <2> QED
    BY <2>1, <2>2, <2>3
<1>7. \/ R = Idle /\ req[w].op = "create" /\ req[w].scope = {}
      \/ R = [req[w] EXCEPT !.step = "invalidate"] /\ req[w].op = "edit" /\ req[w].scope = {}
      \/ R = [req[w] EXCEPT !.step = "insert_domain"] /\ req[w].scope # {}
  BY <1>3
<1> HIDE DEF R
<1>8. providers' \in [Ids -> Row] /\ scopes' \subseteq Ids \X Domains
  BY <1>1, <1>4 DEF Tables
<1>9. ReqOK' /\ KindInv' /\ req'[w] = R /\ Others(w) /\ Watched
  BY <1>5, <1>6, <1>8, WatchStep
<1>10. Tables'
  BY <1>1, <1>4, <1>8 DEF Tables, manager, outside, changes
<1>11. TypeOK'
  BY <1>9, <1>10 DEF TypeOK, Tables, ReqOK
<1>12. \A j \in Ids, d \in Domains : <<j, d>> \in scopes' <=> <<j, d>> \in scopes /\ j # i
  BY <1>1
<1> QED
  BY <1>1, <1>2, <1>3, <1>7, <1>9, <1>11, <1>12

\* A domain is inserted, or is there already.
LEMMA InsertDomainShape ==
  ASSUME TypeOK, KindInv, NEW w \in Workers, NEW d \in Domains, InsertDomain(w, d), NEW i, i = req[w].id
  PROVE  /\ TypeOK' /\ KindInv' /\ Others(w)
         /\ i \in Ids /\ req[w].step = "insert_domain" /\ req[w].op \in {"create", "edit"}
         /\ d \in req[w].scope
         /\ UNCHANGED <<providers, manager, requests, sessions, changes, crossed, faults>>
         /\ \/ /\ <<i, d>> \in scopes /\ req'[w] = Idle /\ UNCHANGED scopes
               /\ \A v \in Workers : v # w => req'[v] = req[v]
            \/ /\ <<i, d>> \notin scopes /\ Watched /\ scopes' = scopes \cup {<<i, d>>}
               /\ \/ req'[w] = Idle /\ req[w].op = "create" /\ req[w].scope = {d}
                  \/ req'[w] = [req[w] EXCEPT !.step = "invalidate"] /\ req[w].op = "edit" /\ req[w].scope = {d}
                  \/ req'[w] = [req[w] EXCEPT !.scope = @ \ {d}] /\ req[w].scope # {d}
<1>1. /\ req[w].step = "insert_domain" /\ d \in req[w].scope
      /\ UNCHANGED <<providers, manager, outside, requests, sessions, changes, crossed, faults>>
  BY DEF InsertDomain, At, tables
<1>2. req[w] \in Request /\ i \in Ids
  BY <1>1, Busy
<1>3. req[w].op \in {"create", "edit"} /\ Kind(req[w])
  BY <1>1 DEF KindInv, Kind
<1>4. Tables
  BY TypeParts
<1>5. CASE <<i, d>> \in scopes
  <2>1. req' = [req EXCEPT ![w] = Idle] /\ UNCHANGED scopes
    BY <1>5 DEF InsertDomain, Done, tables
  <2>2. /\ ReqOK' /\ KindInv' /\ req'[w] = Idle /\ Others(w)
        /\ \A v \in Workers : v # w => req'[v] = req[v]
    BY <2>1, PlainStep, IdleType, IdleKind
  <2>3. Tables'
    BY <1>1, <1>4, <2>1 DEF Tables, manager, outside, changes
  <2>4. TypeOK'
    BY <2>2, <2>3 DEF TypeOK, Tables, ReqOK
  <2> QED
    BY <1>1, <1>2, <1>3, <1>5, <2>1, <2>2, <2>4
<1>6. CASE <<i, d>> \notin scopes
  <2> DEFINE R == IF req[w].scope = {d}
                  THEN IF req[w].op = "edit" THEN [req[w] EXCEPT !.step = "invalidate"] ELSE Idle
                  ELSE [req[w] EXCEPT !.scope = @ \ {d}]
  <2>1. /\ scopes' = scopes \cup {<<i, d>>}
        /\ req' = Watch(IF req[w].scope = {d} THEN AfterDomains(w)
                        ELSE [req EXCEPT ![w].scope = @ \ {d}])
    BY <1>6 DEF InsertDomain
  <2>2. req' = Watch([req EXCEPT ![w] = R])
    <3>1. CASE req[w].scope = {d}
      BY <1>2, <2>1, <3>1 DEF AfterDomains, TypeOK
    <3>2. CASE req[w].scope # {d}
      BY <1>2, <2>1, <3>2 DEF TypeOK
    <3> QED
      BY <3>1, <3>2
  <2>3. /\ R \in Request /\ Kind(R) /\ R.op # "callback"
        /\ R = Idle \/ (R.step # "idle" /\ R.id \in Ids)
    <3>1. CASE R = Idle
      BY <3>1, IdleType, IdleKind, IdleIs
    <3>2. CASE R = [req[w] EXCEPT !.step = "invalidate"] /\ req[w].op = "edit"
      <4>1. /\ R \in Request /\ R.step = "invalidate" /\ R.op = "edit" /\ R.id = i
        BY <1>2, <3>2 DEF Request, ChangeSteps
      <4> HIDE DEF R
      <4> QED
        BY <1>2, <4>1 DEF Kind
    <3>3. CASE R = [req[w] EXCEPT !.scope = @ \ {d}]
      <4>1. /\ R \in Request /\ R.step = "insert_domain" /\ R.op = req[w].op /\ R.id = i
        BY <1>1, <1>2, <3>3 DEF Request
      <4> HIDE DEF R
      <4> QED
        BY <1>2, <1>3, <4>1 DEF Kind
    <3> QED
      BY <3>1, <3>2, <3>3
  <2>4. \/ R = Idle /\ req[w].op = "create" /\ req[w].scope = {d}
        \/ R = [req[w] EXCEPT !.step = "invalidate"] /\ req[w].op = "edit" /\ req[w].scope = {d}
        \/ R = [req[w] EXCEPT !.scope = @ \ {d}] /\ req[w].scope # {d}
    BY <1>3
  <2> HIDE DEF R
  <2>5. providers' \in [Ids -> Row] /\ scopes' \subseteq Ids \X Domains
    BY <1>1, <1>2, <1>4, <2>1 DEF Tables
  <2>6. ReqOK' /\ KindInv' /\ req'[w] = R /\ Others(w) /\ Watched
    BY <2>2, <2>3, <2>5, WatchStep
  <2>7. Tables'
    BY <1>1, <1>4, <2>5 DEF Tables, manager, outside, changes
  <2>8. TypeOK'
    BY <2>6, <2>7 DEF TypeOK, Tables, ReqOK
  <2> QED
    BY <1>1, <1>2, <1>3, <1>6, <2>1, <2>4, <2>6, <2>8
<1> QED
  BY <1>5, <1>6

\* A deletion begins.
LEMMA DeleteShape ==
  ASSUME TypeOK, KindInv, NEW w \in Workers, NEW by \in Admins, NEW i \in Ids,
         DeleteProvider(w, by, i)
  PROVE  /\ TypeOK' /\ KindInv' /\ req[w] = Idle /\ (by = "super" \/ Owns(by, i))
         /\ UNCHANGED <<tables, manager, sessions, requested, retired, ids, reused, trespassed,
                        crossed, faults>>
         /\ requests \in Nat /\ requests' = requests + 1
         /\ overlapped' = (overlapped \/ Changing(i))
         /\ req'[w].step = "delete_scope" /\ req'[w].op = "delete" /\ req'[w].id = i
         /\ req'[w].by = by /\ req'[w].flow = 0
         /\ \A v \in Workers : v # w => req'[v] = req[v]
<1>1. UNCHANGED <<tables, manager, outside, sessions, requested, retired, ids, reused,
                  trespassed, crossed, faults>> /\ (by = "super" \/ Owns(by, i))
  BY DEF DeleteProvider
<1>2. /\ req[w] = Idle /\ requests \in Nat /\ requests' = requests + 1
      /\ requests' \in 0..MaxRequests /\ requests' \in Nat
  BY Arriving DEF DeleteProvider
<1>3. Tables
  BY TypeParts
<1> DEFINE R == [Idle EXCEPT !.step = "delete_scope", !.op = "delete", !.by = by, !.id = i]
<1>4. req' = [req EXCEPT ![w] = R]
  BY DEF DeleteProvider
<1>5. /\ R \in Request /\ R.step = "delete_scope" /\ R.op = "delete" /\ R.id = i /\ R.by = by
      /\ R.flow = 0
  BY IdleType DEF Request, ChangeSteps, Idle
<1> HIDE DEF R
<1>6. Kind(R)
  BY <1>5 DEF Kind
<1>7. ReqOK' /\ KindInv' /\ req'[w] = R /\ \A v \in Workers : v # w => req'[v] = req[v]
  BY <1>4, <1>5, <1>6, PlainStep
<1>8. overlapped' = (overlapped \/ Changing(i)) /\ overlapped' \in BOOLEAN
  BY <1>3 DEF DeleteProvider, Overlaps, Tables, Changing
<1>9. Tables'
  BY <1>1, <1>2, <1>3, <1>8 DEF Tables, manager, outside, tables
<1>10. TypeOK'
  BY <1>7, <1>9 DEF TypeOK, Tables, ReqOK
<1> QED
  BY <1>1, <1>2, <1>5, <1>7, <1>8, <1>10

\* A deletion takes the domains, then the row.
LEMMA DeletingShape ==
  ASSUME TypeOK, KindInv, NEW w \in Workers, DeleteScope(w) \/ DeleteRow(w), NEW i, i = req[w].id
  PROVE  /\ TypeOK' /\ KindInv' /\ Others(w) /\ Watched
         /\ i \in Ids /\ req[w].op = "delete"
         /\ UNCHANGED <<manager, requests, sessions, retired, overlapped, ids, reused, crossed, faults>>
         /\ \/ /\ req[w].step = "delete_scope"
               /\ req'[w] = [req[w] EXCEPT !.step = "delete_row"]
               /\ \A j \in Ids, d \in Domains : <<j, d>> \in scopes' <=> <<j, d>> \in scopes /\ j # i
               /\ requested'[i] = {} /\ \A j \in Ids : j # i => requested'[j] = requested[j]
               /\ UNCHANGED <<providers, trespassed>>
            \/ /\ req[w].step = "delete_row"
               /\ req'[w] = [req[w] EXCEPT !.step = "invalidate"]
               /\ ~ providers'[i].exists /\ ~ providers'[i].active
               /\ \A j \in Ids : j # i => providers'[j] = providers[j]
               /\ trespassed' => trespassed \/ (/\ providers[i].exists
                                                /\ req[w].by \notin {"super", providers[i].owner})
               /\ UNCHANGED <<scopes, requested>>
<1>1. req[w].step \in {"delete_scope", "delete_row"}
  BY DEF DeleteScope, DeleteRow, At
<1>2. req[w] \in Request /\ i \in Ids
  BY <1>1, Busy
<1>3. req[w].op = "delete" /\ Kind(req[w])
  BY <1>1 DEF KindInv, Kind
<1>4. Tables
  BY TypeParts
<1>5. CASE DeleteScope(w)
  <2> DEFINE R == [req[w] EXCEPT !.step = "delete_row"]
  <2>1. /\ req[w].step = "delete_scope"
        /\ scopes' = {s \in scopes : s[1] # i}
        /\ requested' = [requested EXCEPT ![i] = {}]
        /\ UNCHANGED <<providers, manager, outside, requests, sessions, retired, overlapped, ids,
                       reused, trespassed, crossed, faults>>
        /\ req' = Watch([req EXCEPT ![w] = R])
    BY <1>2, <1>5 DEF DeleteScope, At, TypeOK
  <2>2. /\ R \in Request /\ R.step = "delete_row" /\ R.op = "delete" /\ R.id = i
    BY <1>2, <1>3 DEF Request, ChangeSteps
  <2> HIDE DEF R
  <2>3. Kind(R)
    BY <2>2 DEF Kind
  <2>4. providers' \in [Ids -> Row] /\ scopes' \subseteq Ids \X Domains
    BY <1>4, <2>1 DEF Tables
  <2>5. ReqOK' /\ KindInv' /\ req'[w] = R /\ Others(w) /\ Watched
    BY <1>2, <2>1, <2>2, <2>3, <2>4, WatchStep
  <2>6. Tables'
    BY <1>4, <2>1, <2>4 DEF Tables, manager, outside
  <2>7. TypeOK'
    BY <2>5, <2>6 DEF TypeOK, Tables, ReqOK
  <2>8. /\ \A j \in Ids, d \in Domains : <<j, d>> \in scopes' <=> <<j, d>> \in scopes /\ j # i
        /\ requested'[i] = {} /\ \A j \in Ids : j # i => requested'[j] = requested[j]
    BY <1>2, <1>4, <2>1 DEF Tables
  <2> QED
    BY <1>2, <1>3, <2>1, <2>5, <2>7, <2>8 DEF R
<1>6. CASE DeleteRow(w)
  <2> DEFINE R == [req[w] EXCEPT !.step = "invalidate"]
  <2>1. /\ req[w].step = "delete_row" /\ Trespass(w)
        /\ providers' = [providers EXCEPT ![i] = NoRow]
        /\ UNCHANGED <<scopes, manager, outside, requests, sessions, requested, retired, overlapped,
                       ids, reused, crossed, faults>>
        /\ req' = Watch([req EXCEPT ![w] = R])
    BY <1>2, <1>6 DEF DeleteRow, At, TypeOK
  <2>2. /\ R \in Request /\ R.step = "invalidate" /\ R.op = "delete" /\ R.id = i
    BY <1>2, <1>3 DEF Request, ChangeSteps
  <2> HIDE DEF R
  <2>3. Kind(R)
    BY <2>2 DEF Kind
  <2>4. /\ providers' \in [Ids -> Row] /\ scopes' \subseteq Ids \X Domains
        /\ ~ providers'[i].exists /\ ~ providers'[i].active
        /\ \A j \in Ids : j # i => providers'[j] = providers[j]
    BY <1>2, <1>4, <2>1, IdleType DEF Tables, NoRow
  <2>5. ReqOK' /\ KindInv' /\ req'[w] = R /\ Others(w) /\ Watched
    BY <1>2, <2>1, <2>2, <2>3, <2>4, WatchStep
  <2>6. /\ trespassed' \in BOOLEAN
        /\ trespassed' => trespassed \/ (/\ providers[i].exists
                                         /\ req[w].by \notin {"super", providers[i].owner})
    <3>1. trespassed' = (trespassed \/ (/\ providers[i].exists
                                        /\ req[w].by \notin {"super", providers[i].owner}))
      BY <2>1 DEF Trespass
    <3>2. trespassed \in BOOLEAN /\ providers[i].exists \in BOOLEAN
      BY <1>2, <1>4 DEF Tables, Row
    <3> QED
      BY <3>1, <3>2
  <2>7. Tables'
    BY <1>4, <2>1, <2>4, <2>6 DEF Tables, manager, outside
  <2>8. TypeOK'
    BY <2>5, <2>7 DEF TypeOK, Tables, ReqOK
  <2> QED
    BY <1>2, <1>3, <2>1, <2>4, <2>5, <2>6, <2>8 DEF R
<1> QED
  BY <1>5, <1>6

\* The runtime is dropped.
LEMMA InvalidateShape ==
  ASSUME TypeOK, KindInv, NEW w \in Workers, Invalidate(w), NEW i, i = req[w].id
  PROVE  /\ TypeOK' /\ KindInv'
         /\ i \in Ids /\ req[w].step = "invalidate" /\ req[w].op \in {"edit", "delete"}
         /\ req'[w] = Idle /\ \A v \in Workers : v # w => req'[v] = req[v]
         /\ UNCHANGED <<tables, pending, requests, sessions, requested, overlapped, ids, reused,
                        trespassed, faults>>
         /\ runtimes'[i] = NoRuntime /\ \A j \in Ids : j # i => runtimes'[j] = runtimes[j]
         /\ retired' = IF providers[i].active THEN retired ELSE retired \cup {i}
         /\ crossed' <=> crossed \/ \E v \in Workers : At(v, "discover") /\ req[v].id = i
<1>1. /\ req[w].step = "invalidate"
      /\ runtimes' = [runtimes EXCEPT ![i] = NoRuntime]
      /\ retired' = IF providers[i].active THEN retired ELSE retired \cup {i}
      /\ crossed' = (crossed \/ \E v \in Workers : At(v, "discover") /\ req[v].id = i)
      /\ req' = [req EXCEPT ![w] = Idle]
      /\ UNCHANGED <<tables, pending, outside, requests, sessions, requested, overlapped, ids,
                     reused, trespassed, faults>>
  BY DEF Invalidate, At, Done
<1>2. req[w] \in Request /\ i \in Ids
  BY <1>1, Busy
<1>3. req[w].op \in {"edit", "delete"}
  BY <1>1 DEF KindInv, Kind
<1>4. Tables
  BY TypeParts
<1>5. ReqOK' /\ KindInv' /\ req'[w] = Idle /\ \A v \in Workers : v # w => req'[v] = req[v]
  BY <1>1, PlainStep, IdleType, IdleKind
<1>6. /\ runtimes' \in [Ids -> Nat] /\ runtimes'[i] = NoRuntime
      /\ \A j \in Ids : j # i => runtimes'[j] = runtimes[j]
  BY <1>1, <1>2, <1>4 DEF Tables, NoRuntime
<1>7. crossed' \in BOOLEAN /\ retired' \subseteq Ids
  BY <1>1, <1>2, <1>4 DEF Tables
<1>8. Tables'
  BY <1>1, <1>4, <1>6, <1>7 DEF Tables, outside, tables
<1>9. TypeOK'
  BY <1>5, <1>8 DEF TypeOK, Tables, ReqOK
<1> QED
  BY <1>1, <1>2, <1>3, <1>5, <1>6, <1>9

\* A flow begins.
LEMMA StartShape ==
  ASSUME TypeOK, KindInv, NEW w \in Workers, NEW i \in Ids, Start(w, i)
  PROVE  /\ TypeOK' /\ KindInv' /\ req[w] = Idle
         /\ UNCHANGED <<tables, manager, sessions, changes, crossed, faults>>
         /\ requests \in Nat /\ requests' = requests + 1 /\ requests' \in Flows
         /\ req'[w].step = "lookup" /\ req'[w].op = "start" /\ req'[w].flow = requests'
         /\ \A v \in Workers : v # w => req'[v] = req[v]
<1>1. UNCHANGED <<tables, manager, outside, sessions, changes, crossed, faults>>
  BY DEF Start
<1>2. /\ req[w] = Idle /\ requests \in Nat /\ requests' = requests + 1
      /\ requests' \in 0..MaxRequests /\ requests' \in Flows
  BY Arriving DEF Start
<1>3. Tables
  BY TypeParts
<1> DEFINE R == [Idle EXCEPT !.step = "lookup", !.op = "start", !.id = i, !.flow = requests']
<1>4. req' = [req EXCEPT ![w] = R]
  BY DEF Start
<1>5. /\ R \in Request /\ R.step = "lookup" /\ R.op = "start" /\ R.id = i /\ R.flow = requests'
  BY <1>2, IdleType DEF Request, FlowSteps, Idle
<1> HIDE DEF R
<1>6. Kind(R)
  BY <1>2, <1>5 DEF Kind
<1>7. ReqOK' /\ KindInv' /\ req'[w] = R /\ \A v \in Workers : v # w => req'[v] = req[v]
  BY <1>4, <1>5, <1>6, PlainStep
<1>8. Tables'
  BY <1>1, <1>2, <1>3 DEF Tables, manager, outside, tables, changes
<1>9. TypeOK'
  BY <1>7, <1>8 DEF TypeOK, Tables, ReqOK
<1> QED
  BY <1>1, <1>2, <1>5, <1>7, <1>9

\* A callback presents a state, which is then worth nothing.
LEMMA ConsumeShape ==
  ASSUME TypeOK, KindInv, NEW w \in Workers, NEW f \in Flows, NEW c \in Flows,
         ConsumePending(w, f, c)
  PROVE  /\ TypeOK' /\ KindInv' /\ req[w] = Idle
         /\ UNCHANGED <<tables, runtimes, sessions, changes, crossed, faults>>
         /\ requests \in Nat /\ requests' = requests + 1
         /\ pending'[f] = 0 /\ \A g \in Flows : g # f => pending'[g] = pending[g]
         /\ \/ UNCHANGED req
            \/ /\ pending[f] # 0 /\ pending[f] \in Ids
               /\ req'[w].step = "lookup" /\ req'[w].op = "callback" /\ req'[w].flow = f
               /\ req'[w].id = pending[f] /\ req'[w].late = (pending[f] \in retired)
               /\ req'[w].granted = Covered(providers, scopes, pending[f])
               /\ \A v \in Workers : v # w => req'[v] = req[v]
<1> DEFINE p == pending[f]
           C == Covered(providers, scopes, p)
           L == p \in retired
           R == [Idle EXCEPT !.step = "lookup", !.op = "callback", !.id = p,
                             !.flow = f, !.code = c, !.late = L, !.granted = C]
<1>1. /\ UNCHANGED <<tables, runtimes, outside, sessions, changes, crossed, faults>>
      /\ pending' = [pending EXCEPT ![f] = 0]
      /\ \/ UNCHANGED req
         \/ p # 0 /\ req' = [req EXCEPT ![w] = R]
  BY DEF ConsumePending, StillPending
<1>2. /\ req[w] = Idle /\ requests \in Nat /\ requests' = requests + 1
      /\ requests' \in 0..MaxRequests
  BY Arriving DEF ConsumePending
<1>3. Tables
  BY TypeParts
<1>4. p \in Ids \cup {0} /\ L \in BOOLEAN
  BY <1>3 DEF Tables
<1>5. /\ pending' \in [Flows -> Ids \cup {0}] /\ pending'[f] = 0
      /\ \A g \in Flows : g # f => pending'[g] = pending[g]
  BY <1>1, <1>3 DEF Tables
<1>6. Tables'
  BY <1>1, <1>2, <1>3, <1>5 DEF Tables, outside, tables, changes
<1>7. CASE UNCHANGED req
  <2>1. ReqOK'
    BY <1>7 DEF TypeOK, ReqOK, At
  <2>2. KindInv'
    BY <1>7 DEF KindInv
  <2>3. TypeOK'
    BY <1>6, <2>1 DEF TypeOK, Tables, ReqOK
  <2> QED
    BY <1>1, <1>2, <1>5, <1>7, <2>2, <2>3
<1>8. CASE p # 0 /\ req' = [req EXCEPT ![w] = R]
  <2>1. p \in Ids /\ C \in SUBSET Domains
    BY <1>4, <1>8 DEF Covered
  <2> HIDE DEF p, C, L
  <2>2. /\ R \in Request /\ R.step = "lookup" /\ R.op = "callback" /\ R.id = p /\ R.flow = f
        /\ R.late = L /\ R.granted = C
    BY <1>4, <2>1, IdleType DEF Request, FlowSteps, Idle
  <2> HIDE DEF R
  <2>3. Kind(R)
    BY <2>2 DEF Kind
  <2>4. ReqOK' /\ KindInv' /\ req'[w] = R /\ \A v \in Workers : v # w => req'[v] = req[v]
    BY <1>8, <2>1, <2>2, <2>3, PlainStep
  <2>5. TypeOK'
    BY <1>6, <2>4 DEF TypeOK, Tables, ReqOK
  <2> QED
    BY <1>1, <1>2, <1>5, <1>8, <2>1, <2>2, <2>4, <2>5 DEF p, C, L
<1> QED
  BY <1>1, <1>7, <1>8

\* A flow that has its runtime is remembered, a callback goes on.
Obtained(w, rt) ==
  /\ req[w].op = "start" =>
       /\ req'[w] = Idle
       /\ pending'[req[w].flow] = req[w].id
       /\ \A g \in Flows : g # req[w].flow => pending'[g] = pending[g]
  /\ req[w].op # "start" =>
       /\ req'[w].step = "exchange" /\ req'[w].op = req[w].op /\ req'[w].id = req[w].id
       /\ req'[w].flow = req[w].flow /\ req'[w].late = req[w].late
       /\ req'[w].granted = req[w].granted
       /\ UNCHANGED pending

LEMMA RuntimeStep ==
  ASSUME TypeOK, KindInv, NEW w \in Workers, NEW rt \in Nat, WithRuntime(w, rt),
         req[w].step \in {"lookup", "discover"}
  PROVE  /\ ReqOK' /\ KindInv' /\ Obtained(w, rt)
         /\ \A v \in Workers : v # w => req'[v] = req[v]
         /\ pending' \in [Flows -> Ids \cup {0}] /\ sent' \in [Flows -> Nat]
<1>1. req[w] \in Request /\ req[w].id \in Ids
  BY Busy
<1>2. Kind(req[w]) /\ req[w].op \in {"start", "callback"} /\ req[w].flow \in Flows
  BY DEF KindInv, Kind
<1>3. Tables
  BY TypeParts
<1>4. CASE req[w].op = "start"
  <2>1. /\ pending' = [pending EXCEPT ![req[w].flow] = req[w].id]
        /\ sent' = [sent EXCEPT ![req[w].flow] = rt]
        /\ req' = [req EXCEPT ![w] = Idle]
    BY <1>4 DEF WithRuntime, Done
  <2>2. ReqOK' /\ KindInv' /\ req'[w] = Idle /\ \A v \in Workers : v # w => req'[v] = req[v]
    BY <2>1, PlainStep, IdleType, IdleKind
  <2> QED
    BY <1>1, <1>2, <1>3, <1>4, <2>1, <2>2 DEF Tables, Obtained
<1>5. CASE req[w].op # "start"
  <2> DEFINE R == [req[w] EXCEPT !.rt = rt, !.step = "exchange"]
  <2>1. req' = [req EXCEPT ![w] = R] /\ UNCHANGED <<pending, sent>>
    BY <1>1, <1>5 DEF WithRuntime, TypeOK
  <2>2. /\ R \in Request /\ R.step = "exchange" /\ R.op = req[w].op /\ R.id = req[w].id
        /\ R.flow = req[w].flow /\ R.late = req[w].late /\ R.granted = req[w].granted
    BY <1>1 DEF Request, FlowSteps
  <2> HIDE DEF R
  <2>3. Kind(R)
    BY <1>2, <1>5, <2>2 DEF Kind
  <2>4. ReqOK' /\ KindInv' /\ req'[w] = R /\ \A v \in Workers : v # w => req'[v] = req[v]
    BY <1>1, <2>1, <2>2, <2>3, PlainStep
  <2> QED
    BY <1>3, <1>5, <2>1, <2>2, <2>4 DEF Tables, Obtained
<1> QED
  BY <1>4, <1>5

\* The cache has a runtime, or the provider is read.
LEMMA LookupShape ==
  ASSUME TypeOK, KindInv, NEW w \in Workers, LookupRuntime(w), NEW i, i = req[w].id
  PROVE  /\ TypeOK' /\ KindInv'
         /\ i \in Ids /\ req[w].step = "lookup" /\ req[w].op \in {"start", "callback"} /\ req[w].flow \in Flows
         /\ UNCHANGED <<tables, runtimes, requests, sessions, changes, crossed, faults>>
         /\ \A v \in Workers : v # w => req'[v] = req[v]
         /\ \/ runtimes[i] # NoRuntime /\ Obtained(w, runtimes[i])
            \/ /\ runtimes[i] = NoRuntime /\ UNCHANGED pending
               /\ req'[w] = [req[w] EXCEPT !.step = "read_provider"]
<1>1. /\ req[w].step = "lookup"
      /\ UNCHANGED <<tables, runtimes, codes, requests, sessions, changes, crossed, faults>>
  BY DEF LookupRuntime, At
<1>2. req[w] \in Request /\ i \in Ids
  BY <1>1, Busy
<1>3. Kind(req[w]) /\ req[w].op \in {"start", "callback"} /\ req[w].flow \in Flows
  BY <1>1 DEF KindInv, Kind
<1>4. Tables
  BY TypeParts
<1>5. CASE runtimes[i] # NoRuntime
  <2>1. WithRuntime(w, runtimes[i]) /\ runtimes[i] \in Nat
    BY <1>2, <1>4, <1>5 DEF LookupRuntime, Tables
  <2>2. /\ ReqOK' /\ KindInv' /\ Obtained(w, runtimes[i])
        /\ \A v \in Workers : v # w => req'[v] = req[v]
        /\ pending' \in [Flows -> Ids \cup {0}] /\ sent' \in [Flows -> Nat]
    BY <1>1, <2>1, RuntimeStep
  <2>3. Tables'
    BY <1>1, <1>4, <2>2 DEF Tables, tables, changes
  <2>4. TypeOK'
    BY <2>2, <2>3 DEF TypeOK, Tables, ReqOK
  <2> QED
    BY <1>1, <1>2, <1>3, <1>5, <2>2, <2>4
<1>6. CASE runtimes[i] = NoRuntime
  <2> DEFINE R == [req[w] EXCEPT !.step = "read_provider"]
  <2>1. req' = [req EXCEPT ![w] = R] /\ UNCHANGED <<pending, sent>>
    BY <1>2, <1>6 DEF LookupRuntime, TypeOK
  <2>2. /\ R \in Request /\ R.step = "read_provider" /\ R.op = req[w].op /\ R.id = req[w].id
        /\ R.flow = req[w].flow
    BY <1>2 DEF Request, FlowSteps
  <2> HIDE DEF R
  <2>3. Kind(R)
    BY <1>3, <2>2 DEF Kind
  <2>4. ReqOK' /\ KindInv' /\ req'[w] = R /\ \A v \in Workers : v # w => req'[v] = req[v]
    BY <1>2, <2>1, <2>2, <2>3, PlainStep
  <2>5. Tables'
    BY <1>1, <1>4, <2>1 DEF Tables, tables, changes
  <2>6. TypeOK'
    BY <2>4, <2>5 DEF TypeOK, Tables, ReqOK
  <2> QED
    BY <1>1, <1>2, <1>3, <1>6, <2>1, <2>4, <2>6 DEF R
<1> QED
  BY <1>5, <1>6

\* The row is read, and is in service.
LEMMA ReadProviderShape ==
  ASSUME TypeOK, KindInv, NEW w \in Workers, ReadProvider(w), NEW i, i = req[w].id
  PROVE  /\ TypeOK' /\ KindInv'
         /\ i \in Ids /\ req[w].step = "read_provider" /\ req[w].op \in {"start", "callback"}
         /\ UNCHANGED <<tables, manager, requests, sessions, changes, crossed, faults>>
         /\ \A v \in Workers : v # w => req'[v] = req[v]
         /\ \/ req'[w] = Idle
            \/ /\ Usable(providers[i])
               /\ req'[w] = [req[w] EXCEPT !.row = providers[i], !.step = "discover"]
<1>1. /\ req[w].step = "read_provider"
      /\ UNCHANGED <<tables, manager, outside, requests, sessions, changes, crossed, faults>>
  BY DEF ReadProvider, At
<1>2. req[w] \in Request /\ i \in Ids
  BY <1>1, Busy
<1>3. Kind(req[w]) /\ req[w].op \in {"start", "callback"}
  BY <1>1 DEF KindInv, Kind
<1>4. Tables
  BY TypeParts
<1>5. Tables'
  BY <1>1, <1>4 DEF Tables, tables, manager, outside, changes
<1>6. CASE ~ Usable(providers[i])
  <2>1. req' = [req EXCEPT ![w] = Idle]
    BY <1>6 DEF ReadProvider, Done
  <2>2. ReqOK' /\ KindInv' /\ req'[w] = Idle /\ \A v \in Workers : v # w => req'[v] = req[v]
    BY <2>1, PlainStep, IdleType, IdleKind
  <2>3. TypeOK'
    BY <1>5, <2>2 DEF TypeOK, Tables, ReqOK
  <2> QED
    BY <1>1, <1>2, <1>3, <2>2, <2>3
<1>7. CASE Usable(providers[i])
  <2> DEFINE row == providers[i]
             R == [req[w] EXCEPT !.row = row, !.step = "discover"]
  <2>1. req' = [req EXCEPT ![w] = R]
    BY <1>2, <1>7 DEF ReadProvider, TypeOK
  <2>2. row \in Row /\ Usable(row)
    BY <1>2, <1>4, <1>7 DEF Tables
  <2> HIDE DEF row
  <2>3. /\ R \in Request /\ R.step = "discover" /\ R.op = req[w].op /\ R.id = req[w].id
        /\ R.flow = req[w].flow /\ R.row = row
    BY <1>2, <2>2 DEF Request, FlowSteps
  <2> HIDE DEF R
  <2>4. Kind(R)
    BY <1>3, <2>2, <2>3 DEF Kind
  <2>5. ReqOK' /\ KindInv' /\ req'[w] = R /\ \A v \in Workers : v # w => req'[v] = req[v]
    BY <1>2, <2>1, <2>3, <2>4, PlainStep
  <2>6. TypeOK'
    BY <1>5, <2>5 DEF TypeOK, Tables, ReqOK
  <2> QED
    BY <1>1, <1>2, <1>3, <1>7, <2>5, <2>6 DEF R, row
<1> QED
  BY <1>6, <1>7

\* The runtime of the row that was read is cached.
LEMMA DiscoverShape ==
  ASSUME TypeOK, KindInv, NEW w \in Workers, Discover(w), NEW i, i = req[w].id
  PROVE  /\ TypeOK' /\ KindInv'
         /\ i \in Ids /\ req[w].step = "discover" /\ req[w].op \in {"start", "callback"} /\ req[w].flow \in Flows
         /\ UNCHANGED <<tables, requests, sessions, changes, crossed, faults>>
         /\ runtimes'[i] = req[w].row.issuer /\ \A j \in Ids : j # i => runtimes'[j] = runtimes[j]
         /\ Obtained(w, req[w].row.issuer)
         /\ \A v \in Workers : v # w => req'[v] = req[v]
<1>1. /\ req[w].step = "discover"
      /\ runtimes' = [runtimes EXCEPT ![i] = req[w].row.issuer]
      /\ WithRuntime(w, req[w].row.issuer)
      /\ UNCHANGED <<tables, codes, requests, sessions, changes, crossed, faults>>
  BY DEF Discover, At
<1>2. req[w] \in Request /\ i \in Ids /\ req[w].row.issuer \in Nat
  BY <1>1, Busy DEF Request, Row
<1>3. Kind(req[w]) /\ req[w].op \in {"start", "callback"} /\ req[w].flow \in Flows
  BY <1>1 DEF KindInv, Kind
<1>4. Tables
  BY TypeParts
<1>5. /\ ReqOK' /\ KindInv' /\ Obtained(w, req[w].row.issuer)
      /\ \A v \in Workers : v # w => req'[v] = req[v]
      /\ pending' \in [Flows -> Ids \cup {0}] /\ sent' \in [Flows -> Nat]
  BY <1>1, <1>2, RuntimeStep
<1>6. /\ runtimes' \in [Ids -> Nat] /\ runtimes'[i] = req[w].row.issuer
      /\ \A j \in Ids : j # i => runtimes'[j] = runtimes[j]
  BY <1>1, <1>2, <1>4 DEF Tables
<1>7. Tables'
  BY <1>1, <1>4, <1>5, <1>6 DEF Tables, tables, changes
<1>8. TypeOK'
  BY <1>5, <1>7 DEF TypeOK, Tables, ReqOK
<1> QED
  BY <1>1, <1>2, <1>3, <1>5, <1>6, <1>8

\* A callback goes on with the code, the row and the domains, or ends.
LEMMA CallbackShape ==
  ASSUME TypeOK, KindInv, NEW w \in Workers,
         (\E c \in codes : Exchange(w, c)) \/ ReadScope(w) \/ ReadDomains(w),
         NEW i, i = req[w].id
  PROVE  /\ TypeOK' /\ KindInv'
         /\ i \in Ids /\ req[w].op = "callback" /\ req[w] \in Request
         /\ req[w].step \in {"exchange", "read_scope", "read_domains"}
         /\ UNCHANGED <<tables, manager, requests, sessions, changes, crossed, faults>>
         /\ \A v \in Workers : v # w => req'[v] = req[v]
         /\ \/ req'[w] = Idle
            \/ \E m \in Domains : req'[w] = [req[w] EXCEPT !.step = "read_scope", !.scope = {m}]
            \/ /\ req[w].step = "read_scope"
               /\ req'[w] = [req[w] EXCEPT !.step = IF providers[i].all THEN "mint" ELSE "read_domains"]
            \/ /\ req[w].step = "read_domains" /\ \A d \in req[w].scope : <<i, d>> \in scopes
               /\ req'[w] = [req[w] EXCEPT !.step = "mint"]
<1>1. /\ req[w].step \in {"exchange", "read_scope", "read_domains"}
      /\ UNCHANGED <<tables, manager, sent, requests, sessions, changes, crossed, faults>>
  BY DEF Exchange, ReadScope, ReadDomains, At, outside
<1>2. req[w] \in Request /\ i \in Ids
  BY <1>1, Busy
<1>3. Kind(req[w]) /\ req[w].op = "callback" /\ req[w].flow \in Flows
  BY <1>1 DEF KindInv, Kind
<1>4. Tables
  BY TypeParts
<1>5. Tables' /\ \/ req' = [req EXCEPT ![w] = Idle]
                 \/ \E m \in Domains :
                      req' = [req EXCEPT ![w] = [req[w] EXCEPT !.step = "read_scope", !.scope = {m}]]
                 \/ /\ req[w].step = "read_scope"
                    /\ req' = [req EXCEPT ![w] =
                         [req[w] EXCEPT !.step = IF providers[i].all THEN "mint" ELSE "read_domains"]]
                 \/ /\ req[w].step = "read_domains" /\ \A d \in req[w].scope : <<i, d>> \in scopes
                    /\ req' = [req EXCEPT ![w] = [req[w] EXCEPT !.step = "mint"]]
  <2>1. CASE \E c \in codes : Exchange(w, c)
    <3>1. PICK c \in codes : Exchange(w, c)
      BY <2>1
    <3>2. c.mailbox \in Domains /\ codes' \subseteq codes
      BY <1>4, <3>1 DEF Exchange, Tables
    <3>3. Tables'
      BY <1>1, <1>4, <3>2 DEF Tables, tables, manager, changes
    <3>4. \/ req' = [req EXCEPT ![w] = Idle]
          \/ req' = [req EXCEPT ![w] = [req[w] EXCEPT !.step = "read_scope", !.scope = {c.mailbox}]]
      BY <1>2, <3>1 DEF Exchange, Done, TypeOK
    <3> QED
      BY <3>2, <3>3, <3>4
  <2>2. CASE ReadScope(w)
    <3>1. Tables'
      BY <1>4, <2>2 DEF ReadScope, Tables, tables, manager, outside, changes
    <3>2. \/ req' = [req EXCEPT ![w] = Idle]
          \/ req' = [req EXCEPT ![w] =
               [req[w] EXCEPT !.step = IF providers[i].all THEN "mint" ELSE "read_domains"]]
      BY <1>2, <2>2 DEF ReadScope, Done, TypeOK
    <3> QED
      BY <2>2, <3>1, <3>2 DEF ReadScope, At
  <2>3. CASE ReadDomains(w)
    <3>1. Tables'
      BY <1>4, <2>3 DEF ReadDomains, Tables, tables, manager, outside, changes
    <3>2. \/ req' = [req EXCEPT ![w] = Idle]
          \/ /\ \A d \in req[w].scope : <<i, d>> \in scopes
             /\ req' = [req EXCEPT ![w] = [req[w] EXCEPT !.step = "mint"]]
      BY <1>2, <2>3 DEF ReadDomains, Done, TypeOK, Covers
    <3> QED
      BY <2>3, <3>1, <3>2 DEF ReadDomains, At
  <2> QED
    BY <2>1, <2>2, <2>3
<1>6. CASE req' = [req EXCEPT ![w] = Idle]
  <2>1. ReqOK' /\ KindInv' /\ req'[w] = Idle /\ \A v \in Workers : v # w => req'[v] = req[v]
    BY <1>6, PlainStep, IdleType, IdleKind
  <2>2. TypeOK'
    BY <1>5, <2>1 DEF TypeOK, Tables, ReqOK
  <2> QED
    BY <1>1, <1>2, <1>3, <2>1, <2>2
<1>7. ASSUME NEW m \in Domains,
             req' = [req EXCEPT ![w] = [req[w] EXCEPT !.step = "read_scope", !.scope = {m}]]
      PROVE  /\ TypeOK' /\ KindInv' /\ \A v \in Workers : v # w => req'[v] = req[v]
             /\ req'[w] = [req[w] EXCEPT !.step = "read_scope", !.scope = {m}]
  <2> DEFINE R == [req[w] EXCEPT !.step = "read_scope", !.scope = {m}]
  <2>1. /\ R \in Request /\ R.step = "read_scope" /\ R.op = "callback" /\ R.id = i
        /\ R.flow = req[w].flow /\ R.scope = {m}
    BY <1>2, <1>3 DEF Request, FlowSteps
  <2>2. req' = [req EXCEPT ![w] = R]
    BY <1>7
  <2> HIDE DEF R
  <2>3. Kind(R)
    BY <1>3, <2>1 DEF Kind
  <2>4. ReqOK' /\ KindInv' /\ req'[w] = R /\ \A v \in Workers : v # w => req'[v] = req[v]
    BY <1>2, <2>1, <2>2, <2>3, PlainStep
  <2>5. TypeOK'
    BY <1>5, <2>4 DEF TypeOK, Tables, ReqOK
  <2> QED
    BY <2>4, <2>5 DEF R
<1>8. ASSUME NEW step \in {"mint", "read_domains"}, req[w].step \in {"read_scope", "read_domains"},
             req' = [req EXCEPT ![w] = [req[w] EXCEPT !.step = step]]
      PROVE  /\ TypeOK' /\ KindInv' /\ \A v \in Workers : v # w => req'[v] = req[v]
             /\ req'[w] = [req[w] EXCEPT !.step = step]
  <2> DEFINE R == [req[w] EXCEPT !.step = step]
  <2>1. /\ R \in Request /\ R.step = step /\ R.op = "callback" /\ R.id = i
        /\ R.flow = req[w].flow /\ R.scope = req[w].scope
    BY <1>2, <1>3 DEF Request, FlowSteps
  <2>2. req' = [req EXCEPT ![w] = R]
    BY <1>8
  <2> HIDE DEF R
  <2>3. Kind(R)
    BY <1>3, <1>8, <2>1 DEF Kind
  <2>4. ReqOK' /\ KindInv' /\ req'[w] = R /\ \A v \in Workers : v # w => req'[v] = req[v]
    BY <1>2, <1>8, <2>1, <2>2, <2>3, PlainStep
  <2>5. TypeOK'
    BY <1>5, <2>4 DEF TypeOK, Tables, ReqOK
  <2> QED
    BY <2>4, <2>5 DEF R
<1>9. CASE \E m \in Domains :
             req' = [req EXCEPT ![w] = [req[w] EXCEPT !.step = "read_scope", !.scope = {m}]]
  BY <1>1, <1>2, <1>3, <1>7, <1>9
<1>10. CASE /\ req[w].step = "read_scope"
            /\ req' = [req EXCEPT ![w] =
                 [req[w] EXCEPT !.step = IF providers[i].all THEN "mint" ELSE "read_domains"]]
  BY <1>1, <1>2, <1>3, <1>8, <1>10
<1>11. CASE /\ req[w].step = "read_domains" /\ \A d \in req[w].scope : <<i, d>> \in scopes
            /\ req' = [req EXCEPT ![w] = [req[w] EXCEPT !.step = "mint"]]
  BY <1>1, <1>2, <1>3, <1>8, <1>11
<1> QED
  BY <1>5, <1>6, <1>9, <1>10, <1>11

\* The session.
LEMMA MintShape ==
  ASSUME TypeOK, KindInv, IsFiniteSet(sessions), NEW w \in Workers, MintSession(w)
  PROVE  /\ TypeOK' /\ KindInv' /\ IsFiniteSet(sessions')
         /\ req[w].step = "mint" /\ req[w].op = "callback" /\ req[w].flow \in Flows
         /\ UNCHANGED <<tables, manager, requests, changes, crossed, faults>>
         /\ req'[w] = Idle /\ \A v \in Workers : v # w => req'[v] = req[v]
         /\ \E s : /\ sessions' = sessions \cup {s}
                   /\ s.flow = req[w].flow /\ s.mailbox \in req[w].scope
                   /\ s.granted = req[w].granted /\ s.late = req[w].late
<1>1. /\ req[w].step = "mint" /\ req' = [req EXCEPT ![w] = Idle]
      /\ UNCHANGED <<tables, manager, outside, requests, changes, crossed, faults>>
  BY DEF MintSession, At, Done
<1>2. req[w] \in Request
  BY <1>1, Busy
<1>3. req[w].op = "callback" /\ req[w].flow \in Flows
  BY <1>1 DEF KindInv, Kind
<1>4. PICK m \in Domains : req[w].scope = {m}
  BY <1>1 DEF KindInv, Kind
<1>5. Cardinality(sessions) \in Nat
  BY FS_CardinalityType
<1> DEFINE n == Cardinality(sessions)
           s == [flow |-> req[w].flow, mailbox |-> m, granted |-> req[w].granted,
                 late |-> req[w].late, nth |-> n]
<1>6. sessions' = sessions \cup {s}
  BY <1>4 DEF MintSession
<1> HIDE DEF n
<1>7. s \in [flow : Flows, mailbox : Domains, granted : SUBSET Domains, late : BOOLEAN, nth : Nat]
  BY <1>2, <1>3, <1>5 DEF Request, n
<1>8. /\ s.flow = req[w].flow /\ s.mailbox \in req[w].scope
      /\ s.granted = req[w].granted /\ s.late = req[w].late
  BY <1>4
<1> HIDE DEF s
<1>9. Tables
  BY TypeParts
<1>10. Tables'
  BY <1>1, <1>6, <1>7, <1>9 DEF Tables, tables, manager, outside, changes
<1>11. ReqOK' /\ KindInv' /\ req'[w] = Idle /\ \A v \in Workers : v # w => req'[v] = req[v]
  BY <1>1, PlainStep, IdleType, IdleKind
<1>12. TypeOK'
  BY <1>10, <1>11 DEF TypeOK, Tables, ReqOK
<1>13. IsFiniteSet(sessions')
  BY <1>6, FS_AddElement
<1> QED
  BY <1>1, <1>3, <1>6, <1>8, <1>11, <1>12, <1>13

\* Somebody signs in at the issuer.
LEMMA SignInShape ==
  ASSUME TypeOK, KindInv, NEW f \in Flows, NEW m \in Domains, SignIn(f, m)
  PROVE  /\ TypeOK' /\ KindInv'
         /\ UNCHANGED <<tables, manager, req, requests, sessions, changes, crossed, faults>>
<1>1. /\ codes' = codes \cup {[flow |-> f, issuer |-> sent[f], mailbox |-> m]}
      /\ UNCHANGED <<tables, manager, sent, req, requests, sessions, changes, crossed, faults>>
  BY DEF SignIn
<1>2. Tables /\ ReqOK
  BY TypeParts
<1>3. Tables'
  BY <1>1, <1>2 DEF Tables, tables, manager, changes
<1>4. ReqOK' /\ KindInv'
  BY <1>1, <1>2 DEF ReqOK, KindInv, At
<1>5. TypeOK'
  BY <1>3, <1>4 DEF TypeOK, Tables, ReqOK
<1> QED
  BY <1>1, <1>4, <1>5

\* A request ends early.
LEMMA FailShape ==
  ASSUME TypeOK, KindInv, NEW w \in Workers, FlowFails(w) \/ ChangeFails(w)
  PROVE  /\ TypeOK' /\ KindInv'
         /\ UNCHANGED <<tables, manager, requests, sessions, changes, crossed>>
         /\ req'[w] = Idle /\ \A v \in Workers : v # w => req'[v] = req[v]
         /\ \/ req[w].op \in {"start", "callback"} /\ UNCHANGED faults
            \/ faults \in Nat /\ faults' = faults + 1
<1>1. /\ req' = [req EXCEPT ![w] = Idle]
      /\ UNCHANGED <<tables, manager, outside, requests, sessions, changes, crossed>>
  BY DEF FlowFails, ChangeFails, Done
<1>2. Tables
  BY TypeParts
<1>3. /\ faults' \in 0..MaxFaults
      /\ \/ req[w].op \in {"start", "callback"} /\ UNCHANGED faults
         \/ faults \in Nat /\ faults' = faults + 1
  BY <1>2, SSOFlowAssumption DEF FlowFails, ChangeFails, Fault, Tables
<1>4. Tables'
  BY <1>1, <1>2, <1>3 DEF Tables, tables, manager, outside, changes
<1>5. ReqOK' /\ KindInv' /\ req'[w] = Idle /\ \A v \in Workers : v # w => req'[v] = req[v]
  BY <1>1, PlainStep, IdleType, IdleKind
<1>6. TypeOK'
  BY <1>4, <1>5 DEF TypeOK, Tables, ReqOK
<1> QED
  BY <1>1, <1>3, <1>5, <1>6

\* The process restarts.
LEMMA CrashShape ==
  ASSUME TypeOK, KindInv, Crash
  PROVE  /\ TypeOK' /\ KindInv'
         /\ UNCHANGED <<tables, requests, sessions, changes, crossed>>
         /\ faults \in Nat /\ faults' = faults + 1
         /\ \A w \in Workers : req'[w] = Idle
         /\ \A i \in Ids : runtimes'[i] = NoRuntime
         /\ \A f \in Flows : pending'[f] = 0
<1>1. /\ req' = [w \in Workers |-> Idle]
      /\ runtimes' = [i \in Ids |-> NoRuntime] /\ pending' = [f \in Flows |-> 0]
      /\ UNCHANGED <<tables, outside, requests, sessions, changes, crossed>>
  BY DEF Crash
<1>2. Tables
  BY TypeParts
<1>3. faults \in Nat /\ faults' = faults + 1 /\ faults' \in 0..MaxFaults
  BY <1>2, SSOFlowAssumption DEF Crash, Fault, Tables
<1>4. Tables'
  BY <1>1, <1>2, <1>3 DEF Tables, tables, outside, changes, NoRuntime
<1>5. ReqOK' /\ KindInv'
  BY <1>1, IdleType, IdleKind DEF ReqOK, KindInv, At
<1>6. TypeOK'
  BY <1>4, <1>5 DEF TypeOK, Tables, ReqOK
<1> QED
  BY <1>1, <1>3, <1>5, <1>6
-----------------------------------------------------------------------------
(* A flow ends in one session.                                             *)

\* The numbers of flows.
LEMMA FlowNumbers ==
  ASSUME TypeOK
  PROVE  /\ requests \in Nat /\ \A f \in Flows : f \in Nat /\ f # 0
         /\ \A w \in Workers : req[w].flow \in Nat
         /\ \A s \in sessions : s.flow \in Flows
<1>1. /\ requests \in 0..MaxRequests /\ req \in [Workers -> Request] /\ MaxRequests \in Nat
      /\ \A s \in sessions : s.flow \in Flows
  BY SSOFlowAssumption DEF TypeOK
<1>2. \A w \in Workers : req[w].flow \in Flows \cup {0}
  BY <1>1 DEF Request
<1> QED
  BY <1>1, <1>2 DEF Flows

\* No worker takes a flow up and none is put down.
LEMMA FlowsFrame ==
  ASSUME TypeOK, FlowsInv, UNCHANGED sessions, requests' = requests \/ requests' = requests + 1,
         \A f \in Flows : pending'[f] = pending[f] \/ pending'[f] = 0,
         \A v \in Workers : req'[v].flow = req[v].flow \/ req'[v].flow = 0,
         \A v \in Workers, f \in Flows : Serves(v, f)' => Serves(v, f)
  PROVE  FlowsInv'
<1>1. /\ requests \in Nat /\ \A f \in Flows : f \in Nat
      /\ \A w \in Workers : req[w].flow \in Nat
      /\ \A s \in sessions : s.flow \in Flows /\ s.flow \in Nat
  BY FlowNumbers
<1>2. \A f \in Flows : f > requests' => pending'[f] = 0
  BY <1>1 DEF FlowsInv
<1>3. \A w \in Workers : req'[w].flow <= requests'
  BY <1>1 DEF FlowsInv
<1>4. \A s \in sessions' : s.flow <= requests' /\ pending'[s.flow] = 0
  BY <1>1 DEF FlowsInv
<1>5. \A v, w \in Workers, f \in Flows : Serves(v, f)' /\ Serves(w, f)' => v = w
  BY DEF FlowsInv
<1>6. \A w \in Workers, f \in Flows : Serves(w, f)' =>
       pending'[f] = 0 /\ \A s \in sessions' : s.flow # f
  BY DEF FlowsInv
<1>7. \A s, t \in sessions' : s.flow = t.flow => s = t
  BY DEF FlowsInv
<1> QED
  BY <1>2, <1>3, <1>4, <1>5, <1>6, <1>7 DEF FlowsInv

\* A worker that goes on with its flow, drops it or has none.
LEMMA FlowsGoOn ==
  ASSUME TypeOK, FlowsInv, NEW w \in Workers, UNCHANGED sessions,
         requests' = requests \/ requests' = requests + 1,
         \A f \in Flows : pending'[f] = pending[f] \/ pending'[f] = 0,
         Others(w), req'[w].flow \in {req[w].flow, 0},
         req'[w].op = req[w].op \/ req'[w].op \notin {"start", "callback"}
  PROVE  FlowsInv'
<1>1. \A v \in Workers : v # w => req'[v].flow = req[v].flow /\ req'[v].op = req[v].op
  BY DEF Others, Alike
<1>2. \A v \in Workers : req'[v].flow = req[v].flow \/ req'[v].flow = 0
  BY <1>1
<1>3. ASSUME NEW v \in Workers, NEW f \in Flows, Serves(v, f)' PROVE Serves(v, f)
  <2>1. req'[v].op \in {"start", "callback"} /\ req'[v].flow = f /\ f # 0
    BY <1>3, FlowNumbers DEF Serves
  <2>2. CASE v = w
    BY <2>1, <2>2 DEF Serves
  <2>3. CASE v # w
    BY <1>1, <2>1, <2>3 DEF Serves
  <2> QED
    BY <2>2, <2>3
<1> QED
  BY <1>2, <1>3, FlowsFrame

LEMMA FlowsCall ==
  ASSUME TypeOK, KindInv, FlowsInv, NEW w \in Workers, Change(w)
  PROVE  FlowsInv'
<1>1. Idle.flow = 0 /\ Idle.op = "none"
  BY IdleIs
<1>2. ASSUME NEW by \in Admins, NEW a \in Asked, CreateProvider(w, by, a.all, a.scope) PROVE FlowsInv'
  <2>1. a.all \in BOOLEAN /\ a.scope \in SUBSET Domains
    BY SSOFlowAssumption DEF Asked
  <2>2. /\ Others(w) /\ UNCHANGED <<manager, sessions>> /\ requests' = requests + 1
        /\ req'[w] = Idle \/ (req'[w].op = "create" /\ req'[w].flow = 0)
    BY <1>2, <2>1, CreateShape
  <2> QED
    BY <1>1, <2>2, FlowsGoOn DEF manager
<1>3. ASSUME NEW by \in Admins, NEW a \in Asked, NEW i \in Ids, NEW active \in BOOLEAN,
             NEW keep \in BOOLEAN, EditProvider(w, by, i, a.all, a.scope, active, keep)
      PROVE  FlowsInv'
  <2>1. a.all \in BOOLEAN /\ a.scope \in SUBSET Domains
    BY SSOFlowAssumption DEF Asked
  <2>2. /\ UNCHANGED <<manager, sessions>> /\ requests' = requests + 1
        /\ req'[w].op = "edit" /\ req'[w].flow = 0 /\ \A v \in Workers : v # w => req'[v] = req[v]
    BY <1>3, <2>1, EditShape
  <2>3. Others(w)
    BY <2>2 DEF Others, Alike
  <2> QED
    BY <2>2, <2>3, FlowsGoOn DEF manager
<1>4. ASSUME NEW by \in Admins, NEW i \in Ids, DeleteProvider(w, by, i) PROVE FlowsInv'
  <2>1. /\ UNCHANGED <<manager, sessions>> /\ requests' = requests + 1
        /\ req'[w].op = "delete" /\ req'[w].flow = 0 /\ \A v \in Workers : v # w => req'[v] = req[v]
    BY <1>4, DeleteShape
  <2>2. Others(w)
    BY <2>1 DEF Others, Alike
  <2> QED
    BY <2>1, <2>2, FlowsGoOn DEF manager
<1>5. CASE UpdateProvider(w)
  <2>1. /\ Others(w) /\ UNCHANGED <<manager, requests, sessions>>
        /\ req'[w].op = "edit" /\ req'[w].flow = req[w].flow
    BY <1>5, UpdateShape
  <2> QED
    BY <2>1, FlowsGoOn DEF manager
<1>6. CASE DeleteDomains(w)
  <2>1. /\ Others(w) /\ UNCHANGED <<manager, requests, sessions>> /\ req[w].step = "delete_domains"
        /\ \/ req'[w] = Idle
           \/ req'[w] = [req[w] EXCEPT !.step = "invalidate"]
           \/ req'[w] = [req[w] EXCEPT !.step = "insert_domain"]
    BY <1>6, DeleteDomainsShape
  <2>2. req[w] \in Request
    BY <2>1, Busy
  <2>3. req'[w].flow \in {req[w].flow, 0} /\ (req'[w].op = req[w].op \/ req'[w].op = "none")
    BY <1>1, <2>1, <2>2 DEF Request
  <2> QED
    BY <2>1, <2>3, FlowsGoOn DEF manager
<1>7. ASSUME NEW d \in Domains, InsertDomain(w, d) PROVE FlowsInv'
  <2>1. /\ Others(w) /\ UNCHANGED <<manager, requests, sessions>> /\ req[w].step = "insert_domain"
        /\ \/ req'[w] = Idle
           \/ req'[w] = [req[w] EXCEPT !.step = "invalidate"]
           \/ req'[w] = [req[w] EXCEPT !.scope = @ \ {d}]
    BY <1>7, InsertDomainShape
  <2>2. req[w] \in Request
    BY <2>1, Busy
  <2>3. req'[w].flow \in {req[w].flow, 0} /\ (req'[w].op = req[w].op \/ req'[w].op = "none")
    BY <1>1, <2>1, <2>2 DEF Request
  <2> QED
    BY <2>1, <2>3, FlowsGoOn DEF manager
<1>8. CASE DeleteScope(w) \/ DeleteRow(w)
  <2>1. /\ Others(w) /\ UNCHANGED <<manager, requests, sessions>> /\ req[w].op = "delete"
        /\ \/ req'[w] = [req[w] EXCEPT !.step = "delete_row"]
           \/ req'[w] = [req[w] EXCEPT !.step = "invalidate"]
    BY <1>8, DeletingShape
  <2>2. req[w] \in Request
    BY <2>1, Busy
  <2>3. req'[w].flow = req[w].flow /\ req'[w].op = req[w].op
    BY <2>1, <2>2 DEF Request
  <2> QED
    BY <2>1, <2>3, FlowsGoOn DEF manager
<1>9. CASE Invalidate(w)
  <2>1. /\ UNCHANGED <<pending, requests, sessions>> /\ req'[w] = Idle
        /\ \A v \in Workers : v # w => req'[v] = req[v]
    BY <1>9, InvalidateShape
  <2>2. Others(w)
    BY <2>1 DEF Others, Alike
  <2> QED
    BY <1>1, <2>1, <2>2, FlowsGoOn
<1> QED
  BY <1>2, <1>3, <1>4, <1>5, <1>6, <1>7, <1>8, <1>9 DEF Change

\* A flow begins with a number of its own.
LEMMA FlowsStart ==
  ASSUME TypeOK, FlowsInv, NEW w \in Workers, UNCHANGED <<sessions, pending>>,
         requests' = requests + 1, requests' \in Flows,
         req'[w].flow = requests', \A v \in Workers : v # w => req'[v] = req[v]
  PROVE  FlowsInv'
<1>1. /\ requests \in Nat /\ \A f \in Flows : f \in Nat /\ f # 0
      /\ \A v \in Workers : req[v].flow \in Nat
      /\ \A s \in sessions : s.flow \in Flows
  BY FlowNumbers
<1>2. /\ \A v \in Workers : req[v].flow # requests'
      /\ \A s \in sessions : s.flow # requests'
      /\ pending[requests'] = 0
  BY <1>1 DEF FlowsInv
<1>3. \A v \in Workers, f \in Flows : Serves(v, f)' => (v = w /\ f = requests') \/ (v # w /\ Serves(v, f) /\ f # requests')
  BY <1>2 DEF Serves
<1>4. \A f \in Flows : f > requests' => pending'[f] = 0
  BY <1>1 DEF FlowsInv
<1>5. \A v \in Workers : req'[v].flow <= requests'
  BY <1>1 DEF FlowsInv
<1>6. \A s \in sessions' : s.flow <= requests' /\ pending'[s.flow] = 0
  <2> SUFFICES ASSUME NEW s \in sessions PROVE s.flow <= requests' /\ pending[s.flow] = 0
    OBVIOUS
  <2>1. s.flow <= requests /\ pending[s.flow] = 0 /\ s.flow \in Nat
    BY <1>1 DEF FlowsInv
  <2> QED
    BY <1>1, <2>1
<1>7. \A u, v \in Workers, f \in Flows : Serves(u, f)' /\ Serves(v, f)' => u = v
  BY <1>3 DEF FlowsInv
<1>8. \A v \in Workers, f \in Flows : Serves(v, f)' =>
       pending'[f] = 0 /\ \A s \in sessions' : s.flow # f
  BY <1>2, <1>3 DEF FlowsInv
<1>9. \A s, t \in sessions' : s.flow = t.flow => s = t
  BY DEF FlowsInv
<1> QED
  BY <1>4, <1>5, <1>6, <1>7, <1>8, <1>9 DEF FlowsInv

\* A pending flow is taken up by a callback.
LEMMA FlowsTakenUp ==
  ASSUME TypeOK, FlowsInv, NEW w \in Workers, NEW f \in Flows, UNCHANGED sessions,
         requests' = requests + 1, pending[f] # 0, pending'[f] = 0,
         \A g \in Flows : g # f => pending'[g] = pending[g],
         req'[w].flow = f, \A v \in Workers : v # w => req'[v] = req[v]
  PROVE  FlowsInv'
<1>1. /\ requests \in Nat /\ \A g \in Flows : g \in Nat /\ g # 0
      /\ \A v \in Workers : req[v].flow \in Nat
      /\ \A s \in sessions : s.flow \in Flows
  BY FlowNumbers
<1>2. /\ \A v \in Workers : ~ Serves(v, f)
      /\ \A s \in sessions : s.flow # f
      /\ f <= requests
  BY <1>1 DEF FlowsInv
<1>3. \A v \in Workers, g \in Flows : Serves(v, g)' => (v = w /\ g = f) \/ (v # w /\ Serves(v, g) /\ g # f)
  BY <1>2 DEF Serves
<1>4. \A g \in Flows : g > requests' => pending'[g] = 0
  BY <1>1 DEF FlowsInv
<1>5. \A v \in Workers : req'[v].flow <= requests'
  BY <1>1, <1>2 DEF FlowsInv
<1>6. \A s \in sessions' : s.flow <= requests' /\ pending'[s.flow] = 0
  BY <1>1 DEF FlowsInv
<1>7. \A u, v \in Workers, g \in Flows : Serves(u, g)' /\ Serves(v, g)' => u = v
  BY <1>3 DEF FlowsInv
<1>8. \A v \in Workers, g \in Flows : Serves(v, g)' =>
       pending'[g] = 0 /\ \A s \in sessions' : s.flow # g
  BY <1>2, <1>3 DEF FlowsInv
<1>9. \A s, t \in sessions' : s.flow = t.flow => s = t
  BY DEF FlowsInv
<1> QED
  BY <1>4, <1>5, <1>6, <1>7, <1>8, <1>9 DEF FlowsInv

\* A worker puts its flow down: it is pending.
LEMMA FlowsPutDown ==
  ASSUME TypeOK, FlowsInv, NEW w \in Workers, NEW f \in Flows, UNCHANGED <<sessions, requests>>,
         Serves(w, f), \A g \in Flows : g # f => pending'[g] = pending[g],
         req'[w] = Idle, \A v \in Workers : v # w => req'[v] = req[v]
  PROVE  FlowsInv'
<1>1. /\ requests \in Nat /\ \A g \in Flows : g \in Nat /\ g # 0
      /\ \A v \in Workers : req[v].flow \in Nat
      /\ \A s \in sessions : s.flow \in Flows
      /\ Idle.flow = 0 /\ Idle.op = "none"
  BY FlowNumbers, IdleIs
<1>2. /\ \A s \in sessions : s.flow # f
      /\ f <= requests
  BY <1>1 DEF FlowsInv, Serves
<1>3. \A v \in Workers, g \in Flows : Serves(v, g)' => v # w /\ Serves(v, g) /\ g # f
  BY <1>1 DEF Serves, FlowsInv
<1>4. \A g \in Flows : g > requests' => pending'[g] = 0
  BY <1>1, <1>2 DEF FlowsInv
<1>5. \A v \in Workers : req'[v].flow <= requests'
  BY <1>1, <1>2 DEF FlowsInv
<1>6. \A s \in sessions' : s.flow <= requests' /\ pending'[s.flow] = 0
  BY <1>1, <1>2 DEF FlowsInv
<1>7. \A u, v \in Workers, g \in Flows : Serves(u, g)' /\ Serves(v, g)' => u = v
  BY <1>3 DEF FlowsInv
<1>8. \A v \in Workers, g \in Flows : Serves(v, g)' =>
       pending'[g] = 0 /\ \A s \in sessions' : s.flow # g
  BY <1>2, <1>3 DEF FlowsInv
<1>9. \A s, t \in sessions' : s.flow = t.flow => s = t
  BY DEF FlowsInv
<1> QED
  BY <1>4, <1>5, <1>6, <1>7, <1>8, <1>9 DEF FlowsInv

\* A worker ends its flow in a session.
LEMMA FlowsEnd ==
  ASSUME TypeOK, FlowsInv, NEW w \in Workers, NEW f \in Flows, UNCHANGED <<pending, requests>>,
         Serves(w, f), NEW s, s.flow = f, sessions' = sessions \cup {s},
         req'[w] = Idle, \A v \in Workers : v # w => req'[v] = req[v]
  PROVE  FlowsInv'
<1>1. /\ requests \in Nat /\ \A g \in Flows : g \in Nat /\ g # 0
      /\ \A v \in Workers : req[v].flow \in Nat
      /\ \A t \in sessions : t.flow \in Flows
      /\ Idle.flow = 0 /\ Idle.op = "none"
  BY FlowNumbers, IdleIs
<1>2. /\ \A t \in sessions : t.flow # f
      /\ f <= requests /\ pending[f] = 0
  BY <1>1 DEF FlowsInv, Serves
<1>3. \A v \in Workers, g \in Flows : Serves(v, g)' => v # w /\ Serves(v, g) /\ g # f
  BY <1>1 DEF Serves, FlowsInv
<1>4. \A g \in Flows : g > requests' => pending'[g] = 0
  BY <1>1, <1>2 DEF FlowsInv
<1>5. \A v \in Workers : req'[v].flow <= requests'
  BY <1>1, <1>2 DEF FlowsInv
<1>6. \A t \in sessions' : t.flow <= requests' /\ pending'[t.flow] = 0
  BY <1>1, <1>2 DEF FlowsInv
<1>7. \A u, v \in Workers, g \in Flows : Serves(u, g)' /\ Serves(v, g)' => u = v
  BY <1>3 DEF FlowsInv
<1>8. \A v \in Workers, g \in Flows : Serves(v, g)' =>
       pending'[g] = 0 /\ \A t \in sessions' : t.flow # g
  BY <1>2, <1>3 DEF FlowsInv
<1>9. \A t, u \in sessions' : t.flow = u.flow => t = u
  BY <1>2 DEF FlowsInv
<1> QED
  BY <1>4, <1>5, <1>6, <1>7, <1>8, <1>9 DEF FlowsInv

LEMMA FlowsFlow ==
  ASSUME TypeOK, KindInv, FlowsInv, IsFiniteSet(sessions), NEW w \in Workers, Flow(w)
  PROVE  FlowsInv'
<1>1. Idle.flow = 0 /\ Idle.op = "none"
  BY IdleIs
<1>2. ASSUME NEW rt \in Nat, Obtained(w, rt), req[w].op \in {"start", "callback"},
             req[w].flow \in Flows, UNCHANGED <<requests, sessions>>,
             \A v \in Workers : v # w => req'[v] = req[v]
      PROVE  FlowsInv'
  <2>1. CASE req[w].op = "start"
    <3>1. /\ Serves(w, req[w].flow) /\ req'[w] = Idle
          /\ \A g \in Flows : g # req[w].flow => pending'[g] = pending[g]
      BY <1>2, <2>1 DEF Serves, Obtained
    <3> QED
      BY <1>2, <3>1, FlowsPutDown
  <2>2. CASE req[w].op # "start"
    <3>1. req'[w].flow = req[w].flow /\ req'[w].op = req[w].op /\ UNCHANGED pending
      BY <1>2, <2>2 DEF Obtained
    <3>2. Others(w)
      BY <1>2 DEF Others, Alike
    <3> QED
      BY <1>2, <3>1, <3>2, FlowsGoOn
  <2> QED
    BY <2>1, <2>2
<1>3. ASSUME NEW i \in Ids, Start(w, i) PROVE FlowsInv'
  <2>1. /\ UNCHANGED <<manager, sessions>> /\ requests' = requests + 1 /\ requests' \in Flows
        /\ req'[w].flow = requests' /\ \A v \in Workers : v # w => req'[v] = req[v]
    BY <1>3, StartShape
  <2> QED
    BY <2>1, FlowsStart DEF manager
<1>4. ASSUME NEW f \in Flows, NEW c \in Flows, ConsumePending(w, f, c) PROVE FlowsInv'
  <2>1. /\ UNCHANGED sessions /\ requests' = requests + 1
        /\ pending'[f] = 0 /\ \A g \in Flows : g # f => pending'[g] = pending[g]
        /\ \/ UNCHANGED req
           \/ pending[f] # 0 /\ req'[w].flow = f /\ \A v \in Workers : v # w => req'[v] = req[v]
    BY <1>4, ConsumeShape
  <2>2. CASE UNCHANGED req
    <3>1. Others(w) /\ req'[w] = req[w] /\ \A g \in Flows : pending'[g] = pending[g] \/ pending'[g] = 0
      BY <2>1, <2>2 DEF Others, Alike
    <3> QED
      BY <2>1, <3>1, FlowsGoOn
  <2>3. CASE pending[f] # 0 /\ req'[w].flow = f /\ \A v \in Workers : v # w => req'[v] = req[v]
    BY <2>1, <2>3, FlowsTakenUp
  <2> QED
    BY <2>1, <2>2, <2>3
<1>5. CASE LookupRuntime(w)
  <2> DEFINE i == req[w].id
  <2>1. /\ i \in Ids /\ req[w].step = "lookup" /\ req[w].op \in {"start", "callback"} /\ req[w].flow \in Flows
        /\ UNCHANGED <<runtimes, requests, sessions>>
        /\ \A v \in Workers : v # w => req'[v] = req[v]
        /\ \/ runtimes[i] # NoRuntime /\ Obtained(w, runtimes[i])
           \/ /\ runtimes[i] = NoRuntime /\ UNCHANGED pending
              /\ req'[w] = [req[w] EXCEPT !.step = "read_provider"]
    BY <1>5, LookupShape
  <2>2. runtimes[i] \in Nat /\ req[w] \in Request
    BY <2>1, Busy DEF TypeOK
  <2>3. CASE Obtained(w, runtimes[i])
    BY <1>2, <2>1, <2>2, <2>3
  <2>4. CASE UNCHANGED pending /\ req'[w] = [req[w] EXCEPT !.step = "read_provider"]
    <3>1. req'[w].flow = req[w].flow /\ req'[w].op = req[w].op
      BY <2>2, <2>4 DEF Request
    <3>2. Others(w)
      BY <2>1 DEF Others, Alike
    <3> QED
      BY <2>1, <2>4, <3>1, <3>2, FlowsGoOn
  <2> QED
    BY <2>1, <2>3, <2>4
<1>6. CASE ReadProvider(w)
  <2> DEFINE i == req[w].id
  <2>1. /\ req[w].step = "read_provider" /\ UNCHANGED <<manager, requests, sessions>>
        /\ \A v \in Workers : v # w => req'[v] = req[v]
        /\ \/ req'[w] = Idle
           \/ req'[w] = [req[w] EXCEPT !.row = providers[i], !.step = "discover"]
    BY <1>6, ReadProviderShape
  <2>2. req[w] \in Request
    BY <2>1, Busy
  <2>3. req'[w].flow \in {req[w].flow, 0} /\ (req'[w].op = req[w].op \/ req'[w].op = "none")
    BY <1>1, <2>1, <2>2 DEF Request
  <2>4. Others(w)
    BY <2>1 DEF Others, Alike
  <2> QED
    BY <2>1, <2>3, <2>4, FlowsGoOn DEF manager
<1>7. CASE Discover(w)
  <2>1. /\ req[w].op \in {"start", "callback"} /\ req[w].flow \in Flows /\ req[w].step = "discover"
        /\ UNCHANGED <<requests, sessions>>
        /\ Obtained(w, req[w].row.issuer)
        /\ \A v \in Workers : v # w => req'[v] = req[v]
    BY <1>7, DiscoverShape
  <2>2. req[w] \in Request
    BY <2>1, Busy
  <2>3. req[w].row.issuer \in Nat
    BY <2>2 DEF Request, Row
  <2> QED
    BY <1>2, <2>1, <2>3
<1>8. CASE (\E c \in codes : Exchange(w, c)) \/ ReadScope(w) \/ ReadDomains(w)
  <2> DEFINE i == req[w].id
  <2>1. /\ req[w] \in Request
        /\ UNCHANGED <<manager, requests, sessions>>
        /\ \A v \in Workers : v # w => req'[v] = req[v]
        /\ \/ req'[w] = Idle
           \/ \E m \in Domains : req'[w] = [req[w] EXCEPT !.step = "read_scope", !.scope = {m}]
           \/ req'[w] = [req[w] EXCEPT !.step = IF providers[i].all THEN "mint" ELSE "read_domains"]
           \/ req'[w] = [req[w] EXCEPT !.step = "mint"]
    BY <1>8, CallbackShape
  <2>2. req'[w].flow \in {req[w].flow, 0} /\ (req'[w].op = req[w].op \/ req'[w].op = "none")
    BY <1>1, <2>1 DEF Request
  <2>3. Others(w)
    BY <2>1 DEF Others, Alike
  <2> QED
    BY <2>1, <2>2, <2>3, FlowsGoOn DEF manager
<1>9. CASE MintSession(w)
  <2>1. /\ req[w].op = "callback" /\ req[w].flow \in Flows
        /\ UNCHANGED <<manager, requests>>
        /\ req'[w] = Idle /\ \A v \in Workers : v # w => req'[v] = req[v]
        /\ \E s : sessions' = sessions \cup {s} /\ s.flow = req[w].flow
    BY <1>9, MintShape
  <2>2. Serves(w, req[w].flow)
    BY <2>1 DEF Serves
  <2> QED
    BY <2>1, <2>2, FlowsEnd DEF manager
<1> QED
  BY <1>3, <1>4, <1>5, <1>6, <1>7, <1>8, <1>9 DEF Flow

LEMMA FlowsNext == TypeOK /\ KindInv /\ IsFiniteSet(sessions) /\ FlowsInv /\ Next => FlowsInv'
<1> SUFFICES ASSUME TypeOK, KindInv, IsFiniteSet(sessions), FlowsInv, Next PROVE FlowsInv'
  OBVIOUS
<1>1. Idle.flow = 0 /\ Idle.op = "none"
  BY IdleIs
<1>2. ASSUME NEW w \in Workers, Change(w) PROVE FlowsInv'
  BY <1>2, FlowsCall
<1>3. ASSUME NEW w \in Workers, Flow(w) PROVE FlowsInv'
  BY <1>3, FlowsFlow
<1>4. ASSUME NEW w \in Workers, FlowFails(w) \/ ChangeFails(w) PROVE FlowsInv'
  <2>1. /\ UNCHANGED <<manager, requests, sessions>>
        /\ req'[w] = Idle /\ \A v \in Workers : v # w => req'[v] = req[v]
    BY <1>4, FailShape
  <2>2. Others(w)
    BY <2>1 DEF Others, Alike
  <2> QED
    BY <1>1, <2>1, <2>2, FlowsGoOn DEF manager
<1>5. ASSUME NEW f \in Flows, NEW m \in Domains, SignIn(f, m) PROVE FlowsInv'
  <2>1. UNCHANGED <<manager, req, requests, sessions>>
    BY <1>5, SignInShape
  <2> QED
    BY <2>1, FlowsFrame DEF manager, Serves
<1>6. CASE Crash
  <2>1. /\ UNCHANGED <<requests, sessions>>
        /\ \A w \in Workers : req'[w] = Idle
        /\ \A f \in Flows : pending'[f] = 0
    BY <1>6, CrashShape
  <2> QED
    BY <1>1, <2>1, FlowsFrame DEF Serves
<1> QED
  BY <1>2, <1>3, <1>4, <1>5, <1>6 DEF Next
-----------------------------------------------------------------------------
(* What a session's provider covered was granted to it.                    *)

\* A step of worker w that changes tables, seen by all callbacks.
LEMMA GrantWatched ==
  ASSUME TypeOK, GrantInv, NEW w \in Workers, Watched, Others(w), UNCHANGED sessions,
         req'[w].op # "callback" /\ req'[w].step # "mint"
  PROVE  GrantInv'
<1>1. ASSUME NEW v \in Workers, req'[v].op = "callback", req'[v].step = "mint"
      PROVE  req'[v].scope \subseteq req'[v].granted
  <2>1. v # w
    BY <1>1
  <2>2. /\ req[v].op = "callback" /\ req[v].step = "mint" /\ req'[v].scope = req[v].scope
        /\ req[v].granted \subseteq req'[v].granted
    BY <1>1, <2>1 DEF Others, Alike
  <2>3. req[v].scope \subseteq req[v].granted
    BY <2>2 DEF GrantInv, At
  <2> QED
    BY <2>2, <2>3
<1>2. \A s \in sessions' : s.mailbox \in s.granted
  BY DEF GrantInv
<1> QED
  BY <1>1, <1>2 DEF GrantInv, Watched, At

\* A step of worker w that leaves the tables alone.
LEMMA GrantPlain ==
  ASSUME TypeOK, GrantInv, NEW w \in Workers, UNCHANGED tables,
         \A v \in Workers : v # w => req'[v] = req[v],
         req'[w].op = "callback" =>
           /\ Covered(providers, scopes, req'[w].id) \subseteq req'[w].granted
           /\ req'[w].step = "mint" => req'[w].scope \subseteq req'[w].granted,
         \A s \in sessions' : s.mailbox \in s.granted
  PROVE  GrantInv'
<1>1. UNCHANGED <<providers, scopes>>
  BY DEF tables
<1>2. ASSUME NEW v \in Workers, req'[v].op = "callback"
      PROVE  /\ Covered(providers, scopes, req'[v].id) \subseteq req'[v].granted
             /\ req'[v].step = "mint" => req'[v].scope \subseteq req'[v].granted
  <2>1. CASE v = w
    BY <1>2, <2>1
  <2>2. CASE v # w
    BY <1>2, <2>2 DEF GrantInv, At
  <2> QED
    BY <2>1, <2>2
<1>3. \A v \in Workers : req'[v].op = "callback" =>
        Covered(providers', scopes', req'[v].id) \subseteq req'[v].granted
  BY <1>1, <1>2
<1> QED
  BY <1>2, <1>3 DEF GrantInv, At

LEMMA GrantChange ==
  ASSUME TypeOK, KindInv, GrantInv, NEW w \in Workers, Change(w)
  PROVE  GrantInv'
<1>1. Idle.step = "idle" /\ Idle.op = "none"
  BY IdleIs
<1>2. \A s \in sessions : s.mailbox \in s.granted
  BY DEF GrantInv
<1>3. ASSUME NEW by \in Admins, NEW a \in Asked, CreateProvider(w, by, a.all, a.scope) PROVE GrantInv'
  <2>1. a.all \in BOOLEAN /\ a.scope \in SUBSET Domains
    BY SSOFlowAssumption DEF Asked
  <2>2. /\ Others(w) /\ Watched /\ UNCHANGED <<manager, sessions>>
        /\ req'[w] = Idle \/ (req'[w].op = "create" /\ req'[w].step = "delete_domains")
    BY <1>3, <2>1, CreateShape
  <2> QED
    BY <1>1, <2>2, GrantWatched
<1>4. ASSUME NEW by \in Admins, NEW a \in Asked, NEW i \in Ids, NEW active \in BOOLEAN,
             NEW keep \in BOOLEAN, EditProvider(w, by, i, a.all, a.scope, active, keep)
      PROVE  GrantInv'
  <2>1. a.all \in BOOLEAN /\ a.scope \in SUBSET Domains
    BY SSOFlowAssumption DEF Asked
  <2>2. /\ UNCHANGED <<tables, sessions>> /\ req'[w].op = "edit"
        /\ \A v \in Workers : v # w => req'[v] = req[v]
    BY <1>4, <2>1, EditShape
  <2> QED
    BY <1>2, <2>2, GrantPlain
<1>5. ASSUME NEW by \in Admins, NEW i \in Ids, DeleteProvider(w, by, i) PROVE GrantInv'
  <2>1. /\ UNCHANGED <<tables, sessions>> /\ req'[w].op = "delete"
        /\ \A v \in Workers : v # w => req'[v] = req[v]
    BY <1>5, DeleteShape
  <2> QED
    BY <1>2, <2>1, GrantPlain
<1>6. CASE UpdateProvider(w)
  <2>1. /\ Others(w) /\ Watched /\ UNCHANGED sessions
        /\ req'[w].op = "edit" /\ req'[w].step = "delete_domains"
    BY <1>6, UpdateShape
  <2> QED
    BY <2>1, GrantWatched
<1>7. CASE DeleteDomains(w)
  <2>1. /\ Others(w) /\ Watched /\ UNCHANGED sessions /\ req[w].op \in {"create", "edit"}
        /\ req[w].step = "delete_domains"
        /\ \/ req'[w] = Idle
           \/ req'[w] = [req[w] EXCEPT !.step = "invalidate"]
           \/ req'[w] = [req[w] EXCEPT !.step = "insert_domain"]
    BY <1>7, DeleteDomainsShape
  <2>2. req[w] \in Request
    BY <2>1, Busy
  <2>3. req'[w].op # "callback" /\ req'[w].step # "mint"
    BY <1>1, <2>1, <2>2 DEF Request
  <2> QED
    BY <2>1, <2>3, GrantWatched
<1>8. ASSUME NEW d \in Domains, InsertDomain(w, d) PROVE GrantInv'
  <2>1. /\ Others(w) /\ UNCHANGED sessions /\ req[w].op \in {"create", "edit"}
        /\ UNCHANGED providers /\ req[w].step = "insert_domain"
        /\ \/ req'[w] = Idle /\ UNCHANGED scopes /\ \A v \in Workers : v # w => req'[v] = req[v]
           \/ /\ Watched
              /\ \/ req'[w] = Idle
                 \/ req'[w] = [req[w] EXCEPT !.step = "invalidate"]
                 \/ req'[w] = [req[w] EXCEPT !.scope = @ \ {d}]
    BY <1>8, InsertDomainShape
  <2>2. req[w] \in Request
    BY <2>1, Busy
  <2>3. req'[w].op # "callback" /\ req'[w].step # "mint"
    BY <1>1, <2>1, <2>2 DEF Request
  <2>4. CASE Watched
    BY <2>1, <2>3, <2>4, GrantWatched
  <2>5. CASE req'[w] = Idle /\ UNCHANGED scopes /\ \A v \in Workers : v # w => req'[v] = req[v]
    <3>1. UNCHANGED tables
      BY <2>1, <2>5 DEF tables
    <3> QED
      BY <1>2, <2>1, <2>3, <2>5, <3>1, GrantPlain
  <2> QED
    BY <2>1, <2>4, <2>5
<1>9. CASE DeleteScope(w) \/ DeleteRow(w)
  <2>1. /\ Others(w) /\ Watched /\ UNCHANGED sessions /\ req[w].op = "delete"
        /\ req[w] \in Request
        /\ \/ req'[w] = [req[w] EXCEPT !.step = "delete_row"]
           \/ req'[w] = [req[w] EXCEPT !.step = "invalidate"]
    BY <1>9, DeletingShape DEF TypeOK
  <2>2. req'[w].op # "callback" /\ req'[w].step # "mint"
    BY <2>1 DEF Request
  <2> QED
    BY <2>1, <2>2, GrantWatched
<1>10. CASE Invalidate(w)
  <2>1. /\ UNCHANGED <<tables, sessions>> /\ req'[w] = Idle
        /\ \A v \in Workers : v # w => req'[v] = req[v]
    BY <1>10, InvalidateShape
  <2> QED
    BY <1>1, <1>2, <2>1, GrantPlain
<1> QED
  BY <1>3, <1>4, <1>5, <1>6, <1>7, <1>8, <1>9, <1>10 DEF Change

LEMMA GrantFlow ==
  ASSUME TypeOK, KindInv, GrantInv, IsFiniteSet(sessions), NEW w \in Workers, Flow(w)
  PROVE  GrantInv'
<1>1. Idle.step = "idle" /\ Idle.op = "none"
  BY IdleIs
<1>2. \A s \in sessions : s.mailbox \in s.granted
  BY DEF GrantInv
<1>3. ASSUME NEW i \in Ids, Start(w, i) PROVE GrantInv'
  <2>1. /\ UNCHANGED <<tables, sessions>> /\ req'[w].op = "start"
        /\ \A v \in Workers : v # w => req'[v] = req[v]
    BY <1>3, StartShape
  <2> QED
    BY <1>2, <2>1, GrantPlain
<1>4. ASSUME NEW f \in Flows, NEW c \in Flows, ConsumePending(w, f, c) PROVE GrantInv'
  <2>1. /\ UNCHANGED <<tables, sessions>> /\ req[w] = Idle
        /\ \/ UNCHANGED req
           \/ /\ req'[w].step = "lookup" /\ req'[w].id = pending[f]
              /\ req'[w].granted = Covered(providers, scopes, pending[f])
              /\ \A v \in Workers : v # w => req'[v] = req[v]
    BY <1>4, ConsumeShape
  <2> QED
    BY <1>1, <1>2, <2>1, GrantPlain
<1>5. ASSUME NEW rt \in Nat, Obtained(w, rt), req[w].op \in {"start", "callback"},
             UNCHANGED <<tables, sessions>>,
             \A v \in Workers : v # w => req'[v] = req[v]
      PROVE  GrantInv'
  <2>1. CASE req[w].op = "start"
    <3>1. req'[w] = Idle
      BY <1>5, <2>1 DEF Obtained
    <3> QED
      BY <1>1, <1>2, <1>5, <3>1, GrantPlain
  <2>2. CASE req[w].op = "callback"
    <3>1. /\ req'[w].step = "exchange" /\ req'[w].id = req[w].id
          /\ req'[w].granted = req[w].granted
      BY <1>5, <2>2 DEF Obtained
    <3>2. Covered(providers, scopes, req[w].id) \subseteq req[w].granted
      BY <2>2 DEF GrantInv
    <3> QED
      BY <1>2, <1>5, <3>1, <3>2, GrantPlain
  <2> QED
    BY <1>5, <2>1, <2>2
<1>6. ASSUME UNCHANGED <<tables, sessions>>, req[w] \in Request, req'[w] \in Request,
             req'[w] = Idle \/ (req'[w].op = req[w].op /\ req'[w].id = req[w].id /\ req'[w].granted = req[w].granted),
             req'[w].step = "mint" /\ req[w].op = "callback" => req'[w].scope \subseteq req[w].granted,
             \A v \in Workers : v # w => req'[v] = req[v]
      PROVE  GrantInv'
  <2>1. CASE req'[w] = Idle
    BY <1>1, <1>2, <1>6, <2>1, GrantPlain
  <2>2. CASE req'[w].op = "callback" /\ req[w].op = "callback" /\ req'[w].id = req[w].id /\ req'[w].granted = req[w].granted
    <3>1. Covered(providers, scopes, req[w].id) \subseteq req[w].granted
      BY <2>2 DEF GrantInv
    <3> QED
      BY <1>2, <1>6, <2>2, <3>1, GrantPlain
  <2>3. CASE req'[w].op # "callback"
    BY <1>2, <1>6, <2>3, GrantPlain
  <2> QED
    BY <1>6, <2>1, <2>2, <2>3
<1>7. CASE LookupRuntime(w)
  <2> DEFINE i == req[w].id
  <2>1. /\ i \in Ids /\ req[w].op \in {"start", "callback"} /\ req[w].step = "lookup"
        /\ UNCHANGED <<tables, sessions>> /\ TypeOK'
        /\ \A v \in Workers : v # w => req'[v] = req[v]
        /\ \/ Obtained(w, runtimes[i])
           \/ req'[w] = [req[w] EXCEPT !.step = "read_provider"]
    BY <1>7, LookupShape
  <2>2. runtimes[i] \in Nat /\ req[w] \in Request /\ req'[w] \in Request
    BY <2>1 DEF TypeOK
  <2>3. CASE Obtained(w, runtimes[i])
    BY <1>5, <2>1, <2>2, <2>3
  <2>4. CASE req'[w] = [req[w] EXCEPT !.step = "read_provider"]
    <3>1. /\ req'[w].op = req[w].op /\ req'[w].id = req[w].id /\ req'[w].granted = req[w].granted
          /\ req'[w].step # "mint"
      BY <2>2, <2>4 DEF Request
    <3> QED
      BY <1>6, <2>1, <2>2, <3>1
  <2> QED
    BY <2>1, <2>3, <2>4
<1>8. CASE ReadProvider(w)
  <2> DEFINE i == req[w].id
  <2>1. /\ UNCHANGED <<tables, sessions>> /\ TypeOK'
        /\ \A v \in Workers : v # w => req'[v] = req[v]
        /\ \/ req'[w] = Idle
           \/ req'[w] = [req[w] EXCEPT !.row = providers[i], !.step = "discover"]
    BY <1>8, ReadProviderShape
  <2>2. req[w] \in Request /\ req'[w] \in Request
    BY <2>1 DEF TypeOK
  <2>3. /\ req'[w] = Idle \/ (req'[w].op = req[w].op /\ req'[w].id = req[w].id /\ req'[w].granted = req[w].granted)
        /\ req'[w].step # "mint"
    BY <1>1, <2>1, <2>2 DEF Request
  <2> QED
    BY <1>6, <2>1, <2>2, <2>3
<1>9. CASE Discover(w)
  <2>1. /\ req[w].op \in {"start", "callback"} /\ req[w].step = "discover"
        /\ UNCHANGED <<tables, sessions>>
        /\ Obtained(w, req[w].row.issuer)
        /\ \A v \in Workers : v # w => req'[v] = req[v]
    BY <1>9, DiscoverShape
  <2>2. req[w] \in Request
    BY <2>1, Busy
  <2>3. req[w].row.issuer \in Nat
    BY <2>2 DEF Request, Row
  <2> QED
    BY <1>5, <2>1, <2>3
<1>10. CASE (\E c \in codes : Exchange(w, c)) \/ ReadScope(w) \/ ReadDomains(w)
  <2> DEFINE i == req[w].id
  <2>1. /\ req[w] \in Request /\ TypeOK' /\ i \in Ids /\ req[w].op = "callback"
        /\ UNCHANGED <<tables, sessions>>
        /\ \A v \in Workers : v # w => req'[v] = req[v]
        /\ \/ req'[w] = Idle
           \/ \E m \in Domains : req'[w] = [req[w] EXCEPT !.step = "read_scope", !.scope = {m}]
           \/ req'[w] = [req[w] EXCEPT !.step = IF providers[i].all THEN "mint" ELSE "read_domains"]
           \/ /\ \A d \in req[w].scope : <<i, d>> \in scopes
              /\ req'[w] = [req[w] EXCEPT !.step = "mint"]
    BY <1>10, CallbackShape
  <2>2. req'[w] \in Request
    BY <2>1 DEF TypeOK
  <2>3. req'[w] = Idle \/ (req'[w].op = req[w].op /\ req'[w].id = req[w].id /\ req'[w].granted = req[w].granted)
    BY <2>1 DEF Request
  <2>4. Covered(providers, scopes, i) \subseteq req[w].granted /\ req[w].scope \subseteq Domains
    BY <2>1 DEF GrantInv, Request
  <2>5. ASSUME req'[w].step = "mint" PROVE req'[w].scope \subseteq req[w].granted
    <3>1. CASE req'[w] = [req[w] EXCEPT !.step = IF providers[i].all THEN "mint" ELSE "read_domains"]
      <4>1. providers[i].all /\ req'[w].scope = req[w].scope
        BY <2>1, <2>5, <3>1 DEF Request
      <4>2. \A d \in Domains : d \in Covered(providers, scopes, i)
        BY <2>1, <4>1 DEF Covered
      <4> QED
        BY <2>4, <4>1, <4>2
    <3>2. CASE (\A d \in req[w].scope : <<i, d>> \in scopes) /\ req'[w] = [req[w] EXCEPT !.step = "mint"]
      <4>1. req'[w].scope = req[w].scope
        BY <2>1, <3>2 DEF Request
      <4>2. req[w].scope \subseteq Covered(providers, scopes, i)
        BY <2>4, <3>2 DEF Covered
      <4> QED
        BY <2>4, <4>1, <4>2
    <3>3. CASE req'[w] = Idle
      BY <1>1, <2>5, <3>3
    <3>4. CASE \E m \in Domains : req'[w] = [req[w] EXCEPT !.step = "read_scope", !.scope = {m}]
      BY <2>1, <2>5, <3>4 DEF Request
    <3> QED
      BY <2>1, <3>1, <3>2, <3>3, <3>4
  <2> QED
    BY <1>6, <2>1, <2>2, <2>3, <2>5
<1>11. CASE MintSession(w)
  <2>1. /\ req[w].op = "callback" /\ req[w].step = "mint"
        /\ UNCHANGED tables
        /\ req'[w] = Idle /\ \A v \in Workers : v # w => req'[v] = req[v]
    BY <1>11, MintShape
  <2>2. PICK s : /\ sessions' = sessions \cup {s} /\ s.mailbox \in req[w].scope
                 /\ s.granted = req[w].granted
    BY <1>11, MintShape
  <2>3. req[w].scope \subseteq req[w].granted
    BY <2>1 DEF GrantInv, At
  <2>4. \A t \in sessions' : t.mailbox \in t.granted
    BY <1>2, <2>2, <2>3
  <2> QED
    BY <1>1, <2>1, <2>4, GrantPlain
<1> QED
  BY <1>3, <1>4, <1>7, <1>8, <1>9, <1>10, <1>11 DEF Flow

LEMMA GrantNext == TypeOK /\ KindInv /\ IsFiniteSet(sessions) /\ GrantInv /\ Next => GrantInv'
<1> SUFFICES ASSUME TypeOK, KindInv, IsFiniteSet(sessions), GrantInv, Next PROVE GrantInv'
  OBVIOUS
<1>1. Idle.step = "idle" /\ Idle.op = "none" /\ \A s \in sessions : s.mailbox \in s.granted
  BY IdleIs DEF GrantInv
<1>2. ASSUME NEW w \in Workers, Change(w) PROVE GrantInv'
  BY <1>2, GrantChange
<1>3. ASSUME NEW w \in Workers, Flow(w) PROVE GrantInv'
  BY <1>3, GrantFlow
<1>4. ASSUME NEW w \in Workers, FlowFails(w) \/ ChangeFails(w) PROVE GrantInv'
  <2>1. /\ UNCHANGED <<tables, sessions>>
        /\ req'[w] = Idle /\ \A v \in Workers : v # w => req'[v] = req[v]
    BY <1>4, FailShape
  <2> QED
    BY <1>1, <2>1, GrantPlain
<1>5. ASSUME NEW f \in Flows, NEW m \in Domains, SignIn(f, m) PROVE GrantInv'
  <2>1. UNCHANGED <<tables, req, sessions>>
    BY <1>5, SignInShape
  <2> QED
    BY <2>1 DEF tables, GrantInv, Covered, At
<1>6. CASE Crash
  <2>1. UNCHANGED <<tables, sessions>> /\ \A w \in Workers : req'[w] = Idle
    BY <1>6, CrashShape
  <2> QED
    BY <1>1, <2>1 DEF GrantInv, At
<1> QED
  BY <1>2, <1>3, <1>4, <1>5, <1>6 DEF Next
-----------------------------------------------------------------------------
(* Out of service is out of service.                                       *)

\* A step of worker w that changes tables, seen by all callbacks.
LEMMA LateWatched ==
  ASSUME TypeOK, LateInv, NEW w \in Workers, Watched, Others(w),
         UNCHANGED <<runtimes, sessions, crossed>>, retired' \subseteq retired,
         \A i \in retired' : ~ providers'[i].active,
         req'[w].op # "callback" /\ req'[w].step # "discover"
  PROVE  LateInv'
<1>1. \A v \in Workers : v # w => /\ req'[v].op = req[v].op /\ req'[v].id = req[v].id
                                  /\ req'[v].step = req[v].step /\ (req'[v].late => req[v].late)
  BY DEF Others, Alike
<1>2. \A i \in Ids : Dead(i)' => Dead(i)
  <2> SUFFICES ASSUME NEW i \in Ids, Dead(i)' PROVE Dead(i)
    OBVIOUS
  <2>1. CASE i \in retired'
    BY <2>1 DEF Dead
  <2>2. CASE i \notin retired'
    <3>1. PICK v \in Workers : req'[v].op = "callback" /\ req'[v].late /\ req'[v].id = i
      BY <2>2 DEF Dead
    <3>2. v # w
      BY <3>1
    <3> QED
      BY <1>1, <3>1, <3>2 DEF Dead
  <2> QED
    BY <2>1, <2>2
<1>3. ASSUME NEW i \in Ids, Dead(i)' PROVE ~ providers'[i].active
  <2>1. CASE i \in retired'
    BY <2>1
  <2>2. CASE i \notin retired'
    <3>1. PICK v \in Workers : req'[v].op = "callback" /\ req'[v].late /\ req'[v].id = i
      BY <1>3, <2>2 DEF Dead
    <3> QED
      BY <3>1 DEF Watched
  <2> QED
    BY <2>1, <2>2
<1>4. ASSUME ~ crossed'
      PROVE  /\ \A i \in Ids : Dead(i)' => runtimes'[i] = NoRuntime
             /\ \A v \in Workers : req'[v].op = "callback" /\ req'[v].late =>
                  req'[v].step \in {"lookup", "read_provider"}
             /\ \A s \in sessions' : ~ s.late
  BY <1>1, <1>2, <1>4 DEF LateInv
<1>5. ASSUME ~ crossed', NEW v \in Workers, NEW i \in Ids, req'[v].step = "discover" /\ req'[v].id = i
      PROVE  ~ Dead(i)'
  <2>1. req[v].step = "discover" /\ req[v].id = i
    BY <1>1, <1>5
  <2>2. ~ Dead(i)
    BY <1>5, <2>1 DEF LateInv, At
  <2> QED
    BY <1>2, <2>2
<1> QED
  BY <1>3, <1>4, <1>5 DEF LateInv, At

\* A step of worker w that leaves the providers alone.
LEMMA LatePlain ==
  ASSUME LateInv, NEW w \in Workers, UNCHANGED <<providers, retired, crossed>>,
         \A v \in Workers : v # w => req'[v] = req[v],
         req'[w].op = "callback" /\ req'[w].late =>
           /\ Dead(req'[w].id)
           /\ ~ crossed => req'[w].step \in {"lookup", "read_provider"},
         req'[w].step = "discover" /\ ~ crossed => ~ Dead(req'[w].id),
         \A i \in Ids : \/ runtimes'[i] = runtimes[i] \/ runtimes'[i] = NoRuntime
                        \/ ~ crossed => ~ Dead(i),
         ~ crossed => \A s \in sessions' : ~ s.late
  PROVE  LateInv'
<1> DEFINE x == req'[w].id
<1>1. \A i \in Ids : Dead(i)' => Dead(i)
  <2> SUFFICES ASSUME NEW i \in Ids, Dead(i)' PROVE Dead(i)
    OBVIOUS
  <2>1. CASE i \in retired'
    BY <2>1 DEF Dead
  <2>2. CASE i \notin retired'
    <3>1. PICK v \in Workers : req'[v].op = "callback" /\ req'[v].late /\ req'[v].id = i
      BY <2>2 DEF Dead
    <3>2. CASE v = w
      BY <3>1, <3>2
    <3>3. CASE v # w
      BY <3>1, <3>3 DEF Dead
    <3> QED
      BY <3>2, <3>3
  <2> QED
    BY <2>1, <2>2
<1>2. \A i \in Ids : Dead(i)' => ~ providers'[i].active
  BY <1>1 DEF LateInv
<1>3. ASSUME ~ crossed', NEW i \in Ids, Dead(i)' PROVE runtimes'[i] = NoRuntime
  <2>1. Dead(i)
    BY <1>1, <1>3
  <2>2. runtimes[i] = NoRuntime
    BY <1>3, <2>1 DEF LateInv
  <2> QED
    BY <1>3, <2>1, <2>2
<1>4. ASSUME ~ crossed', NEW v \in Workers, NEW i \in Ids, req'[v].step = "discover" /\ req'[v].id = i
      PROVE  ~ Dead(i)'
  <2>1. ~ Dead(i)
    BY <1>4 DEF LateInv, At
  <2> QED
    BY <1>1, <2>1
<1>5. ASSUME ~ crossed', NEW v \in Workers, req'[v].op = "callback" /\ req'[v].late
      PROVE  req'[v].step \in {"lookup", "read_provider"}
  <2>1. CASE v = w
    BY <1>5, <2>1
  <2>2. CASE v # w
    BY <1>5, <2>2 DEF LateInv
  <2> QED
    BY <2>1, <2>2
<1> QED
  BY <1>2, <1>3, <1>4, <1>5 DEF LateInv, At

LEMMA LateChange ==
  ASSUME TypeOK, KindInv, LateInv, NEW w \in Workers, Change(w)
  PROVE  LateInv'
<1>1. Idle.step = "idle" /\ Idle.op = "none"
  BY IdleIs
<1>2. ~ crossed => \A s \in sessions : ~ s.late
  BY DEF LateInv
<1>3. \A j \in retired : j \in Ids /\ ~ providers[j].active
  BY DEF LateInv, Dead, TypeOK
<1>4. ASSUME NEW by \in Admins, NEW a \in Asked, CreateProvider(w, by, a.all, a.scope) PROVE LateInv'
  <2>1. a.all \in BOOLEAN /\ a.scope \in SUBSET Domains
    BY SSOFlowAssumption DEF Asked
  <2>2. /\ Others(w) /\ Watched /\ UNCHANGED <<manager, sessions, crossed>>
        /\ req'[w] = Idle \/ (req'[w].op = "create" /\ req'[w].step = "delete_domains")
    BY <1>4, <2>1, CreateShape
  <2>3. PICK id \in Ids : /\ \A i \in Ids : i # id => providers'[i] = providers[i]
                          /\ retired' = retired \ {id}
    BY <1>4, <2>1, CreateShape
  <2>4. retired' \subseteq retired /\ \A j \in retired' : ~ providers'[j].active
    BY <1>3, <2>3
  <2> QED
    BY <1>1, <2>2, <2>4, LateWatched DEF manager
<1>5. ASSUME NEW by \in Admins, NEW a \in Asked, NEW i \in Ids, NEW active \in BOOLEAN,
             NEW keep \in BOOLEAN, EditProvider(w, by, i, a.all, a.scope, active, keep)
      PROVE  LateInv'
  <2>1. a.all \in BOOLEAN /\ a.scope \in SUBSET Domains
    BY SSOFlowAssumption DEF Asked
  <2>2. /\ UNCHANGED <<tables, manager, sessions, retired, crossed>>
        /\ req'[w].op = "edit" /\ req'[w].step = "update"
        /\ \A v \in Workers : v # w => req'[v] = req[v]
    BY <1>5, <2>1, EditShape
  <2> QED
    BY <1>2, <2>2, LatePlain DEF tables, manager
<1>6. ASSUME NEW by \in Admins, NEW i \in Ids, DeleteProvider(w, by, i) PROVE LateInv'
  <2>1. /\ UNCHANGED <<tables, manager, sessions, retired, crossed>>
        /\ req'[w].op = "delete" /\ req'[w].step = "delete_scope"
        /\ \A v \in Workers : v # w => req'[v] = req[v]
    BY <1>6, DeleteShape
  <2> QED
    BY <1>2, <2>1, LatePlain DEF tables, manager
<1>7. CASE UpdateProvider(w)
  <2> DEFINE i == req[w].id
  <2>1. /\ Others(w) /\ Watched /\ UNCHANGED <<manager, sessions, crossed>>
        /\ req'[w].op = "edit" /\ req'[w].step = "delete_domains"
        /\ i \in Ids
        /\ providers'[i].active => ~ (i \in retired') \/ providers[i].active
        /\ retired' \subseteq retired
        /\ \A j \in Ids : j # i => providers'[j] = providers[j]
    BY <1>7, UpdateShape
  <2>2. \A j \in retired' : ~ providers'[j].active
    BY <1>3, <2>1
  <2> QED
    BY <2>1, <2>2, LateWatched DEF manager
<1>8. CASE DeleteDomains(w)
  <2>1. /\ Others(w) /\ Watched /\ UNCHANGED <<providers, manager, sessions, changes, crossed>>
        /\ req[w].op \in {"create", "edit"}
        /\ req[w].step = "delete_domains"
        /\ \/ req'[w] = Idle
           \/ req'[w] = [req[w] EXCEPT !.step = "invalidate"]
           \/ req'[w] = [req[w] EXCEPT !.step = "insert_domain"]
    BY <1>8, DeleteDomainsShape
  <2>2. req[w] \in Request
    BY <2>1, Busy
  <2>3. req'[w].op # "callback" /\ req'[w].step # "discover"
    BY <1>1, <2>1, <2>2 DEF Request
  <2>4. UNCHANGED <<providers, runtimes, sessions, retired, crossed>>
    BY <2>1 DEF manager, changes
  <2>5. \A j \in retired' : ~ providers'[j].active
    BY <1>3, <2>4
  <2> QED
    BY <2>1, <2>3, <2>4, <2>5, LateWatched
<1>9. ASSUME NEW d \in Domains, InsertDomain(w, d) PROVE LateInv'
  <2>1. /\ Others(w) /\ UNCHANGED <<providers, manager, sessions, changes, crossed>>
        /\ req[w].op \in {"create", "edit"} /\ req[w].step = "insert_domain"
        /\ \/ req'[w] = Idle /\ UNCHANGED scopes /\ \A v \in Workers : v # w => req'[v] = req[v]
           \/ /\ Watched
              /\ \/ req'[w] = Idle
                 \/ req'[w] = [req[w] EXCEPT !.step = "invalidate"]
                 \/ req'[w] = [req[w] EXCEPT !.scope = @ \ {d}]
    BY <1>9, InsertDomainShape
  <2>2. req[w] \in Request
    BY <2>1, Busy
  <2>3. req'[w].op # "callback" /\ req'[w].step # "discover"
    BY <1>1, <2>1, <2>2 DEF Request
  <2>4. UNCHANGED <<providers, runtimes, sessions, retired, crossed>>
    BY <2>1 DEF manager, changes
  <2>5. \A j \in retired' : ~ providers'[j].active
    BY <1>3, <2>4
  <2>6. CASE Watched
    BY <2>1, <2>3, <2>4, <2>5, <2>6, LateWatched
  <2>7. CASE \A v \in Workers : v # w => req'[v] = req[v]
    BY <1>2, <2>3, <2>4, <2>7, LatePlain
  <2> QED
    BY <2>1, <2>6, <2>7
<1>10. CASE DeleteScope(w) \/ DeleteRow(w)
  <2> DEFINE i == req[w].id
  <2>1. /\ Others(w) /\ Watched /\ UNCHANGED <<manager, sessions, retired, crossed>> /\ req[w].op = "delete"
        /\ \/ req'[w] = [req[w] EXCEPT !.step = "delete_row"] /\ UNCHANGED providers
           \/ /\ req'[w] = [req[w] EXCEPT !.step = "invalidate"] /\ ~ providers'[i].active
              /\ \A j \in Ids : j # i => providers'[j] = providers[j]
    BY <1>10, DeletingShape
  <2>4. req[w] \in Request
    BY <2>1, Busy
  <2>2. req'[w].op # "callback" /\ req'[w].step # "discover"
    BY <2>1, <2>4 DEF Request
  <2>3. \A j \in retired' : ~ providers'[j].active
    BY <1>3, <2>1
  <2> QED
    BY <2>1, <2>2, <2>3, LateWatched DEF manager
<1>11. CASE Invalidate(w)
  <2> DEFINE i == req[w].id
  <2>1. /\ i \in Ids /\ UNCHANGED <<tables, sessions>> /\ req'[w] = Idle
        /\ \A v \in Workers : v # w => req'[v] = req[v]
        /\ runtimes'[i] = NoRuntime /\ \A j \in Ids : j # i => runtimes'[j] = runtimes[j]
        /\ retired' = IF providers[i].active THEN retired ELSE retired \cup {i}
        /\ crossed' <=> crossed \/ \E v \in Workers : At(v, "discover") /\ req[v].id = i
    BY <1>11, InvalidateShape
  <2>2. \A v \in Workers : req'[v].op = "callback" => v # w /\ req'[v] = req[v]
    BY <1>1, <2>1
  <2>3. \A j \in Ids : Dead(j)' => Dead(j) \/ (j = i /\ ~ providers[i].active)
    BY <2>1, <2>2 DEF Dead
  <2>4. \A j \in Ids : Dead(j)' => ~ providers'[j].active
    BY <2>1, <2>3 DEF LateInv, tables
  <2>5. ASSUME ~ crossed'
        PROVE  /\ \A j \in Ids : Dead(j)' => runtimes'[j] = NoRuntime
               /\ \A v \in Workers : req'[v].op = "callback" /\ req'[v].late =>
                    req'[v].step \in {"lookup", "read_provider"}
               /\ \A s \in sessions' : ~ s.late
    <3>1. ~ crossed
      BY <2>1, <2>5
    <3>2. \A j \in Ids : Dead(j)' => runtimes'[j] = NoRuntime
      BY <2>1, <2>3, <3>1 DEF LateInv
    <3> QED
      BY <1>2, <2>1, <2>2, <3>1, <3>2 DEF LateInv
  <2>6. ASSUME ~ crossed', NEW v \in Workers, NEW j \in Ids, req'[v].step = "discover" /\ req'[v].id = j
        PROVE  ~ Dead(j)'
    <3>1. ~ crossed /\ req[v].step = "discover" /\ req[v].id = j /\ j # i
      BY <1>1, <2>1, <2>6 DEF At
    <3>2. ~ Dead(j)
      BY <3>1 DEF LateInv, At
    <3> QED
      BY <2>3, <3>1, <3>2
  <2> QED
    BY <2>4, <2>5, <2>6 DEF LateInv, At
<1> QED
  BY <1>4, <1>5, <1>6, <1>7, <1>8, <1>9, <1>10, <1>11 DEF Change

LEMMA LateFlow ==
  ASSUME TypeOK, KindInv, LateInv, IsFiniteSet(sessions), NEW w \in Workers, Flow(w)
  PROVE  LateInv'
<1>1. Idle.step = "idle" /\ Idle.op = "none"
  BY IdleIs
<1>2. ~ crossed => \A s \in sessions : ~ s.late
  BY DEF LateInv
<1>3. ASSUME NEW i \in Ids, Start(w, i) PROVE LateInv'
  <2>1. /\ UNCHANGED <<tables, manager, sessions, changes, crossed>>
        /\ req'[w].op = "start" /\ req'[w].step = "lookup"
        /\ \A v \in Workers : v # w => req'[v] = req[v]
    BY <1>3, StartShape
  <2> QED
    BY <1>2, <2>1, LatePlain DEF tables, manager, changes
<1>4. ASSUME NEW f \in Flows, NEW c \in Flows, ConsumePending(w, f, c) PROVE LateInv'
  <2>1. /\ UNCHANGED <<tables, runtimes, sessions, changes, crossed>> /\ req[w] = Idle
        /\ \/ UNCHANGED req
           \/ /\ req'[w].step = "lookup" /\ req'[w].id = pending[f]
              /\ req'[w].late = (pending[f] \in retired)
              /\ \A v \in Workers : v # w => req'[v] = req[v]
    BY <1>4, ConsumeShape
  <2>2. UNCHANGED <<providers, runtimes, sessions, retired, crossed>>
    BY <2>1 DEF tables, changes
  <2>3. CASE UNCHANGED req
    BY <1>1, <1>2, <2>1, <2>2, <2>3, LatePlain
  <2>4. CASE /\ req'[w].step = "lookup" /\ req'[w].id = pending[f]
             /\ req'[w].late = (pending[f] \in retired)
             /\ \A v \in Workers : v # w => req'[v] = req[v]
    <3>1. req'[w].late => Dead(req'[w].id)
      BY <2>4 DEF Dead
    <3> QED
      BY <1>2, <2>2, <2>4, <3>1, LatePlain
  <2> QED
    BY <2>1, <2>3, <2>4
<1>5. ASSUME NEW i \in Ids, req[w].op = "callback", req[w].late, req[w].id = i PROVE Dead(i)
  BY <1>5 DEF Dead
<1>6. ASSUME NEW rt \in Nat, NEW i \in Ids, i = req[w].id, Obtained(w, rt), req[w].op \in {"start", "callback"},
             UNCHANGED <<tables, sessions, changes, crossed>>, ~ crossed => ~ Dead(i),
             \A j \in Ids : j # i => runtimes'[j] = runtimes[j],
             \A v \in Workers : v # w => req'[v] = req[v]
      PROVE  LateInv'
  <2>1. UNCHANGED <<providers, sessions, retired, crossed>>
    BY <1>6 DEF tables, changes
  <2>2. CASE req[w].op = "start"
    <3>1. req'[w] = Idle
      BY <1>6, <2>2 DEF Obtained
    <3> QED
      BY <1>1, <1>2, <1>6, <2>1, <3>1, LatePlain
  <2>3. CASE req[w].op = "callback"
    <3>1. /\ req'[w].step = "exchange" /\ req'[w].id = i /\ req'[w].late = req[w].late
      BY <1>6, <2>3 DEF Obtained
    <3>2. req[w].late => Dead(i)
      BY <1>5, <1>6, <2>3
    <3> QED
      BY <1>2, <1>6, <2>1, <3>1, <3>2, LatePlain
  <2> QED
    BY <1>6, <2>2, <2>3
<1>7. CASE LookupRuntime(w)
  <2> DEFINE i == req[w].id
  <2>1. /\ i \in Ids /\ req[w].op \in {"start", "callback"} /\ req[w].step = "lookup"
        /\ UNCHANGED <<tables, runtimes, sessions, changes, crossed>>
        /\ \A v \in Workers : v # w => req'[v] = req[v]
        /\ \/ runtimes[i] # NoRuntime /\ Obtained(w, runtimes[i])
           \/ req'[w] = [req[w] EXCEPT !.step = "read_provider"]
    BY <1>7, LookupShape
  <2>2. runtimes[i] \in Nat /\ req[w] \in Request
    BY <2>1, Busy DEF TypeOK
  <2>3. CASE runtimes[i] # NoRuntime /\ Obtained(w, runtimes[i])
    <3>1. ~ crossed => ~ Dead(i)
      BY <2>1, <2>3 DEF LateInv
    <3> QED
      BY <1>6, <2>1, <2>2, <2>3, <3>1
  <2>4. CASE req'[w] = [req[w] EXCEPT !.step = "read_provider"]
    <3>1. /\ req'[w].op = req[w].op /\ req'[w].id = i /\ req'[w].late = req[w].late
          /\ req'[w].step = "read_provider"
      BY <2>2, <2>4 DEF Request
    <3>2. req'[w].op = "callback" /\ req'[w].late => Dead(req'[w].id)
      BY <1>5, <2>1, <3>1
    <3> QED
      BY <1>2, <2>1, <3>1, <3>2, LatePlain DEF tables, changes
  <2> QED
    BY <2>1, <2>3, <2>4
<1>8. CASE ReadProvider(w)
  <2> DEFINE i == req[w].id
  <2>1. /\ i \in Ids /\ req[w].step = "read_provider" /\ req[w].op \in {"start", "callback"}
        /\ UNCHANGED <<tables, manager, requests, sessions, changes, crossed, faults>>
        /\ \A v \in Workers : v # w => req'[v] = req[v]
        /\ \/ req'[w] = Idle
           \/ /\ Usable(providers[i])
              /\ req'[w] = [req[w] EXCEPT !.row = providers[i], !.step = "discover"]
    <3>1. i = req[w].id
      OBVIOUS
    <3> HIDE DEF i
    <3> QED
      BY <1>8, <3>1, ReadProviderShape
  <2>2. UNCHANGED <<providers, runtimes, sessions, retired, crossed>>
    BY <2>1 DEF tables, changes, manager
  <2>3. CASE req'[w] = Idle
    BY <1>1, <1>2, <2>1, <2>2, <2>3, LatePlain
  <2>4. CASE Usable(providers[i]) /\ req'[w] = [req[w] EXCEPT !.row = providers[i], !.step = "discover"]
    <3>1. req[w] \in Request
      BY <2>1, Busy
    <3>2. /\ req'[w].op = req[w].op /\ req'[w].id = i /\ req'[w].late = req[w].late
      BY <2>4, <3>1 DEF Request
    <3>3. ~ Dead(i)
      BY <2>1, <2>4 DEF LateInv, Usable
    <3>4. ~ (req'[w].op = "callback" /\ req'[w].late)
      BY <1>5, <2>1, <3>2, <3>3
    <3> QED
      BY <1>2, <2>1, <2>2, <3>2, <3>3, <3>4, LatePlain
  <2> QED
    BY <2>1, <2>3, <2>4
<1>9. CASE Discover(w)
  <2> DEFINE i == req[w].id
  <2>1. /\ i \in Ids /\ req[w].op \in {"start", "callback"} /\ req[w].step = "discover"
        /\ UNCHANGED <<tables, sessions, changes, crossed>>
        /\ \A j \in Ids : j # i => runtimes'[j] = runtimes[j]
        /\ Obtained(w, req[w].row.issuer)
        /\ \A v \in Workers : v # w => req'[v] = req[v]
    BY <1>9, DiscoverShape
  <2>2. req[w] \in Request
    BY <2>1, Busy
  <2>3. req[w].row.issuer \in Nat
    BY <2>2 DEF Request, Row
  <2>4. ~ crossed => ~ Dead(i)
    BY <2>1 DEF LateInv, At
  <2> QED
    BY <1>6, <2>1, <2>3, <2>4
<1>10. CASE (\E c \in codes : Exchange(w, c)) \/ ReadScope(w) \/ ReadDomains(w)
  <2> DEFINE i == req[w].id
  <2>1. /\ req[w] \in Request /\ i \in Ids /\ req[w].op = "callback"
        /\ req[w].step \in {"exchange", "read_scope", "read_domains"}
        /\ UNCHANGED <<tables, manager, sessions, changes, crossed>>
        /\ \A v \in Workers : v # w => req'[v] = req[v]
        /\ \/ req'[w] = Idle
           \/ \E m \in Domains : req'[w] = [req[w] EXCEPT !.step = "read_scope", !.scope = {m}]
           \/ req'[w] = [req[w] EXCEPT !.step = IF providers[i].all THEN "mint" ELSE "read_domains"]
           \/ req'[w] = [req[w] EXCEPT !.step = "mint"]
    BY <1>10, CallbackShape
  <2>2. UNCHANGED <<providers, runtimes, sessions, retired, crossed>>
    BY <2>1 DEF tables, changes, manager
  <2>3. \/ req'[w] = Idle
        \/ /\ req'[w].id = i /\ req'[w].late = req[w].late
           /\ req'[w].step \in {"read_scope", "read_domains", "mint"}
    BY <2>1 DEF Request
  <2>4. ~ crossed => ~ req[w].late
    BY <2>1 DEF LateInv
  <2>5. CASE req'[w] = Idle
    BY <1>1, <1>2, <2>1, <2>2, <2>5, LatePlain
  <2>6. CASE /\ req'[w].id = i /\ req'[w].late = req[w].late
             /\ req'[w].step \in {"read_scope", "read_domains", "mint"}
    <3>1. req'[w].op = "callback" /\ req'[w].late => Dead(req'[w].id)
      BY <1>5, <2>1, <2>6
    <3> QED
      BY <1>2, <2>1, <2>2, <2>4, <2>6, <3>1, LatePlain
  <2> QED
    BY <2>3, <2>5, <2>6
<1>11. CASE MintSession(w)
  <2>1. /\ req[w].op = "callback" /\ req[w].step = "mint"
        /\ UNCHANGED <<tables, manager, changes, crossed>>
        /\ req'[w] = Idle /\ \A v \in Workers : v # w => req'[v] = req[v]
    BY <1>11, MintShape
  <2>2. PICK s : sessions' = sessions \cup {s} /\ s.late = req[w].late
    BY <1>11, MintShape
  <2>3. ~ crossed => ~ req[w].late
    BY <2>1 DEF LateInv
  <2>4. ~ crossed => \A t \in sessions' : ~ t.late
    BY <1>2, <2>2, <2>3
  <2>5. UNCHANGED <<providers, runtimes, retired, crossed>>
    BY <2>1 DEF tables, changes, manager
  <2> QED
    BY <1>1, <2>1, <2>4, <2>5, LatePlain
<1> QED
  BY <1>3, <1>4, <1>7, <1>8, <1>9, <1>10, <1>11 DEF Flow

LEMMA LateNext == TypeOK /\ KindInv /\ IsFiniteSet(sessions) /\ LateInv /\ Next => LateInv'
<1> SUFFICES ASSUME TypeOK, KindInv, IsFiniteSet(sessions), LateInv, Next PROVE LateInv'
  OBVIOUS
<1>1. Idle.step = "idle" /\ Idle.op = "none" /\ (~ crossed => \A s \in sessions : ~ s.late)
  BY IdleIs DEF LateInv
<1>2. ASSUME NEW w \in Workers, Change(w) PROVE LateInv'
  BY <1>2, LateChange
<1>3. ASSUME NEW w \in Workers, Flow(w) PROVE LateInv'
  BY <1>3, LateFlow
<1>4. ASSUME NEW w \in Workers, FlowFails(w) \/ ChangeFails(w) PROVE LateInv'
  <2>1. /\ UNCHANGED <<tables, manager, sessions, changes, crossed>>
        /\ req'[w] = Idle /\ \A v \in Workers : v # w => req'[v] = req[v]
    BY <1>4, FailShape
  <2> QED
    BY <1>1, <2>1, LatePlain DEF tables, manager, changes
<1>5. ASSUME NEW f \in Flows, NEW m \in Domains, SignIn(f, m) PROVE LateInv'
  <2>1. UNCHANGED <<tables, manager, req, sessions, changes, crossed>>
    BY <1>5, SignInShape
  <2>2. UNCHANGED <<providers, runtimes, req, sessions, retired, crossed>>
    BY <2>1 DEF tables, manager, changes
  <2> QED
    BY <2>2 DEF LateInv, Dead, At
<1>6. CASE Crash
  <2>1. /\ UNCHANGED <<tables, sessions, changes, crossed>> /\ \A w \in Workers : req'[w] = Idle
        /\ \A i \in Ids : runtimes'[i] = NoRuntime
    BY <1>6, CrashShape
  <2>2. UNCHANGED <<providers, retired>>
    BY <2>1 DEF tables, changes
  <2>3. \A i \in Ids : Dead(i)' => Dead(i)
    BY <1>1, <2>1, <2>2 DEF Dead
  <2>4. \A i \in Ids : Dead(i)' => ~ providers'[i].active
    BY <2>2, <2>3 DEF LateInv
  <2> QED
    BY <1>1, <2>1, <2>4 DEF LateInv, At
<1> QED
  BY <1>2, <1>3, <1>4, <1>5, <1>6 DEF Next
-----------------------------------------------------------------------------
(* Only the owner changes a provider.                                      *)

AboutToChange == {"update", "delete_scope", "delete_row"}

\* A step of worker w that adds no provider.
LEMMA OwnerFrame ==
  ASSUME TypeOK, OwnerInv, NEW w \in Workers, UNCHANGED <<ids, reused>>, trespassed' => reused,
         \A i \in Ids : providers'[i].exists => providers[i].exists /\ providers'[i].owner = providers[i].owner,
         Others(w),
         ~ reused /\ req'[w].step \in AboutToChange /\ req'[w].by # "super" =>
           /\ req'[w].id \in ids
           /\ providers[req'[w].id].exists => providers[req'[w].id].owner = req'[w].by
  PROVE  OwnerInv'
<1>1. ids \subseteq Ids
  BY DEF TypeOK
<1>2. \A i \in Ids : providers'[i].exists => i \in ids'
  BY DEF OwnerInv
<1>3. ASSUME ~ reused, NEW v \in Workers, req'[v].step \in AboutToChange, req'[v].by # "super"
      PROVE  /\ req'[v].id \in ids
             /\ providers[req'[v].id].exists => providers[req'[v].id].owner = req'[v].by
  <2>1. CASE v = w
    BY <1>3, <2>1
  <2>2. CASE v # w
    <3>1. req'[v].step = req[v].step /\ req'[v].id = req[v].id /\ req'[v].by = req[v].by
      BY <2>2 DEF Others, Alike
    <3> QED
      BY <1>3, <3>1 DEF OwnerInv, AboutToChange
  <2> QED
    BY <2>1, <2>2
<1>4. ASSUME ~ reused, NEW v \in Workers, req'[v].step \in AboutToChange, req'[v].by # "super"
      PROVE  /\ req'[v].id \in ids
             /\ providers'[req'[v].id].exists => providers'[req'[v].id].owner = req'[v].by
  BY <1>1, <1>3, <1>4
<1> QED
  BY <1>2, <1>4 DEF OwnerInv, AboutToChange

\* The id of a new provider was never given out, or it is noted that it was.
LEMMA OwnerCreate ==
  ASSUME TypeOK, KindInv, OwnerInv, NEW w \in Workers, NEW by \in Admins, NEW all \in BOOLEAN,
         NEW scope \in SUBSET Domains, CreateProvider(w, by, all, scope)
  PROVE  OwnerInv'
<1>1. Idle.step = "idle"
  BY IdleIs
<1>2. /\ Others(w) /\ UNCHANGED trespassed
      /\ req'[w] = Idle \/ req'[w].step = "delete_domains"
  BY CreateShape
<1>3. PICK id \in Ids : /\ \A i \in Ids : i # id => providers'[i] = providers[i]
                        /\ ids' = ids \cup {id} /\ reused' = (reused \/ id \in ids)
  BY CreateShape
<1>4. ids \subseteq Ids
  BY DEF TypeOK
<1>5. \A i \in Ids : providers'[i].exists => i \in ids'
  BY <1>3 DEF OwnerInv
<1>6. ASSUME ~ reused', NEW v \in Workers, req'[v].step \in AboutToChange, req'[v].by # "super"
      PROVE  /\ req'[v].id \in ids'
             /\ providers'[req'[v].id].exists => providers'[req'[v].id].owner = req'[v].by
  <2>1. v # w
    BY <1>1, <1>2, <1>6 DEF AboutToChange
  <2>2. req'[v].step = req[v].step /\ req'[v].id = req[v].id /\ req'[v].by = req[v].by
    BY <1>2, <2>1 DEF Others, Alike
  <2>3. ~ reused /\ id \notin ids
    BY <1>3, <1>6
  <2>4. /\ req[v].id \in ids
        /\ providers[req[v].id].exists => providers[req[v].id].owner = req[v].by
    BY <1>6, <2>2, <2>3 DEF OwnerInv, AboutToChange
  <2>5. req[v].id # id /\ req[v].id \in Ids
    BY <1>4, <2>3, <2>4
  <2> QED
    BY <1>3, <2>2, <2>4, <2>5
<1>7. trespassed' => reused'
  BY <1>2, <1>3 DEF OwnerInv
<1> QED
  BY <1>5, <1>6, <1>7 DEF OwnerInv, AboutToChange

LEMMA OwnerChange ==
  ASSUME TypeOK, KindInv, OwnerInv, NEW w \in Workers, Change(w)
  PROVE  OwnerInv'
<1>1. Idle.step = "idle" /\ Idle.op = "none"
  BY IdleIs
<1>2. trespassed => reused
  BY DEF OwnerInv
<1>3. ASSUME NEW by \in Admins, NEW i \in Ids, Owns(by, i), by # "super"
      PROVE  i \in ids /\ providers[i].owner = by
  BY <1>3 DEF Owns, OwnerInv
<1>4. ASSUME NEW by \in Admins, NEW a \in Asked, CreateProvider(w, by, a.all, a.scope) PROVE OwnerInv'
  <2>1. a.all \in BOOLEAN /\ a.scope \in SUBSET Domains
    BY SSOFlowAssumption DEF Asked
  <2> QED
    BY <1>4, <2>1, OwnerCreate
<1>5. ASSUME NEW by \in Admins, NEW a \in Asked, NEW i \in Ids, NEW active \in BOOLEAN,
             NEW keep \in BOOLEAN, EditProvider(w, by, i, a.all, a.scope, active, keep)
      PROVE  OwnerInv'
  <2>1. a.all \in BOOLEAN /\ a.scope \in SUBSET Domains
    BY SSOFlowAssumption DEF Asked
  <2>2. /\ UNCHANGED <<tables, ids, reused, trespassed>> /\ Owns(by, i)
        /\ req'[w].id = i /\ req'[w].by = by
        /\ \A v \in Workers : v # w => req'[v] = req[v]
    BY <1>5, <2>1, EditShape
  <2>3. Others(w)
    BY <2>2 DEF Others, Alike
  <2>4. UNCHANGED providers
    BY <2>2 DEF tables
  <2> QED
    BY <1>2, <1>3, <2>2, <2>3, <2>4, OwnerFrame
<1>6. ASSUME NEW by \in Admins, NEW i \in Ids, DeleteProvider(w, by, i) PROVE OwnerInv'
  <2>1. /\ UNCHANGED <<tables, ids, reused, trespassed>> /\ (by = "super" \/ Owns(by, i))
        /\ req'[w].id = i /\ req'[w].by = by
        /\ \A v \in Workers : v # w => req'[v] = req[v]
    BY <1>6, DeleteShape
  <2>2. Others(w)
    BY <2>1 DEF Others, Alike
  <2>3. UNCHANGED providers
    BY <2>1 DEF tables
  <2> QED
    BY <1>2, <1>3, <2>1, <2>2, <2>3, OwnerFrame
<1>7. ASSUME NEW i \in Ids, i = req[w].id, req[w].step \in AboutToChange,
             trespassed' => trespassed \/ (/\ providers[i].exists
                                           /\ req[w].by \notin {"super", providers[i].owner})
      PROVE  trespassed' => reused
  BY <1>7 DEF OwnerInv, AboutToChange
<1>8. CASE UpdateProvider(w)
  <2> DEFINE i == req[w].id
  <2>1. /\ Others(w) /\ UNCHANGED <<ids, reused>>
        /\ req'[w].step = "delete_domains" /\ req[w].step = "update"
        /\ i \in Ids
        /\ providers'[i].exists = providers[i].exists /\ providers'[i].owner = providers[i].owner
        /\ \A j \in Ids : j # i => providers'[j] = providers[j]
        /\ trespassed' => trespassed \/ (/\ providers[i].exists
                                         /\ req[w].by \notin {"super", providers[i].owner})
    BY <1>8, UpdateShape
  <2>2. trespassed' => reused
    BY <1>7, <2>1 DEF AboutToChange
  <2>3. \A j \in Ids : providers'[j].exists => providers[j].exists /\ providers'[j].owner = providers[j].owner
    BY <2>1
  <2>4. req'[w].step \notin AboutToChange
    BY <2>1 DEF AboutToChange
  <2> QED
    BY <2>1, <2>2, <2>3, <2>4, OwnerFrame
<1>9. CASE DeleteDomains(w)
  <2>1. /\ Others(w) /\ UNCHANGED <<providers, changes>>
        /\ req[w].step = "delete_domains"
        /\ \/ req'[w] = Idle
           \/ req'[w] = [req[w] EXCEPT !.step = "invalidate"]
           \/ req'[w] = [req[w] EXCEPT !.step = "insert_domain"]
    BY <1>9, DeleteDomainsShape
  <2>2. req[w] \in Request
    BY <2>1, Busy
  <2>3. req'[w].step \notin AboutToChange
    BY <1>1, <2>1, <2>2 DEF Request, AboutToChange
  <2> QED
    BY <1>2, <2>1, <2>3, OwnerFrame DEF changes
<1>10. ASSUME NEW d \in Domains, InsertDomain(w, d) PROVE OwnerInv'
  <2>1. /\ Others(w) /\ UNCHANGED <<providers, changes>>
        /\ req[w].step = "insert_domain"
        /\ \/ req'[w] = Idle
           \/ req'[w] = [req[w] EXCEPT !.step = "invalidate"]
           \/ req'[w] = [req[w] EXCEPT !.scope = @ \ {d}]
    BY <1>10, InsertDomainShape
  <2>2. req[w] \in Request
    BY <2>1, Busy
  <2>3. req'[w].step \notin AboutToChange
    BY <1>1, <2>1, <2>2 DEF Request, AboutToChange
  <2> QED
    BY <1>2, <2>1, <2>3, OwnerFrame DEF changes
<1>11. CASE DeleteScope(w) \/ DeleteRow(w)
  <2> DEFINE i == req[w].id
  <2>1. /\ Others(w) /\ UNCHANGED <<ids, reused>> /\ i \in Ids /\ req[w].op = "delete"
        /\ \/ /\ req[w].step = "delete_scope" /\ req'[w] = [req[w] EXCEPT !.step = "delete_row"]
              /\ UNCHANGED <<providers, trespassed>>
           \/ /\ req[w].step = "delete_row" /\ req'[w] = [req[w] EXCEPT !.step = "invalidate"]
              /\ ~ providers'[i].exists
              /\ \A j \in Ids : j # i => providers'[j] = providers[j]
              /\ trespassed' => trespassed \/ (/\ providers[i].exists
                                               /\ req[w].by \notin {"super", providers[i].owner})
    BY <1>11, DeletingShape
  <2>2. req[w] \in Request
    BY <2>1, Busy
  <2>3. trespassed' => reused
    BY <1>2, <1>7, <2>1 DEF AboutToChange
  <2>4. \A j \in Ids : providers'[j].exists => providers[j].exists /\ providers'[j].owner = providers[j].owner
    BY <2>1
  <2>5. req'[w].step \in AboutToChange =>
          req[w].step \in AboutToChange /\ req'[w].id = req[w].id /\ req'[w].by = req[w].by
    BY <2>1, <2>2 DEF Request, AboutToChange
  <2>6. ~ reused /\ req'[w].step \in AboutToChange /\ req'[w].by # "super" =>
           /\ req'[w].id \in ids
           /\ providers[req'[w].id].exists => providers[req'[w].id].owner = req'[w].by
    BY <2>5 DEF OwnerInv, AboutToChange
  <2> QED
    BY <2>1, <2>3, <2>4, <2>6, OwnerFrame
<1>12. CASE Invalidate(w)
  <2>1. /\ UNCHANGED <<tables, ids, reused, trespassed>> /\ req'[w] = Idle
        /\ \A v \in Workers : v # w => req'[v] = req[v]
    BY <1>12, InvalidateShape
  <2>2. Others(w) /\ req'[w].step \notin AboutToChange
    BY <1>1, <2>1 DEF Others, Alike, AboutToChange
  <2> QED
    BY <1>2, <2>1, <2>2, OwnerFrame DEF tables
<1> QED
  BY <1>4, <1>5, <1>6, <1>8, <1>9, <1>10, <1>11, <1>12 DEF Change

\* Signing in changes no provider.
LEMMA FlowStill ==
  ASSUME TypeOK, KindInv, IsFiniteSet(sessions), NEW w \in Workers, Flow(w)
  PROVE  /\ UNCHANGED <<tables, changes, crossed, faults>>
         /\ \A v \in Workers : v # w => req'[v] = req[v]
         /\ req[w].step \notin ChangeSteps /\ req'[w].step \notin ChangeSteps
<1>1. Idle.step = "idle"
  BY IdleIs
<1> USE DEF ChangeSteps
<1>2. ASSUME NEW i \in Ids, Start(w, i)
      PROVE  /\ UNCHANGED <<tables, changes, crossed, faults>>
             /\ \A v \in Workers : v # w => req'[v] = req[v]
             /\ req[w].step \notin ChangeSteps /\ req'[w].step \notin ChangeSteps
  <2>1. /\ UNCHANGED <<tables, manager, sessions, changes, crossed, faults>> /\ req[w] = Idle
        /\ req'[w].step = "lookup" /\ \A v \in Workers : v # w => req'[v] = req[v]
    BY <1>2, StartShape
  <2> QED
    BY <1>1, <2>1
<1>3. ASSUME NEW f \in Flows, NEW c \in Flows, ConsumePending(w, f, c)
      PROVE  /\ UNCHANGED <<tables, changes, crossed, faults>>
             /\ \A v \in Workers : v # w => req'[v] = req[v]
             /\ req[w].step \notin ChangeSteps /\ req'[w].step \notin ChangeSteps
  <2>1. /\ UNCHANGED <<tables, runtimes, sessions, changes, crossed, faults>> /\ req[w] = Idle
        /\ \/ UNCHANGED req
           \/ req'[w].step = "lookup" /\ \A v \in Workers : v # w => req'[v] = req[v]
    BY <1>3, ConsumeShape
  <2> QED
    BY <1>1, <2>1
<1>4. CASE LookupRuntime(w)
  <2> DEFINE i == req[w].id
  <2>1. /\ i \in Ids /\ req[w].op \in {"start", "callback"} /\ req[w].step = "lookup"
        /\ UNCHANGED <<tables, runtimes, sessions, changes, crossed, faults>>
        /\ \A v \in Workers : v # w => req'[v] = req[v]
        /\ \/ Obtained(w, runtimes[i])
           \/ req'[w] = [req[w] EXCEPT !.step = "read_provider"]
    BY <1>4, LookupShape
  <2>2. req[w] \in Request
    BY <2>1, Busy
  <2>3. req'[w] = Idle \/ req'[w].step \in {"exchange", "read_provider"}
    BY <2>1, <2>2 DEF Obtained, Request
  <2> QED
    BY <1>1, <2>1, <2>3
<1>5. CASE ReadProvider(w)
  <2> DEFINE i == req[w].id
  <2>1. /\ UNCHANGED <<tables, manager, sessions, changes, crossed, faults>>
        /\ req[w].step = "read_provider"
        /\ \A v \in Workers : v # w => req'[v] = req[v]
        /\ \/ req'[w] = Idle
           \/ req'[w] = [req[w] EXCEPT !.row = providers[i], !.step = "discover"]
    BY <1>5, ReadProviderShape
  <2>2. req[w] \in Request
    BY <2>1, Busy
  <2>3. req'[w] = Idle \/ req'[w].step = "discover"
    BY <2>1, <2>2 DEF Request
  <2> QED
    BY <1>1, <2>1, <2>3
<1>6. CASE Discover(w)
  <2>1. /\ req[w].step = "discover"
        /\ UNCHANGED <<tables, sessions, changes, crossed, faults>>
        /\ Obtained(w, req[w].row.issuer)
        /\ \A v \in Workers : v # w => req'[v] = req[v]
    BY <1>6, DiscoverShape
  <2>2. req'[w] = Idle \/ req'[w].step = "exchange"
    BY <2>1 DEF Obtained
  <2> QED
    BY <1>1, <2>1, <2>2
<1>7. CASE (\E c \in codes : Exchange(w, c)) \/ ReadScope(w) \/ ReadDomains(w)
  <2> DEFINE i == req[w].id
  <2>1. /\ req[w] \in Request
        /\ req[w].step \in {"exchange", "read_scope", "read_domains"}
        /\ UNCHANGED <<tables, manager, sessions, changes, crossed, faults>>
        /\ \A v \in Workers : v # w => req'[v] = req[v]
        /\ \/ req'[w] = Idle
           \/ \E m \in Domains : req'[w] = [req[w] EXCEPT !.step = "read_scope", !.scope = {m}]
           \/ req'[w] = [req[w] EXCEPT !.step = IF providers[i].all THEN "mint" ELSE "read_domains"]
           \/ req'[w] = [req[w] EXCEPT !.step = "mint"]
    BY <1>7, CallbackShape
  <2>2. req'[w] = Idle \/ req'[w].step \in {"read_scope", "read_domains", "mint"}
    BY <2>1 DEF Request
  <2> QED
    BY <1>1, <2>1, <2>2
<1>8. CASE MintSession(w)
  <2>1. /\ req[w].step = "mint"
        /\ UNCHANGED <<tables, manager, changes, crossed, faults>>
        /\ req'[w] = Idle /\ \A v \in Workers : v # w => req'[v] = req[v]
    BY <1>8, MintShape
  <2> QED
    BY <1>1, <2>1
<1> QED
  BY <1>2, <1>3, <1>4, <1>5, <1>6, <1>7, <1>8 DEF Flow

LEMMA OwnerNext == TypeOK /\ KindInv /\ IsFiniteSet(sessions) /\ OwnerInv /\ Next => OwnerInv'
<1> SUFFICES ASSUME TypeOK, KindInv, IsFiniteSet(sessions), OwnerInv, Next PROVE OwnerInv'
  OBVIOUS
<1>1. Idle.step = "idle" /\ (trespassed => reused)
  BY IdleIs DEF OwnerInv
<1>2. ASSUME NEW w \in Workers, Change(w) PROVE OwnerInv'
  BY <1>2, OwnerChange
<1>3. ASSUME NEW w \in Workers, UNCHANGED <<tables, changes>>,
             \A v \in Workers : v # w => req'[v] = req[v], req'[w].step \notin ChangeSteps
      PROVE  OwnerInv'
  <2>1. Others(w) /\ req'[w].step \notin AboutToChange
    BY <1>3 DEF Others, Alike, ChangeSteps, AboutToChange
  <2>2. UNCHANGED <<providers, ids, reused, trespassed>>
    BY <1>3 DEF tables, changes
  <2> QED
    BY <1>1, <2>1, <2>2, OwnerFrame
<1>4. ASSUME NEW w \in Workers, Flow(w) PROVE OwnerInv'
  <2>1. /\ UNCHANGED <<tables, changes, crossed, faults>>
        /\ \A v \in Workers : v # w => req'[v] = req[v]
        /\ req'[w].step \notin ChangeSteps
    BY <1>4, FlowStill
  <2> QED
    BY <1>3, <2>1
<1>5. ASSUME NEW w \in Workers, FlowFails(w) \/ ChangeFails(w) PROVE OwnerInv'
  <2>1. /\ UNCHANGED <<tables, changes>>
        /\ req'[w] = Idle /\ \A v \in Workers : v # w => req'[v] = req[v]
    BY <1>5, FailShape
  <2>2. req'[w].step \notin ChangeSteps
    BY <1>1, <2>1 DEF ChangeSteps
  <2> QED
    BY <1>3, <2>1, <2>2
<1>6. ASSUME NEW f \in Flows, NEW m \in Domains, SignIn(f, m) PROVE OwnerInv'
  <2>1. UNCHANGED <<tables, req, changes>>
    BY <1>6, SignInShape
  <2> QED
    BY <2>1 DEF OwnerInv, tables, changes
<1>7. CASE Crash
  <2>1. UNCHANGED <<tables, changes>> /\ \A w \in Workers : req'[w] = Idle
    BY <1>7, CrashShape
  <2>2. UNCHANGED <<providers, ids, reused, trespassed>>
    BY <2>1 DEF tables, changes
  <2> QED
    BY <1>1, <2>1, <2>2 DEF OwnerInv
<1> QED
  BY <1>2, <1>4, <1>5, <1>6, <1>7 DEF Next
-----------------------------------------------------------------------------
(* What finished changes leave.                                            *)

\* What the other workers are doing is as it was.
LEMMA OthersAre ==
  ASSUME NEW w \in Workers, Others(w), NEW v \in Workers, v # w
  PROVE  /\ req'[v].step = req[v].step /\ req'[v].op = req[v].op /\ req'[v].id = req[v].id
         /\ req'[v].row = req[v].row /\ req'[v].scope = req[v].scope
  BY DEF Others, Alike

\* Nobody but w changes provider i.
OnlyW(w, i) == \A v \in Workers : v # w /\ req[v].step \in ChangeSteps => req[v].id # i

LEMMA AloneGoOn ==
  ASSUME AloneInv, NEW w \in Workers, Others(w), NEW i, OnlyW(w, i),
         req'[w].step \in ChangeSteps => req'[w].id = i
  PROVE  AloneInv'
<1> SUFFICES ASSUME NEW u \in Workers, NEW v \in Workers,
                    req'[u].step \in ChangeSteps, req'[v].step \in ChangeSteps, req'[u].id = req'[v].id,
                    u # v
             PROVE  FALSE
  BY DEF AloneInv
<1>1. CASE u # w /\ v # w
  BY <1>1, OthersAre DEF AloneInv
<1>2. CASE u = w /\ v # w
  BY <1>2, OthersAre DEF OnlyW
<1>3. CASE v = w /\ u # w
  BY <1>3, OthersAre DEF OnlyW
<1> QED
  BY <1>1, <1>2, <1>3

ScopeSteps == {"delete_domains", "insert_domain"}

\* A step of worker w that writes no domain and asks for none.
LEMMA ScopeStill ==
  ASSUME ScopeInv, NEW w \in Workers, Others(w), UNCHANGED <<scopes, requested>>,
         req[w].step \notin ScopeSteps, req'[w].step \notin ScopeSteps
  PROVE  ScopeInv'
<1>1. ASSUME NEW i \in Ids, \A v \in Workers : ~ Scoping(v, i)' PROVE DomainsOf(i)' = requested'[i]
  <2>1. \A v \in Workers : ~ Scoping(v, i)
    BY <1>1, OthersAre DEF Scoping, ScopeSteps
  <2>2. DomainsOf(i) = requested[i]
    BY <2>1 DEF ScopeInv
  <2> QED
    BY <2>2 DEF DomainsOf
<1>2. ASSUME NEW v \in Workers, req'[v].step \in ScopeSteps
      PROVE  v # w /\ req'[v].step = req[v].step /\ req'[v].id = req[v].id /\ req'[v].scope = req[v].scope
  BY <1>2, OthersAre
<1>3. ASSUME NEW v \in Workers, req'[v].step = "delete_domains" PROVE req'[v].scope = requested'[req'[v].id]
  BY <1>2, <1>3 DEF ScopeInv, At, ScopeSteps
<1>4. ASSUME NEW v \in Workers, req'[v].step = "insert_domain"
      PROVE  /\ req'[v].scope # {}
             /\ {d \in Domains : <<req'[v].id, d>> \in scopes'} \cup req'[v].scope = requested'[req'[v].id]
             /\ {d \in Domains : <<req'[v].id, d>> \in scopes'} \cap req'[v].scope = {}
  <2>1. req[v].step = "insert_domain" /\ req'[v].id = req[v].id /\ req'[v].scope = req[v].scope
    BY <1>2, <1>4 DEF ScopeSteps
  <2>2. /\ req[v].scope # {}
        /\ {d \in Domains : <<req[v].id, d>> \in scopes} \cup req[v].scope = requested[req[v].id]
        /\ {d \in Domains : <<req[v].id, d>> \in scopes} \cap req[v].scope = {}
    BY <2>1 DEF ScopeInv, At, DomainsOf
  <2> QED
    BY <2>1, <2>2
<1> QED
  BY <1>1, <1>3, <1>4 DEF ScopeInv, At, DomainsOf

\* A step of worker w that alone writes the domains of provider i.
LEMMA ScopeFrame ==
  ASSUME TypeOK, ScopeInv, NEW w \in Workers, Others(w), NEW i \in Ids, OnlyW(w, i),
         \A j \in Ids : j # i => requested'[j] = requested[j],
         \A j \in Ids, d \in Domains : j # i => (<<j, d>> \in scopes' <=> <<j, d>> \in scopes),
         req[w].step \in ScopeSteps => req[w].id = i,
         req'[w].step \in ScopeSteps => req'[w].id = i,
         NEW D, D = {d \in Domains : <<i, d>> \in scopes'},
         req'[w].step \notin ScopeSteps => D = requested'[i],
         req'[w].step = "delete_domains" => req'[w].scope = requested'[i],
         req'[w].step = "insert_domain" =>
           req'[w].scope # {} /\ D \cup req'[w].scope = requested'[i] /\ D \cap req'[w].scope = {}
  PROVE  ScopeInv'
<1>1. ASSUME NEW j \in Ids, \A v \in Workers : ~ Scoping(v, j)' PROVE DomainsOf(j)' = requested'[j]
  <2>1. CASE j = i
    <3>1. req'[w].step \notin ScopeSteps
      BY <1>1, <2>1 DEF Scoping, ScopeSteps
    <3> QED
      BY <2>1, <3>1 DEF DomainsOf
  <2>2. CASE j # i
    <3>1. \A v \in Workers : ~ Scoping(v, j)
      BY <1>1, <2>2, OthersAre DEF Scoping, ScopeSteps
    <3>2. DomainsOf(j) = requested[j]
      BY <3>1 DEF ScopeInv
    <3> QED
      BY <2>2, <3>2 DEF DomainsOf
  <2> QED
    BY <2>1, <2>2
<1>2. ASSUME NEW v \in Workers, v # w, req'[v].step \in ScopeSteps
      PROVE  /\ req'[v].step = req[v].step /\ req'[v].id = req[v].id /\ req'[v].scope = req[v].scope
             /\ req[v].id # i /\ req[v].id \in Ids
  <2>1. req'[v].step = req[v].step /\ req'[v].id = req[v].id /\ req'[v].scope = req[v].scope
    BY <1>2, OthersAre
  <2>2. req[v].id # i
    BY <1>2, <2>1 DEF OnlyW, ChangeSteps, ScopeSteps
  <2>3. req[v].id \in Ids
    BY <1>2, <2>1, Busy DEF ScopeSteps
  <2> QED
    BY <2>1, <2>2, <2>3
<1>3. ASSUME NEW v \in Workers, req'[v].step = "delete_domains" PROVE req'[v].scope = requested'[req'[v].id]
  <2>1. CASE v = w
    BY <1>3, <2>1 DEF ScopeSteps
  <2>2. CASE v # w
    BY <1>2, <1>3, <2>2 DEF ScopeInv, At, ScopeSteps
  <2> QED
    BY <2>1, <2>2
<1>4. ASSUME NEW v \in Workers, req'[v].step = "insert_domain"
      PROVE  /\ req'[v].scope # {}
             /\ {d \in Domains : <<req'[v].id, d>> \in scopes'} \cup req'[v].scope = requested'[req'[v].id]
             /\ {d \in Domains : <<req'[v].id, d>> \in scopes'} \cap req'[v].scope = {}
  <2>1. CASE v = w
    BY <1>4, <2>1 DEF ScopeSteps
  <2>2. CASE v # w
    <3>1. /\ req[v].step = "insert_domain" /\ req'[v].id = req[v].id /\ req'[v].scope = req[v].scope
          /\ req[v].id # i /\ req[v].id \in Ids
      BY <1>2, <1>4, <2>2 DEF ScopeSteps
    <3>2. /\ req[v].scope # {}
          /\ {d \in Domains : <<req[v].id, d>> \in scopes} \cup req[v].scope = requested[req[v].id]
          /\ {d \in Domains : <<req[v].id, d>> \in scopes} \cap req[v].scope = {}
      BY <3>1 DEF ScopeInv, At, DomainsOf
    <3>3. {d \in Domains : <<req[v].id, d>> \in scopes'} = {d \in Domains : <<req[v].id, d>> \in scopes}
      BY <3>1
    <3> QED
      BY <3>1, <3>2, <3>3
  <2> QED
    BY <2>1, <2>2
<1> QED
  BY <1>1, <1>3, <1>4 DEF ScopeInv, At, DomainsOf

\* What GoneInv says of a request r whose provider is there, or not, and was last
\* asked to cover those domains.
Left(r, exists, asked) ==
  /\ r.step \in {"update", "delete_domains", "insert_domain"} => exists
  /\ r.step = "invalidate" /\ r.op = "edit" => exists
  /\ r.step = "delete_row" => asked = {}
  /\ r.step = "invalidate" /\ r.op = "delete" => asked = {}

LEMMA LeftIs ==
  GoneInv <=> /\ \A i \in Ids : ~ providers[i].exists /\ ~ Changing(i) => requested[i] = {}
              /\ \A w \in Workers : Left(req[w], providers[req[w].id].exists, requested[req[w].id])
  BY DEF GoneInv, Left, At

\* A step of worker w that at most touches provider i.
LEMMA GoneFrame ==
  ASSUME TypeOK, GoneInv, NEW w \in Workers, Others(w), NEW i \in Ids, OnlyW(w, i),
         \A j \in Ids : j # i => requested'[j] = requested[j] /\ providers'[j].exists = providers[j].exists,
         req[w].step \in ChangeSteps => req[w].id = i,
         req'[w].step \in ChangeSteps => req'[w].id = i,
         ~ providers'[i].exists /\ req'[w].step \notin ChangeSteps => requested'[i] = {},
         Left(req'[w], providers'[i].exists, requested'[i])
  PROVE  GoneInv'
<1>1. ASSUME NEW j \in Ids, ~ providers'[j].exists, \A v \in Workers : ~ (req'[v].step \in ChangeSteps /\ req'[v].id = j)
      PROVE  requested'[j] = {}
  <2>1. CASE j = i
    BY <1>1, <2>1
  <2>2. CASE j # i
    <3>1. ~ Changing(j)
      BY <1>1, <2>2, OthersAre DEF Changing
    <3> QED
      BY <1>1, <2>2, <3>1 DEF GoneInv
  <2> QED
    BY <2>1, <2>2
<1>2. ASSUME NEW v \in Workers, v # w
      PROVE  Left(req'[v], providers'[req'[v].id].exists, requested'[req'[v].id])
  <2>1. req'[v].step = req[v].step /\ req'[v].id = req[v].id /\ req'[v].op = req[v].op
    BY <1>2, OthersAre
  <2>2. Left(req[v], providers[req[v].id].exists, requested[req[v].id])
    BY LeftIs
  <2>3. CASE req[v].step \in ChangeSteps
    <3>1. req[v].id # i /\ req[v].id \in Ids
      BY <1>2, <2>3, Busy DEF OnlyW, ChangeSteps
    <3> QED
      BY <2>1, <2>2, <3>1 DEF Left
  <2>4. CASE req[v].step \notin ChangeSteps
    BY <2>1, <2>4 DEF Left, ChangeSteps
  <2> QED
    BY <2>3, <2>4
<1>3. Left(req'[w], providers'[req'[w].id].exists, requested'[req'[w].id])
  <2>1. CASE req'[w].step \in ChangeSteps
    BY <2>1
  <2>2. CASE req'[w].step \notin ChangeSteps
    BY <2>2 DEF Left, ChangeSteps
  <2> QED
    BY <2>1, <2>2
<1>4. ASSUME NEW v \in Workers
      PROVE  Left(req'[v], providers'[req'[v].id].exists, requested'[req'[v].id])
  BY <1>2, <1>3
<1> QED
  BY <1>1, <1>4 DEF GoneInv, Left, At, Changing

\* What CacheInv says of provider i, its runtime and the lookups of workers V.
Fresh(i, row, rt, r, V) ==
  /\ rt # NoRuntime => Usable(row) /\ rt = row.issuer
  /\ \A v \in V : r[v].step = "discover" /\ r[v].id = i => Usable(row) /\ r[v].row.issuer = row.issuer

LEMMA FreshIs ==
  CacheInv <=> (~ crossed => \A i \in Ids : (\A w \in Workers : ~ Dirties(w, i)) =>
                                 Fresh(i, providers[i], runtimes[i], req, Workers))
  BY DEF CacheInv, Fresh, At

\* A step of worker w, which looks up no runtime, that at most touches provider i.
LEMMA CacheFrame ==
  ASSUME TypeOK, CacheInv, NEW w \in Workers, Others(w), NEW i \in Ids, crossed => crossed',
         \A j \in Ids : j # i => providers'[j] = providers[j] /\ runtimes'[j] = runtimes[j],
         req[w].step # "discover" /\ req'[w].step # "discover",
         \A j \in Ids : Dirties(w, j) => j = i,
         ~ crossed' /\ ~ Dirties(w, i)' /\ (\A v \in Workers : v # w => ~ Dirties(v, i)) =>
           Fresh(i, providers'[i], runtimes'[i], req, Workers \ {w})
  PROVE  CacheInv'
<1>1. ASSUME NEW v \in Workers, NEW j \in Ids, v # w PROVE Dirties(v, j)' <=> Dirties(v, j)
  BY <1>1, OthersAre DEF Dirties
<1>2. ASSUME ~ crossed', NEW j \in Ids, \A v \in Workers : ~ Dirties(v, j)'
      PROVE  Fresh(j, providers'[j], runtimes'[j], req, Workers \ {w})
  <2>1. CASE j = i
    BY <1>1, <1>2, <2>1
  <2>2. CASE j # i
    <3>1. \A v \in Workers : ~ Dirties(v, j)
      BY <1>1, <1>2, <2>2
    <3>2. Fresh(j, providers[j], runtimes[j], req, Workers)
      BY <1>2, <3>1, FreshIs
    <3> QED
      BY <2>2, <3>2 DEF Fresh
  <2> QED
    BY <2>1, <2>2
<1>3. ASSUME ~ crossed', NEW j \in Ids, \A v \in Workers : ~ Dirties(v, j)'
      PROVE  Fresh(j, providers'[j], runtimes'[j], req', Workers)
  <2>1. Fresh(j, providers'[j], runtimes'[j], req, Workers \ {w})
    BY <1>2, <1>3
  <2>2. \A v \in Workers : v # w => req'[v].step = req[v].step /\ req'[v].id = req[v].id /\ req'[v].row = req[v].row
    BY OthersAre
  <2> QED
    BY <2>1, <2>2 DEF Fresh
<1> QED
  BY <1>3 DEF CacheInv, Fresh, At

\* A change begins on a provider that nobody is changing.
LEMMA Begins ==
  ASSUME NEW w \in Workers, NEW i \in Ids, ~ Changing(i)
  PROVE  OnlyW(w, i) /\ \A v \in Workers : ~ Dirties(v, i) /\ ~ Scoping(v, i)
  BY DEF Changing, OnlyW, Dirties, Scoping, ChangeSteps

\* A change goes on alone.
LEMMA GoesOn ==
  ASSUME AloneInv, NEW w \in Workers, NEW i, i = req[w].id, req[w].step \in ChangeSteps
  PROVE  OnlyW(w, i) /\ \A v \in Workers : v # w => ~ Dirties(v, i) /\ ~ Scoping(v, i)
  BY DEF AloneInv, OnlyW, Dirties, Scoping, ChangeSteps

LEMMA InOrderCreate ==
  ASSUME TypeOK, KindInv, InOrder, NEW w \in Workers, NEW by \in Admins, NEW all \in BOOLEAN,
         NEW scope \in SUBSET Domains, CreateProvider(w, by, all, scope), ~ overlapped'
  PROVE  InOrder'
<1>1. Idle.step = "idle" /\ Idle.op = "none"
  BY IdleIs
<1>2. /\ Others(w) /\ req[w] = Idle
      /\ UNCHANGED <<scopes, manager, sessions, trespassed, crossed, faults>>
  BY CreateShape
<1>3. PICK id \in Ids :
        /\ NextId(id)
        /\ providers'[id].exists
        /\ \A i \in Ids : i # id => providers'[i] = providers[i] /\ requested'[i] = requested[i]
        /\ overlapped' = (overlapped \/ Changing(id))
        /\ \/ req'[w] = Idle /\ requested'[id] = {}
           \/ /\ req'[w].step = "delete_domains" /\ req'[w].op = "create"
              /\ req'[w].id = id /\ req'[w].scope = requested'[id]
  BY CreateShape
<1>4. ~ providers[id].exists
  <2>1. providers[id].exists => id < id
    BY <1>3 DEF NextId
  <2>2. id \in Nat
    BY DEF Ids
  <2> QED
    BY <2>1, <2>2
<1>5. ~ Changing(id)
  BY <1>3
<1>6. OnlyW(w, id) /\ \A v \in Workers : ~ Dirties(v, id) /\ ~ Scoping(v, id)
  BY <1>5, Begins
<1>7. UNCHANGED <<scopes, runtimes, crossed>>
  BY <1>2 DEF manager
<1>8. AloneInv'
  BY <1>1, <1>2, <1>3, <1>6, AloneGoOn DEF InOrder, ChangeSteps
<1>9. ScopeInv'
  <2> DEFINE D == {d \in Domains : <<id, d>> \in scopes'}
  <2>1. D = requested[id] /\ requested[id] = {}
    BY <1>4, <1>5, <1>6, <1>7 DEF InOrder, ScopeInv, DomainsOf, GoneInv
  <2>2. /\ req[w].step \notin ScopeSteps
        /\ req'[w].step \in ScopeSteps => req'[w].id = id
        /\ req'[w].step \notin ScopeSteps => D = requested'[id]
        /\ req'[w].step = "delete_domains" => req'[w].scope = requested'[id]
        /\ req'[w].step # "insert_domain"
    BY <1>1, <1>2, <1>3, <2>1 DEF ScopeSteps
  <2> HIDE DEF D
  <2>3. \A j \in Ids, d \in Domains : j # id => (<<j, d>> \in scopes' <=> <<j, d>> \in scopes)
    BY <1>7
  <2> QED
    BY <1>2, <1>3, <1>6, <2>2, <2>3, ScopeFrame DEF InOrder, D
<1>10. GoneInv'
  <2>1. Left(req'[w], providers'[id].exists, requested'[id])
    BY <1>1, <1>3 DEF Left
  <2>2. /\ req[w].step \notin ChangeSteps
        /\ req'[w].step \in ChangeSteps => req'[w].id = id
    BY <1>1, <1>2, <1>3 DEF ChangeSteps
  <2> QED
    BY <1>2, <1>3, <1>6, <2>1, <2>2, GoneFrame DEF InOrder
<1>11. CacheInv'
  <2>1. /\ \A j \in Ids : ~ Dirties(w, j)
        /\ req[w].step # "discover" /\ req'[w].step # "discover"
    BY <1>1, <1>2, <1>3 DEF Dirties
  <2>2. ASSUME ~ crossed' PROVE Fresh(id, providers'[id], runtimes'[id], req, Workers \ {w})
    <3>1. Fresh(id, providers[id], runtimes[id], req, Workers)
      BY <1>6, <1>7, <2>2, FreshIs DEF InOrder
    <3> QED
      BY <1>4, <1>7, <3>1 DEF Fresh, Usable
  <2>3. /\ CacheInv /\ Others(w) /\ (crossed => crossed')
        /\ \A j \in Ids : j # id => providers'[j] = providers[j] /\ runtimes'[j] = runtimes[j]
    BY <1>2, <1>3, <1>7 DEF InOrder
  <2> QED
    BY <2>1, <2>2, <2>3, CacheFrame
<1> QED
  BY <1>8, <1>9, <1>10, <1>11 DEF InOrder

\* An edit or a deletion begins: nothing is changed yet.
LEMMA InOrderBegin ==
  ASSUME TypeOK, KindInv, InOrder, NEW w \in Workers, NEW i \in Ids, ~ Changing(i), req[w] = Idle,
         \A v \in Workers : v # w => req'[v] = req[v],
         UNCHANGED <<tables, manager, requested, crossed>>,
         \/ req'[w].step = "update" /\ providers[i].exists
         \/ req'[w].step = "delete_scope",
         req'[w].id = i
  PROVE  InOrder'
<1>1. Idle.step = "idle" /\ Idle.op = "none"
  BY IdleIs
<1>2. Others(w)
  BY DEF Others, Alike
<1>3. OnlyW(w, i) /\ \A v \in Workers : ~ Dirties(v, i) /\ ~ Scoping(v, i)
  BY Begins
<1>4. UNCHANGED <<providers, scopes, runtimes, requested, crossed>>
  BY DEF tables, manager
<1>5. AloneInv'
  BY <1>2, <1>3, AloneGoOn DEF InOrder
<1>6. ScopeInv'
  BY <1>1, <1>2, <1>4, ScopeStill DEF InOrder, ScopeSteps
<1>7. GoneInv'
  <2>1. Left(req'[w], providers'[i].exists, requested'[i])
    BY <1>4 DEF Left
  <2>2. req[w].step \notin ChangeSteps /\ req'[w].step \in ChangeSteps
    BY <1>1 DEF ChangeSteps
  <2> QED
    BY <1>2, <1>3, <1>4, <2>1, <2>2, GoneFrame DEF InOrder
<1>8. CacheInv'
  <2>1. /\ \A j \in Ids : ~ Dirties(w, j)
        /\ req[w].step # "discover" /\ req'[w].step # "discover"
    BY <1>1 DEF Dirties
  <2>2. ASSUME ~ crossed' PROVE Fresh(i, providers'[i], runtimes'[i], req, Workers \ {w})
    <3>1. Fresh(i, providers[i], runtimes[i], req, Workers)
      BY <1>3, <1>4, <2>2, FreshIs DEF InOrder
    <3> QED
      BY <1>4, <3>1 DEF Fresh
  <2> QED
    BY <1>2, <1>4, <2>1, <2>2, CacheFrame DEF InOrder
<1> QED
  BY <1>5, <1>6, <1>7, <1>8 DEF InOrder

LEMMA InOrderUpdate ==
  ASSUME TypeOK, KindInv, InOrder, NEW w \in Workers, UpdateProvider(w)
  PROVE  InOrder'
<1> DEFINE i == req[w].id
<1>1. /\ Others(w) /\ i \in Ids /\ req[w].step = "update" /\ req[w].op = "edit"
      /\ UNCHANGED <<scopes, manager, crossed>>
      /\ providers'[i].exists = providers[i].exists
      /\ requested'[i] = req[w].scope
      /\ \A j \in Ids : j # i => providers'[j] = providers[j] /\ requested'[j] = requested[j]
      /\ req'[w].step = "delete_domains" /\ req'[w].op = "edit" /\ req'[w].id = i
      /\ req'[w].scope = req[w].scope
  BY UpdateShape
<1>2. OnlyW(w, i)
  BY <1>1, GoesOn DEF InOrder, ChangeSteps
<1>3. providers[i].exists
  BY <1>1 DEF InOrder, GoneInv
<1>4. UNCHANGED <<scopes, runtimes, crossed>>
  BY <1>1 DEF manager
<1>5. AloneInv'
  BY <1>1, <1>2, AloneGoOn DEF InOrder
<1>6. ScopeInv'
  <2> DEFINE D == {d \in Domains : <<i, d>> \in scopes'}
  <2>1. /\ req[w].step \notin ScopeSteps /\ req'[w].step \in ScopeSteps
        /\ \A j \in Ids, d \in Domains : j # i => (<<j, d>> \in scopes' <=> <<j, d>> \in scopes)
    BY <1>1, <1>4 DEF ScopeSteps
  <2> HIDE DEF D
  <2> QED
    BY <1>1, <1>2, <2>1, ScopeFrame DEF InOrder, D
<1>7. GoneInv'
  <2>1. Left(req'[w], providers'[i].exists, requested'[i])
    BY <1>1, <1>3 DEF Left
  <2>2. req[w].step \in ChangeSteps /\ req'[w].step \in ChangeSteps
    BY <1>1 DEF ChangeSteps
  <2> QED
    BY <1>1, <1>2, <2>1, <2>2, GoneFrame DEF InOrder
<1>8. CacheInv'
  <2>1. Dirties(w, i)' /\ \A j \in Ids : Dirties(w, j) => j = i
    BY <1>1 DEF Dirties
  <2>2. /\ CacheInv /\ (crossed => crossed')
        /\ \A j \in Ids : j # i => providers'[j] = providers[j] /\ runtimes'[j] = runtimes[j]
    BY <1>1, <1>4 DEF InOrder
  <2> QED
    BY <1>1, <2>1, <2>2, CacheFrame
<1> QED
  BY <1>5, <1>6, <1>7, <1>8 DEF InOrder

\* A statement that writes domains, the last of them or not.
LEMMA InOrderDomains ==
  ASSUME TypeOK, KindInv, InOrder, NEW w \in Workers, NEW i, i = req[w].id, Others(w),
         req[w].step \in ScopeSteps, req[w].op \in {"create", "edit"},
         UNCHANGED <<providers, manager, requested, crossed>>,
         \A j \in Ids, d \in Domains : j # i => (<<j, d>> \in scopes' <=> <<j, d>> \in scopes),
         NEW D, D = {d \in Domains : <<i, d>> \in scopes'},
         \/ req'[w] = Idle /\ req[w].op = "create" /\ D = requested[i]
         \/ req'[w] = [req[w] EXCEPT !.step = "invalidate"] /\ req[w].op = "edit" /\ D = requested[i]
         \/ /\ req'[w].step = "insert_domain" /\ req'[w].id = i /\ req'[w].op = req[w].op
            /\ req'[w].scope # {}
            /\ D \cup req'[w].scope = requested[i] /\ D \cap req'[w].scope = {}
  PROVE  InOrder'
<1>1. Idle.step = "idle" /\ Idle.op = "none" /\ req[w] \in Request /\ i \in Ids
  BY IdleIs, Busy DEF ScopeSteps
<1>2. req[w].step \in ChangeSteps
  BY DEF ScopeSteps, ChangeSteps
<1>3. OnlyW(w, i)
  BY <1>2, GoesOn DEF InOrder
<1>4. providers[i].exists
  BY DEF InOrder, GoneInv, ScopeSteps
<1>5. UNCHANGED runtimes
  BY DEF manager
<1>6. \/ req'[w].step = "idle" /\ req'[w].op = "none" /\ req[w].op = "create" /\ D = requested[i]
      \/ /\ req'[w].step = "invalidate" /\ req'[w].op = "edit" /\ req[w].op = "edit" /\ req'[w].id = i
         /\ D = requested[i]
      \/ /\ req'[w].step = "insert_domain" /\ req'[w].id = i /\ req'[w].op = req[w].op
         /\ req'[w].scope # {}
         /\ D \cup req'[w].scope = requested[i] /\ D \cap req'[w].scope = {}
  BY <1>1 DEF Request
<1>7. AloneInv'
  BY <1>3, <1>6, AloneGoOn DEF InOrder, ChangeSteps
<1>8. ScopeInv'
  <2>1. /\ req'[w].step \in ScopeSteps => req'[w].id = i
        /\ req'[w].step \notin ScopeSteps => D = requested'[i]
        /\ req'[w].step # "delete_domains"
        /\ req'[w].step = "insert_domain" =>
             req'[w].scope # {} /\ D \cup req'[w].scope = requested'[i] /\ D \cap req'[w].scope = {}
    BY <1>6 DEF ScopeSteps
  <2> QED
    BY <1>1, <1>3, <2>1, ScopeFrame DEF InOrder
<1>9. GoneInv'
  <2>1. Left(req'[w], providers'[i].exists, requested'[i])
    BY <1>4, <1>6 DEF Left
  <2>2. req'[w].step \in ChangeSteps => req'[w].id = i
    BY <1>6 DEF ChangeSteps
  <2> QED
    BY <1>1, <1>2, <1>3, <1>4, <2>1, <2>2, GoneFrame DEF InOrder
<1>10. CacheInv'
  <2>1. /\ \A j \in Ids : Dirties(w, j) => j = i
        /\ Dirties(w, i) => Dirties(w, i)'
        /\ req[w].step # "discover" /\ req'[w].step # "discover"
    BY <1>6 DEF Dirties, ScopeSteps
  <2>2. ASSUME ~ crossed', ~ Dirties(w, i)', \A v \in Workers : v # w => ~ Dirties(v, i)
        PROVE  Fresh(i, providers'[i], runtimes'[i], req, Workers \ {w})
    <3>1. \A v \in Workers : ~ Dirties(v, i)
      BY <2>1, <2>2
    <3>2. Fresh(i, providers[i], runtimes[i], req, Workers)
      BY <1>1, <2>2, <3>1, FreshIs DEF InOrder
    <3> QED
      BY <1>5, <3>2 DEF Fresh
  <2>3. /\ CacheInv /\ (crossed => crossed')
        /\ \A j \in Ids : j # i => providers'[j] = providers[j] /\ runtimes'[j] = runtimes[j]
    BY <1>5 DEF InOrder
  <2> QED
    BY <1>1, <2>1, <2>2, <2>3, CacheFrame
<1> QED
  BY <1>7, <1>8, <1>9, <1>10 DEF InOrder

LEMMA InOrderDeleteDomains ==
  ASSUME TypeOK, KindInv, InOrder, NEW w \in Workers, DeleteDomains(w)
  PROVE  InOrder'
<1> DEFINE i == req[w].id
           D == {d \in Domains : <<i, d>> \in scopes'}
<1>1. /\ Others(w) /\ i \in Ids /\ req[w].step = "delete_domains" /\ req[w].op \in {"create", "edit"}
      /\ UNCHANGED <<providers, manager, changes, crossed>>
      /\ \A j \in Ids, d \in Domains : <<j, d>> \in scopes' <=> <<j, d>> \in scopes /\ j # i
      /\ \/ req'[w] = Idle /\ req[w].op = "create" /\ req[w].scope = {}
         \/ req'[w] = [req[w] EXCEPT !.step = "invalidate"] /\ req[w].op = "edit" /\ req[w].scope = {}
         \/ req'[w] = [req[w] EXCEPT !.step = "insert_domain"] /\ req[w].scope # {}
  BY DeleteDomainsShape
<1>2. D = {}
  BY <1>1
<1>3. req[w].scope = requested[i] /\ req[w] \in Request
  BY <1>1, Busy DEF InOrder, ScopeInv, At
<1>4. UNCHANGED <<providers, manager, requested, crossed>>
  BY <1>1 DEF changes
<1>5. \/ req'[w] = Idle /\ req[w].op = "create" /\ D = requested[i]
      \/ req'[w] = [req[w] EXCEPT !.step = "invalidate"] /\ req[w].op = "edit" /\ D = requested[i]
      \/ /\ req'[w].step = "insert_domain" /\ req'[w].id = i /\ req'[w].op = req[w].op
         /\ req'[w].scope # {}
         /\ D \cup req'[w].scope = requested[i] /\ D \cap req'[w].scope = {}
  <2>1. CASE req'[w] = [req[w] EXCEPT !.step = "insert_domain"] /\ req[w].scope # {}
    <3>1. /\ req'[w].step = "insert_domain" /\ req'[w].id = i /\ req'[w].op = req[w].op
          /\ req'[w].scope = req[w].scope
      BY <1>3, <2>1 DEF Request
    <3> QED
      BY <1>2, <1>3, <2>1, <3>1
  <2>2. CASE ~ (req'[w] = [req[w] EXCEPT !.step = "insert_domain"] /\ req[w].scope # {})
    BY <1>1, <1>2, <1>3, <2>2
  <2> QED
    BY <2>1, <2>2
<1>6. /\ \A j \in Ids, d \in Domains : j # i => (<<j, d>> \in scopes' <=> <<j, d>> \in scopes)
      /\ req[w].step \in ScopeSteps
  BY <1>1 DEF ScopeSteps
<1> QED
  BY <1>1, <1>4, <1>5, <1>6, InOrderDomains

LEMMA InOrderInsertDomain ==
  ASSUME TypeOK, KindInv, InOrder, NEW w \in Workers, NEW d \in Domains, InsertDomain(w, d)
  PROVE  InOrder'
<1> DEFINE i == req[w].id
           C == {e \in Domains : <<i, e>> \in scopes}
           D == {e \in Domains : <<i, e>> \in scopes'}
<1>1. /\ Others(w) /\ i \in Ids /\ req[w].step = "insert_domain" /\ req[w].op \in {"create", "edit"}
      /\ d \in req[w].scope
      /\ UNCHANGED <<providers, manager, changes, crossed>>
      /\ \/ <<i, d>> \in scopes
         \/ /\ <<i, d>> \notin scopes /\ scopes' = scopes \cup {<<i, d>>}
            /\ \/ req'[w] = Idle /\ req[w].op = "create" /\ req[w].scope = {d}
               \/ req'[w] = [req[w] EXCEPT !.step = "invalidate"] /\ req[w].op = "edit" /\ req[w].scope = {d}
               \/ req'[w] = [req[w] EXCEPT !.scope = @ \ {d}] /\ req[w].scope # {d}
  BY InsertDomainShape
<1>2. C \cup req[w].scope = requested[i] /\ C \cap req[w].scope = {} /\ req[w] \in Request
  BY <1>1, Busy DEF InOrder, ScopeInv, At, DomainsOf
<1>3. <<i, d>> \notin scopes
  BY <1>1, <1>2
<1>4. D = C \cup {d}
  BY <1>1, <1>3
<1>5. UNCHANGED <<providers, manager, requested, crossed>>
  BY <1>1 DEF changes
<1> HIDE DEF C
<1>6. \/ req'[w] = Idle /\ req[w].op = "create" /\ D = requested[i]
      \/ req'[w] = [req[w] EXCEPT !.step = "invalidate"] /\ req[w].op = "edit" /\ D = requested[i]
      \/ /\ req'[w].step = "insert_domain" /\ req'[w].id = i /\ req'[w].op = req[w].op
         /\ req'[w].scope # {}
         /\ D \cup req'[w].scope = requested[i] /\ D \cap req'[w].scope = {}
  <2>1. CASE req'[w] = [req[w] EXCEPT !.scope = @ \ {d}] /\ req[w].scope # {d}
    <3>1. /\ req'[w].step = "insert_domain" /\ req'[w].id = i /\ req'[w].op = req[w].op
          /\ req'[w].scope = req[w].scope \ {d}
      BY <1>1, <1>2, <2>1 DEF Request
    <3> HIDE DEF D
    <3>2. /\ req'[w].scope # {}
          /\ D \cup req'[w].scope = requested[i] /\ D \cap req'[w].scope = {}
      BY <1>1, <1>2, <1>4, <2>1, <3>1
    <3> QED
      BY <3>1, <3>2
  <2>2. CASE ~ (req'[w] = [req[w] EXCEPT !.scope = @ \ {d}] /\ req[w].scope # {d})
    <3> HIDE DEF D
    <3> QED
      BY <1>1, <1>2, <1>3, <1>4, <2>2
  <2> QED
    BY <2>1, <2>2
<1>7. /\ \A j \in Ids, e \in Domains : j # i => (<<j, e>> \in scopes' <=> <<j, e>> \in scopes)
      /\ req[w].step \in ScopeSteps
  BY <1>1, <1>3 DEF ScopeSteps
<1> QED
  BY <1>1, <1>5, <1>6, <1>7, InOrderDomains

LEMMA InOrderDeleting ==
  ASSUME TypeOK, KindInv, InOrder, NEW w \in Workers, DeleteScope(w) \/ DeleteRow(w),
         NEW i, i = req[w].id
  PROVE  InOrder'
<1> DEFINE D == {e \in Domains : <<i, e>> \in scopes'}
<1>1. /\ Others(w) /\ i \in Ids /\ req[w].op = "delete"
      /\ UNCHANGED <<manager, crossed>>
      /\ \/ /\ req[w].step = "delete_scope"
            /\ req'[w] = [req[w] EXCEPT !.step = "delete_row"]
            /\ \A j \in Ids, d \in Domains : <<j, d>> \in scopes' <=> <<j, d>> \in scopes /\ j # i
            /\ requested'[i] = {} /\ \A j \in Ids : j # i => requested'[j] = requested[j]
            /\ UNCHANGED providers
         \/ /\ req[w].step = "delete_row"
            /\ req'[w] = [req[w] EXCEPT !.step = "invalidate"]
            /\ \A j \in Ids : j # i => providers'[j] = providers[j]
            /\ UNCHANGED <<scopes, requested>>
  BY DeletingShape
<1>2. /\ req[w] \in Request /\ req[w].step \in ChangeSteps
      /\ \A j \in Ids : j # i => providers'[j] = providers[j] /\ requested'[j] = requested[j]
  BY <1>1, Busy DEF ChangeSteps
<1>3. /\ OnlyW(w, i)
      /\ \A v \in Workers : v # w => ~ Dirties(v, i) /\ ~ Scoping(v, i)
  BY <1>2, GoesOn DEF InOrder
<1>4. \/ /\ req[w].step = "delete_scope" /\ req'[w].step = "delete_row" /\ UNCHANGED providers
         /\ requested'[i] = {}
      \/ req[w].step = "delete_row" /\ req'[w].step = "invalidate" /\ UNCHANGED <<scopes, requested>>
  BY <1>1, <1>2 DEF Request
<1>5. req'[w].id = i /\ req'[w].op = "delete"
  BY <1>1, <1>2 DEF Request
<1>6. UNCHANGED <<runtimes, crossed>>
  BY <1>1 DEF manager
<1>7. AloneInv'
  BY <1>1, <1>3, <1>5, AloneGoOn DEF InOrder
<1>8. ScopeInv'
  <2>1. CASE req[w].step = "delete_row"
    BY <1>1, <1>4, <2>1, ScopeStill DEF InOrder, ScopeSteps
  <2>2. CASE req[w].step = "delete_scope"
    <3>1. D = {} /\ requested'[i] = {}
      BY <1>1, <2>2
    <3>2. \A j \in Ids, d \in Domains : j # i => (<<j, d>> \in scopes' <=> <<j, d>> \in scopes)
      BY <1>1, <2>2
    <3>3. req[w].step \notin ScopeSteps /\ req'[w].step \notin ScopeSteps /\ req'[w].step \notin {"delete_domains", "insert_domain"}
      BY <1>4, <2>2 DEF ScopeSteps
    <3> HIDE DEF D
    <3> QED
      BY <1>1, <1>2, <1>3, <3>1, <3>2, <3>3, ScopeFrame DEF InOrder, D
  <2> QED
    BY <1>4, <2>1, <2>2
<1>9. requested'[i] = {}
  <2>1. CASE req[w].step = "delete_row"
    BY <1>4, <2>1 DEF InOrder, GoneInv, At
  <2> QED
    BY <1>4, <2>1
<1>10. GoneInv'
  <2>1. Left(req'[w], providers'[i].exists, requested'[i])
    BY <1>4, <1>5, <1>9 DEF Left
  <2>2. \A j \in Ids : j # i => requested'[j] = requested[j] /\ providers'[j].exists = providers[j].exists
    BY <1>2
  <2> QED
    BY <1>1, <1>2, <1>3, <1>5, <1>9, <2>1, <2>2, GoneFrame DEF InOrder
<1>11. CacheInv'
  <2>1. /\ \A j \in Ids : ~ Dirties(w, j)
        /\ req[w].step # "discover" /\ req'[w].step # "discover"
    BY <1>1, <1>4 DEF Dirties
  <2>2. ASSUME ~ crossed', ~ Dirties(w, i)'
        PROVE  Fresh(i, providers'[i], runtimes'[i], req, Workers \ {w})
    <3>1. UNCHANGED providers
      BY <1>4, <1>5, <2>2 DEF Dirties
    <3>2. \A v \in Workers : ~ Dirties(v, i)
      BY <1>1, <1>3, <2>1
    <3>3. Fresh(i, providers[i], runtimes[i], req, Workers)
      BY <1>1, <1>6, <2>2, <3>2, FreshIs DEF InOrder
    <3> QED
      BY <1>6, <3>1, <3>3 DEF Fresh
  <2>3. /\ CacheInv /\ (crossed => crossed')
        /\ \A j \in Ids : j # i => providers'[j] = providers[j] /\ runtimes'[j] = runtimes[j]
    BY <1>2, <1>6 DEF InOrder
  <2> QED
    BY <1>1, <2>1, <2>2, <2>3, CacheFrame
<1> QED
  BY <1>7, <1>8, <1>10, <1>11 DEF InOrder

LEMMA InOrderInvalidate ==
  ASSUME TypeOK, KindInv, InOrder, NEW w \in Workers, Invalidate(w)
  PROVE  InOrder'
<1> DEFINE i == req[w].id
<1>1. /\ i \in Ids /\ req[w].step = "invalidate" /\ req[w].op \in {"edit", "delete"}
      /\ req'[w] = Idle /\ \A v \in Workers : v # w => req'[v] = req[v]
      /\ UNCHANGED <<tables, requested>>
      /\ runtimes'[i] = NoRuntime /\ \A j \in Ids : j # i => runtimes'[j] = runtimes[j]
      /\ crossed' <=> crossed \/ \E v \in Workers : At(v, "discover") /\ req[v].id = i
  BY InvalidateShape
<1>2. req'[w].step = "idle" /\ req'[w].op = "none" /\ UNCHANGED <<providers, scopes>>
  BY <1>1, IdleIs DEF tables
<1>3. Others(w)
  BY <1>1 DEF Others, Alike
<1>4. OnlyW(w, i)
  BY <1>1, GoesOn DEF InOrder, ChangeSteps
<1>5. AloneInv'
  BY <1>2, <1>3, <1>4, AloneGoOn DEF InOrder, ChangeSteps
<1>6. ScopeInv'
  BY <1>1, <1>2, <1>3, ScopeStill DEF InOrder, ScopeSteps
<1>7. GoneInv'
  <2>1. Left(req'[w], providers'[i].exists, requested'[i])
    BY <1>2 DEF Left
  <2>2. ~ providers'[i].exists => requested'[i] = {}
    BY <1>1, <1>2 DEF InOrder, GoneInv, At
  <2>3. req'[w].step \notin ChangeSteps
    BY <1>2 DEF ChangeSteps
  <2> QED
    BY <1>1, <1>2, <1>3, <1>4, <2>1, <2>2, <2>3, GoneFrame DEF InOrder
<1>8. CacheInv'
  <2>1. /\ \A j \in Ids : Dirties(w, j) => j = i
        /\ req[w].step # "discover" /\ req'[w].step # "discover"
    BY <1>1, <1>2 DEF Dirties
  <2>2. ASSUME ~ crossed' PROVE Fresh(i, providers'[i], runtimes'[i], req, Workers \ {w})
    BY <1>1, <2>2 DEF Fresh, At
  <2>3. /\ CacheInv /\ (crossed => crossed')
        /\ \A j \in Ids : j # i => providers'[j] = providers[j] /\ runtimes'[j] = runtimes[j]
    BY <1>1, <1>2 DEF InOrder
  <2> QED
    BY <1>1, <1>3, <2>1, <2>2, <2>3, CacheFrame
<1> QED
  BY <1>5, <1>6, <1>7, <1>8 DEF InOrder

\* A step of worker w that changes no provider, and fills the cache at most with
\* the runtime of a row as it is.
LEMMA CacheStill ==
  ASSUME CacheInv, NEW w \in Workers, UNCHANGED <<providers, crossed>>,
         \A v \in Workers : v # w => req'[v] = req[v],
         req[w].step \notin ChangeSteps, req'[w].step \notin ChangeSteps,
         \A i \in Ids : ~ crossed /\ (\A v \in Workers : ~ Dirties(v, i)) =>
           \/ runtimes'[i] = runtimes[i]
           \/ Usable(providers[i]) /\ runtimes'[i] = providers[i].issuer,
         \A i \in Ids : req'[w].step = "discover" /\ req'[w].id = i =>
           Usable(providers[i]) /\ req'[w].row.issuer = providers[i].issuer
  PROVE  CacheInv'
<1>1. \A v \in Workers, i \in Ids : Dirties(v, i)' <=> Dirties(v, i)
  BY DEF Dirties, ChangeSteps
<1>2. ASSUME ~ crossed, NEW i \in Ids, \A v \in Workers : ~ Dirties(v, i)
      PROVE  Fresh(i, providers[i], runtimes'[i], req', Workers)
  <2>1. Fresh(i, providers[i], runtimes[i], req, Workers)
    BY <1>2, FreshIs
  <2>2. runtimes'[i] = runtimes[i] \/ (Usable(providers[i]) /\ runtimes'[i] = providers[i].issuer)
    BY <1>2
  <2>3. ASSUME NEW v \in Workers, req'[v].step = "discover", req'[v].id = i
        PROVE  Usable(providers[i]) /\ req'[v].row.issuer = providers[i].issuer
    <3>1. CASE v = w
      BY <2>3, <3>1
    <3>2. CASE v # w
      BY <2>1, <2>3, <3>2 DEF Fresh
    <3> QED
      BY <3>1, <3>2
  <2> QED
    BY <2>1, <2>2, <2>3 DEF Fresh
<1>3. ASSUME ~ crossed', NEW i \in Ids, \A v \in Workers : ~ Dirties(v, i)'
      PROVE  Fresh(i, providers'[i], runtimes'[i], req', Workers)
  BY <1>1, <1>2, <1>3
<1> QED
  BY <1>3 DEF CacheInv, Fresh, At

LEMMA CacheFlow ==
  ASSUME TypeOK, KindInv, CacheInv, IsFiniteSet(sessions), NEW w \in Workers, Flow(w)
  PROVE  CacheInv'
<1>1. Idle.step = "idle" /\ Idle.op = "none"
  BY IdleIs
<1>2. /\ UNCHANGED <<providers, crossed>>
      /\ \A v \in Workers : v # w => req'[v] = req[v]
      /\ req[w].step \notin ChangeSteps /\ req'[w].step \notin ChangeSteps
  BY FlowStill DEF tables
<1>3. ASSUME UNCHANGED runtimes, req'[w].step # "discover" PROVE CacheInv'
  BY <1>2, <1>3, CacheStill
<1>4. ASSUME NEW i \in Ids, Start(w, i) PROVE CacheInv'
  <2>1. UNCHANGED runtimes /\ req'[w].step = "lookup"
    BY <1>4, StartShape DEF manager
  <2> QED
    BY <1>3, <2>1
<1>5. ASSUME NEW f \in Flows, NEW c \in Flows, ConsumePending(w, f, c) PROVE CacheInv'
  <2>1. UNCHANGED runtimes /\ req[w] = Idle /\ (req' = req \/ req'[w].step = "lookup")
    BY <1>5, ConsumeShape
  <2> QED
    BY <1>1, <1>3, <2>1
<1>6. CASE LookupRuntime(w)
  <2> DEFINE i == req[w].id
  <2>1. /\ req[w].step = "lookup" /\ UNCHANGED runtimes
        /\ \/ Obtained(w, runtimes[i])
           \/ req'[w] = [req[w] EXCEPT !.step = "read_provider"]
    BY <1>6, LookupShape
  <2>2. req[w] \in Request
    BY <2>1, Busy
  <2>3. req'[w].step # "discover"
    BY <1>1, <2>1, <2>2 DEF Obtained, Request
  <2> QED
    BY <1>3, <2>1, <2>3
<1>7. CASE ReadProvider(w)
  <2> DEFINE i == req[w].id
  <2>1. /\ i \in Ids /\ req[w].step = "read_provider" /\ req[w].op \in {"start", "callback"}
        /\ UNCHANGED <<tables, manager, requests, sessions, changes, crossed, faults>>
        /\ \A v \in Workers : v # w => req'[v] = req[v]
        /\ \/ req'[w] = Idle
           \/ /\ Usable(providers[i])
              /\ req'[w] = [req[w] EXCEPT !.row = providers[i], !.step = "discover"]
    <3>1. i = req[w].id
      OBVIOUS
    <3> HIDE DEF i
    <3> QED
      BY <1>7, <3>1, ReadProviderShape
  <2>2. req[w] \in Request /\ UNCHANGED runtimes
    BY <2>1, Busy DEF manager
  <2>3. CASE req'[w] = Idle
    BY <1>1, <1>3, <2>2, <2>3
  <2>4. CASE Usable(providers[i]) /\ req'[w] = [req[w] EXCEPT !.row = providers[i], !.step = "discover"]
    <3>1. req'[w].id = i /\ req'[w].row = providers[i]
      BY <2>2, <2>4 DEF Request
    <3>2. \A j \in Ids : req'[w].step = "discover" /\ req'[w].id = j =>
            Usable(providers[j]) /\ req'[w].row.issuer = providers[j].issuer
      BY <2>4, <3>1
    <3>3. \A j \in Ids : runtimes'[j] = runtimes[j]
      BY <2>2
    <3> QED
      BY <1>2, <3>2, <3>3, CacheStill
  <2> QED
    BY <2>1, <2>3, <2>4
<1>8. CASE Discover(w)
  <2> DEFINE i == req[w].id
  <2>1. /\ i \in Ids /\ req[w].step = "discover"
        /\ runtimes'[i] = req[w].row.issuer /\ \A j \in Ids : j # i => runtimes'[j] = runtimes[j]
        /\ Obtained(w, req[w].row.issuer)
    BY <1>8, DiscoverShape
  <2>2. req'[w].step # "discover"
    BY <1>1, <2>1 DEF Obtained
  <2>3. ASSUME NEW j \in Ids, ~ crossed, \A v \in Workers : ~ Dirties(v, j)
        PROVE  \/ runtimes'[j] = runtimes[j]
               \/ Usable(providers[j]) /\ runtimes'[j] = providers[j].issuer
    BY <2>1, <2>3 DEF CacheInv, At
  <2> QED
    BY <1>2, <2>2, <2>3, CacheStill
<1>9. CASE (\E c \in codes : Exchange(w, c)) \/ ReadScope(w) \/ ReadDomains(w)
  <2> DEFINE i == req[w].id
  <2>1. /\ req[w] \in Request /\ UNCHANGED manager
        /\ \/ req'[w] = Idle
           \/ \E m \in Domains : req'[w] = [req[w] EXCEPT !.step = "read_scope", !.scope = {m}]
           \/ req'[w] = [req[w] EXCEPT !.step = IF providers[i].all THEN "mint" ELSE "read_domains"]
           \/ req'[w] = [req[w] EXCEPT !.step = "mint"]
    BY <1>9, CallbackShape
  <2>2. req'[w].step # "discover" /\ UNCHANGED runtimes
    BY <1>1, <2>1 DEF Request, manager
  <2> QED
    BY <1>3, <2>2
<1>10. CASE MintSession(w)
  <2>1. UNCHANGED manager /\ req'[w] = Idle
    BY <1>10, MintShape
  <2> QED
    BY <1>1, <1>3, <2>1 DEF manager
<1> QED
  BY <1>4, <1>5, <1>6, <1>7, <1>8, <1>9, <1>10 DEF Flow

\* A step of worker w that changes no provider.
LEMMA InOrderStill ==
  ASSUME TypeOK, InOrder, NEW w \in Workers, UNCHANGED <<tables, changes>>,
         \A v \in Workers : v # w => req'[v] = req[v],
         req[w].step \notin ChangeSteps, req'[w].step \notin ChangeSteps
  PROVE  AloneInv' /\ ScopeInv' /\ GoneInv'
<1>1. UNCHANGED <<providers, scopes, requested>> /\ Others(w)
  BY DEF tables, changes, Others, Alike
<1>2. AloneInv'
  BY DEF InOrder, AloneInv
<1>3. ScopeInv'
  BY <1>1, ScopeStill DEF InOrder, ScopeSteps, ChangeSteps
<1>4. GoneInv'
  <2>1. \A i \in Ids : Changing(i)' <=> Changing(i)
    BY DEF Changing
  <2>2. ASSUME NEW v \in Workers
        PROVE  Left(req'[v], providers[req'[v].id].exists, requested[req'[v].id])
    <3>1. CASE v = w
      BY <3>1 DEF Left, ChangeSteps
    <3>2. CASE v # w
      BY <3>2, LeftIs DEF InOrder
    <3> QED
      BY <3>1, <3>2
  <2>3. \A i \in Ids : ~ providers'[i].exists /\ ~ Changing(i)' => requested'[i] = {}
    BY <1>1, <2>1 DEF InOrder, GoneInv
  <2> QED
    BY <1>1, <2>2, <2>3 DEF GoneInv, Left, At
<1> QED
  BY <1>2, <1>3, <1>4

LEMMA InOrderChange ==
  ASSUME TypeOK, KindInv, InOrder, NEW w \in Workers, Change(w), ~ overlapped'
  PROVE  InOrder'
<1>1. ASSUME NEW by \in Admins, NEW a \in Asked, CreateProvider(w, by, a.all, a.scope) PROVE InOrder'
  <2>1. a.all \in BOOLEAN /\ a.scope \in SUBSET Domains
    BY SSOFlowAssumption DEF Asked
  <2> QED
    BY <1>1, <2>1, InOrderCreate
<1>2. ASSUME NEW by \in Admins, NEW a \in Asked, NEW i \in Ids, NEW active \in BOOLEAN,
             NEW keep \in BOOLEAN, EditProvider(w, by, i, a.all, a.scope, active, keep)
      PROVE  InOrder'
  <2>1. a.all \in BOOLEAN /\ a.scope \in SUBSET Domains
    BY SSOFlowAssumption DEF Asked
  <2>2. /\ req[w] = Idle /\ Owns(by, i)
        /\ UNCHANGED <<tables, manager, sessions, requested, retired, ids, reused, trespassed,
                       crossed, faults>>
        /\ overlapped' = (overlapped \/ Changing(i))
        /\ req'[w].step = "update" /\ req'[w].id = i
        /\ \A v \in Workers : v # w => req'[v] = req[v]
    BY <1>2, <2>1, EditShape
  <2>3. ~ Changing(i) /\ providers[i].exists
    BY <2>2 DEF Owns
  <2> QED
    BY <2>2, <2>3, InOrderBegin
<1>3. ASSUME NEW by \in Admins, NEW i \in Ids, DeleteProvider(w, by, i) PROVE InOrder'
  <2>1. /\ req[w] = Idle
        /\ UNCHANGED <<tables, manager, sessions, requested, retired, ids, reused, trespassed,
                       crossed, faults>>
        /\ overlapped' = (overlapped \/ Changing(i))
        /\ req'[w].step = "delete_scope" /\ req'[w].id = i
        /\ \A v \in Workers : v # w => req'[v] = req[v]
    BY <1>3, DeleteShape
  <2>2. ~ Changing(i)
    BY <2>1
  <2> QED
    BY <2>1, <2>2, InOrderBegin
<1>4. CASE UpdateProvider(w)
  BY <1>4, InOrderUpdate
<1>5. CASE DeleteDomains(w)
  BY <1>5, InOrderDeleteDomains
<1>6. ASSUME NEW d \in Domains, InsertDomain(w, d) PROVE InOrder'
  BY <1>6, InOrderInsertDomain
<1>7. CASE DeleteScope(w) \/ DeleteRow(w)
  BY <1>7, InOrderDeleting
<1>8. CASE Invalidate(w)
  BY <1>8, InOrderInvalidate
<1> QED
  BY <1>1, <1>2, <1>3, <1>4, <1>5, <1>6, <1>7, <1>8 DEF Change

LEMMA InOrderNext ==
  ASSUME TypeOK, KindInv, IsFiniteSet(sessions), InOrder, Next, ~ overlapped', faults' = 0
  PROVE  InOrder'
<1>1. Idle.step = "idle" /\ Idle.op = "none"
  BY IdleIs
<1>2. ASSUME NEW w \in Workers, Change(w) PROVE InOrder'
  BY <1>2, InOrderChange
<1>3. ASSUME NEW w \in Workers, Flow(w) PROVE InOrder'
  <2>1. /\ UNCHANGED <<tables, changes, crossed, faults>>
        /\ \A v \in Workers : v # w => req'[v] = req[v]
        /\ req[w].step \notin ChangeSteps /\ req'[w].step \notin ChangeSteps
    BY <1>3, FlowStill
  <2>2. AloneInv' /\ ScopeInv' /\ GoneInv'
    BY <2>1, InOrderStill
  <2>3. CacheInv'
    BY <1>3, CacheFlow DEF InOrder
  <2> QED
    BY <2>2, <2>3 DEF InOrder
<1>4. ASSUME NEW w \in Workers, FlowFails(w) \/ ChangeFails(w) PROVE InOrder'
  <2>1. /\ UNCHANGED <<tables, manager, requests, sessions, changes, crossed>>
        /\ req'[w] = Idle /\ \A v \in Workers : v # w => req'[v] = req[v]
        /\ \/ req[w].op \in {"start", "callback"}
           \/ faults \in Nat /\ faults' = faults + 1
    BY <1>4, FailShape
  <2>2. req[w].op \in {"start", "callback"}
    BY <2>1
  <2>3. req[w].step \notin ChangeSteps /\ req'[w].step \notin ChangeSteps
    BY <1>1, <2>1, <2>2 DEF KindInv, Kind, ChangeSteps
  <2>4. AloneInv' /\ ScopeInv' /\ GoneInv'
    BY <2>1, <2>3, InOrderStill
  <2>5. CacheInv'
    <3>1. UNCHANGED <<providers, runtimes, crossed>> /\ req'[w].step # "discover"
      BY <1>1, <2>1 DEF tables, manager
    <3> QED
      BY <2>1, <2>3, <3>1, CacheStill DEF InOrder
  <2> QED
    BY <2>4, <2>5 DEF InOrder
<1>5. ASSUME NEW f \in Flows, NEW m \in Domains, SignIn(f, m) PROVE InOrder'
  <2>1. UNCHANGED <<tables, manager, req, changes, crossed>>
    BY <1>5, SignInShape
  <2>2. UNCHANGED <<providers, scopes, runtimes, req, requested, crossed>>
    BY <2>1 DEF tables, manager, changes
  <2>3. AloneInv' /\ GoneInv'
    BY <2>2 DEF InOrder, AloneInv, GoneInv, Changing, At
  <2>4. ScopeInv'
    BY <2>2 DEF InOrder, ScopeInv, Scoping, DomainsOf, At
  <2>5. CacheInv'
    BY <2>2 DEF InOrder, CacheInv, Dirties, At
  <2> QED
    BY <2>3, <2>4, <2>5 DEF InOrder
<1>6. CASE Crash
  <2>1. faults \in Nat /\ faults' = faults + 1
    BY <1>6, CrashShape
  <2> QED
    BY <2>1
<1> QED
  BY <1>2, <1>3, <1>4, <1>5, <1>6 DEF Next

\* Faults and overlaps are not forgotten.
LEMMA NeverForgotten ==
  ASSUME TypeOK, KindInv, IsFiniteSet(sessions), Next
  PROVE  (faults' = 0 => faults = 0) /\ (overlapped => overlapped')
<1>1. ASSUME NEW w \in Workers, Change(w) PROVE UNCHANGED faults /\ (overlapped => overlapped')
  <2>1. ASSUME NEW by \in Admins, NEW a \in Asked, CreateProvider(w, by, a.all, a.scope)
        PROVE  UNCHANGED faults /\ (overlapped => overlapped')
    BY <2>1 DEF CreateProvider, Overlaps
  <2>2. ASSUME NEW by \in Admins, NEW a \in Asked, NEW i \in Ids, NEW active \in BOOLEAN,
               NEW keep \in BOOLEAN, EditProvider(w, by, i, a.all, a.scope, active, keep)
        PROVE  UNCHANGED faults /\ (overlapped => overlapped')
    BY <2>2 DEF EditProvider, Overlaps
  <2>3. ASSUME NEW by \in Admins, NEW i \in Ids, DeleteProvider(w, by, i)
        PROVE  UNCHANGED faults /\ (overlapped => overlapped')
    BY <2>3 DEF DeleteProvider, Overlaps
  <2>4. CASE UpdateProvider(w)
    BY <2>4 DEF UpdateProvider
  <2>5. CASE DeleteDomains(w)
    BY <2>5 DEF DeleteDomains, changes
  <2>6. ASSUME NEW d \in Domains, InsertDomain(w, d) PROVE UNCHANGED faults /\ (overlapped => overlapped')
    BY <2>6 DEF InsertDomain, changes
  <2>7. CASE DeleteScope(w) \/ DeleteRow(w)
    BY <2>7 DEF DeleteScope, DeleteRow
  <2>8. CASE Invalidate(w)
    BY <2>8 DEF Invalidate
  <2> QED
    BY <1>1, <2>1, <2>2, <2>3, <2>4, <2>5, <2>6, <2>7, <2>8 DEF Change
<1>2. ASSUME NEW w \in Workers, Flow(w) PROVE UNCHANGED faults /\ (overlapped => overlapped')
  BY <1>2, FlowStill DEF changes
<1>3. ASSUME NEW w \in Workers, FlowFails(w) \/ ChangeFails(w)
      PROVE  (faults' = 0 => faults = 0) /\ (overlapped => overlapped')
  <2>1. UNCHANGED overlapped /\ (UNCHANGED faults \/ (faults \in Nat /\ faults' = faults + 1))
    BY <1>3, FailShape DEF changes
  <2> QED
    BY <2>1
<1>4. ASSUME NEW f \in Flows, NEW m \in Domains, SignIn(f, m)
      PROVE  UNCHANGED faults /\ (overlapped => overlapped')
  BY <1>4, SignInShape DEF changes
<1>5. CASE Crash
  <2>1. UNCHANGED overlapped /\ faults \in Nat /\ faults' = faults + 1
    BY <1>5, CrashShape DEF changes
  <2> QED
    BY <2>1
<1> QED
  BY <1>1, <1>2, <1>3, <1>4, <1>5 DEF Next
-----------------------------------------------------------------------------
(* The theorems.                                                           *)

Typed == TypeOK /\ KindInv /\ IsFiniteSet(sessions)

IInv == Typed /\ FlowsInv /\ GrantInv /\ LateInv /\ OwnerInv /\ SettledInv

LEMMA InitHolds == Init => IInv
<1> SUFFICES ASSUME Init PROVE IInv
  OBVIOUS
<1>1. /\ \A w \in Workers : req[w] = Idle
      /\ \A i \in Ids : providers[i] = NoRow /\ runtimes[i] = 0 /\ requested[i] = {}
      /\ \A f \in Flows : pending[f] = 0
      /\ scopes = {} /\ sessions = {} /\ retired = {} /\ ids = {} /\ requests = 0
      /\ reused = FALSE /\ trespassed = FALSE /\ crossed = FALSE
  BY DEF Init, NoRuntime
<1>2. /\ Idle.step = "idle" /\ Idle.op = "none" /\ Idle.flow = 0
      /\ NoRow.exists = FALSE /\ NoRow.active = FALSE
  BY IdleIs DEF NoRow
<1>3. TypeOK
  <2>1. MaxRequests \in Nat /\ MaxFaults \in Nat
    BY SSOFlowAssumption
  <2>2. req \in [Workers -> Request] /\ providers \in [Ids -> Row]
    BY IdleType DEF Init
  <2>3. \A w \in Workers : req[w] # Idle => ~ At(w, "idle") /\ req[w].id \in Ids
    BY <1>1
  <2> QED
    <3>1. /\ runtimes \in [Ids -> Nat] /\ pending \in [Flows -> Ids \cup {0}]
          /\ sent \in [Flows -> Nat] /\ requested \in [Ids -> SUBSET Domains]
      BY DEF Init, NoRuntime
    <3>2. /\ codes = {} /\ overlapped = FALSE
          /\ requests \in 0..MaxRequests /\ faults \in 0..MaxFaults
      BY <2>1 DEF Init
    <3> QED
      BY <1>1, <2>2, <2>3, <3>1, <3>2 DEF TypeOK
<1>4. KindInv
  BY <1>1, IdleKind DEF KindInv
<1>5. IsFiniteSet(sessions)
  BY <1>1, FS_EmptySet
<1>6. FlowsInv
  BY <1>1, <1>2 DEF FlowsInv, Serves
<1>7. GrantInv
  BY <1>1, <1>2 DEF GrantInv
<1>8. LateInv
  BY <1>1, <1>2 DEF LateInv, Dead, At, NoRuntime
<1>9. OwnerInv
  BY <1>1, <1>2 DEF OwnerInv
<1>10. AloneInv
  BY <1>1, <1>2 DEF AloneInv, ChangeSteps
<1>11. ScopeInv
  BY <1>1, <1>2 DEF ScopeInv, DomainsOf, At
<1>12. GoneInv
  BY <1>1, <1>2 DEF GoneInv, At
<1>13. CacheInv
  BY <1>1, <1>2 DEF CacheInv, At, NoRuntime
<1> QED
  BY <1>3, <1>4, <1>5, <1>6, <1>7, <1>8, <1>9, <1>10, <1>11, <1>12, <1>13
  DEF IInv, Typed, SettledInv, InOrder

LEMMA TypedChange ==
  ASSUME Typed, NEW w \in Workers, Change(w)
  PROVE  TypeOK' /\ KindInv' /\ UNCHANGED sessions
<1> USE DEF Typed
<1>1. ASSUME NEW by \in Admins, NEW a \in Asked, CreateProvider(w, by, a.all, a.scope)
      PROVE  TypeOK' /\ KindInv' /\ UNCHANGED sessions
  <2>1. a.all \in BOOLEAN /\ a.scope \in SUBSET Domains
    BY SSOFlowAssumption DEF Asked
  <2> QED
    BY <1>1, <2>1, CreateShape
<1>2. ASSUME NEW by \in Admins, NEW a \in Asked, NEW i \in Ids, NEW active \in BOOLEAN,
             NEW keep \in BOOLEAN, EditProvider(w, by, i, a.all, a.scope, active, keep)
      PROVE  TypeOK' /\ KindInv' /\ UNCHANGED sessions
  <2>1. a.all \in BOOLEAN /\ a.scope \in SUBSET Domains
    BY SSOFlowAssumption DEF Asked
  <2> QED
    BY <1>2, <2>1, EditShape
<1>3. ASSUME NEW by \in Admins, NEW i \in Ids, DeleteProvider(w, by, i)
      PROVE  TypeOK' /\ KindInv' /\ UNCHANGED sessions
  BY <1>3, DeleteShape
<1>4. CASE UpdateProvider(w)
  BY <1>4, UpdateShape
<1>5. CASE DeleteDomains(w)
  BY <1>5, DeleteDomainsShape
<1>6. ASSUME NEW d \in Domains, InsertDomain(w, d) PROVE TypeOK' /\ KindInv' /\ UNCHANGED sessions
  BY <1>6, InsertDomainShape
<1>7. CASE DeleteScope(w) \/ DeleteRow(w)
  BY <1>7, DeletingShape
<1>8. CASE Invalidate(w)
  BY <1>8, InvalidateShape
<1> QED
  BY <1>1, <1>2, <1>3, <1>4, <1>5, <1>6, <1>7, <1>8 DEF Change

LEMMA TypedFlow ==
  ASSUME Typed, NEW w \in Workers, Flow(w)
  PROVE  Typed'
<1> USE DEF Typed
<1>1. ASSUME NEW i \in Ids, Start(w, i) PROVE Typed'
  BY <1>1, StartShape
<1>2. ASSUME NEW f \in Flows, NEW c \in Flows, ConsumePending(w, f, c) PROVE Typed'
  BY <1>2, ConsumeShape
<1>3. CASE LookupRuntime(w)
  BY <1>3, LookupShape
<1>4. CASE ReadProvider(w)
  BY <1>4, ReadProviderShape
<1>5. CASE Discover(w)
  BY <1>5, DiscoverShape
<1>6. CASE (\E c \in codes : Exchange(w, c)) \/ ReadScope(w) \/ ReadDomains(w)
  BY <1>6, CallbackShape
<1>7. CASE MintSession(w)
  BY <1>7, MintShape
<1> QED
  BY <1>1, <1>2, <1>3, <1>4, <1>5, <1>6, <1>7 DEF Flow

LEMMA TypedNext == Typed /\ Next => Typed'
<1> SUFFICES ASSUME Typed, Next PROVE Typed'
  OBVIOUS
<1>1. ASSUME NEW w \in Workers, Change(w) PROVE Typed'
  BY <1>1, TypedChange DEF Typed
<1>2. ASSUME NEW w \in Workers, Flow(w) PROVE Typed'
  BY <1>2, TypedFlow
<1>3. ASSUME NEW w \in Workers, FlowFails(w) \/ ChangeFails(w) PROVE Typed'
  BY <1>3, FailShape DEF Typed
<1>4. ASSUME NEW f \in Flows, NEW m \in Domains, SignIn(f, m) PROVE Typed'
  BY <1>4, SignInShape DEF Typed
<1>5. CASE Crash
  BY <1>5, CrashShape DEF Typed
<1> QED
  BY <1>1, <1>2, <1>3, <1>4, <1>5 DEF Next

LEMMA Stutter == IInv /\ UNCHANGED vars => IInv'
<1> SUFFICES ASSUME IInv, UNCHANGED vars PROVE IInv'
  OBVIOUS
<1> USE DEF vars, tables, manager, outside, changes
<1>1. Typed'
  BY DEF IInv, Typed, TypeOK, KindInv, At
<1>2. FlowsInv'
  BY DEF IInv, FlowsInv, Serves
<1>3. GrantInv'
  BY DEF IInv, GrantInv, Covered, At
<1>4. LateInv'
  BY DEF IInv, LateInv, Dead, At
<1>5. OwnerInv'
  BY DEF IInv, OwnerInv
<1>6. SettledInv'
  <2> SUFFICES ASSUME InOrder PROVE InOrder'
    BY DEF IInv, SettledInv
  <2>1. AloneInv' /\ GoneInv'
    BY DEF InOrder, AloneInv, GoneInv, Changing, At
  <2>2. ScopeInv'
    BY DEF InOrder, ScopeInv, Scoping, DomainsOf, At
  <2>3. CacheInv'
    BY DEF InOrder, CacheInv, Dirties, At
  <2> QED
    BY <2>1, <2>2, <2>3 DEF InOrder
<1> QED
  BY <1>1, <1>2, <1>3, <1>4, <1>5, <1>6 DEF IInv

\* Every step preserves the invariant.
LEMMA Inductive == IInv /\ [Next]_vars => IInv'
<1> SUFFICES ASSUME IInv, Next PROVE IInv'
  BY Stutter
<1>1. Typed'
  BY TypedNext DEF IInv
<1>2. TypeOK /\ KindInv /\ IsFiniteSet(sessions)
  BY DEF IInv, Typed
<1>3. FlowsInv' /\ GrantInv' /\ LateInv' /\ OwnerInv'
  BY <1>2, FlowsNext, GrantNext, LateNext, OwnerNext DEF IInv
<1>4. SettledInv'
  <2> SUFFICES ASSUME faults' = 0, ~ overlapped' PROVE InOrder'
    BY DEF SettledInv
  <2>1. faults = 0 /\ ~ overlapped
    BY <1>2, NeverForgotten
  <2>2. InOrder
    BY <2>1 DEF IInv, SettledInv
  <2> QED
    BY <1>2, <2>2, InOrderNext
<1> QED
  BY <1>1, <1>3, <1>4 DEF IInv

LEMMA VouchedForHolds == IInv => SessionsAreVouchedFor
  BY DEF IInv, FlowsInv, GrantInv, LateInv, SessionsAreVouchedFor

LEMMA SettledHolds == IInv => ProvidersAreSettled
<1> SUFFICES ASSUME IInv, faults = 0, ~ overlapped, NEW i \in Ids, ~ Changing(i)
             PROVE  /\ {d \in Domains : <<i, d>> \in scopes} = requested[i]
                    /\ runtimes[i] # NoRuntime /\ ~ crossed =>
                         Usable(providers[i]) /\ runtimes[i] = providers[i].issuer
  BY DEF ProvidersAreSettled
<1>1. ScopeInv /\ CacheInv
  BY DEF IInv, SettledInv, InOrder
<1>2. \A v \in Workers : ~ Dirties(v, i) /\ ~ Scoping(v, i)
  BY DEF Changing, Dirties, Scoping, ChangeSteps
<1>3. {d \in Domains : <<i, d>> \in scopes} = requested[i]
  BY <1>1, <1>2 DEF ScopeInv, DomainsOf
<1>4. runtimes[i] # NoRuntime /\ ~ crossed => Usable(providers[i]) /\ runtimes[i] = providers[i].issuer
  BY <1>1, <1>2 DEF CacheInv
<1> QED
  BY <1>3, <1>4

\* Every variable keeps its type; a worker that is idle holds on to nothing.
THEOREM Typing == Spec => []TypeOK
<1>1. IInv => TypeOK
  BY DEF IInv, Typed
<1> QED
  BY <1>1, InitHolds, Inductive, PTL DEF Spec

\* Whoever signs in was vouched for: at most one session of a flow, of a mailbox
\* its provider covered since the callback came, and by a provider in service.
THEOREM VouchedFor == Spec => []SessionsAreVouchedFor
  BY InitHolds, Inductive, VouchedForHolds, PTL DEF Spec

\* Finished changes that neither failed nor overlapped leave the domains they
\* asked for, and a cached runtime is that of the row.
THEOREM Settled == Spec => []ProvidersAreSettled
  BY InitHolds, Inductive, SettledHolds, PTL DEF Spec

\* A domain admin changes nobody else's provider, unless an id is given out again.
THEOREM OwnersOnly == Spec => []OnlyTheOwnerChanges
<1>1. IInv => OnlyTheOwnerChanges
  BY DEF IInv, OwnerInv, OnlyTheOwnerChanges
<1> QED
  BY <1>1, InitHolds, Inductive, PTL DEF Spec
-----------------------------------------------------------------------------
(***************************************************************************)
(* The webmail credential.                                                 *)
(***************************************************************************)
\* Calls do not overlap: there is at most one caller.
OneCaller == \A c, d \in Callers : c = d

\* The types the argument needs.
CTyped ==
  /\ minted \in Nat
  /\ upstream \in SUBSET (1..minted)
  /\ masterKey \in Keys
  /\ cache \in [id : Nat, pw : Nat, key : Keys \cup {0}]
  /\ pc \in [Callers -> Steps]
  /\ mine \in [Callers -> Nat]
  /\ listed \in [Callers -> SUBSET Nat]

\* Only a caller that found no usable row is beyond the lookup.
MintsOnlyWithoutRow == \A c \in Callers : pc[c] # "idle" => ~ Opens(cache)

\* The password is at mailcow, or somebody deleted it there.
ThereOrDeleted(pw) == pw \in upstream \cup byHand

\* What the caller created is still there until it compensates, unless somebody
\* deleted it; it stores the row only if one password has the name, which is
\* then its own.
MineIsThere ==
  \A c \in Callers :
    /\ pc[c] \in {"recover", "store"} => ThereOrDeleted(mine[c])
    /\ pc[c] = "store" => \E id \in Nat : /\ listed[c] = {id}
                                          /\ id = mine[c] \/ mine[c] \in byHand

\* The cached password is there, or somebody deleted it, or a call did under a
\* key other than the row's - whichever key is in force now.
RowIsAccounted ==
  cache # NothingCached =>
    \/ ThereOrDeleted(cache.pw)
    \/ \E k \in Keys \ {cache.key} : <<cache.pw, k>> \in compensated

CInv ==
  /\ CTyped
  /\ MintsOnlyWithoutRow
  /\ MineIsThere
  /\ RowIsAccounted
  /\ CachedIdIsItsOwn

\* Nothing is cached and nobody is calling at the start.
LEMMA CInit == CredInit => CInv
  BY DEF CredInit, CInv, CTyped, Steps, NothingCached, NoPassword, Opens, MintsOnlyWithoutRow,
     MineIsThere, RowIsAccounted, CachedIdIsItsOwn

\* A step that takes no password away and leaves the row alone keeps it
\* accounted for.
LEMMA RowStays ==
  ASSUME CInv, cache' = cache, upstream \subseteq upstream', byHand' = byHand,
         compensated' = compensated
  PROVE  RowIsAccounted' /\ CachedIdIsItsOwn'
  BY DEF CInv, RowIsAccounted, ThereOrDeleted, CachedIdIsItsOwn

\* Every step preserves the invariant: while one caller mints, no other call can
\* delete what it created or write the row.
LEMMA CNext == ASSUME OneCaller PROVE CInv /\ [CredNext]_credVars => CInv'
<1> SUFFICES ASSUME CInv, [CredNext]_credVars PROVE CInv'
  OBVIOUS
<1> USE DEF CInv
<1>1. ASSUME NEW c \in Callers, Lookup(c) PROVE CInv'
  <2>1. CTyped'
    BY <1>1 DEF Lookup, CTyped, goto, return, Steps, CallFails
  <2>2. MintsOnlyWithoutRow'
    BY <1>1, OneCaller DEF Lookup, goto, return, CTyped, Opens, MintsOnlyWithoutRow,
       OneCaller
  <2>3. MineIsThere'
    BY <1>1 DEF Lookup, goto, return, CTyped, MineIsThere, ThereOrDeleted
  <2> QED
    BY <1>1, <2>1, <2>2, <2>3, RowStays DEF Lookup
<1>2. ASSUME NEW c \in Callers, AddAppPassword(c) PROVE CInv'
  <2>1. minted' \in Nat /\ minted <= minted' /\ upstream' \in SUBSET (1..minted')
        /\ upstream \subseteq upstream'
    <3>1. CASE minted' = minted /\ upstream' = upstream
      BY <3>1 DEF CTyped
    <3>2. CASE minted' = minted + 1 /\ upstream' = upstream \cup {minted'}
      <4>1. minted \in Nat /\ upstream \in SUBSET (1..minted)
        BY DEF CTyped
      <4>2. \A u \in upstream' : u \in 1..(minted + 1)
        BY <3>2, <4>1
      <4> QED
        BY <3>2, <4>1, <4>2
    <3> QED
      BY <1>2, <3>1, <3>2 DEF AddAppPassword
  <2>2. CTyped'
    BY <1>2, <2>1 DEF AddAppPassword, CTyped, goto, return, Steps, CallFails
  <2>3. MintsOnlyWithoutRow'
    BY <1>2, OneCaller DEF AddAppPassword, goto, return, CTyped, Opens,
       MintsOnlyWithoutRow, OneCaller
  <2>4. MineIsThere'
    BY <1>2, OneCaller, <2>1 DEF AddAppPassword, goto, return, CTyped, MineIsThere,
       ThereOrDeleted, OneCaller
  <2> QED
    BY <1>2, <2>1, <2>2, <2>3, <2>4, RowStays DEF AddAppPassword
<1>3. ASSUME NEW c \in Callers, recoverAppPwID(c) PROVE CInv'
  <2>1. CTyped'
    <3>1. upstream \in SUBSET Nat
      BY DEF CTyped
    <3> QED
      BY <1>3, <3>1 DEF recoverAppPwID, CTyped, goto, Steps
  <2>2. MintsOnlyWithoutRow'
    BY <1>3, OneCaller DEF recoverAppPwID, goto, CTyped, Opens, MintsOnlyWithoutRow,
       OneCaller
  <2>3. ASSUME NameIsUnique
        PROVE  \E id \in Nat : upstream = {id} /\ (id = mine[c] \/ mine[c] \in byHand)
    <3>1. PICK id \in upstream : upstream = {id}
      BY <2>3 DEF NameIsUnique
    <3>2. mine[c] \in {id} \/ mine[c] \in byHand
      BY <1>3, <3>1 DEF recoverAppPwID, MineIsThere, ThereOrDeleted
    <3>3. id \in Nat
      BY <3>1 DEF CTyped
    <3> QED
      BY <3>1, <3>2, <3>3
  <2>4. MineIsThere'
    BY <1>3, OneCaller, <2>3 DEF recoverAppPwID, goto, CTyped, MineIsThere,
       ThereOrDeleted, OneCaller
  <2> QED
    BY <1>3, <2>1, <2>2, <2>4, RowStays DEF recoverAppPwID
<1>4. ASSUME NEW c \in Callers, SetMailboxCredential(c) PROVE CInv'
  <2>1. CASE cache' = cache
    <3>1. CTyped'
      BY <1>4, <2>1 DEF SetMailboxCredential, CTyped, goto, return, Steps
    <3>2. MintsOnlyWithoutRow'
      BY <1>4, <2>1, OneCaller DEF SetMailboxCredential, goto, return, CTyped, Opens,
         MintsOnlyWithoutRow, OneCaller
    <3>3. MineIsThere'
      BY <1>4, OneCaller DEF SetMailboxCredential, goto, return, CTyped, MineIsThere,
         ThereOrDeleted, OneCaller
    <3> QED
      BY <1>4, <2>1, <3>1, <3>2, <3>3, RowStays DEF SetMailboxCredential
  <2>2. CASE cache' # cache
    <3>1. /\ cache' = [id |-> CHOOSE id \in listed[c] : TRUE, pw |-> mine[c], key |-> masterKey]
          /\ return(c, mine[c])
      BY <1>4, <2>2 DEF SetMailboxCredential
    <3>2. PICK id \in Nat : listed[c] = {id} /\ (id = mine[c] \/ mine[c] \in byHand)
      BY <1>4 DEF SetMailboxCredential, MineIsThere
    <3>3. (CHOOSE i \in listed[c] : TRUE) = id
      BY <3>2
    <3>6. ThereOrDeleted(mine[c]) /\ mine[c] \in Nat /\ masterKey \in Keys
      BY <1>4 DEF SetMailboxCredential, MineIsThere, CTyped
    <3>4. CTyped'
      BY <1>4, <3>1, <3>3, <3>6 DEF SetMailboxCredential, CTyped, goto, return, Steps
    <3>5. \A d \in Callers : pc'[d] = "idle"
      BY <3>1, OneCaller DEF return, goto, CTyped, OneCaller
    <3>7. CachedIdIsItsOwn' /\ RowIsAccounted'
      BY <1>4, <3>1, <3>2, <3>3, <3>6 DEF SetMailboxCredential, CachedIdIsItsOwn,
         RowIsAccounted, ThereOrDeleted
    <3> QED
      BY <3>4, <3>5, <3>7 DEF MintsOnlyWithoutRow, MineIsThere
  <2> QED
    BY <2>1, <2>2
<1>5. ASSUME NEW c \in Callers, ListOwn(c) PROVE CInv'
  <2>1. CTyped'
    <3>1. upstream \in SUBSET Nat
      BY DEF CTyped
    <3>2. listed' \in [Callers -> SUBSET Nat]
      BY <1>5, <3>1 DEF ListOwn, CTyped
    <3>3. pc' \in [Callers -> Steps]
      BY <1>5 DEF ListOwn, CTyped, goto, return, Steps
    <3> QED
      BY <1>5, <3>2, <3>3 DEF ListOwn, CTyped
  <2>2. MintsOnlyWithoutRow'
    BY <1>5, OneCaller DEF ListOwn, goto, return, CTyped, Opens, MintsOnlyWithoutRow,
       OneCaller
  <2>3. MineIsThere'
    BY <1>5, OneCaller DEF ListOwn, goto, return, CTyped, MineIsThere, OneCaller
  <2> QED
    BY <1>5, <2>1, <2>2, <2>3, RowStays DEF ListOwn
<1>6. ASSUME NEW c \in Callers, DeleteListed(c) PROVE CInv'
  <2>1. ~ Opens(cache)
    BY <1>6 DEF DeleteListed, MintsOnlyWithoutRow
  <2>2. \A d \in Callers : pc'[d] = "idle"
    BY <1>6, OneCaller DEF DeleteListed, return, goto, CTyped, OneCaller
  <2>3. CTyped'
    BY <1>6 DEF DeleteListed, CTyped, goto, return, Steps
  <2>4. RowIsAccounted'
    <3>1. SUFFICES ASSUME cache # NothingCached
                   PROVE  \/ cache.pw \in upstream' \cup byHand
                          \/ \E k \in Keys \ {cache.key} : <<cache.pw, k>> \in compensated'
      BY <1>6 DEF DeleteListed, RowIsAccounted, ThereOrDeleted
    <3>2. masterKey \in Keys \ {cache.key}
      BY <2>1, <3>1 DEF Opens, CTyped
    <3>3. /\ compensated \subseteq compensated'
          /\ \A id \in listed[c] : <<id, masterKey>> \in compensated'
          /\ \A id \in upstream : id \in upstream' \/ id \in listed[c]
      BY <1>6 DEF DeleteListed
    <3> QED
      BY <3>1, <3>2, <3>3 DEF RowIsAccounted, ThereOrDeleted
  <2> QED
    BY <1>6, <2>1, <2>2, <2>3, <2>4 DEF DeleteListed, MintsOnlyWithoutRow, MineIsThere,
       CachedIdIsItsOwn
<1>7. CASE Restart
  <2>1. /\ masterKey' \in Keys
        /\ UNCHANGED <<upstream, minted, cache, byHand, compensated>>
    BY <1>7 DEF Restart
  <2>2. \A d \in Callers : pc'[d] = "idle"
    BY <1>7 DEF Restart
  <2>3. CTyped'
    BY <1>7, <2>1 DEF Restart, CTyped, Steps, NoPassword
  <2> QED
    BY <2>1, <2>2, <2>3, RowStays DEF MintsOnlyWithoutRow, MineIsThere
<1>9. CASE DeleteAtMailcow
  <2>1. /\ upstream' \subseteq upstream /\ byHand \subseteq byHand'
        /\ \A id \in upstream : id \in upstream' \cup byHand'
        /\ UNCHANGED <<minted, cache, masterKey, pc, mine, listed, compensated>>
    BY <1>9 DEF DeleteAtMailcow
  <2>2. CTyped' /\ MintsOnlyWithoutRow'
    BY <2>1 DEF CTyped, MintsOnlyWithoutRow, Opens
  <2>3. MineIsThere'
    BY <2>1 DEF MineIsThere, ThereOrDeleted
  <2> QED
    BY <2>1, <2>2, <2>3 DEF RowIsAccounted, ThereOrDeleted, CachedIdIsItsOwn
<1>8. CASE UNCHANGED credVars
  BY <1>8 DEF credVars, CTyped, MintsOnlyWithoutRow, MineIsThere, RowIsAccounted,
     ThereOrDeleted, CachedIdIsItsOwn, Opens
<1> QED
  BY <1>1, <1>2, <1>3, <1>4, <1>5, <1>6, <1>7, <1>8, <1>9 DEF CredNext, Call

\* A cached credential that opens exists at mailcow: no failed call, lost
\* answer, restart or new key leaves a dead one behind, only a deletion at mailcow
\* or a key set back after a sign-in under another one does.
THEOREM CredentialWorks ==
  ASSUME OneCaller
  PROVE  CredSpec => []CachedCredentialWorks
<1>1. CInv => CachedCredentialWorks
  BY DEF CInv, RowIsAccounted, ThereOrDeleted, CachedCredentialWorks, Opens
<1> QED
  BY <1>1, CInit, CNext, PTL DEF CredSpec

\* The id cached next to the password is that password's, unless somebody
\* deleted that password.
THEOREM CredentialIdIsItsOwn ==
  ASSUME OneCaller
  PROVE  CredSpec => []CachedIdIsItsOwn
<1>1. CInv => CachedIdIsItsOwn
  BY DEF CInv
<1> QED
  BY <1>1, CInit, CNext, PTL DEF CredSpec
-----------------------------------------------------------------------------
\* What a caller stores, it has listed.
CTInv == CredTypeOK /\ \A c \in Callers : pc[c] = "store" => listed[c] # {}

\* A password more has the next number.
LEMMA OnePasswordMore ==
  ASSUME NEW n \in Nat, NEW S \in SUBSET (1..n), NEW m, NEW T,
         (m = n /\ T = S) \/ (m = n + 1 /\ T = S \cup {m})
  PROVE  T \subseteq 1..m
<1>1. m \in Nat /\ n <= m
  OBVIOUS
<1>2. \A u \in 1..n : u \in 1..m
  BY <1>1
<1>3. CASE m = n /\ T = S
  BY <1>3
<1>4. CASE m = n + 1 /\ T = S \cup {m}
  BY <1>1, <1>2, <1>4
<1> QED
  BY <1>3, <1>4

\* Every step keeps the types, however many calls overlap.
LEMMA CTypeNext == CTInv /\ [CredNext]_credVars => CTInv'
<1> SUFFICES ASSUME CTInv, [CredNext]_credVars PROVE CTInv'
  OBVIOUS
<1> USE BoundsAssumption DEF CTInv, CredTypeOK, Passwords, Steps, CallFails, goto, return,
   NoPassword
<1>0. upstream \subseteq 1..MaxMints
  <2>1. \A u \in 1..minted : u \in 1..MaxMints
    OBVIOUS
  <2> QED
    BY <2>1
<1>1. ASSUME NEW c \in Callers, Lookup(c) PROVE CTInv'
  BY <1>1 DEF Lookup, Opens
<1>2. ASSUME NEW c \in Callers, AddAppPassword(c) PROVE CTInv'
  <2>1. /\ minted' \in 0..MaxMints
        /\ mine' = mine \/ mine' = [mine EXCEPT ![c] = minted']
        /\ UNCHANGED <<cache, masterKey, listed, compensated, byHand, restarts>>
    BY <1>2 DEF AddAppPassword
  <2>3. upstream' \subseteq 1..minted'
    <3>1. \/ minted' = minted /\ upstream' = upstream
          \/ minted' = minted + 1 /\ upstream' = upstream \cup {minted'}
      BY <1>2 DEF AddAppPassword
    <3>2. minted \in Nat /\ upstream \in SUBSET (1..minted)
      OBVIOUS
    <3> QED
      BY <3>1, <3>2, OnePasswordMore
  <2>2. /\ failures' \in 0..MaxFailures
        /\ pc' = [pc EXCEPT ![c] = "recover"] \/ pc' = [pc EXCEPT ![c] = "idle"]
        /\ result' = result \/ result' = [result EXCEPT ![c] = 0]
    BY <1>2 DEF AddAppPassword
  <2> QED
    BY <2>1, <2>2, <2>3
<1>3. ASSUME NEW c \in Callers, recoverAppPwID(c) PROVE CTInv'
  <2>1. upstream \subseteq 1..MaxMints
    BY <1>0
  <2>3. listed' \in [Callers -> SUBSET (1..MaxMints)] /\ listed'[c] = upstream
    BY <1>3, <2>1 DEF recoverAppPwID
  <2>4. /\ \A d \in Callers : d # c => listed'[d] = listed[d]
        /\ pc' = [pc EXCEPT ![c] = "store"] \/ pc' = [pc EXCEPT ![c] = "list_own"]
        /\ pc'[c] = "store" => NameIsUnique
        /\ failures' \in 0..MaxFailures
        /\ UNCHANGED <<upstream, minted, cache, masterKey, mine, result, compensated, byHand, restarts>>
    BY <1>3 DEF recoverAppPwID
  <2>2. NameIsUnique => upstream # {}
    BY DEF NameIsUnique
  <2> QED
    BY <2>2, <2>3, <2>4
<1>4. ASSUME NEW c \in Callers, SetMailboxCredential(c) PROVE CTInv'
  <2>1. (CHOOSE id \in listed[c] : TRUE) \in 0..MaxMints
    BY <1>4 DEF SetMailboxCredential
  <2> QED
    BY <1>4, <2>1 DEF SetMailboxCredential
<1>5. ASSUME NEW c \in Callers, ListOwn(c) PROVE CTInv'
  <2>1. upstream \subseteq 1..MaxMints
    BY <1>0
  <2>2. listed' = listed \/ listed' = [listed EXCEPT ![c] = upstream]
    BY <1>5 DEF ListOwn
  <2>3. /\ pc' = [pc EXCEPT ![c] = "delete_own"] \/ pc' = [pc EXCEPT ![c] = "idle"]
        /\ result' = result \/ result' = [result EXCEPT ![c] = 0]
        /\ failures' \in 0..MaxFailures
        /\ UNCHANGED <<upstream, minted, cache, masterKey, mine, compensated, byHand, restarts>>
    BY <1>5 DEF ListOwn
  <2>6. upstream \in SUBSET (1..MaxMints) /\ listed \in [Callers -> SUBSET (1..MaxMints)]
    BY <2>1
  <2>4. listed' \in [Callers -> SUBSET (1..MaxMints)]
    <3>1. CASE listed' = listed
      BY <2>6, <3>1
    <3>2. CASE listed' = [listed EXCEPT ![c] = upstream]
      BY <2>6, <3>2, Zenon
    <3> QED
      BY <2>2, <3>1, <3>2
  <2>5. \A d \in Callers : pc'[d] = "store" => d # c /\ pc[d] = "store" /\ listed'[d] = listed[d]
    BY <2>2, <2>3
  <2> QED
    BY <2>3, <2>4, <2>5
<1>6. ASSUME NEW c \in Callers, DeleteListed(c) PROVE CTInv'
  <2>1. upstream' \subseteq upstream /\ failures' \in 0..MaxFailures
    BY <1>6 DEF DeleteListed
  <2>2. /\ pc' = [pc EXCEPT ![c] = "idle"]
        /\ result' = [result EXCEPT ![c] = 0]
        /\ UNCHANGED <<minted, cache, masterKey, mine, listed, byHand, restarts>>
    BY <1>6 DEF DeleteListed
  <2>3. compensated' \subseteq (1..MaxMints) \X Keys
    <3>1. listed[c] \subseteq 1..MaxMints /\ masterKey \in Keys
      OBVIOUS
    <3>2. listed[c] \X {masterKey} \subseteq (1..MaxMints) \X Keys
      BY <3>1
    <3> QED
      BY <1>6, <3>2 DEF DeleteListed
  <2> QED
    BY <2>1, <2>2, <2>3
<1>7. CASE Restart
  BY <1>7 DEF Restart
<1>9. CASE DeleteAtMailcow
  <2>1. /\ upstream' \subseteq upstream /\ byHand' \subseteq byHand \cup upstream
        /\ UNCHANGED <<minted, cache, masterKey, pc, mine, listed, result, compensated,
                       failures, restarts>>
    BY <1>9 DEF DeleteAtMailcow
  <2> QED
    BY <1>0, <2>1
<1>8. CASE UNCHANGED credVars
  BY <1>8 DEF credVars
<1> QED
  BY <1>1, <1>2, <1>3, <1>4, <1>5, <1>6, <1>7, <1>8, <1>9 DEF CredNext, Call

\* Type correctness, without the assumption that calls do not overlap: no more
\* passwords are there than were ever created, and a row names one of them.
THEOREM TypeCorrect == CredSpec => []CredTypeOK
<1>1. CredInit => CTInv
  BY BoundsAssumption DEF CredInit, CTInv, CredTypeOK, Steps, NothingCached, NoPassword
<1>2. CTInv => CredTypeOK
  BY DEF CTInv
<1> QED
  BY <1>1, <1>2, CTypeNext, PTL DEF CredSpec
-----------------------------------------------------------------------------
\* What is to be deleted is everything of the name.
AllIsListed == \A c \in Callers : pc[c] = "delete_own" => upstream \subseteq listed[c]

LEMMA ListedNext ==
  ASSUME OneCaller
  PROVE  CInv /\ AllIsListed /\ [CredNext]_credVars => AllIsListed'
<1> SUFFICES ASSUME CInv, AllIsListed, [CredNext]_credVars PROVE AllIsListed'
  OBVIOUS
<1>1. pc \in [Callers -> Steps] /\ listed \in [Callers -> SUBSET Nat]
  BY DEF CInv, CTyped
<1>2. ASSUME NEW c \in Callers, ListOwn(c) PROVE AllIsListed'
  BY <1>1, <1>2, OneCaller DEF ListOwn, goto, return, AllIsListed, OneCaller
<1>3. ASSUME NEW c \in Callers,
             Lookup(c) \/ AddAppPassword(c) \/ recoverAppPwID(c)
               \/ SetMailboxCredential(c) \/ DeleteListed(c)
      PROVE  AllIsListed'
  <2>1. pc'[c] # "delete_own"
    BY <1>1, <1>3 DEF Lookup, AddAppPassword, recoverAppPwID,
       SetMailboxCredential, DeleteListed, goto, return
  <2>2. \A d \in Callers : d = c
    BY OneCaller DEF OneCaller
  <2> QED
    BY <2>1, <2>2 DEF AllIsListed
<1>4. CASE Restart
  BY <1>4 DEF Restart, AllIsListed
<1>6. CASE DeleteAtMailcow
  BY <1>6 DEF DeleteAtMailcow, AllIsListed
<1>5. CASE UNCHANGED credVars
  BY <1>5 DEF credVars, AllIsListed
<1> QED
  BY <1>2, <1>3, <1>4, <1>5, <1>6 DEF CredNext, Call

\* A call that ends in an error though nothing has failed has compensated: it
\* has listed the name and deletes all of it.
LEMMA FailureClears ==
  ASSUME OneCaller, CInv, CTInv, AllIsListed, [CredNext]_credVars,
         NEW c \in Callers, pc[c] # "idle", pc'[c] = "idle", result'[c] = NoPassword,
         restarts' = restarts, failures' = 0
  PROVE  upstream' = {}
<1>1. /\ pc \in [Callers -> Steps] /\ result \in [Callers -> 0..MaxMints]
      /\ failures \in Nat /\ restarts \in Nat
  BY BoundsAssumption DEF CTInv, CredTypeOK
<1>2. ~ CallFails
  BY <1>1 DEF CallFails
<1>3. ~ Restart /\ ~ DeleteAtMailcow /\ ~ UNCHANGED credVars
  BY <1>1 DEF Restart, DeleteAtMailcow, credVars
<1>4. \A d \in Callers : d = c
  BY OneCaller DEF OneCaller
<1>5. Call(c)
  BY <1>3, <1>4 DEF CredNext
<1>6. ~ Lookup(c) /\ ~ AddAppPassword(c) /\ ~ recoverAppPwID(c)
  BY <1>1, <1>2 DEF Lookup, AddAppPassword, recoverAppPwID, goto
<1>7. ~ SetMailboxCredential(c)
  <2>1. SUFFICES ASSUME SetMailboxCredential(c) PROVE FALSE
    OBVIOUS
  <2>2. pc[c] = "store" /\ result'[c] = mine[c]
    BY <1>1, <1>2, <2>1 DEF SetMailboxCredential, return
  <2>3. mine[c] \in upstream \cup byHand /\ upstream \in SUBSET (1..minted) /\ minted \in Nat
        /\ byHand \subseteq 1..MaxMints
    BY <2>2 DEF CInv, CTInv, CredTypeOK, Passwords, MineIsThere, ThereOrDeleted, CTyped
  <2> QED
    BY <2>2, <2>3 DEF NoPassword
<1>8. CASE ListOwn(c)
  BY <1>1, <1>2, <1>8 DEF ListOwn, goto
<1>9. CASE DeleteListed(c)
  BY <1>2, <1>9 DEF DeleteListed, AllIsListed
<1> QED
  BY <1>5, <1>6, <1>7, <1>8, <1>9 DEF Call

\* A sign-in that ends in an error though nothing failed leaves nothing of the
\* name at mailcow, so that the next one mints.
THEOREM NameIsCleared ==
  ASSUME OneCaller
  PROVE  CredSpec => FailedLoginClearsTheName
<1> DEFINE FInv == CInv /\ CTInv /\ AllIsListed
<1>1. CredInit => FInv
  <2>1. CredInit => CTInv /\ AllIsListed
    BY BoundsAssumption DEF CredInit, CTInv, CredTypeOK, Steps, NothingCached, NoPassword, AllIsListed
  <2> QED
    BY <2>1, CInit
<1>2. FInv /\ [CredNext]_credVars => FInv'
  BY CNext, CTypeNext, ListedNext
<1>3. FInv /\ [CredNext]_credVars =>
        [\A c \in Callers :
           pc[c] # "idle" /\ pc'[c] = "idle" /\ result'[c] = NoPassword
             /\ restarts' = restarts /\ failures' = 0
           => upstream' = {}]_credVars
  BY FailureClears
<1> QED
  BY <1>1, <1>2, <1>3, PTL DEF CredSpec, FailedLoginClearsTheName
=============================================================================
