------------------------------ MODULE SSOFlow ------------------------------
(***************************************************************************)
(* Single sign-on: the providers and the redirect flow.                    *)
(*   internal/api/sso.go              ssoManager: runtimes, pending flows  *)
(*   internal/api/auth_sso.go         start, callback, mailbox resolution  *)
(*   internal/api/sso_providers.go    the super-admin's provider requests  *)
(*   internal/api/domainadmin_sso.go  a domain admin's provider requests   *)
(*   internal/domainadmin/store.go    sso_provider, sso_provider_domain    *)
(*                                                                         *)
(* Every statement, and every critical section of the manager, is a step;  *)
(* requests interleave.  A flow has the number of the request that began   *)
(* it; what discovery and exchange depend on - issuer, client and secret - *)
(* is one number too, that of the request that set it.  Every domain has   *)
(* one mailbox, so that a mailbox is its domain.  The credential a         *)
(* callback obtains before it mints a session is the subject of            *)
(* SSOCredential.  The identity provider is external: a person signs in    *)
(* there and brings back a code.                                           *)
(***************************************************************************)
EXTENDS Integers, FiniteSets

CONSTANTS
  Workers,     \* requests that run at the same time
  Domains,     \* mail domains
  DomainAdmins,\* domain admins, besides the super-admin
  Managed,     \* domain admin -> domains mailcow says they manage
  Scopes,      \* sets of domains a request asks for
  MaxId,       \* bound on provider ids
  MaxRequests, \* bound on requests
  MaxFaults    \* bound on failed statements and process deaths

ASSUME SSOFlowAssumption ==
  /\ Managed \in [DomainAdmins -> SUBSET Domains]
  /\ "super" \notin DomainAdmins
  /\ Scopes \subseteq SUBSET Domains
  /\ MaxId \in Nat /\ MaxRequests \in Nat /\ MaxFaults \in Nat

VARIABLES
  providers,  \* sso_provider: id -> [exists, issuer, all, owner, active]
  scopes,     \* sso_provider_domain: <<id, domain>>
  runtimes,   \* ssoManager.runtimes: id -> the issuer discovered, or 0
  pending,    \* ssoManager.pending: flow -> its provider id, or 0
  codes,      \* external: [flow, issuer, mailbox], a person signed in at an issuer
  req,        \* worker -> the request it serves
  requests,   \* history: requests begun
  sent,       \* history: flow -> the issuer its browser was sent to, or 0
  sessions,   \* history: [flow, mailbox, granted, late, nth] of every session
  requested,  \* history: id -> the scope last asked for, {} once deleted
  retired,    \* history: ids whose deactivation or deletion is complete
  crossed,    \* history: an invalidate ran while a lookup held an older row
  overlapped, \* history: two changes of one provider were under way at once
  ids,        \* history: ids given out
  reused,     \* history: an id was given out twice
  trespassed, \* history: a domain admin changed a provider of somebody else
  faults

tables == <<providers, scopes>>
manager == <<runtimes, pending>>
outside == <<codes, sent>>
changes == <<requested, retired, overlapped, ids, reused, trespassed>>
vars == <<tables, manager, outside, req, requests, sessions, changes, crossed, faults>>

-----------------------------------------------------------------------------
Ids == 1..MaxId
Flows == 1..MaxRequests
Admins == DomainAdmins \cup {"super"}

NoRow == [exists |-> FALSE, issuer |-> 0, all |-> FALSE, owner |-> "super",
          active |-> FALSE]
NoRuntime == 0

\* op: what the request does; by: who asked; id: the provider; row: the row it
\* read or will write; scope: domains it has still to insert; flow and code: a
\* callback's; rt: the runtime it uses.  History: granted, the domains the
\* provider covered at some time since the callback came; late, it came when the
\* provider was retired.
Idle == [step |-> "idle", op |-> "none", by |-> "super", id |-> 0, row |-> NoRow,
         scope |-> {}, flow |-> 0, code |-> 0, rt |-> NoRuntime, granted |-> {},
         late |-> FALSE]

Init ==
  /\ providers = [i \in Ids |-> NoRow]
  /\ scopes = {}
  /\ runtimes = [i \in Ids |-> NoRuntime]
  /\ pending = [f \in Flows |-> 0]
  /\ codes = {}
  /\ req = [w \in Workers |-> Idle]
  /\ requests = 0
  /\ sent = [f \in Flows |-> 0]
  /\ sessions = {}
  /\ requested = [i \in Ids |-> {}] /\ retired = {}
  /\ crossed = FALSE /\ overlapped = FALSE
  /\ ids = {} /\ reused = FALSE /\ trespassed = FALSE
  /\ faults = 0

At(w, step) == req[w].step = step
Done(w) == req' = [req EXCEPT ![w] = Idle]
Fault == faults < MaxFaults /\ faults' = faults + 1

Arrive(w) == At(w, "idle") /\ requests < MaxRequests /\ requests' = requests + 1

\* The domains a provider covers by the tables as they are.
Covered(rows, doms, i) ==
  {d \in Domains : <<i, d>> \in doms \/ \E j \in Ids : j = i /\ rows[j].all}

\* req, once the step has been taken: what is covered now has been granted to
\* every callback under way, and a provider back in service is in time for them.
Watch(r) ==
  [w \in Workers |->
     IF r[w].op = "callback"
     THEN [r[w] EXCEPT !.granted = @ \cup Covered(providers', scopes', r[w].id),
                       !.late = @ /\ ~ providers'[r[w].id].active]
     ELSE r[w]]

ChangeSteps == {"update", "delete_domains", "insert_domain", "delete_scope",
                "delete_row", "invalidate"}
Changing(i) == \E v \in Workers : req[v].step \in ChangeSteps /\ req[v].id = i
Overlaps(i) == overlapped' = (overlapped \/ Changing(i))

\* The scopes a request may ask for: any, or a part of what the domain admin
\* manages (none asked for stands for all of it).
MayScope(by, all, scope) ==
  by # "super" => ~ all /\ scope \subseteq Managed[by] /\ scope # {}

\* Mutant: any domain admin may change any provider.
Owns_NotAsked(by, i) == providers[i].exists \/ by = "super"

\* requireOwnedSSOProvider: for the super-admin, GetProvider finds it.
Owns(by, i) == providers[i].exists /\ (by = "super" \/ providers[i].owner = by)

-----------------------------------------------------------------------------
(* Changing providers.                                                     *)

\* An id that is given out is one more than the largest in the table.
NextId(id) ==
  /\ \A i \in Ids : providers[i].exists => i < id
  /\ id # 1 => providers[id - 1].exists

\* Create: the INSERT.
CreateProvider(w, by, all, scope) ==
  /\ Arrive(w)
  /\ MayScope(by, all, scope)
  /\ \E id \in Ids :
       /\ NextId(id)
       /\ providers' = [providers EXCEPT ![id] =
                          [exists |-> TRUE, issuer |-> requests', all |-> all,
                           owner |-> by, active |-> TRUE]]
       /\ requested' = [requested EXCEPT ![id] = IF all THEN {} ELSE scope]
       /\ retired' = retired \ {id}
       /\ ids' = ids \cup {id} /\ reused' = (reused \/ id \in ids)
       /\ Overlaps(id)
       /\ UNCHANGED scopes
       /\ req' = Watch([req EXCEPT ![w] =
                          IF all THEN Idle
                          ELSE [Idle EXCEPT !.step = "delete_domains", !.op = "create",
                                            !.by = by, !.id = id, !.scope = scope]])
  /\ UNCHANGED <<manager, outside, sessions, trespassed, crossed, faults>>

\* Edit: GetProvider, and who may.  A blank secret keeps the one that was read;
\* with the other fields as they were, that keeps the issuer.
EditProvider(w, by, i, all, scope, active, keep) ==
  /\ Arrive(w)
  /\ Owns(by, i)
  /\ MayScope(by, all, scope)
  /\ Overlaps(i)
  /\ req' = [req EXCEPT ![w] =
       [Idle EXCEPT !.step = "update", !.op = "edit", !.by = by, !.id = i,
          !.scope = IF all THEN {} ELSE scope,
          !.row = [providers[i] EXCEPT
                     !.all = all, !.active = active,
                     !.issuer = IF keep THEN @ ELSE requests']]]
  /\ UNCHANGED <<tables, manager, outside, sessions, requested, retired, ids, reused,
                 trespassed, crossed, faults>>

\* A domain admin touches a row of somebody else.
Trespass(w) ==
  trespassed' = (trespassed \/ /\ providers[req[w].id].exists
                               /\ req[w].by \notin {"super", providers[req[w].id].owner})

\* UpdateProvider: the UPDATE; it does not write created_by, and a row that is
\* gone is not an error.
UpdateProvider(w) ==
  /\ At(w, "update")
  /\ LET i == req[w].id
     IN  /\ providers' = [providers EXCEPT ![i] =
              IF @.exists THEN [req[w].row EXCEPT !.owner = providers[i].owner] ELSE @]
         /\ requested' = [requested EXCEPT ![i] = req[w].scope]
         /\ retired' = IF req[w].row.active THEN retired \ {i} ELSE retired
  /\ Trespass(w)
  /\ UNCHANGED scopes
  /\ req' = Watch([req EXCEPT ![w].step = "delete_domains"])
  /\ UNCHANGED <<manager, outside, requests, sessions, overlapped, ids, reused, crossed,
                 faults>>

\* After the last domain: an edit invalidates, a create is done.
AfterDomains(w) ==
  IF req[w].op = "edit" THEN [req EXCEPT ![w].step = "invalidate"]
  ELSE [req EXCEPT ![w] = Idle]

\* replaceProviderDomains: the DELETE.
DeleteDomains(w) ==
  /\ At(w, "delete_domains")
  /\ scopes' = {s \in scopes : s[1] # req[w].id}
  /\ UNCHANGED providers
  /\ req' = Watch(IF req[w].scope = {} THEN AfterDomains(w)
                  ELSE [req EXCEPT ![w].step = "insert_domain"])
  /\ UNCHANGED <<manager, outside, requests, sessions, changes, crossed, faults>>

\* replaceProviderDomains: one INSERT; a row that is there already (only after
\* an overlap) fails on the primary key.
InsertDomain(w, d) ==
  /\ At(w, "insert_domain")
  /\ d \in req[w].scope
  /\ IF <<req[w].id, d>> \in scopes
       THEN Done(w) /\ UNCHANGED tables
       ELSE /\ scopes' = scopes \cup {<<req[w].id, d>>}
            /\ UNCHANGED providers
            /\ req' = Watch(IF req[w].scope = {d} THEN AfterDomains(w)
                            ELSE [req EXCEPT ![w].scope = @ \ {d}])
  /\ UNCHANGED <<manager, outside, requests, sessions, changes, crossed, faults>>

\* Delete: only a domain admin's request looks at the provider first.
DeleteProvider(w, by, i) ==
  /\ Arrive(w)
  /\ by = "super" \/ Owns(by, i)
  /\ Overlaps(i)
  /\ req' = [req EXCEPT ![w] = [Idle EXCEPT !.step = "delete_scope", !.op = "delete",
                                            !.by = by, !.id = i]]
  /\ UNCHANGED <<tables, manager, outside, sessions, requested, retired, ids, reused,
                 trespassed, crossed, faults>>

\* DeleteProvider: the domains.
DeleteScope(w) ==
  /\ At(w, "delete_scope")
  /\ scopes' = {s \in scopes : s[1] # req[w].id}
  /\ requested' = [requested EXCEPT ![req[w].id] = {}]
  /\ UNCHANGED providers
  /\ req' = Watch([req EXCEPT ![w].step = "delete_row"])
  /\ UNCHANGED <<manager, outside, requests, sessions, retired, overlapped, ids, reused,
                 trespassed, crossed, faults>>

\* DeleteProvider: the row.
DeleteRow(w) ==
  /\ At(w, "delete_row")
  /\ Trespass(w)
  /\ providers' = [providers EXCEPT ![req[w].id] = NoRow]
  /\ UNCHANGED scopes
  /\ req' = Watch([req EXCEPT ![w].step = "invalidate"])
  /\ UNCHANGED <<manager, outside, requests, sessions, requested, retired, overlapped,
                 ids, reused, crossed, faults>>

\* Mutant: the runtime stays.
Invalidate_Forgotten(w) ==
  /\ At(w, "invalidate")
  /\ Done(w)
  /\ retired' = IF providers[req[w].id].active THEN retired ELSE retired \cup {req[w].id}
  /\ UNCHANGED <<tables, manager, outside, requests, sessions, requested, overlapped,
                 ids, reused, trespassed, crossed, faults>>

\* invalidate.
Invalidate(w) ==
  /\ At(w, "invalidate")
  /\ runtimes' = [runtimes EXCEPT ![req[w].id] = NoRuntime]
  /\ retired' = IF providers[req[w].id].active THEN retired ELSE retired \cup {req[w].id}
  /\ crossed' = (crossed \/ \E v \in Workers : At(v, "discover") /\ req[v].id = req[w].id)
  /\ Done(w)
  /\ UNCHANGED <<tables, pending, outside, requests, sessions, requested, overlapped,
                 ids, reused, trespassed, faults>>

-----------------------------------------------------------------------------
(* The flow.                                                               *)

\* GET /api/auth/sso/start.
Start(w, i) ==
  /\ Arrive(w)
  /\ req' = [req EXCEPT ![w] = [Idle EXCEPT !.step = "lookup", !.op = "start", !.id = i,
                                            !.flow = requests']]
  /\ UNCHANGED <<tables, manager, outside, sessions, changes, crossed, faults>>

\* Mutant: the entry is used whether the map has one or not.
StillPending_NotAsked(f) == TRUE

StillPending(f) == pending[f] # 0

\* GET /api/auth/sso/callback: consumePending.  After ssoPendingTTL it refuses
\* the flow, whether GC has deleted it or not.
ConsumePending(w, f, c) ==
  /\ Arrive(w)
  /\ pending' = [pending EXCEPT ![f] = 0]
  /\ \/ UNCHANGED req
     \/ /\ StillPending(f)
        /\ req' = [req EXCEPT ![w] =
            [Idle EXCEPT !.step = "lookup", !.op = "callback", !.id = pending[f],
               !.flow = f, !.code = c, !.late = pending[f] \in retired,
               !.granted = Covered(providers, scopes, pending[f])]]
  /\ UNCHANGED <<tables, runtimes, outside, sessions, changes, crossed, faults>>

\* With a runtime, StartURL remembers the flow and sends the browser to the
\* issuer; a callback redeems its code.
WithRuntime(w, rt) ==
  IF req[w].op = "start"
  THEN /\ pending' = [pending EXCEPT ![req[w].flow] = req[w].id]
       /\ sent' = [sent EXCEPT ![req[w].flow] = rt]
       /\ Done(w)
  ELSE /\ req' = [req EXCEPT ![w].rt = rt, ![w].step = "exchange"]
       /\ UNCHANGED <<pending, sent>>

\* runtimeFor: the cache.
LookupRuntime(w) ==
  /\ At(w, "lookup")
  /\ IF runtimes[req[w].id] # NoRuntime
       THEN WithRuntime(w, runtimes[req[w].id])
       ELSE /\ req' = [req EXCEPT ![w].step = "read_provider"]
            /\ UNCHANGED <<pending, sent>>
  /\ UNCHANGED <<tables, runtimes, codes, requests, sessions, changes, crossed, faults>>

\* Mutant: an inactive provider will do.
Usable_Inactive(row) == row.exists

Usable(row) == row.exists /\ row.active

\* runtimeFor: GetProvider (whose domains are not used here).
ReadProvider(w) ==
  /\ At(w, "read_provider")
  /\ LET row == providers[req[w].id]
     IN  IF Usable(row)
         THEN req' = [req EXCEPT ![w].row = row, ![w].step = "discover"]
         ELSE Done(w)
  /\ UNCHANGED <<tables, manager, outside, requests, sessions, changes, crossed, faults>>

\* runtimeFor: discovery at the issuer, then the cache is filled.
Discover(w) ==
  /\ At(w, "discover")
  /\ runtimes' = [runtimes EXCEPT ![req[w].id] = req[w].row.issuer]
  /\ WithRuntime(w, req[w].row.issuer)
  /\ UNCHANGED <<tables, codes, requests, sessions, changes, crossed, faults>>

\* The code is of the runtime's issuer, and of the flow by verifier and nonce.
Answers(c, f, rt) == c.issuer = rt /\ c.flow = f

\* Verify: the exchange and the ID token; a code is good once.
Exchange(w, c) ==
  /\ At(w, "exchange")
  /\ c \in codes /\ c.flow = req[w].code
  /\ IF Answers(c, req[w].flow, req[w].rt)
       THEN /\ codes' = codes \ {c}
            /\ req' = [req EXCEPT ![w].step = "read_scope",
                                  ![w].scope = {c.mailbox}]
       ELSE Done(w) /\ UNCHANGED codes
  /\ UNCHANGED <<tables, manager, sent, requests, sessions, changes, crossed,
                 faults>>

\* resolveSSOMailbox: GetProvider, the row (active is not asked again).
ReadScope(w) ==
  /\ At(w, "read_scope")
  /\ LET row == providers[req[w].id]
     IN  IF row.exists
         THEN req' = [req EXCEPT ![w].step = IF row.all THEN "mint" ELSE "read_domains"]
         ELSE Done(w)
  /\ UNCHANGED <<tables, manager, outside, requests, sessions, changes, crossed, faults>>

\* providerCoversDomain, of a provider that is not shared.
Covers(i, d) == <<i, d>> \in scopes

\* resolveSSOMailbox: GetProvider, the domains.
ReadDomains(w) ==
  /\ At(w, "read_domains")
  /\ IF \A d \in req[w].scope : Covers(req[w].id, d)
       THEN req' = [req EXCEPT ![w].step = "mint"]
       ELSE Done(w)
  /\ UNCHANGED <<tables, manager, outside, requests, sessions, changes, crossed, faults>>

\* mailcow lists the mailbox as active (or the flow fails); the credential; and
\* webmailSessions.Create.
MintSession(w) ==
  /\ At(w, "mint")
  /\ sessions' = sessions \cup
       {[flow |-> req[w].flow, mailbox |-> m, granted |-> req[w].granted,
         late |-> req[w].late, nth |-> Cardinality(sessions)] : m \in req[w].scope}
  /\ Done(w)
  /\ UNCHANGED <<tables, manager, outside, requests, changes, crossed, faults>>

-----------------------------------------------------------------------------
(* The environment.                                                        *)

\* A person signs in where a flow sent the browser, as whoever they are there.
SignIn(f, m) ==
  /\ sent[f] # 0
  /\ \A c \in codes : c.flow # f
  /\ codes' = codes \cup {[flow |-> f, issuer |-> sent[f], mailbox |-> m]}
  /\ UNCHANGED <<tables, manager, sent, req, requests, sessions, changes,
                 crossed, faults>>

\* The issuer or mailcow does not answer, or answers no, or a read fails.
FlowFails(w) ==
  /\ req[w].op \in {"start", "callback"}
  /\ Done(w)
  /\ UNCHANGED <<tables, manager, outside, requests, sessions, changes, crossed, faults>>

\* A statement of a change fails, and the request is answered 500.
ChangeFails(w) ==
  /\ req[w].step \in ChangeSteps \ {"invalidate"}
  /\ Fault
  /\ Done(w)
  /\ UNCHANGED <<tables, manager, outside, requests, sessions, changes, crossed>>

\* The process restarts: requests end, and the manager was only memory.
Crash ==
  /\ Fault
  /\ req' = [w \in Workers |-> Idle]
  /\ runtimes' = [i \in Ids |-> NoRuntime]
  /\ pending' = [f \in Flows |-> 0]
  /\ UNCHANGED <<tables, outside, requests, sessions, changes, crossed>>

\* For every domain, or for some.
Asked == [all : {TRUE}, scope : {{}}] \cup [all : {FALSE}, scope : Scopes]

Change(w) ==
  \/ \E by \in Admins, a \in Asked :
       \/ CreateProvider(w, by, a.all, a.scope)
       \/ \E i \in Ids, active \in BOOLEAN, keep \in BOOLEAN :
            EditProvider(w, by, i, a.all, a.scope, active, keep)
  \/ \E by \in Admins, i \in Ids : DeleteProvider(w, by, i)
  \/ UpdateProvider(w)
  \/ DeleteDomains(w)
  \/ \E d \in Domains : InsertDomain(w, d)
  \/ DeleteScope(w) \/ DeleteRow(w)
  \/ Invalidate(w)

Flow(w) ==
  \/ \E i \in Ids : Start(w, i)
  \/ \E f \in Flows, c \in Flows : sent[f] # 0 /\ sent[c] # 0 /\ ConsumePending(w, f, c)
  \/ LookupRuntime(w) \/ ReadProvider(w) \/ Discover(w)
  \/ \E c \in codes : Exchange(w, c)
  \/ ReadScope(w) \/ ReadDomains(w) \/ MintSession(w)

Next ==
  \/ \E w \in Workers : Change(w) \/ Flow(w) \/ FlowFails(w) \/ ChangeFails(w)
  \/ \E f \in Flows, m \in Domains : SignIn(f, m)
  \/ Crash

Spec == Init /\ [][Next]_vars

-----------------------------------------------------------------------------
FlowSteps == {"lookup", "read_provider", "discover", "exchange", "read_scope",
              "read_domains", "mint"}
Row == [exists : BOOLEAN, issuer : Nat, all : BOOLEAN, owner : Admins,
        active : BOOLEAN]
Request == [step : {"idle"} \cup ChangeSteps \cup FlowSteps,
            op : {"none", "create", "edit", "delete", "start", "callback"},
            by : Admins, id : Ids \cup {0}, row : Row, scope : SUBSET Domains,
            flow : Flows \cup {0}, code : Flows \cup {0}, rt : Nat,
            granted : SUBSET Domains, late : BOOLEAN]

\* Every variable has its type; in particular, a request that is under way is
\* about a provider: none goes on with a flow that is not pending (any more).
TypeOK ==
  /\ providers \in [Ids -> Row]
  /\ scopes \subseteq Ids \X Domains
  /\ runtimes \in [Ids -> Nat]
  /\ pending \in [Flows -> Ids \cup {0}]
  /\ codes \subseteq [flow : Flows, issuer : Nat, mailbox : Domains]
  /\ req \in [Workers -> Request]
  /\ \A w \in Workers : req[w] # Idle => ~ At(w, "idle") /\ req[w].id \in Ids
  /\ requests \in 0..MaxRequests
  /\ sent \in [Flows -> Nat]
  /\ sessions \subseteq [flow : Flows, mailbox : Domains, granted : SUBSET Domains,
                        late : BOOLEAN, nth : Nat]
  /\ requested \in [Ids -> SUBSET Domains] /\ retired \subseteq Ids
  /\ crossed \in BOOLEAN /\ overlapped \in BOOLEAN
  /\ ids \subseteq Ids /\ reused \in BOOLEAN /\ trespassed \in BOOLEAN
  /\ faults \in 0..MaxFaults

\* Whoever signs in was vouched for.  "a state value can never be redeemed
\* twice": a flow ends in at most one session, however many callbacks present
\* its state.  "that mailbox's domain must be allowed by the provider that
\* vouched for the identity": at some time since the callback came, not only
\* when the flow began or the runtime was cached.  And a provider whose
\* deactivation or deletion is complete signs nobody in, not even those sent to
\* its issuer before, unless a lookup that had read the row filled the cache
\* after the invalidate.
SessionsAreVouchedFor ==
  \A s \in sessions :
    /\ \A t \in sessions : s.flow = t.flow => s = t
    /\ s.mailbox \in s.granted
    /\ s.late => crossed

\* What a finished change leaves.  The domains are those it asked for, none after
\* a deletion, though they are written by several statements.  "Discard any cached
\* OIDC discovery/runtime for this provider so the next login attempt picks up
\* the new configuration rather than a stale one": a cached runtime is that of
\* the row, and the row is there and active, unless a lookup crossed the
\* invalidate.  Both take changes that neither fail nor overlap - overlapping
\* ones can make each other fail.
ProvidersAreSettled ==
  faults = 0 /\ ~ overlapped =>
    \A i \in Ids : ~ Changing(i) =>
      /\ {d \in Domains : <<i, d>> \in scopes} = requested[i]
      /\ runtimes[i] # NoRuntime /\ ~ crossed =>
           Usable(providers[i]) /\ runtimes[i] = providers[i].issuer

\* "a domain admin can only ever edit or delete their own custom providers":
\* ownership is checked on the row that was read, the change is by id, and an id
\* that is given out again in between is the one way around it.
OnlyTheOwnerChanges == trespassed => reused
=============================================================================
