------------------------------ MODULE ApiKeys ------------------------------
(***************************************************************************)
(* API keys: a bearer token in front of a mailcow app-password.            *)
(*   internal/apikey/store.go        the api_keys table                    *)
(*   internal/api/apikeys.go         create, revoke, authentication        *)
(*   internal/api/device_login.go    a webmail session from a key          *)
(*                                                                         *)
(* The key id (kid) is drawn anew by every create call and names its       *)
(* app-password, so a create call, its row and its app-password all go by  *)
(* the kid.  Each SQL statement and each call to mailcow is a step.        *)
(* A client that goes away cancels its request's context: the calls to     *)
(* mailcow fail from then on, the statements (which take no context) do    *)
(* not.                                                                    *)
(***************************************************************************)
EXTENDS Naturals, FiniteSets

CONSTANTS
  Kids,            \* key ids, one per create call
  Revokers,        \* concurrent DELETE /api/apikeys/{id} calls
  Requests,        \* concurrent requests that present a key
  TicksPerSecond,  \* the resolution of time.Now() against the table's seconds
  Lifetimes,       \* expires_in_seconds in ticks, 0 for a key without expiry
  StartTime,       \* the clock when the table is empty
  MaxTime,         \* bound on the clock
  MaxFaults,       \* bound on failed calls and statements
  MaxCrashes,      \* bound on process restarts
  MaxOutside,      \* bound on app-passwords deleted by hand in mailcow
  MaxGone          \* bound on clients that go away during a create

ASSUME TimesAssumption ==
  /\ TicksPerSecond \in Nat \ {0}
  /\ Lifetimes \subseteq Nat
  /\ StartTime \in Nat
  /\ StartTime >= TicksPerSecond     \* revoked = 0 means "not revoked"
  /\ MaxTime \in Nat

ASSUME BoundsAssumption ==
  MaxFaults \in Nat /\ MaxCrashes \in Nat /\ MaxOutside \in Nat /\ MaxGone \in Nat

VARIABLES
  now,       \* time.Now(), in ticks
  keys,      \* the api_keys table: kid -> row
  upstream,  \* kids whose app-password mailcow holds
  create,    \* where the create call of each kid is
  gone,      \* kids whose create call has lost its client
  revoker,   \* where each revoke call is, and for which kid
  request,   \* the key each request has been let in with, or NoKid
  hits,      \* history: failed calls each create call has met
  excused,   \* history: creates cut short by a crash, a lost answer or a lost client
  promised,  \* history: the expires_at each create call returned (0: none)
  answered,  \* history: kids whose revoke was answered 200
  outside,   \* history: kids whose app-password was deleted by hand
  faults,    \* history: failed calls so far
  crashes    \* history: restarts so far

world == <<hits, excused, outside, faults, crashes>>
vars == <<now, keys, upstream, create, gone, revoker, request, promised, answered, world>>

-----------------------------------------------------------------------------
NoKid == "none"

ASSUME NoKidAssumption == NoKid \notin Kids

CreateSteps == {"new", "recover", "store", "list", "delete", "created", "refused"}
RevokeSteps == {"idle", "update", "hard"}

\* storage.Unix: whole seconds, rounded down.
Unix(t) == t \div TicksPerSecond

Init ==
  /\ now = StartTime
  /\ keys = [k \in {} |-> 0]
  /\ upstream = {}
  /\ create = [k \in Kids |-> "new"]
  /\ gone = {}
  /\ revoker = [v \in Revokers |-> [step |-> "idle", kid |-> NoKid]]
  /\ request = [r \in Requests |-> NoKid]
  /\ hits = [k \in Kids |-> 0]
  /\ excused = {}
  /\ promised = [k \in Kids |-> 0]
  /\ answered = {}
  /\ outside = {}
  /\ faults = 0
  /\ crashes = 0

Tick ==
  /\ now < MaxTime
  /\ now' = now + 1
  /\ UNCHANGED <<keys, upstream, create, gone, revoker, request,
                 promised, answered, world>>

\* A call or a statement fails outside of a create.
Fault ==
  /\ faults < MaxFaults
  /\ faults' = faults + 1
  /\ UNCHANGED <<hits, excused, outside, crashes>>

\* A statement of the create of k fails.
StatementFails(k) ==
  /\ faults < MaxFaults
  /\ faults' = faults + 1
  /\ hits' = [hits EXCEPT ![k] = @ + 1]
  /\ UNCHANGED <<excused, outside, crashes>>

\* A call to mailcow of the create of k fails: of itself, or because the
\* client is gone.
CallFails(k) ==
  \/ k \notin gone /\ StatementFails(k)
  \/ k \in gone /\ UNCHANGED world

-----------------------------------------------------------------------------
(* POST /api/apikeys.                                                      *)

createGoto(k, step) == create' = [create EXCEPT ![k] = step]

\* AddAppPassword; an error ends the call, also one that mailcow's answer
\* did not survive.
AddAppPassword(k) ==
  /\ create[k] = "new"
  /\ \/ /\ k \notin gone
        /\ upstream' = upstream \cup {k}
        /\ createGoto(k, "recover")
        /\ UNCHANGED world
     \/ /\ CallFails(k)
        /\ createGoto(k, "refused")
        /\ UNCHANGED upstream
     \/ /\ faults < MaxFaults
        /\ faults' = faults + 1
        /\ excused' = excused \cup {k}
        /\ upstream' = upstream \cup {k}
        /\ createGoto(k, "refused")
        /\ UNCHANGED <<hits, outside, crashes>>
  /\ UNCHANGED <<now, keys, gone, revoker, request, promised, answered>>

\* recoverAppPwID: the name must be there.
recoverAppPwID(k) ==
  /\ create[k] = "recover"
  /\ \/ /\ k \notin gone
        /\ createGoto(k, IF k \in upstream THEN "store" ELSE "list")
        /\ UNCHANGED world
     \/ CallFails(k) /\ createGoto(k, "list")
  /\ UNCHANGED <<now, keys, upstream, gone, revoker, request,
                 promised, answered>>

\* Mutant: a failed insert is not compensated.
Create_NoCompensation(k) ==
  /\ create[k] = "store"
  /\ \/ \E lifetime \in Lifetimes :
          LET expires == IF lifetime = 0 THEN 0 ELSE now + lifetime
              row == [expires |-> Unix(expires), revoked |-> 0]
          IN  /\ keys' = [j \in DOMAIN keys \cup {k} |-> IF j = k THEN row ELSE keys[j]]
              /\ promised' = [promised EXCEPT ![k] = expires]
              /\ createGoto(k, "created")
              /\ UNCHANGED world
     \/ /\ StatementFails(k)
        /\ createGoto(k, "refused")
        /\ UNCHANGED <<keys, promised>>
  /\ UNCHANGED <<now, upstream, gone, revoker, request, answered>>

\* Seal and store.Create, whose expiry is stored in whole seconds while the
\* answer names the instant.
Create(k) ==
  /\ create[k] = "store"
  /\ \/ \E lifetime \in Lifetimes :
          LET expires == IF lifetime = 0 THEN 0 ELSE now + lifetime
              row == [expires |-> Unix(expires), revoked |-> 0]
          IN  /\ keys' = [j \in DOMAIN keys \cup {k} |-> IF j = k THEN row ELSE keys[j]]
              /\ promised' = [promised EXCEPT ![k] = expires]
              /\ createGoto(k, "created")
              /\ UNCHANGED world
     \/ /\ StatementFails(k)
        /\ createGoto(k, "list")
        /\ UNCHANGED <<keys, promised>>
  /\ UNCHANGED <<now, upstream, gone, revoker, request, answered>>

\* deleteAppPwByName, the list call: errors and an empty list end it.
ListOwn(k) ==
  /\ create[k] = "list"
  /\ \/ /\ k \notin gone
        /\ createGoto(k, IF k \in upstream THEN "delete" ELSE "refused")
        /\ UNCHANGED world
     \/ CallFails(k) /\ createGoto(k, "refused")
  /\ UNCHANGED <<now, keys, upstream, gone, revoker, request,
                 promised, answered>>

\* deleteAppPwByName, the delete call: a failure is only logged.
DeleteOwn(k) ==
  /\ create[k] = "delete"
  /\ createGoto(k, "refused")
  /\ \/ k \notin gone /\ upstream' = upstream \ {k} /\ UNCHANGED world
     \/ CallFails(k) /\ UNCHANGED upstream
  /\ UNCHANGED <<now, keys, gone, revoker, request, promised, answered>>

\* The client of a create goes away.
ClientGone(k) ==
  /\ create[k] \notin {"created", "refused"}
  /\ Cardinality(gone) < MaxGone
  /\ k \notin gone
  /\ gone' = gone \cup {k}
  /\ excused' = excused \cup {k}
  /\ UNCHANGED <<now, keys, upstream, create, revoker, request, promised,
                 answered, hits, outside, faults, crashes>>

-----------------------------------------------------------------------------
(* DELETE /api/apikeys/{id}.                                               *)

\* Mutant: a key that is already revoked is not looked at again.
RevokeLookup_OnlyActive(v, k) ==
  /\ revoker[v].step = "idle"
  /\ k \in DOMAIN keys
  /\ keys[k].revoked = 0
  /\ revoker' = [revoker EXCEPT ![v] = [step |-> "update", kid |-> k]]
  /\ UNCHANGED <<now, keys, upstream, create, gone, request, promised, answered, world>>

\* GetByID: an unknown id is answered 404, a failed query 500.
RevokeLookup(v, k) ==
  /\ revoker[v].step = "idle"
  /\ k \in DOMAIN keys
  /\ revoker' = [revoker EXCEPT ![v] = [step |-> "update", kid |-> k]]
  /\ UNCHANGED <<now, keys, upstream, create, gone, request, promised,
                 answered, world>>

\* store.Revoke: an already revoked key keeps its time; a failed statement is
\* answered 500.
Revoke(v) ==
  /\ revoker[v].step = "update"
  /\ \/ /\ keys' = [keys EXCEPT ![revoker[v].kid].revoked = IF @ = 0 THEN Unix(now) ELSE @]
        /\ revoker' = [revoker EXCEPT ![v].step = "hard"]
        /\ UNCHANGED world
     \/ /\ Fault
        /\ revoker' = [revoker EXCEPT ![v] = [step |-> "idle", kid |-> NoKid]]
        /\ UNCHANGED keys
  /\ UNCHANGED <<now, upstream, create, gone, request, promised, answered>>

\* The app-password is deleted by its id; a failure is only logged and the
\* answer is 200 either way.
DeleteAppPassword(v) ==
  /\ revoker[v].step = "hard"
  /\ \/ upstream' = upstream \ {revoker[v].kid} /\ UNCHANGED world
     \/ Fault /\ UNCHANGED upstream
  /\ answered' = answered \cup {revoker[v].kid}
  /\ revoker' = [revoker EXCEPT ![v] = [step |-> "idle", kid |-> NoKid]]
  /\ UNCHANGED <<now, keys, create, gone, request, promised>>

-----------------------------------------------------------------------------
(* Requests that present a key.                                            *)

\* Mutant: the expiry instant itself still counts.
Active_AtExpiry(row) ==
  /\ row.revoked = 0
  /\ row.expires # 0 => now <= (row.expires + 1) * TicksPerSecond

\* Record.Active.
Active(row) ==
  /\ row.revoked = 0
  /\ row.expires # 0 => now < row.expires * TicksPerSecond

\* resolveAPIKey: one query; the request goes on with what it read.
Resolve(r, k) ==
  /\ request[r] = NoKid
  /\ k \in DOMAIN keys
  /\ Active(keys[k])
  /\ request' = [request EXCEPT ![r] = k]
  /\ UNCHANGED <<now, keys, upstream, create, gone, revoker, promised,
                 answered, world>>

\* The mail operation, or for a device login the webmail session that keeps
\* the app-password, with the record as it was read.  (TouchLastUsed before it
\* is best effort and writes a column no decision reads: left out.)
Serve(r) ==
  /\ request[r] # NoKid
  /\ request' = [request EXCEPT ![r] = NoKid]
  /\ UNCHANGED <<now, keys, upstream, create, gone, revoker, promised, answered, world>>

-----------------------------------------------------------------------------
\* Somebody deletes an app-password in mailcow, or through the panel's list
\* of app-passwords.
DeleteOutside(k) ==
  /\ k \in upstream
  /\ Cardinality(outside) < MaxOutside
  /\ upstream' = upstream \ {k}
  /\ outside' = outside \cup {k}
  /\ UNCHANGED <<now, keys, create, gone, revoker, request, promised,
                 answered, hits, excused, faults, crashes>>

\* The process restarts: every call dies where it is.
Restart ==
  /\ crashes < MaxCrashes
  /\ crashes' = crashes + 1
  /\ excused' = excused \cup {k \in Kids : create[k] \notin {"new", "created", "refused"}}
  /\ create' = [k \in Kids |-> IF create[k] \in {"new", "created"} THEN create[k] ELSE "refused"]
  /\ revoker' = [v \in Revokers |-> [step |-> "idle", kid |-> NoKid]]
  /\ request' = [r \in Requests |-> NoKid]
  /\ UNCHANGED <<now, keys, upstream, gone, promised, answered,
                 hits, outside, faults>>

CreateCall(k) ==
  AddAppPassword(k) \/ recoverAppPwID(k) \/ Create(k) \/ ListOwn(k) \/ DeleteOwn(k)

RevokeCall(v) ==
  (\E k \in Kids : RevokeLookup(v, k)) \/ Revoke(v) \/ DeleteAppPassword(v)

Next ==
  \/ Tick
  \/ \E k \in Kids : CreateCall(k) \/ ClientGone(k) \/ DeleteOutside(k)
  \/ \E v \in Revokers : RevokeCall(v)
  \/ \E r \in Requests : (\E k \in Kids : Resolve(r, k)) \/ Serve(r)
  \/ Restart

Spec == Init /\ [][Next]_vars

\* The operator repeats a revoke until it sticks: for each key a revoke is
\* begun again and again, and every revoke call ends.
FairSpec ==
  /\ Spec
  /\ \A v \in Revokers : WF_vars(Revoke(v)) /\ WF_vars(DeleteAppPassword(v))
  /\ \A k \in Kids : SF_vars(\E v \in Revokers : RevokeLookup(v, k))

-----------------------------------------------------------------------------
\* Every variable has its type.
TypeOK ==
  /\ now \in Nat
  /\ DOMAIN keys \subseteq Kids
  /\ \A k \in DOMAIN keys : keys[k] \in [expires : Nat, revoked : Nat]
  /\ upstream \subseteq Kids
  /\ create \in [Kids -> CreateSteps]
  /\ gone \subseteq Kids
  /\ revoker \in [Revokers -> [step : RevokeSteps, kid : Kids \cup {NoKid}]]
  /\ \A v \in Revokers : revoker[v].step # "idle" => revoker[v].kid \in DOMAIN keys
  /\ request \in [Requests -> Kids \cup {NoKid}]
  /\ hits \in [Kids -> Nat]
  /\ excused \subseteq Kids
  /\ promised \in [Kids -> Nat]
  /\ answered \subseteq Kids
  /\ outside \subseteq Kids
  /\ faults \in Nat
  /\ crashes \in Nat

\* Rows and app-passwords go together.  A key that lets requests in has its
\* app-password, unless somebody deleted that by hand: a create that succeeds
\* leaves both, and a revoke closes the key before it takes the password away.
\* And "If it cannot be uniquely identified, do NOT keep a key we could never
\* revoke": an app-password has a row through which it can be revoked, or its
\* create is still under way, or two calls of that create failed, or it was cut
\* short.
KeysMatchPasswords ==
  /\ \A k \in DOMAIN keys : Active(keys[k]) /\ k \notin outside => k \in upstream
  /\ \A k \in upstream :
       \/ k \in DOMAIN keys
       \/ create[k] \in {"recover", "store", "list", "delete"}
       \/ hits[k] >= 2
       \/ k \in excused

\* Request r is let in with key k in this step.
LetIn(r, k) == request[r] = NoKid /\ request'[r] = k

\* What is closed stays closed: a key whose revoke was answered lets nobody in
\* again, also when revokes overlap, and its first revocation time stands; and
\* no key lets anybody in at or after the expires_at its creator was told,
\* though the table holds whole seconds.
ClosedKeysStayClosed ==
  [][/\ \A k \in answered : /\ \A r \in Requests : ~ LetIn(r, k)
                            /\ keys'[k].revoked = keys[k].revoked
     /\ \A r \in Requests, k \in Kids :
          LetIn(r, k) /\ promised[k] # 0 => now < promised[k]]_vars

\* A revoke that is repeated gets through: whatever failed, raced or crashed
\* the first time, the app-password is gone in the end, and with it the
\* access of the device-login sessions that hold it.
RepeatedRevokeSucceeds ==
  \A k \in Kids : k \in DOMAIN keys ~> k \notin upstream
=============================================================================
