--------------------------- MODULE ApiAccessProofs ---------------------------
(***************************************************************************)
(* Access with an API key: the keys, and the limiter each key's requests   *)
(* are counted by.                                                         *)
(*                                                                         *)
(* ApiKeys.  For any number of keys, of revokes and requests at once, for  *)
(* any lifetimes and any resolution of the clock, whichever calls fail,    *)
(* whoever goes away and however often the process restarts: a key and its *)
(* app-password go together, and a key that is closed stays closed.        *)
(*                                                                         *)
(* RateLimiter.  For every set of keys and goroutines, every budget and    *)
(* every window: the collector is transparent as long as no goroutine is   *)
(* overtaken by the clock between reading it and taking the mutex, and no  *)
(* entry counts past the budget, whoever is overtaken.                     *)
(***************************************************************************)
EXTENDS ApiKeys, RateLimiter, FiniteSetTheorems, TLAPS


-----------------------------------------------------------------------------
(* The clock and the table's seconds.                                      *)

\* What rounding to whole seconds loses: less than the time since the second.
LEMMA UnixRoundsDown ==
  /\ \A t \in Nat : Unix(t) \in Nat
  /\ \A t \in Nat : Unix(t) * TicksPerSecond <= t
  /\ \A t \in Nat : t >= TicksPerSecond => Unix(t) # 0
  /\ Unix(0) = 0
<1>1. \A t \in Nat : Unix(t) \in Nat
  BY TimesAssumption DEF Unix
<1>2. \A t \in Nat : Unix(t) * TicksPerSecond <= t
  BY TimesAssumption DEF Unix
<1>3. \A t \in Nat : t >= TicksPerSecond => Unix(t) # 0
  BY TimesAssumption DEF Unix
<1>4. Unix(0) = 0
  BY TimesAssumption DEF Unix
<1> QED
  BY <1>1, <1>2, <1>3, <1>4

-----------------------------------------------------------------------------
(* Types.                                                                  *)

\* The row that a create stores for k.
Row(k, lifetime) ==
  [expires |-> Unix(IF lifetime = 0 THEN 0 ELSE now + lifetime), revoked |-> 0]

Stores(k, lifetime) ==
  /\ keys' = [j \in DOMAIN keys \cup {k} |-> IF j = k THEN Row(k, lifetime) ELSE keys[j]]
  /\ promised' = [promised EXCEPT ![k] = IF lifetime = 0 THEN 0 ELSE now + lifetime]
  /\ createGoto(k, "created")
  /\ UNCHANGED world

\* The create call of k stores a row, or its statement fails.
LEMMA CreateStores ==
  ASSUME NEW k \in Kids, Create(k)
  PROVE  \/ \E lifetime \in Lifetimes : Stores(k, lifetime)
         \/ StatementFails(k) /\ createGoto(k, "list") /\ UNCHANGED <<keys, promised>>
  BY DEF Create, Stores, Row

LEMMA StatementTyped ==
  ASSUME TypeOK, NEW k \in Kids, StatementFails(k) \/ UNCHANGED world \/ CallFails(k) \/ Fault
  PROVE  /\ hits' \in [Kids -> Nat] /\ faults' \in Nat /\ crashes' \in Nat
         /\ excused' \subseteq Kids /\ outside' \subseteq Kids
         /\ UNCHANGED <<excused, outside, crashes>>
  BY DEF StatementFails, CallFails, Fault, world, TypeOK

LEMMA TypeInit == Init => TypeOK
  BY TimesAssumption DEF Init, TypeOK, CreateSteps, RevokeSteps

LEMMA TypeStep == TypeOK /\ [Next]_vars => TypeOK'
<1> SUFFICES ASSUME TypeOK, [Next]_vars PROVE TypeOK'
  OBVIOUS
<1>1. ASSUME NEW k \in Kids, AddAppPassword(k) PROVE TypeOK'
  <2>1. /\ hits' \in [Kids -> Nat] /\ faults' \in Nat /\ crashes' \in Nat
        /\ excused' \subseteq Kids /\ outside' \subseteq Kids
    BY <1>1, StatementTyped DEF AddAppPassword, world, TypeOK
  <2>2. create' \in [Kids -> CreateSteps] /\ upstream' \subseteq Kids
    BY <1>1 DEF AddAppPassword, createGoto, CreateSteps, TypeOK
  <2> QED
    BY <1>1, <2>1, <2>2 DEF AddAppPassword, TypeOK
<1>2. ASSUME NEW k \in Kids, recoverAppPwID(k) \/ ListOwn(k) \/ DeleteOwn(k) PROVE TypeOK'
  <2>1. /\ hits' \in [Kids -> Nat] /\ faults' \in Nat /\ crashes' \in Nat
        /\ excused' \subseteq Kids /\ outside' \subseteq Kids
    BY <1>2, StatementTyped DEF recoverAppPwID, ListOwn, DeleteOwn
  <2>2. create' \in [Kids -> CreateSteps] /\ upstream' \subseteq Kids
    BY <1>2 DEF recoverAppPwID, ListOwn, DeleteOwn, createGoto, CreateSteps, TypeOK
  <2>3. UNCHANGED <<now, keys, gone, revoker, request, promised, answered>>
    BY <1>2 DEF recoverAppPwID, ListOwn, DeleteOwn
  <2> QED
    BY <2>1, <2>2, <2>3 DEF TypeOK
<1>3. ASSUME NEW k \in Kids, Create(k) PROVE TypeOK'
  <2>1. ASSUME NEW lifetime \in Lifetimes, Stores(k, lifetime)
        PROVE  /\ DOMAIN keys' \subseteq Kids /\ DOMAIN keys \subseteq DOMAIN keys'
               /\ \A j \in DOMAIN keys' : keys'[j] \in [expires : Nat, revoked : Nat]
               /\ promised' \in [Kids -> Nat]
    <3>1. (IF lifetime = 0 THEN 0 ELSE now + lifetime) \in Nat
      BY TimesAssumption DEF TypeOK
    <3>2. Row(k, lifetime) \in [expires : Nat, revoked : Nat]
      BY <3>1, UnixRoundsDown DEF Row
    <3> QED
      BY <2>1, <3>1, <3>2 DEF Stores, TypeOK
  <2>2. /\ DOMAIN keys' \subseteq Kids /\ DOMAIN keys \subseteq DOMAIN keys'
        /\ \A j \in DOMAIN keys' : keys'[j] \in [expires : Nat, revoked : Nat]
        /\ promised' \in [Kids -> Nat]
    BY <1>3, <2>1, CreateStores DEF TypeOK
  <2>3. create' \in [Kids -> CreateSteps]
    BY <1>3 DEF Create, createGoto, CreateSteps, TypeOK
  <2>4. /\ hits' \in [Kids -> Nat] /\ faults' \in Nat /\ crashes' \in Nat
        /\ excused' \subseteq Kids /\ outside' \subseteq Kids
    BY <1>3, StatementTyped, CreateStores DEF Stores
  <2>5. UNCHANGED <<now, upstream, gone, revoker, request, answered>>
    BY <1>3 DEF Create
  <2> QED
    BY <2>2, <2>3, <2>4, <2>5 DEF TypeOK
<1>4. ASSUME NEW k \in Kids, ClientGone(k) \/ DeleteOutside(k) PROVE TypeOK'
  BY <1>4 DEF ClientGone, DeleteOutside, TypeOK
<1>5. ASSUME NEW v \in Revokers, NEW k \in Kids, RevokeLookup(v, k) PROVE TypeOK'
  <2>1. revoker' \in [Revokers -> [step : RevokeSteps, kid : Kids \cup {NoKid}]]
    BY <1>5 DEF RevokeLookup, RevokeSteps, TypeOK
  <2>2. \A u \in Revokers : revoker'[u].step # "idle" => revoker'[u].kid \in DOMAIN keys
    BY <1>5 DEF RevokeLookup, TypeOK
  <2> QED
    BY <1>5, <2>1, <2>2 DEF RevokeLookup, TypeOK, world
<1>6. ASSUME NEW v \in Revokers, Revoke(v) PROVE TypeOK'
  <2> DEFINE k == revoker[v].kid
  <2>1. k \in DOMAIN keys /\ revoker[v] \in [step : RevokeSteps, kid : Kids \cup {NoKid}]
    BY <1>6 DEF Revoke, TypeOK
  <2>2. Unix(now) \in Nat
    BY UnixRoundsDown DEF TypeOK
  <2>3. /\ DOMAIN keys' = DOMAIN keys
        /\ \A j \in DOMAIN keys : keys'[j] \in [expires : Nat, revoked : Nat]
    <3>1. CASE UNCHANGED keys
      BY <3>1 DEF TypeOK
    <3>2. CASE keys' = [keys EXCEPT ![k].revoked = IF @ = 0 THEN Unix(now) ELSE @]
      BY <2>1, <2>2, <3>2 DEF TypeOK
    <3> QED
      BY <1>6, <3>1, <3>2 DEF Revoke
  <2>4. /\ revoker' \in [Revokers -> [step : RevokeSteps, kid : Kids \cup {NoKid}]]
        /\ \A u \in Revokers : revoker'[u].step # "idle" => revoker'[u].kid \in DOMAIN keys
    BY <1>6, <2>1 DEF Revoke, RevokeSteps, TypeOK
  <2>5. faults' \in Nat /\ UNCHANGED <<hits, excused, outside, crashes>>
    BY <1>6 DEF Revoke, Fault, world, TypeOK
  <2> QED
    BY <1>6, <2>3, <2>4, <2>5 DEF Revoke, TypeOK
<1>7. ASSUME NEW v \in Revokers, DeleteAppPassword(v) PROVE TypeOK'
  <2>1. revoker[v].kid \in Kids
    BY <1>7 DEF DeleteAppPassword, TypeOK
  <2>2. /\ revoker' \in [Revokers -> [step : RevokeSteps, kid : Kids \cup {NoKid}]]
        /\ \A u \in Revokers : revoker'[u].step # "idle" => revoker'[u].kid \in DOMAIN keys
    BY <1>7 DEF DeleteAppPassword, RevokeSteps, TypeOK
  <2>3. faults' \in Nat /\ UNCHANGED <<hits, excused, outside, crashes>>
    BY <1>7 DEF DeleteAppPassword, Fault, world, TypeOK
  <2> QED
    BY <1>7, <2>1, <2>2, <2>3 DEF DeleteAppPassword, TypeOK
<1>8. ASSUME NEW r \in Requests, (\E k \in Kids : Resolve(r, k)) \/ Serve(r) PROVE TypeOK'
  BY <1>8 DEF Resolve, Serve, TypeOK, world
<1>9. CASE Tick \/ UNCHANGED vars
  BY <1>9 DEF Tick, vars, TypeOK, world
<1>10. CASE Restart
  <2>1. create' \in [Kids -> CreateSteps]
    BY <1>10 DEF Restart, CreateSteps, TypeOK
  <2>2. /\ revoker' \in [Revokers -> [step : RevokeSteps, kid : Kids \cup {NoKid}]]
        /\ \A v \in Revokers : revoker'[v].step = "idle"
    BY <1>10 DEF Restart, RevokeSteps
  <2>3. excused' \subseteq Kids /\ crashes' \in Nat
    BY <1>10 DEF Restart, TypeOK
  <2> QED
    BY <1>10, <2>1, <2>2, <2>3 DEF Restart, TypeOK
<1> QED
  BY <1>1, <1>2, <1>3, <1>4, <1>5, <1>6, <1>7, <1>8, <1>9, <1>10 DEF Next, CreateCall, RevokeCall

\* Every variable always has its type, and a revoke works on a key that is there.
THEOREM Typing == Spec => []TypeOK
  BY TypeInit, TypeStep, PTL DEF Spec

-----------------------------------------------------------------------------
(* Rows and app-passwords.                                                 *)

\* Why a key and its app-password go together: a row is what a create leaves
\* behind, an app-password is what it begins with, and a create that gives up
\* while the app-password may be there has met a failure or was cut short.
KeysInv ==
  /\ now >= StartTime
  /\ gone \subseteq excused
  /\ \A k \in DOMAIN keys : create[k] = "created"
  /\ \A k \in Kids : create[k] = "new" => k \notin upstream
  /\ \A k \in Kids : create[k] = "store" => k \in upstream \cup outside
  /\ \A k \in upstream : create[k] \in {"list", "delete"} => hits[k] >= 1 \/ k \in excused
  /\ \A v \in Revokers : revoker[v].step = "hard" => keys[revoker[v].kid].revoked # 0
  /\ KeysMatchPasswords

\* A failed step of the create of k is counted against k, or k was cut short.
LEMMA FailureCounts ==
  ASSUME TypeOK, KeysInv, NEW k \in Kids, CallFails(k) \/ StatementFails(k)
  PROVE  /\ UNCHANGED <<excused, outside>>
         /\ \A j \in Kids : /\ hits[j] >= 1 => hits'[j] >= 1
                            /\ hits[j] >= 2 => hits'[j] >= 2
         /\ hits'[k] >= 1 \/ k \in excused
         /\ hits[k] >= 1 => hits'[k] >= 2 \/ k \in excused
  BY DEF CallFails, StatementFails, world, TypeOK, KeysInv

\* A create whose step fails stays accounted for: before the list call the
\* failure is its first, after it the second.
LEMMA CreateFails ==
  ASSUME TypeOK, KeysInv, NEW k \in Kids, CallFails(k) \/ StatementFails(k),
         UNCHANGED <<now, keys, upstream, gone, revoker>>,
         \A j \in Kids : j # k => create'[j] = create[j],
         \/ create[k] = "new" /\ create'[k] = "refused"
         \/ create[k] \in {"recover", "store"} /\ create'[k] = "list"
         \/ create[k] \in {"list", "delete"} /\ create'[k] = "refused"
  PROVE  KeysInv'
<1>1. /\ UNCHANGED <<excused, outside>>
      /\ \A j \in Kids : /\ hits[j] >= 1 => hits'[j] >= 1
                         /\ hits[j] >= 2 => hits'[j] >= 2
      /\ hits'[k] >= 1 \/ k \in excused
      /\ hits[k] >= 1 => hits'[k] >= 2 \/ k \in excused
  BY FailureCounts
<1>2. k \notin DOMAIN keys
  BY DEF KeysInv
<1>3. KeysMatchPasswords'
  <2>1. \A j \in DOMAIN keys : Active(keys[j])' /\ j \notin outside => j \in upstream
    BY DEF KeysInv, KeysMatchPasswords, Active
  <2>2. ASSUME NEW j \in upstream, j \notin DOMAIN keys
        PROVE  create'[j] \in {"recover", "store", "list", "delete"} \/ hits'[j] >= 2 \/ j \in excused
    BY <1>1, <2>2 DEF TypeOK, KeysInv, KeysMatchPasswords
  <2> QED
    BY <1>1, <2>1, <2>2 DEF KeysMatchPasswords
<1>4. \A j \in upstream : create'[j] \in {"list", "delete"} => hits'[j] >= 1 \/ j \in excused
  BY <1>1 DEF TypeOK, KeysInv
<1>5. /\ \A j \in DOMAIN keys : create'[j] = "created"
      /\ \A j \in Kids : create'[j] = "new" => j \notin upstream
      /\ \A j \in Kids : create'[j] = "store" => j \in upstream \cup outside
  BY <1>2 DEF TypeOK, KeysInv
<1> QED
  BY <1>1, <1>3, <1>4, <1>5 DEF KeysInv

LEMMA KeysInit == Init => KeysInv
  BY TimesAssumption DEF Init, KeysInv, KeysMatchPasswords

LEMMA KeysStep == TypeOK /\ KeysInv /\ [Next]_vars => KeysInv'
<1> SUFFICES ASSUME TypeOK, KeysInv, [Next]_vars PROVE KeysInv'
  OBVIOUS
<1>1. ASSUME NEW k \in Kids, AddAppPassword(k) PROVE KeysInv'
  <2>1. CASE k \notin gone /\ upstream' = upstream \cup {k} /\ createGoto(k, "recover") /\ UNCHANGED world
    BY <1>1, <2>1 DEF AddAppPassword, createGoto, world, TypeOK, KeysInv, KeysMatchPasswords, Active
  <2>2. CASE CallFails(k) /\ createGoto(k, "refused") /\ UNCHANGED upstream
    <3>1. \A j \in Kids : j # k => create'[j] = create[j]
      BY <1>1, <2>2 DEF AddAppPassword, createGoto, TypeOK
    <3>2. create'[k] = "refused"
      BY <1>1, <2>2 DEF AddAppPassword, createGoto, TypeOK
    <3>3. UNCHANGED <<now, keys, upstream, gone, revoker>>
      BY <1>1, <2>2 DEF AddAppPassword
    <3>4. create[k] = "new"
      BY <1>1 DEF AddAppPassword
    <3> QED
      BY <2>2, <3>1, <3>2, <3>3, <3>4, CreateFails
  <2>3. CASE /\ excused' = excused \cup {k} /\ upstream' = upstream \cup {k}
             /\ createGoto(k, "refused") /\ UNCHANGED <<hits, outside, crashes>>
    BY <1>1, <2>3 DEF AddAppPassword, createGoto, TypeOK, KeysInv, KeysMatchPasswords, Active
  <2> QED
    BY <1>1, <2>1, <2>2, <2>3 DEF AddAppPassword
<1>2. ASSUME NEW k \in Kids, recoverAppPwID(k) PROVE KeysInv'
  <2>1. CASE createGoto(k, IF k \in upstream THEN "store" ELSE "list") /\ UNCHANGED world
    BY <1>2, <2>1 DEF recoverAppPwID, createGoto, world, TypeOK, KeysInv, KeysMatchPasswords, Active
  <2>2. CASE CallFails(k) /\ createGoto(k, "list")
    <3>1. \A j \in Kids : j # k => create'[j] = create[j]
      BY <1>2, <2>2 DEF recoverAppPwID, createGoto, TypeOK
    <3>2. create'[k] = "list"
      BY <1>2, <2>2 DEF recoverAppPwID, createGoto, TypeOK
    <3>3. UNCHANGED <<now, keys, upstream, gone, revoker>>
      BY <1>2, <2>2 DEF recoverAppPwID
    <3>4. create[k] = "recover"
      BY <1>2 DEF recoverAppPwID
    <3> QED
      BY <2>2, <3>1, <3>2, <3>3, <3>4, CreateFails
  <2> QED
    BY <1>2, <2>1, <2>2 DEF recoverAppPwID
<1>3. ASSUME NEW k \in Kids, Create(k) PROVE KeysInv'
  <2>1. ASSUME NEW lifetime \in Lifetimes, Stores(k, lifetime) PROVE KeysInv'
    BY <1>3, <2>1 DEF Create, Stores, createGoto, world, TypeOK, KeysInv, KeysMatchPasswords, Active
  <2>2. CASE StatementFails(k) /\ createGoto(k, "list") /\ UNCHANGED <<keys, promised>>
    <3>1. \A j \in Kids : j # k => create'[j] = create[j]
      BY <1>3, <2>2 DEF Create, createGoto, TypeOK
    <3>2. create'[k] = "list"
      BY <1>3, <2>2 DEF Create, createGoto, TypeOK
    <3>3. UNCHANGED <<now, keys, upstream, gone, revoker>>
      BY <1>3, <2>2 DEF Create
    <3>4. create[k] = "store"
      BY <1>3 DEF Create
    <3> QED
      BY <2>2, <3>1, <3>2, <3>3, <3>4, CreateFails
  <2> QED
    BY <1>3, <2>1, <2>2, CreateStores
<1>4. ASSUME NEW k \in Kids, ListOwn(k) PROVE KeysInv'
  <2>1. CASE createGoto(k, IF k \in upstream THEN "delete" ELSE "refused") /\ UNCHANGED world
    BY <1>4, <2>1 DEF ListOwn, createGoto, world, TypeOK, KeysInv, KeysMatchPasswords, Active
  <2>2. CASE CallFails(k) /\ createGoto(k, "refused")
    <3>1. \A j \in Kids : j # k => create'[j] = create[j]
      BY <1>4, <2>2 DEF ListOwn, createGoto, TypeOK
    <3>2. create'[k] = "refused"
      BY <1>4, <2>2 DEF ListOwn, createGoto, TypeOK
    <3>3. UNCHANGED <<now, keys, upstream, gone, revoker>>
      BY <1>4, <2>2 DEF ListOwn
    <3>4. create[k] = "list"
      BY <1>4 DEF ListOwn
    <3> QED
      BY <2>2, <3>1, <3>2, <3>3, <3>4, CreateFails
  <2> QED
    BY <1>4, <2>1, <2>2 DEF ListOwn
<1>5. ASSUME NEW k \in Kids, DeleteOwn(k) PROVE KeysInv'
  <2>1. CASE upstream' = upstream \ {k} /\ UNCHANGED world
    BY <1>5, <2>1 DEF DeleteOwn, createGoto, world, TypeOK, KeysInv, KeysMatchPasswords, Active
  <2>2. CASE CallFails(k) /\ UNCHANGED upstream
    <3>1. \A j \in Kids : j # k => create'[j] = create[j]
      BY <1>5, <2>2 DEF DeleteOwn, createGoto, TypeOK
    <3>2. create'[k] = "refused"
      BY <1>5, <2>2 DEF DeleteOwn, createGoto, TypeOK
    <3>3. UNCHANGED <<now, keys, upstream, gone, revoker>>
      BY <1>5, <2>2 DEF DeleteOwn
    <3>4. create[k] = "delete"
      BY <1>5 DEF DeleteOwn
    <3> QED
      BY <2>2, <3>1, <3>2, <3>3, <3>4, CreateFails
  <2> QED
    BY <1>5, <2>1, <2>2 DEF DeleteOwn
<1>6. ASSUME NEW k \in Kids, ClientGone(k) \/ DeleteOutside(k) PROVE KeysInv'
  <2>1. CASE ClientGone(k)
    BY <2>1 DEF ClientGone, TypeOK, KeysInv, KeysMatchPasswords, Active
  <2>2. CASE DeleteOutside(k)
    BY <2>2 DEF DeleteOutside, TypeOK, KeysInv, KeysMatchPasswords, Active
  <2> QED
    BY <1>6, <2>1, <2>2
<1>7. ASSUME NEW v \in Revokers, NEW k \in Kids, RevokeLookup(v, k) PROVE KeysInv'
  BY <1>7 DEF RevokeLookup, world, TypeOK, KeysInv, KeysMatchPasswords, Active
<1>8. ASSUME NEW v \in Revokers, Revoke(v) PROVE KeysInv'
  <2> DEFINE k == revoker[v].kid
  <2>1. k \in DOMAIN keys /\ revoker[v] \in [step : RevokeSteps, kid : Kids \cup {NoKid}]
    BY <1>8 DEF Revoke, TypeOK
  <2>2. UNCHANGED <<hits, excused, outside>>
    BY <1>8 DEF Revoke, Fault, world
  <2>3. CASE /\ keys' = [keys EXCEPT ![k].revoked = IF @ = 0 THEN Unix(now) ELSE @]
             /\ revoker' = [revoker EXCEPT ![v].step = "hard"]
    <3>1. Unix(now) # 0
      BY UnixRoundsDown, TimesAssumption DEF TypeOK, KeysInv
    <3>2. /\ DOMAIN keys' = DOMAIN keys
          /\ \A j \in DOMAIN keys : /\ keys'[j].expires = keys[j].expires
                                    /\ keys[j].revoked # 0 => keys'[j].revoked # 0
          /\ keys'[k].revoked # 0
      BY <2>1, <2>3, <3>1 DEF TypeOK
    <3>3. \A u \in Revokers : revoker'[u].step = "hard" => keys'[revoker'[u].kid].revoked # 0
      BY <2>1, <2>3, <3>2 DEF TypeOK, KeysInv
    <3> QED
      BY <1>8, <2>2, <3>2, <3>3 DEF Revoke, TypeOK, KeysInv, KeysMatchPasswords, Active
  <2>4. CASE UNCHANGED keys /\ revoker' = [revoker EXCEPT ![v] = [step |-> "idle", kid |-> NoKid]]
    BY <1>8, <2>2, <2>4 DEF Revoke, TypeOK, KeysInv, KeysMatchPasswords, Active
  <2> QED
    BY <1>8, <2>3, <2>4 DEF Revoke
<1>9. ASSUME NEW v \in Revokers, DeleteAppPassword(v) PROVE KeysInv'
  <2>1. /\ upstream' \subseteq upstream
        /\ upstream \subseteq upstream' \cup {revoker[v].kid}
        /\ UNCHANGED <<hits, excused, outside>>
    BY <1>9 DEF DeleteAppPassword, Fault, world
  <2>2. revoker[v].kid \in DOMAIN keys /\ keys[revoker[v].kid].revoked # 0
    BY <1>9 DEF DeleteAppPassword, TypeOK, KeysInv
  <2>3. \A u \in Revokers : revoker'[u].step = "hard" => keys[revoker'[u].kid].revoked # 0
    BY <1>9 DEF DeleteAppPassword, TypeOK, KeysInv
  <2> QED
    BY <1>9, <2>1, <2>2, <2>3 DEF DeleteAppPassword, TypeOK, KeysInv, KeysMatchPasswords, Active
<1>10. CASE \/ UNCHANGED vars
            \/ \E r \in Requests : (\E k \in Kids : Resolve(r, k)) \/ Serve(r)
  <2>1. UNCHANGED <<now, keys, upstream, create, gone, revoker, world>>
    BY <1>10 DEF Resolve, Serve, vars
  <2> QED
    BY <2>1 DEF world, KeysInv, KeysMatchPasswords, Active
<1>11. CASE Tick
  <2>1. \A k \in DOMAIN keys : keys[k].expires * TicksPerSecond \in Nat
    BY TimesAssumption DEF TypeOK
  <2>2. \A k \in DOMAIN keys : Active(keys[k])' => Active(keys[k])
    BY <1>11, <2>1 DEF Tick, Active, TypeOK
  <2> QED
    BY <1>11, <2>2, TimesAssumption DEF Tick, world, TypeOK, KeysInv, KeysMatchPasswords
<1>12. CASE Restart
  BY <1>12 DEF Restart, TypeOK, CreateSteps, KeysInv, KeysMatchPasswords, Active
<1> QED
  BY <1>1, <1>2, <1>3, <1>4, <1>5, <1>6, <1>7, <1>8, <1>9, <1>10, <1>11, <1>12
  DEF Next, CreateCall, RevokeCall

\* A key that lets requests in has its app-password unless somebody deleted
\* that by hand, and an app-password has its row, or a create under way, or a
\* create that met two failures or was cut short.
THEOREM RowsMatchPasswords == Spec => []KeysMatchPasswords
<1>1. Init => TypeOK /\ KeysInv
  BY TypeInit, KeysInit
<1>2. TypeOK /\ KeysInv /\ [Next]_vars => (TypeOK /\ KeysInv)'
  BY TypeStep, KeysStep
<1>3. TypeOK /\ KeysInv => KeysMatchPasswords
  BY DEF KeysInv
<1> QED
  BY <1>1, <1>2, <1>3, PTL DEF Spec

-----------------------------------------------------------------------------
(* Closed keys.                                                            *)

\* Why what is closed stays closed: an answered revoke has left its mark in the
\* row, no create writes that row again, and the row's seconds are those of the
\* expiry that was promised, rounded down.
ClosedInv ==
  /\ \A k \in answered : k \in DOMAIN keys /\ keys[k].revoked # 0
  /\ \A k \in DOMAIN keys : /\ keys[k].expires = Unix(promised[k])
                            /\ promised[k] # 0 => promised[k] >= TicksPerSecond

LEMMA ClosedInit == Init => ClosedInv
  BY DEF Init, ClosedInv

\* The rows that are there keep their expiry, and their revocation once there is one.
LEMMA RowsStay ==
  ASSUME TypeOK, KeysInv, [Next]_vars
  PROVE  \A k \in DOMAIN keys :
            /\ k \in DOMAIN keys'
            /\ keys'[k].expires = keys[k].expires
            /\ keys[k].revoked # 0 => keys'[k].revoked = keys[k].revoked
            /\ promised'[k] = promised[k]
<1>1. ASSUME NEW j \in Kids, Create(j)
      PROVE  \A k \in DOMAIN keys : /\ k \in DOMAIN keys' /\ keys'[k] = keys[k]
                                    /\ promised'[k] = promised[k]
  <2>1. j \notin DOMAIN keys
    BY <1>1 DEF Create, KeysInv
  <2> QED
    BY <1>1, <2>1 DEF Create, TypeOK
<1>2. ASSUME NEW v \in Revokers, Revoke(v)
      PROVE  /\ DOMAIN keys' = DOMAIN keys /\ promised' = promised
             /\ \A k \in DOMAIN keys :
                  /\ keys'[k].expires = keys[k].expires
                  /\ keys[k].revoked # 0 => keys'[k].revoked = keys[k].revoked
  <2>1. revoker[v].kid \in DOMAIN keys
    BY <1>2 DEF Revoke, TypeOK
  <2> QED
    BY <1>2, <2>1 DEF Revoke, TypeOK
<1>3. \/ \E j \in Kids : Create(j)
      \/ \E v \in Revokers : Revoke(v)
      \/ UNCHANGED <<keys, promised>>
  BY Zenon DEF Next, CreateCall, RevokeCall, Tick, ClientGone, DeleteOutside, Resolve, Serve,
    Restart, AddAppPassword, recoverAppPwID, ListOwn, DeleteOwn, RevokeLookup,
    DeleteAppPassword, vars
<1> QED
  BY <1>1, <1>2, <1>3

LEMMA ClosedStep == TypeOK /\ KeysInv /\ ClosedInv /\ [Next]_vars => ClosedInv'
<1> SUFFICES ASSUME TypeOK, KeysInv, ClosedInv, [Next]_vars PROVE ClosedInv'
  OBVIOUS
<1>1. \A k \in answered' : k \in DOMAIN keys /\ keys[k].revoked # 0
  <2>1. ASSUME NEW v \in Revokers, DeleteAppPassword(v)
        PROVE  \A k \in answered' : k \in DOMAIN keys /\ keys[k].revoked # 0
    BY <2>1 DEF DeleteAppPassword, TypeOK, KeysInv, ClosedInv
  <2>2. \/ \E v \in Revokers : DeleteAppPassword(v)
        \/ answered' = answered
    BY Zenon DEF Next, CreateCall, RevokeCall, Tick, ClientGone, DeleteOutside, Resolve, Serve,
      Restart, AddAppPassword, recoverAppPwID, ListOwn, DeleteOwn, RevokeLookup, Revoke,
      Create, vars
  <2> QED
    BY <2>1, <2>2 DEF ClosedInv
<1>2. \A k \in DOMAIN keys' : k \notin DOMAIN keys =>
        /\ keys'[k].expires = Unix(promised'[k])
        /\ promised'[k] # 0 => promised'[k] >= TicksPerSecond
  <2>1. ASSUME NEW j \in Kids, Create(j), NEW k \in DOMAIN keys', k \notin DOMAIN keys
        PROVE  /\ keys'[k].expires = Unix(promised'[k])
               /\ promised'[k] # 0 => promised'[k] >= TicksPerSecond
    <3>1. ASSUME NEW lifetime \in Lifetimes, Stores(j, lifetime)
          PROVE  /\ keys'[k].expires = Unix(promised'[k])
                 /\ promised'[k] # 0 => promised'[k] >= TicksPerSecond
      <4>1. k = j
        BY <2>1, <3>1 DEF Stores
      <4>2. promised'[k] = IF lifetime = 0 THEN 0 ELSE now + lifetime
        BY <3>1, <4>1 DEF Stores, TypeOK
      <4>3. keys'[k].expires = Unix(promised'[k])
        BY <3>1, <4>1, <4>2 DEF Stores, Row
      <4> QED
        BY <4>2, <4>3, TimesAssumption DEF KeysInv, TypeOK
    <3> QED
      BY <2>1, <3>1, CreateStores
  <2>2. ASSUME NEW v \in Revokers, Revoke(v) PROVE DOMAIN keys' = DOMAIN keys
    BY <2>2 DEF Revoke
  <2>3. \/ \E j \in Kids : Create(j)
        \/ \E v \in Revokers : Revoke(v)
        \/ UNCHANGED keys
    BY Zenon DEF Next, CreateCall, RevokeCall, Tick, ClientGone, DeleteOutside, Resolve, Serve,
      Restart, AddAppPassword, recoverAppPwID, ListOwn, DeleteOwn, RevokeLookup,
      DeleteAppPassword, vars
  <2> QED
    BY <2>1, <2>2, <2>3
<1> QED
  BY <1>1, <1>2, RowsStay DEF ClosedInv

\* A request is let in only by a key that is not revoked and whose promised
\* expiry is ahead.
LEMMA LetInIsTimely ==
  ASSUME TypeOK, KeysInv, ClosedInv, [Next]_vars,
         NEW r \in Requests, NEW k \in Kids, LetIn(r, k)
  PROVE  k \notin answered /\ (promised[k] # 0 => now < promised[k])
<1>1. PICK q \in Requests, j \in Kids : Resolve(q, j)
  <2>1. request' # request
    BY NoKidAssumption DEF LetIn
  <2>2. request'[r] # NoKid
    BY NoKidAssumption DEF LetIn
  <2>3. ~ Restart /\ \A q \in Requests : ~ Serve(q)
    BY <2>1, <2>2 DEF Restart, Serve, LetIn, TypeOK
  <2> QED
    BY Zenon, <2>1, <2>3 DEF Next, CreateCall, RevokeCall, Tick, ClientGone, DeleteOutside,
      AddAppPassword, recoverAppPwID, Create, ListOwn, DeleteOwn, RevokeLookup, Revoke,
      DeleteAppPassword, vars
<1>2. k \in DOMAIN keys /\ Active(keys[k])
  BY <1>1, NoKidAssumption DEF LetIn, Resolve, TypeOK
<1>3. k \notin answered
  BY <1>2 DEF Active, ClosedInv
<1>4. ASSUME promised[k] # 0 PROVE now < promised[k]
  <2>1. promised[k] \in Nat /\ promised[k] >= TicksPerSecond /\ keys[k].expires = Unix(promised[k])
    BY <1>2, <1>4 DEF ClosedInv, TypeOK
  <2>2. Unix(promised[k]) # 0 /\ Unix(promised[k]) * TicksPerSecond <= promised[k]
    BY <2>1, UnixRoundsDown
  <2>3. now < Unix(promised[k]) * TicksPerSecond
    BY <1>2, <2>1, <2>2 DEF Active
  <2>4. Unix(promised[k]) * TicksPerSecond \in Nat /\ now \in Nat
    BY <2>1, UnixRoundsDown, TimesAssumption DEF TypeOK
  <2> QED
    BY <2>1, <2>2, <2>3, <2>4
<1> QED
  BY <1>3, <1>4

\* A key whose revoke was answered lets nobody in again and keeps its first
\* revocation time, and no key lets anybody in at or after the expiry its
\* creator was told.
THEOREM ClosedForGood == Spec => ClosedKeysStayClosed
<1> DEFINE Step ==
      /\ \A k \in answered : /\ \A r \in Requests : ~ LetIn(r, k)
                             /\ keys'[k].revoked = keys[k].revoked
      /\ \A r \in Requests, k \in Kids :
           LetIn(r, k) /\ promised[k] # 0 => now < promised[k]
<1>1. Init => TypeOK /\ KeysInv /\ ClosedInv
  BY TypeInit, KeysInit, ClosedInit
<1>2. TypeOK /\ KeysInv /\ ClosedInv /\ [Next]_vars => (TypeOK /\ KeysInv /\ ClosedInv)'
  BY TypeStep, KeysStep, ClosedStep
<1>3. TypeOK /\ KeysInv /\ ClosedInv /\ [Next]_vars => [Step]_vars
  <2> SUFFICES ASSUME TypeOK, KeysInv, ClosedInv, [Next]_vars PROVE Step
    OBVIOUS
  <2>1. \A k \in answered : k \in Kids /\ k \in DOMAIN keys /\ keys[k].revoked # 0
    BY DEF TypeOK, ClosedInv
  <2>2. \A k \in answered : /\ \A r \in Requests : ~ LetIn(r, k)
                            /\ keys'[k].revoked = keys[k].revoked
    BY <2>1, LetInIsTimely, RowsStay
  <2> QED
    BY <2>2, LetInIsTimely
<1> QED
  BY <1>1, <1>2, <1>3, PTL DEF Spec, ClosedKeysStayClosed

-----------------------------------------------------------------------------
(* The rate limiter.                                                       *)


\* A map entry that is in use: it counts at least one request of a window
\* that opened in the past.
Entry == [count : Nat, windowStart : Nat]

\* The part of the type invariant the argument needs.
MapsTyped ==
  /\ clock \in Nat
  /\ entries \in [Keys -> Entry \cup {NoEntry}]
  /\ unswept \in [Keys -> Entry \cup {NoEntry}]
  /\ \A g \in Goroutines : waiting[g] # Idle => waiting[g].key \in Keys
  /\ DOMAIN waiting = Goroutines

\* Without stalls the clock stands still while someone is about to decide.
NobodyStalls ==
  /\ \A g \in Goroutines : waiting[g] # Idle => waiting[g].now = clock
  /\ sweeper # NotSweeping => sweeper = clock

\* The swept map is the unswept one, except that entries whose window is over
\* may be gone.
SweptIsUnswept ==
  \A k \in Keys : \/ entries[k] = unswept[k]
                  \/ entries[k] = NoEntry /\ Elapsed(unswept[k], clock)

LInv == MapsTyped /\ NobodyStalls /\ SweptIsUnswept

\* Both maps start empty and nobody is deciding.
LEMMA LInit == LimiterInit => LInv
  BY DEF LimiterInit, LInv, MapsTyped, NobodyStalls, SweptIsUnswept

\* A decision at the current time treats a missing entry and an elapsed one
\* alike.
LEMMA AfterSweep ==
  ASSUME NEW t \in Nat, NEW e \in Entry \cup {NoEntry}, Elapsed(e, t)
  PROVE  /\ Permits(NoEntry, t) <=> Permits(e, t)
         /\ After(NoEntry, t) = After(e, t) \/ Limit = 0
  BY DEF Permits, After, Fresh

\* What Allow leaves is an entry, or nothing if there was nothing before and
\* the limiter is disabled.
LEMMA AfterType ==
  ASSUME NEW t \in Nat, NEW e \in Entry \cup {NoEntry}
  PROVE  After(e, t) \in Entry \cup {NoEntry}
<1>1. CASE Fresh(e, t)
  BY <1>1 DEF After, Entry
<1>2. CASE ~ Fresh(e, t)
  BY <1>2 DEF After, Entry, Fresh
<1> QED
  BY <1>1, <1>2

\* Every step keeps the two maps equal up to elapsed entries.
LEMMA LNext == ASSUME stall = 0
               PROVE  LInv /\ [LimiterNext]_limiterVars => LInv'
<1> SUFFICES ASSUME LInv, [LimiterNext]_limiterVars PROVE LInv'
  OBVIOUS
<1>1. CASE ClockTick
  <2>1. \A g \in Goroutines : waiting[g] = Idle
    BY <1>1 DEF ClockTick, LInv, NobodyStalls, MapsTyped
  <2>2. sweeper = NotSweeping
    BY <1>1 DEF ClockTick, LInv, NobodyStalls, MapsTyped
  <2>3. MapsTyped'
    BY <1>1 DEF ClockTick, LInv, MapsTyped
  <2>4. NobodyStalls'
    BY <1>1, <2>1, <2>2 DEF ClockTick, NobodyStalls
  <2>5. SweptIsUnswept'
    <3> SUFFICES ASSUME NEW k \in Keys, Elapsed(unswept[k], clock) PROVE Elapsed(unswept[k], clock')
      BY <1>1 DEF ClockTick, LInv, SweptIsUnswept
    <3>1. unswept[k].windowStart \in Int
      BY DEF LInv, MapsTyped, Entry, NoEntry
    <3> QED
      BY <1>1, <3>1, LimiterAssumption DEF ClockTick, Elapsed, LInv, MapsTyped
  <2> QED
    BY <2>3, <2>4, <2>5 DEF LInv
<1>2. CASE \E g \in Goroutines, k \in Keys : Arrive(g, k)
  <2>1. PICK g \in Goroutines, k \in Keys : Arrive(g, k)
    BY <1>2
  <2>2. /\ DOMAIN waiting' = Goroutines
        /\ waiting'[g] = [key |-> k, now |-> clock]
        /\ \A h \in Goroutines : h # g => waiting'[h] = waiting[h]
        /\ UNCHANGED <<clock, entries, sweeper, unswept>>
    BY <2>1 DEF Arrive, LInv, MapsTyped
  <2>3. MapsTyped' /\ NobodyStalls' /\ SweptIsUnswept'
    BY <2>2 DEF LInv, MapsTyped, NobodyStalls, SweptIsUnswept
  <2> QED
    BY <2>3 DEF LInv
<1>3. CASE \E g \in Goroutines : Decide(g)
  <2>1. PICK g \in Goroutines : Decide(g)
    BY <1>3
  <2> DEFINE k == waiting[g].key
  <2>2. k \in Keys /\ waiting[g].now = clock /\ clock \in Nat
    BY <2>1 DEF Decide, LInv, MapsTyped, NobodyStalls
  <2>3. /\ entries' = [entries EXCEPT ![k] = After(entries[k], clock)]
        /\ unswept' = [unswept EXCEPT ![k] = After(unswept[k], clock)]
        /\ waiting' = [waiting EXCEPT ![g] = Idle]
        /\ UNCHANGED <<clock, sweeper>>
    BY <2>1, <2>2 DEF Decide
  <2> HIDE DEF k
  <2>4. entries[k] \in Entry \cup {NoEntry} /\ unswept[k] \in Entry \cup {NoEntry}
    BY <2>2 DEF LInv, MapsTyped
  <2>5. MapsTyped'
    <3>1. /\ After(entries[k], clock) \in Entry \cup {NoEntry}
          /\ After(unswept[k], clock) \in Entry \cup {NoEntry}
      BY <2>2, <2>4, AfterType
    <3> QED
      BY <2>2, <2>3, <3>1 DEF LInv, MapsTyped
  <2>6. NobodyStalls'
    BY <2>3 DEF LInv, MapsTyped, NobodyStalls
  <2>7. /\ entries'[k] = After(entries[k], clock) /\ unswept'[k] = After(unswept[k], clock)
        /\ \A j \in Keys : j # k => entries'[j] = entries[j] /\ unswept'[j] = unswept[j]
    BY <2>2, <2>3 DEF LInv, MapsTyped
  <2>8. \/ entries'[k] = unswept'[k]
        \/ entries'[k] = NoEntry /\ Elapsed(unswept'[k], clock)
    <3>1. CASE entries[k] = unswept[k]
      BY <2>7, <3>1
    <3>2. CASE entries[k] = NoEntry /\ Elapsed(unswept[k], clock) /\ Limit = 0
      BY <2>7, <3>2 DEF After
    <3>3. CASE entries[k] = NoEntry /\ Elapsed(unswept[k], clock) /\ Limit # 0
      BY <2>2, <2>4, <2>7, <3>3, AfterSweep
    <3> QED
      BY <2>2, <3>1, <3>2, <3>3 DEF LInv, SweptIsUnswept
  <2>9. SweptIsUnswept'
    BY <2>3, <2>7, <2>8 DEF LInv, SweptIsUnswept
  <2> QED
    BY <2>5, <2>6, <2>9 DEF LInv
<1>4. CASE GCRead
  BY <1>4 DEF GCRead, LInv, MapsTyped, NobodyStalls, SweptIsUnswept
<1>5. CASE GC
  <2>1. sweeper = clock /\ clock' = clock /\ sweeper' = NotSweeping
        /\ UNCHANGED <<waiting, unswept>>
    BY <1>5 DEF GC, LInv, NobodyStalls
  <2>2. /\ DOMAIN entries' = Keys
        /\ \A k \in Keys : \/ entries'[k] = entries[k]
                           \/ entries'[k] = NoEntry /\ Elapsed(entries[k], clock)
    BY <1>5, <2>1 DEF GC, Collectable
  <2>3. MapsTyped'
    <3>1. entries' = [k \in Keys |-> entries'[k]]
      BY <1>5 DEF GC
    <3>2. \A k \in Keys : entries'[k] \in Entry \cup {NoEntry}
      BY <2>2 DEF LInv, MapsTyped
    <3> QED
      BY <2>1, <3>1, <3>2 DEF LInv, MapsTyped
  <2>4. NobodyStalls'
    BY <2>1 DEF LInv, NobodyStalls
  <2>5. SweptIsUnswept'
    BY <2>1, <2>2 DEF LInv, SweptIsUnswept
  <2> QED
    BY <2>3, <2>4, <2>5 DEF LInv
<1>6. CASE UNCHANGED limiterVars
  BY <1>6 DEF limiterVars, LInv, MapsTyped, NobodyStalls, SweptIsUnswept
<1> QED
  BY <1>1, <1>2, <1>3, <1>4, <1>5, <1>6 DEF LimiterNext

\* The sweep never changes a decision, now or later: GC bounds memory and
\* does nothing else.
THEOREM SweepIsTransparent == LimiterSpec => []GCIsTransparent
<1> DEFINE SInv == stall = 0 => LInv
<1>1. SInv => GCIsTransparent
  <2> SUFFICES ASSUME LInv, stall = 0, NEW k \in Keys, NEW t \in clock..MaxClock
               PROVE  Permits(entries[k], t) <=> Permits(unswept[k], t)
    BY DEF GCIsTransparent
  <2>1. CASE entries[k] = unswept[k]
    BY <2>1
  <2>2. CASE entries[k] = NoEntry /\ Elapsed(unswept[k], clock)
    <3>1. t \in Nat /\ clock \in Nat /\ clock <= t /\ unswept[k] \in Entry \cup {NoEntry}
      BY LimiterAssumption DEF LInv, MapsTyped
    <3>2. unswept[k].windowStart \in Int
      BY <3>1 DEF Entry, NoEntry
    <3>3. Elapsed(unswept[k], t)
      BY <2>2, <3>1, <3>2, LimiterAssumption DEF Elapsed
    <3> QED
      BY <2>2, <3>1, <3>3, AfterSweep
  <2> QED
    BY <2>1, <2>2 DEF LInv, SweptIsUnswept
<1>2. LimiterInit => SInv
  BY LInit
<1>3. SInv /\ [LimiterNext]_limiterVars => SInv'
  <2>1. [LimiterNext]_limiterVars => stall' = stall
    BY DEF LimiterNext, limiterVars, ClockTick, Arrive, Decide, GCRead, GC
  <2> QED
    BY <2>1, LNext
<1> QED
  BY <1>1, <1>2, <1>3, PTL DEF LimiterSpec
-----------------------------------------------------------------------------
\* What Allow leaves counts no request past the budget, in a window that
\* opened in the past.
LEMMA AfterInBudget ==
  ASSUME NEW t \in Times, NEW e \in [count : 0..Limit, windowStart : -1..MaxClock]
  PROVE  After(e, t) \in [count : 0..Limit, windowStart : -1..MaxClock]
<1>1. CASE Limit = 0
  BY <1>1 DEF After
<1>2. CASE Limit # 0 /\ Fresh(e, t)
  BY <1>2, LimiterAssumption DEF After, Times
<1>3. CASE Limit # 0 /\ ~ Fresh(e, t)
  BY <1>3, LimiterAssumption DEF After
<1> QED
  BY <1>1, <1>2, <1>3

\* Every step keeps the types.
LEMMA TypeNext == LimiterTypeOK /\ [LimiterNext]_limiterVars => LimiterTypeOK'
<1> SUFFICES ASSUME LimiterTypeOK, [LimiterNext]_limiterVars PROVE LimiterTypeOK'
  OBVIOUS
<1> USE LimiterAssumption DEF LimiterTypeOK, Times
<1>1. CASE ClockTick
  BY <1>1, SMTT(30) DEF ClockTick
<1>2. ASSUME NEW g \in Goroutines, NEW k \in Keys, Arrive(g, k) PROVE LimiterTypeOK'
  BY <1>2 DEF Arrive
<1>3. ASSUME NEW g \in Goroutines, Decide(g) PROVE LimiterTypeOK'
  <2>1. waiting[g].key \in Keys /\ waiting[g].now \in Times
    BY <1>3 DEF Decide
  <2> DEFINE k == waiting[g].key
             t == waiting[g].now
  <2>2. /\ requests' = [requests EXCEPT ![k] = @ + 1]
        /\ entries' = [entries EXCEPT ![k] = After(@, t)]
        /\ unswept' = [unswept EXCEPT ![k] = After(@, t)]
        /\ windows' = windows \/ windows' = windows \cup {<<k, t>>}
        /\ admitted' \subseteq admitted \cup
             {[key |-> k, at |-> t, start |-> entries'[k].windowStart, nth |-> requests[k]]}
        /\ waiting' = [waiting EXCEPT ![g] = Idle]
        /\ UNCHANGED <<stall, clock, sweeper>>
    BY <1>3 DEF Decide
  <2>3. k \in Keys /\ t \in Times
    BY <2>1
  <2> HIDE DEF k, t
  <2>4. /\ After(entries[k], t) \in [count : 0..Limit, windowStart : -1..MaxClock]
        /\ After(unswept[k], t) \in [count : 0..Limit, windowStart : -1..MaxClock]
    BY <2>3, AfterInBudget
  <2>5. admitted' \subseteq [key : Keys, at : Times, start : -1..MaxClock, nth : Nat]
    <3>1. entries'[k].windowStart \in -1..MaxClock /\ requests[k] \in Nat
      BY <2>2, <2>3, <2>4
    <3> QED
      BY <2>2, <2>3, <3>1
  <2>6. waiting' \in [Goroutines -> [key : Keys, now : Times] \cup {Idle}]
    BY <2>2
  <2>7. requests' \in [Keys -> Nat] /\ windows' \subseteq Keys \X Times
    BY <2>2, <2>3, SMTT(30)
  <2> QED
    BY <2>2, <2>3, <2>4, <2>5, <2>6, <2>7
<1>4. CASE GCRead
  BY <1>4 DEF GCRead
<1>5. CASE GC
  BY <1>5 DEF GC, NoEntry, NotSweeping
<1>6. CASE UNCHANGED limiterVars
  BY <1>6 DEF limiterVars
<1> QED
  BY <1>1, <1>2, <1>3, <1>4, <1>5, <1>6 DEF LimiterNext

\* No entry of the map counts past the budget, and none has a window that is
\* not yet open, whatever goroutines stall.
THEOREM EntriesTyped == LimiterSpec => []LimiterTypeOK
<1>1. LimiterInit => LimiterTypeOK
  BY LimiterAssumption DEF LimiterInit, LimiterTypeOK, Times, NoEntry, NotSweeping
<1> QED
  BY <1>1, TypeNext, PTL DEF LimiterSpec
-----------------------------------------------------------------------------
(* The budget.  A window is known by its start, and the requests admitted  *)
(* in a stretch of time are of few windows.                                *)

\* There is a budget, and stalls are short.
ShortStalls == Limit > 0 /\ 3 * stall <= Window

Opened(k, s) == <<k, s>> \in windows

\* The requests of key k admitted in the window that began at s.
In(k, s) == {a \in admitted : a.key = k /\ a.start = s}

\* The clock is at most stall past what a goroutine read.
ClockInv ==
  /\ \A g \in Goroutines : waiting[g] # Idle => waiting[g].now <= clock /\ clock <= waiting[g].now + stall
  /\ sweeper # NotSweeping => sweeper <= clock

\* A window begins when the earlier ones are over by the clock, and the goroutine
\* that opens it is not far behind.
WindowsInv ==
  \A k \in Keys :
    /\ entries[k] # NoEntry =>
         /\ Opened(k, entries[k].windowStart)
         /\ \A s \in Times : Opened(k, s) => s <= entries[k].windowStart
    /\ entries[k] = NoEntry => \A s \in Times : Opened(k, s) => s + Window <= clock
    /\ \A s, t \in Times : Opened(k, s) /\ Opened(k, t) /\ s < t =>
         s + Window - stall <= t /\ s + Window <= clock

\* A request is admitted before its window is over, and hardly before the earlier
\* ones are.
AdmittedInv ==
  \A a \in admitted :
    /\ a.start \in Times /\ Opened(a.key, a.start)
    /\ a.at < a.start + Window
    /\ \A s \in Times : Opened(a.key, s) /\ s < a.start => s + Window - stall <= a.at

\* No window admits more than the budget, and the entry has counted.
CountInv ==
  \A k \in Keys :
    \A s \in Times :
      /\ IsFiniteSet(In(k, s)) /\ Cardinality(In(k, s)) <= Limit
      /\ entries[k] # NoEntry /\ entries[k].windowStart = s =>
           Cardinality(In(k, s)) <= entries[k].count

BudgetInv ==
  /\ LimiterTypeOK /\ ClockInv
  /\ ShortStalls => WindowsInv /\ AdmittedInv /\ CountInv

\* A request that is admitted counts as one more of its window.
LEMMA OneMore ==
  ASSUME NEW x, NEW k, NEW s, IsFiniteSet(In(k, s)), Cardinality(In(k, s)) \in Nat,
         admitted' = admitted \cup {x}
  PROVE  /\ x.key = k /\ x.start = s =>
              IsFiniteSet(In(k, s)') /\ Cardinality(In(k, s)') <= Cardinality(In(k, s)) + 1
         /\ ~ (x.key = k /\ x.start = s) => In(k, s)' = In(k, s)
<1>1. CASE x.key = k /\ x.start = s
  <2>1. In(k, s)' = In(k, s) \cup {x}
    BY <1>1 DEF In
  <2> QED
    BY <1>1, <2>1, FS_AddElement
<1>2. CASE ~ (x.key = k /\ x.start = s)
  BY <1>2 DEF In
<1> QED
  BY <1>1, <1>2

LEMMA ClockStep ==
  ASSUME LimiterTypeOK, ClockInv, [LimiterNext]_limiterVars
  PROVE  ClockInv' /\ clock <= clock' /\ stall' = stall
<1> USE DEF LimiterTypeOK, ClockInv, Times
<1>0. clock \in Int /\ stall \in Nat /\ \A g \in Goroutines : waiting[g] # Idle => waiting[g].now \in Int
  BY LimiterAssumption DEF Idle
<1>1. CASE ClockTick
  <2>1. clock' = clock + 1 /\ stall' = stall /\ waiting' = waiting /\ sweeper' = sweeper
    BY <1>1 DEF ClockTick
  <2>2. sweeper \in Int
    BY DEF NotSweeping
  <2>3. ASSUME NEW g \in Goroutines, waiting[g] # Idle
        PROVE  waiting[g].now <= clock + 1 /\ clock + 1 <= waiting[g].now + stall
    BY <1>0, <1>1, <2>3 DEF ClockTick
  <2> QED
    BY <1>0, <2>1, <2>2, <2>3
<1>2. ASSUME NEW g \in Goroutines, NEW k \in Keys, Arrive(g, k)
      PROVE  ClockInv' /\ clock <= clock' /\ stall' = stall
  BY <1>0, <1>2 DEF Arrive
<1>3. ASSUME NEW g \in Goroutines, Decide(g) PROVE ClockInv' /\ clock <= clock' /\ stall' = stall
  <2>1. waiting' = [waiting EXCEPT ![g] = Idle] /\ UNCHANGED <<clock, stall, sweeper>>
    BY <1>3 DEF Decide
  <2> QED
    BY <1>0, <2>1
<1>4. CASE GCRead
  BY <1>0, <1>4 DEF GCRead
<1>5. CASE GC
  BY <1>0, <1>5 DEF GC
<1>6. CASE UNCHANGED limiterVars
  BY <1>0, <1>6 DEF limiterVars
<1> QED
  BY <1>1, <1>2, <1>3, <1>4, <1>5, <1>6 DEF LimiterNext

\* Time passes for the windows as well.
LEMMA LaterInv ==
  ASSUME LimiterTypeOK, ClockInv, [LimiterNext]_limiterVars, WindowsInv, AdmittedInv, CountInv,
         windows' = windows, admitted' = admitted, entries' = entries
  PROVE  WindowsInv' /\ AdmittedInv' /\ CountInv'
<1>1. clock \in Int /\ clock' \in Int /\ clock <= clock' /\ stall' = stall
  BY ClockStep, TypeNext DEF LimiterTypeOK, Times
<1>2. \A s \in Times : s + Window \in Int
  BY LimiterAssumption DEF Times
<1>3. WindowsInv'
  BY <1>1, <1>2 DEF WindowsInv, Opened
<1>4. AdmittedInv'
  BY <1>1 DEF AdmittedInv, Opened
<1>5. CountInv'
  BY DEF CountInv, In
<1> QED
  BY <1>3, <1>4, <1>5

LEMMA GCInv ==
  ASSUME LimiterTypeOK, ClockInv, WindowsInv, AdmittedInv, CountInv, GC
  PROVE  WindowsInv' /\ AdmittedInv' /\ CountInv'
<1>1. /\ UNCHANGED <<stall, clock, windows, admitted>>
      /\ \A k \in Keys : entries'[k] = IF Collectable(entries[k], sweeper) THEN NoEntry ELSE entries[k]
  BY DEF GC
<1>2. sweeper \in Int /\ sweeper <= clock /\ clock \in Int
  BY DEF GC, ClockInv, LimiterTypeOK, Times, NotSweeping
<1>3. ASSUME NEW k \in Keys, Collectable(entries[k], sweeper), NEW s \in Times, Opened(k, s)
      PROVE  s + Window <= clock
  <2>1. s <= entries[k].windowStart
    BY <1>3 DEF Collectable, WindowsInv
  <2>2. entries[k].windowStart \in Int /\ s \in Int
    BY DEF LimiterTypeOK, Times
  <2> QED
    BY <1>2, <1>3, <2>1, <2>2, LimiterAssumption DEF Collectable, Elapsed
<1>4. WindowsInv'
  BY <1>1, <1>3 DEF WindowsInv, Opened
<1>5. AdmittedInv'
  BY <1>1 DEF AdmittedInv, Opened
<1>6. CountInv'
  BY <1>1 DEF CountInv, In
<1> QED
  BY <1>4, <1>5, <1>6

\* The window that opens is apart from the earlier ones.
LEMMA OpensApart ==
  ASSUME LimiterTypeOK, ClockInv, ShortStalls, WindowsInv,
         NEW g \in Goroutines, Decide(g),
         NEW k \in Keys, k = waiting[g].key, NEW t \in Times, t = waiting[g].now,
         Fresh(entries[k], t), NEW s \in Times, Opened(k, s)
  PROVE  s < t /\ s + Window - stall <= t /\ s + Window <= clock
<1>1. t <= clock /\ clock <= t + stall /\ clock \in Int /\ stall \in Nat /\ t \in Int /\ s \in Int
  BY LimiterAssumption DEF Decide, ClockInv, LimiterTypeOK, Times
<1>2. s + Window <= clock
  <2>1. CASE entries[k] = NoEntry
    BY <2>1 DEF WindowsInv
  <2>2. CASE entries[k] # NoEntry
    <3>1. s <= entries[k].windowStart /\ entries[k].windowStart \in Int /\ t - entries[k].windowStart >= Window
      BY <2>2 DEF WindowsInv, LimiterTypeOK, Fresh, Elapsed
    <3> QED
      BY <1>1, <3>1, LimiterAssumption
  <2> QED
    BY <2>1, <2>2
<1> QED
  BY <1>1, <1>2, LimiterAssumption DEF ShortStalls

LEMMA OpeningInv ==
  ASSUME LimiterTypeOK, ClockInv, ShortStalls, WindowsInv, AdmittedInv, CountInv,
         NEW g \in Goroutines, Decide(g), Fresh(entries[waiting[g].key], waiting[g].now)
  PROVE  WindowsInv' /\ AdmittedInv' /\ CountInv'
<1>1. PICK k \in Keys, t \in Times : k = waiting[g].key /\ t = waiting[g].now
  BY DEF Decide, LimiterTypeOK
<1> DEFINE x == [key |-> k, at |-> t, start |-> t, nth |-> requests[k]]
<1>2. /\ entries'[k] = [count |-> 1, windowStart |-> t]
      /\ \A j \in Keys : j # k => entries'[j] = entries[j]
      /\ windows' = windows \cup {<<k, t>>}
      /\ UNCHANGED <<clock, stall>>
  BY <1>1 DEF Decide, After, ShortStalls, LimiterTypeOK
<1>3. admitted' = admitted \cup {x}
  <2>1. entries'[k].windowStart = t
    BY <1>2
  <2> QED
    BY <1>1, <2>1 DEF Decide, Permits
<1>4. \A s \in Times : Opened(k, s) => s < t /\ s + Window - stall <= t /\ s + Window <= clock
  BY <1>1, OpensApart
<1>5. t \in Int /\ clock \in Int /\ \A s \in Times : s \in Int
  BY DEF Times, LimiterTypeOK
<1>6. \A j \in Keys, s \in Times : Opened(j, s)' <=> Opened(j, s) \/ (j = k /\ s = t)
  BY <1>2 DEF Opened
<1>7. entries'[k] # NoEntry
  BY <1>2 DEF NoEntry
<1>8. WindowsInv'
  <2> SUFFICES ASSUME NEW j \in Keys
               PROVE  /\ entries'[j] # NoEntry =>
                           /\ <<j, entries'[j].windowStart>> \in windows'
                           /\ \A s \in Times : Opened(j, s)' => s <= entries'[j].windowStart
                      /\ entries'[j] = NoEntry => \A s \in Times : Opened(j, s)' => s + Window <= clock
                      /\ \A s, u \in Times : Opened(j, s)' /\ Opened(j, u)' /\ s < u =>
                           s + Window - stall <= u /\ s + Window <= clock
    BY <1>2 DEF WindowsInv, Opened
  <2>1. CASE j = k
    <3>1. <<j, entries'[j].windowStart>> \in windows'
      BY <1>2, <2>1
    <3>2. \A s \in Times : Opened(j, s)' => s <= entries'[j].windowStart
      <4>1. entries'[j].windowStart = t
        BY <1>2, <2>1
      <4>2. ASSUME NEW s \in Times, Opened(j, s)' PROVE s <= t
        <5>1. Opened(k, s) \/ s = t
          BY <1>2, <2>1, <4>2 DEF Opened
        <5> QED
          BY <1>4, <1>5, <5>1
      <4> QED
        BY <4>1, <4>2
    <3>3. ASSUME NEW s \in Times, NEW u \in Times, Opened(j, s)', Opened(j, u)', s < u
          PROVE  s + Window - stall <= u /\ s + Window <= clock
      <4>1. Opened(k, s)
        BY <1>4, <1>5, <1>6, <2>1, <3>3
      <4> QED
        BY <1>4, <1>6, <2>1, <3>3, <4>1 DEF WindowsInv
    <3> QED
      BY <1>7, <2>1, <3>1, <3>2, <3>3
  <2>2. CASE j # k
    <3>1. entries'[j] = entries[j] /\ \A s : <<j, s>> \in windows' <=> <<j, s>> \in windows
      BY <1>2, <2>2
    <3>2. entries'[j] # NoEntry =>
            /\ <<j, entries'[j].windowStart>> \in windows'
            /\ \A s \in Times : Opened(j, s)' => s <= entries'[j].windowStart
      BY <3>1 DEF WindowsInv, Opened
    <3>3. entries'[j] = NoEntry => \A s \in Times : Opened(j, s)' => s + Window <= clock
      BY <3>1 DEF WindowsInv, Opened
    <3>4. \A s, u \in Times : Opened(j, s)' /\ Opened(j, u)' /\ s < u =>
            s + Window - stall <= u /\ s + Window <= clock
      BY <3>1 DEF WindowsInv, Opened
    <3> QED
      BY <3>2, <3>3, <3>4
  <2> QED
    BY <2>1, <2>2
<1>9. AdmittedInv'
  <2> SUFFICES ASSUME NEW a \in admitted'
               PROVE  /\ a.start \in Times /\ Opened(a.key, a.start)'
                      /\ a.at < a.start + Window
                      /\ \A s \in Times : Opened(a.key, s)' /\ s < a.start => s + Window - stall <= a.at
    BY <1>2 DEF AdmittedInv
  <2>1. CASE a = x
    <3>1. a.key = k /\ a.start = t /\ a.at = t
      BY <2>1
    <3> QED
      BY <1>4, <1>5, <1>6, <3>1, LimiterAssumption
  <2>2. CASE a \in admitted
    <3>1. a.start \in Times /\ a.key \in Keys /\ Opened(a.key, a.start) /\ a.at < a.start + Window
      BY <2>2 DEF AdmittedInv, LimiterTypeOK
    <3>2. ASSUME NEW s \in Times, Opened(a.key, s)', s < a.start PROVE s + Window - stall <= a.at
      <4>1. ~ (a.key = k /\ s = t)
        <5>1. a.key = k => a.start < t
          BY <1>4, <3>1
        <5>2. a.start \in Int /\ t \in Int /\ s < a.start
          BY <1>5, <3>1, <3>2
        <5>3. ASSUME a.key = k, s = t PROVE FALSE
          <6>1. a.start < t /\ t < a.start
            BY <5>1, <5>2, <5>3
          <6> QED
            BY <5>2, <6>1
        <5> QED
          BY <5>3
      <4>2. Opened(a.key, s)
        BY <1>6, <3>1, <3>2, <4>1
      <4> QED
        BY <2>2, <3>2, <4>2 DEF AdmittedInv
    <3> QED
      BY <1>6, <3>1, <3>2
  <2> QED
    BY <1>3, <2>1, <2>2
<1>10. CountInv'
  <2> SUFFICES ASSUME NEW j \in Keys, NEW s \in Times
               PROVE  /\ IsFiniteSet(In(j, s)') /\ Cardinality(In(j, s)') <= Limit
                      /\ entries'[j] # NoEntry /\ entries'[j].windowStart = s =>
                           Cardinality(In(j, s)') <= entries'[j].count
    BY DEF CountInv, In
  <2>1. In(k, t) = {}
    <3>1. ASSUME NEW a \in In(k, t) PROVE FALSE
      <4>1. a \in admitted /\ a.key = k /\ a.start = t
        BY <3>1 DEF In
      <4>2. Opened(k, t)
        BY <4>1 DEF AdmittedInv
      <4> QED
        BY <1>4, <1>5, <4>2
    <3> QED
      BY <3>1
  <2>2. IsFiniteSet(In(k, t)') /\ Cardinality(In(k, t)') <= 1
    <3>1. IsFiniteSet(In(k, t)) /\ Cardinality(In(k, t)) = 0
      BY <2>1, FS_EmptySet
    <3>2. x.key = k /\ x.start = t
      OBVIOUS
    <3> HIDE DEF x
    <3> QED
      BY <1>3, <3>1, <3>2, OneMore
  <2>3. CASE j = k /\ s = t
    <3>1. Cardinality(In(k, t)') \in Nat
      BY <2>2, FS_CardinalityType
    <3> QED
      BY <1>2, <2>2, <2>3, <3>1, LimiterAssumption DEF ShortStalls
  <2>4. CASE ~ (j = k /\ s = t)
    <3>1. ~ (x.key = j /\ x.start = s)
      BY <2>4
    <3>2. In(j, s)' = In(j, s)
      <4> HIDE DEF x
      <4> QED
        BY <1>3, <3>1 DEF In
    <3>3. entries'[j] # NoEntry /\ entries'[j].windowStart = s => entries'[j] = entries[j]
      BY <1>2, <2>4
    <3> QED
      BY <3>2, <3>3 DEF CountInv
  <2> QED
    BY <2>3, <2>4
<1> QED
  BY <1>8, <1>9, <1>10

\* A request within the window of its entry.
LEMMA CountingInv ==
  ASSUME LimiterTypeOK, ClockInv, ShortStalls, WindowsInv, AdmittedInv, CountInv,
         NEW g \in Goroutines, Decide(g), ~ Fresh(entries[waiting[g].key], waiting[g].now)
  PROVE  WindowsInv' /\ AdmittedInv' /\ CountInv'
<1>1. PICK k \in Keys, t \in Times : k = waiting[g].key /\ t = waiting[g].now
  BY DEF Decide, LimiterTypeOK
<1>2. /\ windows' = windows /\ UNCHANGED <<clock, stall>>
      /\ entries' = [entries EXCEPT ![k] = After(entries[k], t)]
      /\ entries[k] # NoEntry /\ ~ Elapsed(entries[k], t)
  BY <1>1 DEF Decide, Fresh
<1> DEFINE b == entries[k].windowStart
<1>3. b \in Times /\ b \in Int /\ Opened(k, b)
  BY <1>2 DEF WindowsInv, Opened, LimiterTypeOK, Times
<1>4. CASE entries[k].count >= Limit
  <2>1. After(entries[k], t) = entries[k] /\ ~ Permits(entries[k], t)
    BY <1>1, <1>2, <1>4, LimiterAssumption DEF After, Permits, Fresh, LimiterTypeOK, ShortStalls
  <2>2. entries' = entries /\ admitted' = admitted
    BY <1>1, <1>2, <2>1 DEF Decide, LimiterTypeOK
  <2> QED
    BY <1>2, <2>2 DEF WindowsInv, AdmittedInv, CountInv, Opened, In
<1>5. CASE entries[k].count < Limit
  <2>1. /\ After(entries[k], t) = [entries[k] EXCEPT !.count = @ + 1] /\ Permits(entries[k], t)
    BY <1>1, <1>2, <1>5, LimiterAssumption DEF After, Permits, Fresh, LimiterTypeOK, ShortStalls
  <2>2. /\ entries'[k].windowStart = b /\ entries'[k].count = entries[k].count + 1
        /\ \A j \in Keys : j # k => entries'[j] = entries[j]
    BY <1>2, <2>1 DEF LimiterTypeOK
  <2>3. entries'[k] # NoEntry
    BY <2>2 DEF NoEntry, LimiterTypeOK
  <2> DEFINE x == [key |-> k, at |-> t, start |-> b, nth |-> requests[k]]
  <2>4. admitted' = admitted \cup {x}
    BY <1>1, <2>1, <2>2 DEF Decide
  <2>5. WindowsInv'
    <3> SUFFICES ASSUME NEW j \in Keys
                 PROVE  /\ entries'[j] # NoEntry =>
                             /\ <<j, entries'[j].windowStart>> \in windows
                             /\ \A s \in Times : Opened(j, s) => s <= entries'[j].windowStart
                        /\ entries'[j] = NoEntry => \A s \in Times : Opened(j, s) => s + Window <= clock
                        /\ \A s, u \in Times : Opened(j, s) /\ Opened(j, u) /\ s < u =>
                             s + Window - stall <= u /\ s + Window <= clock
      BY <1>2 DEF WindowsInv, Opened
    <3>1. CASE j = k
      BY <1>2, <1>3, <2>2, <2>3, <3>1 DEF WindowsInv, Opened
    <3>2. CASE j # k
      BY <2>2, <3>2 DEF WindowsInv, Opened
    <3> QED
      BY <3>1, <3>2
  <2>6. AdmittedInv'
    <3> SUFFICES ASSUME NEW a \in admitted'
                 PROVE  /\ a.start \in Times /\ Opened(a.key, a.start)
                        /\ a.at < a.start + Window
                        /\ \A s \in Times : Opened(a.key, s) /\ s < a.start =>
                             s + Window - stall <= a.at
      BY <1>2 DEF AdmittedInv, Opened
    <3>1. CASE a = x
      <4>1. a.key = k /\ a.start = b /\ a.at = t
        BY <3>1
      <4>2. t < b + Window
        BY <1>2, <1>3, LimiterAssumption DEF Elapsed, Times
      <4>3. clock <= t + stall /\ clock \in Int /\ stall \in Int /\ t \in Int
        BY <1>1, LimiterAssumption DEF Decide, ClockInv, LimiterTypeOK, Times
      <4>4. ASSUME NEW s \in Times, Opened(k, s), s < b PROVE s + Window - stall <= t
        <5>1. s + Window <= clock /\ s \in Int
          BY <1>3, <4>4 DEF WindowsInv, Times
        <5> QED
          BY <4>3, <5>1, LimiterAssumption
      <4> HIDE DEF b
      <4> QED
        BY <1>3, <4>1, <4>2, <4>4
    <3>2. CASE a \in admitted
      BY <3>2 DEF AdmittedInv
    <3> QED
      BY <2>4, <3>1, <3>2
  <2>7. CountInv'
    <3> SUFFICES ASSUME NEW j \in Keys, NEW s \in Times
                 PROVE  /\ IsFiniteSet(In(j, s)') /\ Cardinality(In(j, s)') <= Limit
                        /\ entries'[j] # NoEntry /\ entries'[j].windowStart = s =>
                             Cardinality(In(j, s)') <= entries'[j].count
      BY DEF CountInv, In
    <3>1. IsFiniteSet(In(j, s)) /\ Cardinality(In(j, s)) \in Nat
      BY FS_CardinalityType DEF CountInv
    <3>2. CASE j = k /\ s = b
      <4>1. x.key = j /\ x.start = s
        BY <3>2
      <4>2. IsFiniteSet(In(j, s)') /\ Cardinality(In(j, s)') <= Cardinality(In(j, s)) + 1
        <5> HIDE DEF x
        <5> QED
          BY <2>4, <3>1, <4>1, OneMore
      <4>3. Cardinality(In(j, s)') \in Nat
        BY <4>2, FS_CardinalityType
      <4>4. Cardinality(In(j, s)) <= entries[k].count /\ entries[k].count \in Nat
        BY <1>2, <3>2 DEF CountInv, LimiterTypeOK
      <4>5. Cardinality(In(j, s)') <= entries[k].count + 1
        BY <3>1, <4>2, <4>3, <4>4
      <4>6. Cardinality(In(j, s)') <= Limit
        BY <1>5, <4>3, <4>4, <4>5, LimiterAssumption
      <4> QED
        BY <2>2, <3>2, <4>2, <4>5, <4>6
    <3>3. CASE ~ (j = k /\ s = b)
      <4>1. ~ (x.key = j /\ x.start = s)
        BY <3>3
      <4>2. In(j, s)' = In(j, s)
        <5> HIDE DEF x
        <5> QED
          BY <2>4, <4>1 DEF In
      <4>3. entries'[j].windowStart = s => entries'[j] = entries[j]
        BY <2>2, <3>3
      <4> QED
        BY <4>2, <4>3 DEF CountInv
    <3> QED
      BY <3>2, <3>3
  <2> QED
    BY <2>5, <2>6, <2>7
<1>6. entries[k].count \in Int
  BY DEF LimiterTypeOK
<1> QED
  BY <1>4, <1>5, <1>6, LimiterAssumption

LEMMA BudgetInit == LimiterInit => BudgetInv
<1> SUFFICES ASSUME LimiterInit PROVE BudgetInv
  OBVIOUS
<1>1. LimiterTypeOK
  BY LimiterAssumption DEF LimiterInit, LimiterTypeOK, Times, NoEntry, NotSweeping
<1>2. ClockInv
  BY DEF LimiterInit, ClockInv
<1>3. \A k \in Keys, s \in Times : In(k, s) = {} /\ ~ Opened(k, s) /\ entries[k] = NoEntry
  BY DEF LimiterInit, In, Opened
<1>4. WindowsInv /\ AdmittedInv
  BY <1>3 DEF WindowsInv, AdmittedInv, LimiterInit, Opened
<1>5. CountInv
  BY <1>3, FS_EmptySet, LimiterAssumption DEF CountInv
<1> QED
  BY <1>1, <1>2, <1>4, <1>5 DEF BudgetInv

LEMMA BudgetNext == BudgetInv /\ [LimiterNext]_limiterVars => BudgetInv'
<1> SUFFICES ASSUME BudgetInv, [LimiterNext]_limiterVars PROVE BudgetInv'
  OBVIOUS
<1>1. LimiterTypeOK' /\ ClockInv' /\ stall' = stall
  BY TypeNext, ClockStep DEF BudgetInv
<1>2. ASSUME ShortStalls PROVE WindowsInv' /\ AdmittedInv' /\ CountInv'
  <2>1. LimiterTypeOK /\ ClockInv /\ WindowsInv /\ AdmittedInv /\ CountInv
    BY <1>2 DEF BudgetInv
  <2>2. CASE windows' = windows /\ admitted' = admitted /\ entries' = entries
    BY <2>1, <2>2, LaterInv
  <2>3. ASSUME NEW g \in Goroutines, Decide(g) PROVE WindowsInv' /\ AdmittedInv' /\ CountInv'
    BY <1>2, <2>1, <2>3, OpeningInv, CountingInv
  <2>4. CASE GC
    BY <2>1, <2>4, GCInv
  <2> QED
    BY <2>2, <2>3, <2>4 DEF LimiterNext, limiterVars, ClockTick, Arrive, GCRead
<1> QED
  BY <1>1, <1>2 DEF BudgetInv, ShortStalls

-----------------------------------------------------------------------------
\* Two requests of a stretch of time that were counted in different windows.
LEMMA Apart ==
  ASSUME LimiterTypeOK, ShortStalls, WindowsInv, AdmittedInv,
         NEW a \in admitted, NEW b \in admitted, a.key = b.key, a.start < b.start
  PROVE  /\ a.start + Window - stall <= b.start
         /\ a.at < a.start + Window
         /\ a.start + Window - stall <= b.at
  BY DEF LimiterTypeOK, WindowsInv, AdmittedInv

\* The requests of key k admitted in a stretch of time.
Stretch(k, from) == {a \in admitted : a.key = k /\ from <= a.at /\ a.at < from + Window}

\* Without stalls they are of two windows at most, with short stalls of three.
LEMMA FewWindows ==
  ASSUME LimiterTypeOK, ShortStalls, WindowsInv, AdmittedInv, NEW k \in Keys, NEW from \in Times,
         NEW a \in Stretch(k, from), NEW b \in Stretch(k, from), NEW c \in Stretch(k, from)
  PROVE  /\ stall = 0 => a.start = b.start \/ a.start = c.start \/ b.start = c.start
         /\ \A d \in Stretch(k, from) :
              \/ a.start = b.start \/ a.start = c.start \/ b.start = c.start
              \/ d.start = a.start \/ d.start = b.start \/ d.start = c.start
<1>1. ASSUME NEW x \in Stretch(k, from)
      PROVE  /\ x \in admitted /\ x.key = k /\ x.start \in Int /\ x.at \in Int
             /\ from <= x.at /\ x.at < from + Window
  BY DEF Stretch, LimiterTypeOK, Times
<1>2. from \in Int /\ stall \in Nat /\ Window \in Nat /\ 3 * stall <= Window /\ Window > 0
  BY LimiterAssumption DEF Times, LimiterTypeOK, ShortStalls
<1> DEFINE Before(x, y) == /\ x.start + Window - stall <= y.start
                           /\ x.at < x.start + Window
                           /\ x.start + Window - stall <= y.at
<1>3. ASSUME NEW x \in Stretch(k, from), NEW y \in Stretch(k, from), x.start < y.start
      PROVE  Before(x, y)
  BY <1>1, <1>3, Apart
<1>4. stall = 0 => a.start = b.start \/ a.start = c.start \/ b.start = c.start
  <2>1. ASSUME stall = 0, NEW x \in Stretch(k, from), NEW y \in Stretch(k, from),
               NEW z \in Stretch(k, from), x.start < y.start, y.start < z.start
        PROVE  FALSE
    <3>1. Before(x, y) /\ Before(y, z)
      BY <1>3, <2>1
    <3> QED
      BY <1>1, <1>2, <2>1, <3>1
  <2> QED
    BY <1>1, <2>1
<1>5. ASSUME NEW d \in Stretch(k, from)
      PROVE  \/ a.start = b.start \/ a.start = c.start \/ b.start = c.start
             \/ d.start = a.start \/ d.start = b.start \/ d.start = c.start
  <2>1. ASSUME NEW w \in Stretch(k, from), NEW x \in Stretch(k, from), NEW y \in Stretch(k, from),
               NEW z \in Stretch(k, from), w.start < x.start, x.start < y.start, y.start < z.start
        PROVE  FALSE
    <3>1. Before(w, x) /\ Before(x, y) /\ Before(y, z)
      BY <1>3, <2>1
    <3> QED
      BY <1>1, <1>2, <3>1
  <2> QED
    BY <1>1, <2>1
<1> QED
  BY <1>4, <1>5

\* What is of one window is at most the budget.
LEMMA OneWindow ==
  ASSUME LimiterTypeOK, AdmittedInv, CountInv, NEW k \in Keys, NEW from \in Times,
         NEW a \in Stretch(k, from)
  PROVE  IsFiniteSet(In(k, a.start)) /\ Cardinality(In(k, a.start)) \in 0..Limit
<1>1. a.start \in Times
  BY DEF Stretch, AdmittedInv
<1>2. IsFiniteSet(In(k, a.start)) /\ Cardinality(In(k, a.start)) <= Limit
  BY <1>1 DEF CountInv
<1> QED
  BY <1>2, FS_CardinalityType, LimiterAssumption

LEMMA UnionBound ==
  ASSUME NEW S, NEW T, NEW m \in Nat, NEW n \in Nat,
         IsFiniteSet(S), Cardinality(S) \in 0..m, IsFiniteSet(T), Cardinality(T) \in 0..n
  PROVE  IsFiniteSet(S \cup T) /\ Cardinality(S \cup T) \in 0..(m + n)
<1>1. IsFiniteSet(S \cup T) /\ IsFiniteSet(S \cap T)
  BY FS_Union, FS_Intersection
<1>2. /\ Cardinality(S \cup T) = Cardinality(S) + Cardinality(T) - Cardinality(S \cap T)
      /\ Cardinality(S \cup T) \in Nat /\ Cardinality(S \cap T) \in Nat
  BY <1>1, FS_Union, FS_CardinalityType
<1> QED
  BY <1>1, <1>2

LEMMA SubsetBound ==
  ASSUME NEW S, NEW T, NEW n \in Nat, IsFiniteSet(T), Cardinality(T) \in 0..n, S \subseteq T
  PROVE  IsFiniteSet(S) /\ Cardinality(S) \in 0..n
<1>1. IsFiniteSet(S) /\ Cardinality(S) <= Cardinality(T)
  BY FS_Subset
<1>2. Cardinality(S) \in Nat
  BY <1>1, FS_CardinalityType
<1> QED
  BY <1>1, <1>2

\* A stretch of time sees the budgets of the windows its requests are of.
LEMMA BudgetsOfAStretch ==
  ASSUME LimiterTypeOK, ShortStalls, WindowsInv, AdmittedInv, CountInv,
         NEW k \in Keys, NEW from \in Times
  PROVE  /\ stall = 0 /\ Opened(k, from) => Cardinality(Stretch(k, from)) <= Limit
         /\ stall = 0 => Cardinality(Stretch(k, from)) <= 2 * Limit
         /\ Cardinality(Stretch(k, from)) <= 3 * Limit
<1> DEFINE R == Stretch(k, from)
<1>1. Limit \in Nat
  BY LimiterAssumption
<1>2. \A a \in R : a \in In(k, a.start)
  BY DEF Stretch, In
<1>3. \A a \in R : IsFiniteSet(In(k, a.start)) /\ Cardinality(In(k, a.start)) \in 0..Limit
  BY OneWindow
<1>4. CASE R = {}
  <2>1. Cardinality(R) = 0
    BY <1>4, FS_EmptySet
  <2> QED
    BY <1>1, <2>1
<1>5. ASSUME NEW a \in R, \A b \in R : b.start = a.start
      PROVE  IsFiniteSet(R) /\ Cardinality(R) \in 0..Limit
  <2>1. R \subseteq In(k, a.start)
    BY <1>2, <1>5
  <2> QED
    BY <1>1, <1>3, <2>1, SubsetBound
<1>6. ASSUME NEW a \in R, NEW b \in R, \A c \in R : c.start = a.start \/ c.start = b.start
      PROVE  IsFiniteSet(R) /\ Cardinality(R) \in 0..(2 * Limit)
  <2>1. R \subseteq In(k, a.start) \cup In(k, b.start)
    BY <1>2, <1>6
  <2>2. /\ IsFiniteSet(In(k, a.start) \cup In(k, b.start))
        /\ Cardinality(In(k, a.start) \cup In(k, b.start)) \in 0..(Limit + Limit)
    BY <1>1, <1>3, UnionBound
  <2> QED
    BY <1>1, <2>1, <2>2, SubsetBound
<1>7. ASSUME NEW a \in R, NEW b \in R, NEW c \in R,
             \A d \in R : d.start = a.start \/ d.start = b.start \/ d.start = c.start
      PROVE  IsFiniteSet(R) /\ Cardinality(R) \in 0..(3 * Limit)
  <2> DEFINE T == In(k, a.start) \cup In(k, b.start)
  <2>1. R \subseteq T \cup In(k, c.start)
    BY <1>2, <1>7
  <2>2. IsFiniteSet(T) /\ Cardinality(T) \in 0..(Limit + Limit)
    BY <1>1, <1>3, UnionBound
  <2>4. Limit + Limit \in Nat
    BY <1>1
  <2>3. IsFiniteSet(T \cup In(k, c.start)) /\ Cardinality(T \cup In(k, c.start)) \in 0..(Limit + Limit + Limit)
    <3> HIDE DEF T
    <3> QED
      BY <1>1, <1>3, <2>2, <2>4, UnionBound
  <2> HIDE DEF T
  <2> QED
    BY <1>1, <2>1, <2>3, SubsetBound
<1>8. stall = 0 /\ Opened(k, from) => Cardinality(R) <= Limit
  <2> SUFFICES ASSUME stall = 0, Opened(k, from), NEW a \in R, NEW b \in R PROVE b.start = a.start
    BY <1>1, <1>4, <1>5
  <2>1. ASSUME NEW x \in R PROVE x.start = from
    <3>1. /\ x \in admitted /\ x.key = k /\ x.start \in Times /\ x.at \in Int /\ from <= x.at
          /\ x.at < from + Window
      BY <2>1 DEF Stretch, LimiterTypeOK, AdmittedInv, Times
    <3>2. x.at < x.start + Window /\ Opened(k, x.start)
      BY <3>1 DEF AdmittedInv
    <3>3. x.start < from => x.start + Window <= from
      BY <3>1, <3>2, LimiterAssumption DEF WindowsInv, Times
    <3>4. from < x.start => from + Window <= x.at
      BY <3>1, LimiterAssumption DEF AdmittedInv, Times
    <3>5. x.start \in Int /\ from \in Int
      BY <3>1 DEF Times
    <3> QED
      BY <3>1, <3>2, <3>3, <3>4, <3>5, LimiterAssumption
  <2> QED
    BY <2>1
<1>9. stall = 0 => Cardinality(R) <= 2 * Limit
  <2> SUFFICES ASSUME stall = 0, NEW a \in R, NEW b \in R, a.start # b.start
               PROVE  \A c \in R : c.start = a.start \/ c.start = b.start
    BY <1>1, <1>4, <1>5, <1>6
  <2> QED
    BY FewWindows
<1>10. Cardinality(R) <= 3 * Limit
  <2>1. CASE \E a \in R, b \in R, c \in R :
               a.start # b.start /\ a.start # c.start /\ b.start # c.start
    <3>1. PICK a \in R, b \in R, c \in R :
                 a.start # b.start /\ a.start # c.start /\ b.start # c.start
      BY <2>1
    <3>2. \A d \in R : d.start = a.start \/ d.start = b.start \/ d.start = c.start
      BY <3>1, FewWindows
    <3> QED
      BY <1>1, <1>7, <3>2
  <2>2. ASSUME NEW a \in R, NEW b \in R, a.start # b.start,
               \A c \in R : c.start = a.start \/ c.start = b.start
        PROVE  Cardinality(R) <= 3 * Limit
    BY <1>1, <1>6, <2>2
  <2> QED
    BY <1>1, <1>4, <1>5, <2>1, <2>2
<1> QED
  BY <1>8, <1>9, <1>10

\* A key makes at most max requests in a window, twice that in any stretch of
\* time as long as a window, and three times that when goroutines stall for up to
\* a third of it.
THEOREM BudgetHolds == LimiterSpec => []BudgetIsKept
<1>1. BudgetInv => BudgetIsKept
  <2> SUFFICES ASSUME BudgetInv, Limit > 0, NEW k \in Keys, NEW from \in Times
               PROVE  /\ stall = 0 /\ Opened(k, from) => AdmittedIn(k, from, from + Window) <= Limit
                      /\ stall = 0 => AdmittedIn(k, from, from + Window) <= 2 * Limit
                      /\ 3 * stall <= Window => AdmittedIn(k, from, from + Window) <= 3 * Limit
    BY DEF BudgetIsKept, Opened
  <2>1. AdmittedIn(k, from, from + Window) = Cardinality(Stretch(k, from))
    BY DEF AdmittedIn, Stretch
  <2>2. stall = 0 => 3 * stall <= Window
    BY LimiterAssumption
  <2> QED
    BY <2>1, <2>2, BudgetsOfAStretch DEF BudgetInv, ShortStalls
<1> QED
  BY <1>1, BudgetInit, BudgetNext, PTL DEF LimiterSpec
=============================================================================
