---------------------------- MODULE SecondFactor ----------------------------
(***************************************************************************)
(* The administrator's second factor.                                      *)
(*   internal/api/account_totp.go   authenticator app and recovery codes   *)
(*   internal/api/webauthn.go       passkeys: enrolment and sign-in        *)
(*   internal/admin/store.go        admin_account, admin_recovery_code,    *)
(*                                  admin_webauthn_credential              *)
(*                                                                         *)
(* Every statement is a step, requests interleave, and a request may end   *)
(* at a failed statement or with the process.  What a code or a pending    *)
(* token is worth at sign-in is the subject of AdminSession; here a        *)
(* pending token is live or not.  A challenge, a secret and a set of codes *)
(* have the number of the request that made them.  An authenticator is     *)
(* external: it signs a challenge once and counts its assertions.          *)
(***************************************************************************)
EXTENDS Integers

CONSTANTS
  Workers,        \* requests that run at the same time
  Authenticators, \* passkeys and security keys
  Pendings,       \* pending tokens: logins whose password was right
  CodesPerSet,    \* recoveryCodeCount
  MaxRequests,    \* bound on requests
  MaxFaults       \* bound on failed statements and process deaths

ASSUME SecondFactorAssumption ==
  /\ CodesPerSet \in Nat \ {0}
  /\ MaxRequests \in Nat /\ MaxFaults \in Nat

\* What stands for "no token" and the cache's key of an enrolment are no tokens.
ASSUME PendingsAssumption == {"none", "register"} \cap Pendings = {}

VARIABLES
  account,      \* admin_account: [enabled, secret], secret 0 being none
  codes,        \* admin_recovery_code: [set, n, secret]; the set it was minted in
                \* and the secret it was minted for
  passkeys,     \* admin_webauthn_credential: [key, count]; the row id, which only
                \* names a row to the panel and may be given again, is left out
  registering,  \* webAuthnCeremonies under "register": a challenge, or none
  asserting,    \* webAuthnCeremonies under each pending token
  pending,      \* pending tokens that are live
  req,          \* worker -> the request it serves
  responses,    \* signed challenges in the hands of clients: [challenge, key, count]
  issued,       \* challenge -> "none", "register" or the pending token it is for
  device,       \* authenticator -> assertions it has made
  requests,     \* history: requests begun
  proven,       \* history: secrets a code was verified for
  shown,        \* history: the set of codes last answered and not replaced since
  overlapped,   \* history: two requests on the enrolment were under way at once
  redeemed,     \* history: challenge -> passkeys and sessions it led to
  faults

totp == <<account, codes>>
ceremonies == <<registering, asserting>>
clients == <<responses, issued, device>>
totpHistory == <<proven, shown, overlapped>>
vars == <<totp, passkeys, ceremonies, pending, req, clients, requests,
          totpHistory, redeemed, faults>>

-----------------------------------------------------------------------------
Numbers == 1..MaxRequests
None == 0

Idle == [step |-> "idle", id |-> 0, secret |-> 0, n |-> 0, token |-> "none",
         challenge |-> 0, key |-> "none", count |-> 0]

\* Requests that change the enrolment or the recovery codes.
EnrolmentSteps == {"enable", "turn_off", "delete_codes", "insert_code"}
PasskeySteps == {"insert_passkey", "begin_login", "take", "load", "sign_count",
                 "consume", "mint"}

Request ==
  [step : EnrolmentSteps \cup PasskeySteps \cup {"idle"}, id : Numbers \cup {0},
   secret : Numbers \cup {None}, n : 0..CodesPerSet, token : Pendings \cup {"none"},
   challenge : Numbers \cup {None}, key : Authenticators \cup {"none"}, count : Nat]

Init ==
  /\ account = [enabled |-> FALSE, secret |-> None]
  /\ codes = {}
  /\ passkeys \in {{}, {[key |-> k, count |-> 0] : k \in Authenticators}}
  /\ registering = None
  /\ asserting = [t \in Pendings |-> None]
  /\ pending = Pendings
  /\ req = [w \in Workers |-> Idle]
  /\ responses = {}
  /\ issued = [c \in Numbers |-> "none"]
  /\ device = [k \in Authenticators |-> 0]
  /\ requests = 0 /\ proven = {}
  /\ shown = None /\ overlapped = FALSE
  /\ redeemed = [c \in Numbers |-> 0]
  /\ faults = 0

At(w, step) == req[w].step = step
Goto(w, step) == req' = [req EXCEPT ![w].step = step]
Done(w) == req' = [req EXCEPT ![w] = Idle]

\* A request arrives and gets its number.
Arrive ==
  /\ requests < MaxRequests
  /\ requests' = requests + 1

\* A worker takes on a request.
Start(w, r) ==
  /\ At(w, "idle")
  /\ Arrive
  /\ req' = [req EXCEPT ![w] = [r EXCEPT !.id = requests']]

Fault == faults < MaxFaults /\ faults' = faults + 1

-----------------------------------------------------------------------------
(* The authenticator app.                                                  *)

\* POST /api/account/2fa/enroll: SetTOTP with a fresh secret, not enabled -
\* also when another one is.
TOTPEnroll ==
  /\ Arrive
  /\ account' = [enabled |-> FALSE, secret |-> requests']
  /\ UNCHANGED <<codes, passkeys, ceremonies, pending, req, clients, proven,
                  shown, overlapped, redeemed, faults>>

\* A request on the enrolment starts; another one may be under way.
StartEnrolment(w, r) ==
  /\ Start(w, r)
  /\ overlapped' = (overlapped \/ \E v \in Workers : req[v].step \in EnrolmentSteps)

\* POST /api/account/2fa/confirm: GetAccount, and a code of the stored secret.
TOTPConfirm(w) ==
  /\ account.secret # None
  /\ StartEnrolment(w, [Idle EXCEPT !.step = "enable", !.secret = account.secret])
  /\ proven' = proven \cup {account.secret}
  /\ UNCHANGED <<totp, passkeys, ceremonies, pending, clients,
                 shown, redeemed, faults>>

\* Mutant: only the flag is set, the secret is whatever is stored by now.
Enable_FlagOnly(w) ==
  /\ At(w, "enable")
  /\ account' = [account EXCEPT !.enabled = TRUE]
  /\ Goto(w, "delete_codes")
  /\ UNCHANGED <<codes, passkeys, ceremonies, pending, clients, requests,
                 totpHistory, redeemed, faults>>

\* SetTOTP with the secret the code was verified for.
Enable(w) ==
  /\ At(w, "enable")
  /\ account' = [enabled |-> TRUE, secret |-> req[w].secret]
  /\ Goto(w, "delete_codes")
  /\ UNCHANGED <<codes, passkeys, ceremonies, pending, clients, requests,
                 totpHistory, redeemed, faults>>

\* POST /api/account/2fa/disable, after the password.
TOTPDisable(w) ==
  /\ StartEnrolment(w, [Idle EXCEPT !.step = "turn_off"])
  /\ UNCHANGED <<totp, passkeys, ceremonies, pending, clients, proven,
                 shown, redeemed, faults>>

\* SetTOTP(false, nil).
TurnOff(w) ==
  /\ At(w, "turn_off")
  /\ account' = [enabled |-> FALSE, secret |-> None]
  /\ Goto(w, "delete_codes")
  /\ UNCHANGED <<codes, passkeys, ceremonies, pending, clients, requests,
                 totpHistory, redeemed, faults>>

\* POST /api/account/2fa/recovery-codes: GetAccount says enabled.
TOTPRecoveryRegenerate(w) ==
  /\ account.enabled
  /\ StartEnrolment(w, [Idle EXCEPT !.step = "delete_codes", !.secret = account.secret])
  /\ UNCHANGED <<totp, passkeys, ceremonies, pending, clients, proven,
                 shown, redeemed, faults>>

\* Mutant: the old codes stay.
DeleteCodes_Kept(w) ==
  /\ At(w, "delete_codes")
  /\ IF req[w].secret = None THEN Done(w) ELSE Goto(w, "insert_code")
  /\ UNCHANGED <<totp, passkeys, ceremonies, pending, clients, requests,
                 proven, shown, overlapped, redeemed, faults>>

\* ReplaceRecoveryCodes, the DELETE.  A disable is done with it.
DeleteCodes(w) ==
  /\ At(w, "delete_codes")
  /\ codes' = {}
  /\ shown' = None
  /\ IF req[w].secret = None THEN Done(w) ELSE Goto(w, "insert_code")
  /\ UNCHANGED <<account, passkeys, ceremonies, pending, clients, requests,
                 proven, overlapped, redeemed, faults>>

\* Mutant: the loop ends one code late.
InsertCode_OneMore(w) ==
  /\ At(w, "insert_code")
  /\ LET n == req[w].n + 1
     IN  /\ codes' = codes \cup {[set |-> req[w].id, n |-> n, secret |-> req[w].secret]}
         /\ IF n <= CodesPerSet
              THEN req' = [req EXCEPT ![w].n = n] /\ UNCHANGED shown
              ELSE Done(w) /\ shown' = req[w].id
  /\ UNCHANGED <<account, passkeys, ceremonies, pending, clients, requests,
                 proven, overlapped, redeemed, faults>>

\* ReplaceRecoveryCodes, one INSERT per code; after the last one the codes are
\* shown to the administrator.
InsertCode(w) ==
  /\ At(w, "insert_code")
  /\ LET n == req[w].n + 1
     IN  /\ codes' = codes \cup {[set |-> req[w].id, n |-> n, secret |-> req[w].secret]}
         /\ IF n < CodesPerSet
              THEN req' = [req EXCEPT ![w].n = n] /\ UNCHANGED shown
              ELSE Done(w) /\ shown' = req[w].id
  /\ UNCHANGED <<account, passkeys, ceremonies, pending, clients, requests,
                 proven, overlapped, redeemed, faults>>

-----------------------------------------------------------------------------
(* Passkeys: enrolment.                                                    *)

Begun == {c \in Numbers : issued[c] # "none"}
Keys == {p.key : p \in passkeys}

\* A client has an authenticator sign a challenge it was given; it may present
\* the response as often as it likes.
Sign(c, k) ==
  /\ c \in Begun
  /\ \A r \in responses : r.challenge # c
  /\ device' = IF issued[c] = "register" THEN device ELSE [device EXCEPT ![k] = @ + 1]
  /\ responses' = responses \cup {[challenge |-> c, key |-> k, count |-> device'[k]]}
  /\ UNCHANGED <<totp, passkeys, ceremonies, pending, req, issued, requests,
                 totpHistory, redeemed, faults>>

\* POST /api/account/webauthn/register/begin, after the password: Store under
\* the one key all enrolments share.
WebAuthnRegisterBegin ==
  /\ Arrive
  /\ registering' = requests'
  /\ issued' = [issued EXCEPT ![requests'] = "register"]
  /\ UNCHANGED <<totp, passkeys, asserting, pending, req, responses, device,
                 totpHistory, redeemed, faults>>

\* POST /api/account/webauthn/register/finish: Take, then the response must
\* answer the challenge that was taken.
WebAuthnRegisterFinish(w, r) ==
  /\ issued[r.challenge] = "register"
  /\ Start(w, IF registering = r.challenge
                THEN [Idle EXCEPT !.step = "insert_passkey", !.challenge = r.challenge,
                                  !.key = r.key, !.count = r.count]
                ELSE Idle)
  /\ registering' = None
  /\ UNCHANGED <<totp, passkeys, asserting, pending, clients, totpHistory, redeemed,
                 faults>>

\* AddWebAuthnCredential; credential_id is UNIQUE.
AddWebAuthnCredential(w) ==
  /\ At(w, "insert_passkey")
  /\ IF req[w].key \in Keys THEN UNCHANGED <<passkeys, redeemed>>
     ELSE /\ passkeys' = passkeys \cup {[key |-> req[w].key, count |-> req[w].count]}
          /\ redeemed' = [redeemed EXCEPT ![req[w].challenge] = @ + 1]
  /\ Done(w)
  /\ UNCHANGED <<totp, ceremonies, pending, clients, requests, totpHistory, faults>>

\* DELETE /api/account/webauthn/credentials/{id}, of whatever row has the id by now.
WebAuthnDelete(p) ==
  /\ passkeys' = passkeys \ {p}
  /\ UNCHANGED <<totp, ceremonies, pending, req, clients, requests, totpHistory,
                 redeemed, faults>>

-----------------------------------------------------------------------------
(* Passkeys: sign-in.                                                      *)

\* POST /api/auth/2fa/webauthn/begin: VerifyPending.
WebAuthnLoginBegin(w, t) ==
  /\ t \in pending
  /\ Start(w, [Idle EXCEPT !.step = "begin_login", !.token = t])
  /\ UNCHANGED <<totp, passkeys, ceremonies, pending, clients, totpHistory, redeemed,
                 faults>>

\* loadWebAuthnUser, BeginLogin and Store under the pending token.
BeginLogin(w) ==
  /\ At(w, "begin_login")
  /\ IF passkeys = {} THEN UNCHANGED <<asserting, issued>>
     ELSE /\ asserting' = [asserting EXCEPT ![req[w].token] = req[w].id]
          /\ issued' = [issued EXCEPT ![req[w].id] = req[w].token]
  /\ Done(w)
  /\ UNCHANGED <<totp, passkeys, registering, pending, responses, device, requests,
                 totpHistory, redeemed, faults>>

\* POST /api/auth/2fa/webauthn/finish: VerifyPending.
WebAuthnLoginFinish(w, t, r) ==
  /\ t \in pending
  /\ issued[r.challenge] \in Pendings
  /\ Start(w, [Idle EXCEPT !.step = "take", !.token = t, !.challenge = r.challenge,
                           !.key = r.key, !.count = r.count])
  /\ UNCHANGED <<totp, passkeys, ceremonies, pending, clients, totpHistory, redeemed,
                 faults>>

\* Mutant: the ceremony is left in the cache.
Take_Kept(w) ==
  /\ At(w, "take")
  /\ IF asserting[req[w].token] = req[w].challenge THEN Goto(w, "load") ELSE Done(w)
  /\ UNCHANGED <<totp, passkeys, ceremonies, pending, clients, requests,
                 totpHistory, redeemed, faults>>

\* Take; the response must answer the challenge that was taken.
Take(w) ==
  /\ At(w, "take")
  /\ IF asserting[req[w].token] = req[w].challenge THEN Goto(w, "load") ELSE Done(w)
  /\ asserting' = [asserting EXCEPT ![req[w].token] = None]
  /\ UNCHANGED <<totp, passkeys, registering, pending, clients, requests,
                 totpHistory, redeemed, faults>>

\* FinishLogin in go-webauthn: a counter that did not grow is kept.
Counter(stored, reported) == IF reported > stored THEN reported ELSE stored

\* loadWebAuthnUser and FinishLogin: the passkey is still enrolled.
FinishLogin(w) ==
  /\ At(w, "load")
  /\ \/ /\ req[w].key \notin Keys
        /\ Done(w)
     \/ \E p \in passkeys :
          /\ p.key = req[w].key
          /\ req' = [req EXCEPT ![w].step = "sign_count", ![w].count = Counter(p.count, @)]
  /\ UNCHANGED <<totp, passkeys, ceremonies, pending, clients, requests,
                 totpHistory, redeemed, faults>>

\* UpdateWebAuthnSignCount (and the backup flag, which nothing depends on); an
\* error is only logged.
UpdateSignCount(w) ==
  /\ At(w, "sign_count")
  /\ \/ /\ passkeys' = {IF p.key = req[w].key THEN [p EXCEPT !.count = req[w].count] ELSE p :
                           p \in passkeys}
        /\ UNCHANGED faults
     \/ Fault /\ UNCHANGED passkeys
  /\ Goto(w, "consume")
  /\ UNCHANGED <<totp, ceremonies, pending, clients, requests, totpHistory, redeemed>>

\* ConsumePending; an error is ignored.
ConsumePending(w) ==
  /\ At(w, "consume")
  /\ \/ pending' = pending \ {req[w].token} /\ UNCHANGED faults
     \/ Fault /\ UNCHANGED pending
  /\ Goto(w, "mint")
  /\ UNCHANGED <<totp, passkeys, ceremonies, clients, requests, totpHistory, redeemed>>

\* MintSession.
MintSession(w) ==
  /\ At(w, "mint")
  /\ redeemed' = [redeemed EXCEPT ![req[w].challenge] = @ + 1]
  /\ Done(w)
  /\ UNCHANGED <<totp, passkeys, ceremonies, pending, clients, requests, totpHistory, faults>>

-----------------------------------------------------------------------------
(* The environment.                                                        *)

\* A ceremony expires, and GC or the Take that finds it deletes it.
ExpireCeremony ==
  /\ \/ registering # None /\ registering' = None /\ UNCHANGED asserting
     \/ /\ \E t \in Pendings : asserting[t] # None /\ asserting' = [asserting EXCEPT ![t] = None]
        /\ UNCHANGED registering
  /\ UNCHANGED <<totp, passkeys, pending, req, clients, requests, totpHistory, redeemed, faults>>

\* A pending token expires, is tried too often or is redeemed with a code.
DropPending(t) ==
  /\ t \in pending
  /\ pending' = pending \ {t}
  /\ UNCHANGED <<totp, passkeys, ceremonies, req, clients, requests, totpHistory,
                 redeemed, faults>>

\* A statement fails and the request is answered 500.
StatementFails(w) ==
  /\ req[w].step \in {"enable", "turn_off", "delete_codes", "insert_code",
                      "insert_passkey", "begin_login", "load", "mint"}
  /\ Fault
  /\ Done(w)
  /\ UNCHANGED <<totp, passkeys, ceremonies, pending, clients, requests, totpHistory, redeemed>>

\* The process restarts: requests end wherever they are, and the ceremonies
\* were only in its memory.
Crash ==
  /\ Fault
  /\ req' = [w \in Workers |-> Idle]
  /\ registering' = None
  /\ asserting' = [t \in Pendings |-> None]
  /\ UNCHANGED <<totp, passkeys, pending, clients, requests, totpHistory, redeemed>>

Enrolment(w) ==
  \/ TOTPConfirm(w) \/ Enable(w)
  \/ TOTPDisable(w) \/ TurnOff(w)
  \/ TOTPRecoveryRegenerate(w)
  \/ DeleteCodes(w) \/ InsertCode(w)

Passkeys(w) ==
  \/ \E r \in responses : WebAuthnRegisterFinish(w, r)
  \/ AddWebAuthnCredential(w)
  \/ \E t \in Pendings : WebAuthnLoginBegin(w, t)
  \/ BeginLogin(w)
  \/ \E t \in Pendings, r \in responses : WebAuthnLoginFinish(w, t, r)
  \/ Take(w) \/ FinishLogin(w) \/ UpdateSignCount(w) \/ ConsumePending(w) \/ MintSession(w)

Next ==
  \/ TOTPEnroll
  \/ \E w \in Workers : Enrolment(w) \/ Passkeys(w) \/ StatementFails(w)
  \/ WebAuthnRegisterBegin
  \/ \E p \in passkeys : WebAuthnDelete(p)
  \/ \E c \in Numbers, k \in Authenticators : Sign(c, k)
  \/ ExpireCeremony
  \/ \E t \in Pendings : DropPending(t)
  \/ Crash

Spec == Init /\ [][Next]_vars

-----------------------------------------------------------------------------
\* Every variable has its type.
TypeOK ==
  /\ account \in [enabled : BOOLEAN, secret : Numbers \cup {None}]
  /\ codes \subseteq [set : Numbers, n : 1..CodesPerSet, secret : Numbers]
  /\ passkeys \subseteq [key : Authenticators, count : Nat]
  /\ registering \in Numbers \cup {None}
  /\ asserting \in [Pendings -> Numbers \cup {None}]
  /\ pending \subseteq Pendings
  /\ req \in [Workers -> Request]
  /\ responses \subseteq [challenge : Numbers, key : Authenticators, count : Nat]
  /\ issued \in [Numbers -> Pendings \cup {"none", "register"}]
  /\ device \in [Authenticators -> Nat]
  /\ requests \in 0..MaxRequests
  /\ proven \subseteq Numbers /\ shown \in Numbers \cup {None}
  /\ overlapped \in BOOLEAN
  /\ redeemed \in [Numbers -> Nat] /\ faults \in 0..MaxFaults

\* "only on success marks two-factor enabled": the secret that is enabled is
\* one the administrator has proven to hold, whatever enrolments, confirms
\* and disables run at the same time.
EnabledSecretIsProven == account.enabled => account.secret \in proven

\* "invalidates every existing recovery code and mints a fresh set": the codes
\* in the table are of one set, and the set the administrator was shown last is
\* all there until a request deletes it - also when failures cut other requests
\* short.  When nothing failed or is under way an enabled enrolment has codes,
\* all minted for it, and a disable leaves none.  DELETE and INSERTs are not a
\* transaction, so it takes requests that do not overlap.
CodesAreThoseShown ==
  ~ overlapped =>
    /\ \A c, d \in codes : c.set = d.set
    /\ shown # None => \A n \in 1..CodesPerSet : \E c \in codes : c.set = shown /\ c.n = n
    /\ faults = 0 /\ (\A w \in Workers : req[w].step \notin EnrolmentSteps) =>
         /\ account.enabled => shown # None /\ \A c \in codes : c.secret = account.secret
         /\ account.secret = None => codes = {}

\* "Take deletes the entry it returns so a session can never be replayed
\* against a second Finish call": no challenge leads to two sessions, two
\* passkeys or one of each, however often and where its answer is presented.
ChallengeIsSingleUse == \A c \in Numbers : redeemed[c] <= 1
=============================================================================
