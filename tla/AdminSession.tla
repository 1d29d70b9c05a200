---------------------------- MODULE AdminSession ----------------------------
(***************************************************************************)
(* The administrator's sign-in:                                            *)
(*   internal/auth/auth.go            password, pending tokens, sessions   *)
(*   internal/sessionstore/store.go   their table, when one is configured  *)
(*   internal/admin/store.go          password, recovery codes, resets     *)
(*   internal/api/auth.go, account.go, account_reset.go   the handlers     *)
(*                                                                         *)
(* A worker is a goroutine serving one request after another.  Each SQL    *)
(* statement and each critical section of Authenticator.mu is a step.  A   *)
(* refused request (wrong password, unknown token, limiter) changes        *)
(* nothing here and is not a step.  Whether the account has a second       *)
(* factor is fixed in a behaviour: its enrolment is a subject of its own.  *)
(***************************************************************************)
EXTENDS Naturals, FiniteSets

CONSTANTS
  Workers,             \* goroutines serving requests
  Tokens,              \* random tokens, of pending logins and of sessions
  Codes,               \* the recovery codes of the account
  ResetTokens,         \* random tokens of emailed reset links
  Passwords,           \* passwords the administrator may choose
  Configured,          \* MAILFOLD_ADMIN_PASSWORD
  MaxPendingAttempts,  \* maxPendingAttempts, 5 in the code
  MaxFaults,           \* bound on failed statements
  MaxCrashes           \* bound on process restarts

ASSUME PasswordsAssumption == Configured \in Passwords
ASSUME WorkersAssumption == IsFiniteSet(Workers)
ASSUME AttemptsAssumption == MaxPendingAttempts \in Nat
ASSUME BoundsAssumption == MaxFaults \in Nat /\ MaxCrashes \in Nat

VARIABLES
  stored,       \* the session table could be opened at startup
  enrolled,     \* the account has a second factor
  memHash,      \* Authenticator.passwordHash, Configured for ""
  dbHash,       \* admin_account.password_hash, Configured for ""
  token,        \* what each token stands for
  tries,        \* attempts of each pending login
  expired,      \* tokens past their expires_at
  unusedCodes,  \* rows of admin_recovery_code with used_at = 0
  reset,        \* rows of admin_reset_token
  worker,       \* where each worker is in its request
  via,          \* history: the pending login each session came through
  checks,       \* history: codes checked against each pending login
  passes,       \* history: codes that verified for each pending login
  spent,        \* history: logins each recovery code let through
  redeemed,     \* history: passwords stored for each reset token
  old,          \* history: sessions there were when a reset last stored one
  apart,        \* history: why memory and table may hold different passwords:
                \* "race" of two changes, "unread" at startup, or "no" reason
  failedOpen,   \* history: logins let through because the account's second
                \* factor could not be read
  faults,       \* history: failed statements so far
  crashes       \* history: restarts so far

account == <<enrolled, memHash, dbHash, unusedCodes, reset>>
sessions == <<token, tries, expired>>
history == <<via, checks, passes, spent, redeemed, old, apart, failedOpen>>
vars == <<stored, account, sessions, worker, history, faults, crashes>>

-----------------------------------------------------------------------------
None == "none"

ASSUME NoneAssumption == None \notin Tokens /\ None \notin ResetTokens

TokenKinds == {"unused", "pending", "session", "gone"}
Steps == {"idle", "checked", "issue", "mint", "code", "consume", "drop",
          "revoke", "spend", "storeHash", "setHash", "revokeAll"}

Idle == [at |-> "idle", pw |-> Configured, token |-> None, reset |-> None]

Init ==
  /\ stored \in BOOLEAN
  /\ enrolled \in BOOLEAN
  /\ memHash = Configured
  /\ dbHash = Configured
  /\ token = [t \in Tokens |-> "unused"]
  /\ tries = [t \in Tokens |-> 0]
  /\ expired = {}
  /\ unusedCodes = Codes
  /\ reset = [r \in ResetTokens |-> "unsent"]
  /\ worker = [w \in Workers |-> Idle]
  /\ via = [t \in Tokens |-> None]
  /\ checks = [t \in Tokens |-> 0]
  /\ passes = [t \in Tokens |-> 0]
  /\ spent = [c \in Codes |-> 0]
  /\ redeemed = [r \in ResetTokens |-> 0]
  /\ old = {}
  /\ apart = "no"
  /\ failedOpen = 0
  /\ faults = 0
  /\ crashes = 0

goto(w, state) == worker' = [worker EXCEPT ![w] = state]
step(w, at) == goto(w, [worker[w] EXCEPT !.at = at])

\* A statement fails and changes nothing.
Fails == faults < MaxFaults /\ faults' = faults + 1

\* A statement on the session table fails; the in-memory maps never do.
SessionFails == stored /\ Fails

Alive(t) == token[t] = "session" /\ t \notin expired

Delete(t) == token' = [token EXCEPT ![t] = "gone"]

-----------------------------------------------------------------------------
(* POST /api/auth/login.                                                   *)

\* The password presented is the one memHash holds at this moment.
CheckPassword(w) ==
  /\ worker[w] = Idle
  /\ goto(w, [Idle EXCEPT !.at = "checked"])
  /\ UNCHANGED <<stored, account, sessions, history, faults, crashes>>

\* Mutant: nobody is asked for the second factor.
SecondFactor_Skipped(w) ==
  /\ worker[w].at = "checked"
  /\ step(w, "mint")
  /\ UNCHANGED <<stored, account, sessions, history, faults, crashes>>

\* totpEnabled, hasWebAuthnCredentials: a failed read counts as "no".
SecondFactor(w) ==
  /\ worker[w].at = "checked"
  /\ \/ /\ step(w, IF enrolled THEN "issue" ELSE "mint")
        /\ UNCHANGED <<failedOpen, faults>>
     \/ /\ Fails
        /\ step(w, "mint")
        /\ failedOpen' = failedOpen + 1
  /\ UNCHANGED <<stored, account, sessions, crashes,
                 via, checks, passes, spent, redeemed, old, apart>>

IssuePending(w) ==
  /\ worker[w].at = "issue"
  /\ goto(w, Idle)
  /\ \/ \E t \in Tokens :
          /\ token[t] = "unused"
          /\ token' = [token EXCEPT ![t] = "pending"]
          /\ UNCHANGED faults
     \/ SessionFails /\ UNCHANGED token
  /\ UNCHANGED <<stored, account, tries, expired, crashes,
                 via, checks, passes, spent, redeemed, old, apart, failedOpen>>

MintSession(w) ==
  /\ worker[w].at = "mint"
  /\ goto(w, Idle)
  /\ \/ \E t \in Tokens :
          /\ token[t] = "unused"
          /\ token' = [token EXCEPT ![t] = "session"]
          /\ via' = [via EXCEPT ![t] = worker[w].token]
          /\ UNCHANGED faults
     \/ SessionFails /\ UNCHANGED <<token, via>>
  /\ UNCHANGED <<stored, account, tries, expired, crashes,
                 checks, passes, spent, redeemed, old, apart, failedOpen>>

-----------------------------------------------------------------------------
(* POST /api/auth/login/2fa.                                               *)

\* A pending login that is refused is deleted: at once in memory, by a
\* statement of its own in the table.
refuse(w, t) ==
  \/ stored /\ goto(w, [Idle EXCEPT !.at = "drop", !.token = t]) /\ UNCHANGED token
  \/ ~ stored /\ Delete(t) /\ UNCHANGED worker

\* Mutant: one attempt too many.
VerifyPending_OneMore(w, t) ==
  /\ worker[w] = Idle
  /\ token[t] = "pending"
  /\ \/ /\ tries' = [tries EXCEPT ![t] = IF stored \/ t \notin expired THEN @ + 1 ELSE @]
        /\ IF t \in expired \/ tries[t] > MaxPendingAttempts
             THEN refuse(w, t)
             ELSE /\ goto(w, [Idle EXCEPT !.at = "code", !.token = t])
                  /\ UNCHANGED token
        /\ UNCHANGED faults
     \/ SessionFails /\ UNCHANGED <<token, tries, worker>>
  /\ UNCHANGED <<stored, account, expired, history, crashes>>

\* VerifyPending, IncrementAttempts: the counter is read after it was bumped.
VerifyPending(w, t) ==
  /\ worker[w] = Idle
  /\ token[t] = "pending"
  /\ \/ /\ tries' = [tries EXCEPT ![t] = IF stored \/ t \notin expired THEN @ + 1 ELSE @]
        /\ IF t \in expired \/ tries[t] + 1 > MaxPendingAttempts
             THEN refuse(w, t)
             ELSE /\ goto(w, [Idle EXCEPT !.at = "code", !.token = t])
                  /\ UNCHANGED token
        /\ UNCHANGED faults
     \/ SessionFails /\ UNCHANGED <<token, tries, worker>>
  /\ UNCHANGED <<stored, account, expired, history, crashes>>

\* Deletes a refused token; an error is ignored.
Drop(w) ==
  /\ worker[w].at = "drop"
  /\ goto(w, Idle)
  /\ \/ Delete(worker[w].token) /\ UNCHANGED faults
     \/ SessionFails /\ UNCHANGED token
  /\ UNCHANGED <<stored, account, tries, expired, history, crashes>>

\* The UPDATE ... WHERE used_at = 0 found the row.
ConsumeRecoveryCode(c) == c \in unusedCodes /\ unusedCodes' = unusedCodes \ {c}

\* The two answers of verifyTOTPOrRecovery.
Accepted(w) ==
  /\ step(w, "consume")
  /\ checks' = [checks EXCEPT ![worker[w].token] = @ + 1]
  /\ passes' = [passes EXCEPT ![worker[w].token] = @ + 1]

Rejected(w) ==
  /\ goto(w, Idle)
  /\ checks' = [checks EXCEPT ![worker[w].token] = @ + 1]
  /\ UNCHANGED passes

\* verifyTOTPOrRecovery: a TOTP code, a recovery code, a wrong one, or a
\* statement that fails.
verifyTOTPOrRecovery(w) ==
  /\ worker[w].at = "code"
  /\ \/ Accepted(w) /\ UNCHANGED <<unusedCodes, spent, faults>>
     \/ \E c \in Codes :
          /\ ConsumeRecoveryCode(c)
          /\ spent' = [spent EXCEPT ![c] = @ + 1]
          /\ Accepted(w)
          /\ UNCHANGED faults
     \/ Rejected(w) /\ UNCHANGED <<unusedCodes, spent, faults>>
     \/ Rejected(w) /\ Fails /\ UNCHANGED <<unusedCodes, spent>>
  /\ UNCHANGED <<stored, enrolled, memHash, dbHash, reset, sessions, crashes,
                 via, redeemed, old, apart, failedOpen>>

\* ConsumePending; an error is ignored.
ConsumePending(w) ==
  /\ worker[w].at = "consume"
  /\ step(w, "mint")
  /\ \/ Delete(worker[w].token) /\ UNCHANGED faults
     \/ SessionFails /\ UNCHANGED token
  /\ UNCHANGED <<stored, account, tries, expired, history, crashes>>

-----------------------------------------------------------------------------
(* The session list.                                                       *)

\* POST /api/auth/logout; an error is ignored.
Logout(s) ==
  /\ token[s] = "session"
  /\ \/ Delete(s) /\ UNCHANGED faults
     \/ SessionFails /\ UNCHANGED token
  /\ UNCHANGED <<stored, account, tries, expired, worker, history, crashes>>

\* Validate of a session past its expiry.
ValidateExpired(w, s) ==
  /\ worker[w] = Idle
  /\ token[s] = "session"
  /\ s \in expired
  /\ refuse(w, s)
  /\ UNCHANGED <<stored, account, tries, expired, history, faults, crashes>>

\* DELETE /api/account/sessions/{id}, up to the list of the sessions: not the
\* caller's own.
RevokeLookup(w, s, t) ==
  /\ worker[w] = Idle
  /\ Alive(s)
  /\ s # t
  /\ token[t] = "session"
  /\ stored => t \notin expired
  /\ goto(w, [Idle EXCEPT !.at = "revoke", !.token = t])
  /\ UNCHANGED <<stored, account, sessions, history, faults, crashes>>

\* RevokeByID: the DELETE; it may find the row gone.
RevokeByID(w) ==
  /\ worker[w].at = "revoke"
  /\ goto(w, Idle)
  /\ \/ Delete(worker[w].token) /\ UNCHANGED faults
     \/ SessionFails /\ UNCHANGED token
  /\ UNCHANGED <<stored, account, tries, expired, history, crashes>>

\* RevokeAllExcept: every session but those in keep.
revokeAllExcept(keep) ==
  token' = [t \in Tokens |-> IF token[t] = "session" /\ t \notin keep
                               THEN "gone" ELSE token[t]]

\* POST /api/account/sessions/revoke-all; an error is reported as none revoked.
SignOutOthers(s) ==
  /\ Alive(s)
  /\ \/ revokeAllExcept({s}) /\ UNCHANGED faults
     \/ SessionFails /\ UNCHANGED token
  /\ UNCHANGED <<stored, account, tries, expired, worker, history, crashes>>

-----------------------------------------------------------------------------
(* A new password: PUT /api/account/password, or a reset.                  *)

\* handlePasswordChange up to the current password.
ChangePassword(w, s, new) ==
  /\ worker[w] = Idle
  /\ Alive(s)
  /\ goto(w, [Idle EXCEPT !.at = "storeHash", !.pw = new])
  /\ UNCHANGED <<stored, account, sessions, history, faults, crashes>>

\* tryStartPasswordReset: the link is emailed after its token is stored.
CreateResetToken(r) ==
  /\ reset[r] = "unsent"
  /\ reset' = [reset EXCEPT ![r] = "sent"]
  /\ UNCHANGED <<stored, enrolled, memHash, dbHash, unusedCodes, sessions, worker,
                 history, faults, crashes>>

\* ConsumeResetToken, the SELECT: the token is there, unused and not expired.
ConsumeResetToken(w, r, new) ==
  /\ worker[w] = Idle
  /\ reset[r] = "sent"
  /\ goto(w, [Idle EXCEPT !.at = "spend", !.pw = new, !.reset = r])
  /\ UNCHANGED <<stored, account, sessions, history, faults, crashes>>

\* Mutant: the password is stored without the link being marked used.
SpendResetToken_NotMarked(w) ==
  /\ worker[w].at = "spend"
  /\ step(w, "storeHash")
  /\ UNCHANGED <<reset, faults, stored, enrolled, memHash, dbHash, unusedCodes,
                 sessions, history, crashes>>

\* ConsumeResetToken, the UPDATE, whatever the row holds by now.
SpendResetToken(w) ==
  /\ worker[w].at = "spend"
  /\ \/ /\ reset' = [reset EXCEPT ![worker[w].reset] = "used"]
        /\ step(w, "storeHash")
        /\ UNCHANGED faults
     \/ Fails /\ goto(w, Idle) /\ UNCHANGED reset
  /\ UNCHANGED <<stored, enrolled, memHash, dbHash, unusedCodes, sessions,
                 history, crashes>>

\* What the history keeps of a stored password.
noteStored(w) ==
  /\ apart' = IF \E v \in Workers : worker[v].at = "setHash" THEN "race" ELSE "no"
  /\ redeemed' = [r \in ResetTokens |->
                    IF r = worker[w].reset THEN redeemed[r] + 1 ELSE redeemed[r]]
  /\ old' = IF worker[w].reset = None THEN old
            ELSE {t \in Tokens : token[t] = "session"}

\* Mutant: an error of the statement is ignored.
StoreHash_IgnoresError(w) ==
  /\ worker[w].at = "storeHash"
  /\ step(w, "setHash")
  /\ noteStored(w)
  /\ \/ dbHash' = worker[w].pw /\ UNCHANGED faults
     \/ Fails /\ UNCHANGED dbHash
  /\ UNCHANGED <<stored, enrolled, memHash, unusedCodes, reset, sessions, crashes,
                 via, checks, passes, spent, failedOpen>>

\* Store.SetPasswordHash: the table comes first.
StoreHash(w) ==
  /\ worker[w].at = "storeHash"
  /\ \/ /\ dbHash' = worker[w].pw
        /\ step(w, "setHash")
        /\ noteStored(w)
        /\ UNCHANGED faults
     \/ Fails /\ goto(w, Idle) /\ UNCHANGED <<dbHash, apart, redeemed, old>>
  /\ UNCHANGED <<stored, enrolled, memHash, unusedCodes, reset, sessions, crashes,
                 via, checks, passes, spent, failedOpen>>

\* Mutant: a reset does not go on to the sessions.
SetHash_NoRevoke(w) ==
  /\ worker[w].at = "setHash"
  /\ memHash' = worker[w].pw
  /\ goto(w, Idle)
  /\ UNCHANGED <<stored, enrolled, dbHash, unusedCodes, reset, sessions,
                 history, faults, crashes>>

\* Authenticator.SetPasswordHash; a reset goes on to revoke the sessions.
SetHash(w) ==
  /\ worker[w].at = "setHash"
  /\ memHash' = worker[w].pw
  /\ goto(w, IF worker[w].reset = None THEN Idle ELSE [Idle EXCEPT !.at = "revokeAll"])
  /\ UNCHANGED <<stored, enrolled, dbHash, unusedCodes, reset, sessions,
                 history, faults, crashes>>

\* RevokeAllExcept(""); its result is not looked at.
RevokeAll(w) ==
  /\ worker[w].at = "revokeAll"
  /\ goto(w, Idle)
  /\ \/ revokeAllExcept({}) /\ UNCHANGED faults
     \/ SessionFails /\ UNCHANGED token
  /\ UNCHANGED <<stored, account, tries, expired, history, crashes>>

-----------------------------------------------------------------------------
(* Time and restarts.                                                      *)

Expire(t) ==
  /\ token[t] \in {"pending", "session"}
  /\ t \notin expired
  /\ expired' = expired \cup {t}
  /\ UNCHANGED <<stored, account, token, tries, worker, history, faults, crashes>>

ExpireReset(r) ==
  /\ reset[r] = "sent"
  /\ reset' = [reset EXCEPT ![r] = "expired"]
  /\ UNCHANGED <<stored, enrolled, memHash, dbHash, unusedCodes, sessions, worker,
                 history, faults, crashes>>

\* What GC deletes.
Collectable == {t \in expired : token[t] \in {"pending", "session"}}

GC ==
  /\ Collectable # {}
  /\ \/ /\ token' = [t \in Tokens |-> IF t \in Collectable THEN "gone" ELSE token[t]]
        /\ UNCHANGED faults
     \/ SessionFails /\ UNCHANGED token
  /\ UNCHANGED <<stored, account, tries, expired, worker, history, crashes>>

\* openAdminStore: the stored password, or the configured one when it cannot
\* be read.
LoadHash ==
  \/ memHash' = dbHash /\ apart' = "no" /\ UNCHANGED faults
  \/ Fails /\ memHash' = Configured /\ apart' = "unread"

\* The process dies and starts again; the maps of an Authenticator without a
\* table start empty.
Restart ==
  /\ crashes < MaxCrashes
  /\ crashes' = crashes + 1
  /\ worker' = [w \in Workers |-> Idle]
  /\ token' = IF stored THEN token
              ELSE [t \in Tokens |-> IF token[t] = "unused" THEN "unused" ELSE "gone"]
  /\ LoadHash
  /\ UNCHANGED <<stored, enrolled, dbHash, unusedCodes, reset, tries, expired,
                 via, checks, passes, spent, redeemed, old, failedOpen>>

-----------------------------------------------------------------------------
Login(w) == CheckPassword(w) \/ SecondFactor(w) \/ IssuePending(w) \/ MintSession(w)

Login2FA(w) ==
  \/ \E t \in Tokens : VerifyPending(w, t)
  \/ Drop(w)
  \/ verifyTOTPOrRecovery(w)
  \/ ConsumePending(w)

SessionList(w) ==
  \/ \E s \in Tokens : Logout(s) \/ SignOutOthers(s) \/ ValidateExpired(w, s)
  \/ \E s \in Tokens, t \in Tokens : RevokeLookup(w, s, t)
  \/ RevokeByID(w)

NewPassword(w) ==
  \/ \E s \in Tokens, new \in Passwords : ChangePassword(w, s, new)
  \/ \E r \in ResetTokens, new \in Passwords : ConsumeResetToken(w, r, new)
  \/ SpendResetToken(w)
  \/ StoreHash(w)
  \/ SetHash(w)
  \/ RevokeAll(w)

Next ==
  \/ \E w \in Workers : Login(w) \/ Login2FA(w) \/ SessionList(w) \/ NewPassword(w)
  \/ \E r \in ResetTokens : CreateResetToken(r) \/ ExpireReset(r)
  \/ \E t \in Tokens : Expire(t)
  \/ GC
  \/ Restart

Spec == Init /\ [][Next]_vars

-----------------------------------------------------------------------------
(* Properties.                                                             *)

WorkerType == [at : Steps, pw : Passwords, token : Tokens \cup {None},
               reset : ResetTokens \cup {None}]

\* Every variable has its type, and a worker that is to change a token knows
\* which one.
TypeOK ==
  /\ stored \in BOOLEAN /\ enrolled \in BOOLEAN /\ apart \in {"no", "race", "unread"}
  /\ memHash \in Passwords /\ dbHash \in Passwords
  /\ token \in [Tokens -> TokenKinds]
  /\ tries \in [Tokens -> Nat]
  /\ expired \subseteq Tokens
  /\ unusedCodes \subseteq Codes
  /\ reset \in [ResetTokens -> {"unsent", "sent", "expired", "used"}]
  /\ worker \in [Workers -> WorkerType]
  /\ \A w \in Workers :
       /\ worker[w].at \in {"code", "consume", "drop", "revoke"} => worker[w].token # None
       /\ worker[w].at = "spend" => worker[w].reset # None
  /\ old \subseteq Tokens
  /\ via \in [Tokens -> Tokens \cup {None}]
  /\ checks \in [Tokens -> Nat] /\ passes \in [Tokens -> Nat]
  /\ spent \in [Codes -> Nat] /\ redeemed \in [ResetTokens -> Nat]
  /\ failedOpen \in Nat /\ faults \in Nat /\ crashes \in Nat

\* However many requests present a pending token at once, and whatever fails,
\* no more than maxPendingAttempts codes are ever checked against it
\* (VerifyPending, IncrementAttempts).
AtMostFiveTries == \A t \in Tokens : checks[t] <= MaxPendingAttempts

\* A recovery code lets one login through, also when several present it at
\* once (ConsumeRecoveryCode: "each one works exactly once").
RecoveryCodeOnce == \A c \in Codes : spent[c] <= 1

SessionsVia(t) == {s \in Tokens : token[s] = "session" /\ via[s] = t}

\* With a second factor every session has a verified code of its own behind
\* it, but for logins that could not read the account ("the password alone is
\* never enough to sign in", and totpEnabled).
SessionNeedsACode ==
  enrolled =>
    /\ Cardinality(SessionsVia(None)) <= failedOpen
    /\ \A t \in Tokens : Cardinality(SessionsVia(t)) <= passes[t]

\* The password compared with and the password stored are the same whenever no
\* request stands between the two writes, also after a crash or a failed
\* statement; only two changes that overlapped, or a failed read at startup,
\* set them apart (handlePasswordChange, handleResetPassword, openAdminStore).
PasswordsAgree ==
  \/ memHash = dbHash
  \/ \E w \in Workers : worker[w].at = "setHash"
  \/ apart # "no"

\* A reset signs out every session there was before it: one survives only while
\* the reset is still under way, or when a statement failed or the process
\* died in the middle (handleResetPassword).
OldSessionsAreRevoked ==
  \/ \A s \in old : token[s] # "session"
  \/ \E w \in Workers : \/ (worker[w].at = "setHash" /\ worker[w].reset # None)
                         \/ worker[w].at = "revokeAll"
  \/ faults > 0
  \/ crashes > 0

\* How far "ResetToken is a single-use, time-limited password-reset token"
\* (admin/store.go) holds: the SELECT and the UPDATE of ConsumeResetToken are two
\* statements, so a link stores a password once for every request that read it
\* before the first marked it used, and never again after that.
ResetLinkUsesOverlap ==
  \A r \in ResetTokens :
    redeemed[r] + Cardinality({w \in Workers :
      worker[w].reset = r /\ worker[w].at \in {"spend", "storeHash"}})
        <= Cardinality(Workers)
=============================================================================
