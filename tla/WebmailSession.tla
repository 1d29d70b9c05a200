--------------------------- MODULE WebmailSession ---------------------------
(***************************************************************************)
(* A mailbox user's sign-in to webmail, and the sessions that hold their   *)
(* mailbox password.                                                       *)
(*   internal/api/webmail.go         login, logout, requireWebmail         *)
(*   internal/api/webmail_totp.go    the second factor                     *)
(*   internal/webmail/session.go     Sessions, in memory or in the table   *)
(*   internal/sessionstore/store.go  session_token                         *)
(*   internal/webmailuser/store.go   account and recovery codes            *)
(*                                                                         *)
(* One mailbox.  With a master key sessions are rows, their password       *)
(* encrypted under it; without one they are in memory and there is no      *)
(* second factor to verify.  The process may restart with another key, or  *)
(* none.  Every statement is a step and requests interleave.  A token, a   *)
(* secret and a set of codes have the number of the request that made      *)
(* them; number 1 is an enrolment made long ago.  IMAP is external: it     *)
(* knows the password, and only requests that gave the right one are here. *)
(***************************************************************************)
EXTENDS Integers, FiniteSets

CONSTANTS
  Workers,            \* requests that run at the same time
  maxPendingAttempts, \* codes that may be tried on one pending token
  CodesPerSet,        \* recovery codes in a set
  MaxRequests,        \* bound on requests, with the enrolment of long ago
  MaxFaults           \* bound on failed statements and restarts

ASSUME WebmailSessionAssumption ==
  /\ IsFiniteSet(Workers)
  /\ maxPendingAttempts \in Nat \ {0} /\ CodesPerSet \in Nat \ {0}
  /\ MaxRequests \in Nat \ {0} /\ MaxFaults \in Nat

VARIABLES
  masterKey,  \* MAILFOLD_ADMIN_ENC_KEY of this process, 0 being none
  account,    \* webmail_user_account: [enabled, secret, key]
  codes,      \* webmail_user_recovery_code: [set, n, used]
  rows,       \* session_token: token -> [kind, key, attempts, expired], or none
  memory,     \* Sessions.m of both kinds: the same, key 0
  req,        \* worker -> the request it serves
  requests,   \* history: requests begun
  minted,     \* history: [token, pending, code, off, alone] of every session
  tried,      \* history: pending token -> codes tried on it
  proven,     \* history: secrets a code was verified for
  out,        \* history: tokens a logout deleted
  faults

tables == <<account, codes, rows>>
history == <<minted, tried, proven, out>>
vars == <<masterKey, tables, memory, req, requests, history, faults>>

-----------------------------------------------------------------------------
Numbers == 1..MaxRequests
Keys == 0..2
None == 0

Gone == [kind |-> "gone", key |-> 0, attempts |-> 0, expired |-> FALSE]
WrongCode == [secret |-> 0, set |-> 0, n |-> 0]

\* off (history): the second factor was off, or could not be read, at some time
\* of this login; alone (history): no other verify of its token ran meanwhile.
Idle == [step |-> "idle", id |-> 0, token |-> 0, code |-> WrongCode, secret |-> 0,
         key |-> 0, n |-> 0, off |-> FALSE, alone |-> TRUE]

Steps == {"account", "pend", "admit", "increment", "drop", "get", "check", "consume",
          "finish", "mint", "logout", "enable", "turn_off", "delete_codes", "insert_code"}

OldSet == {[set |-> 1, n |-> n, used |-> FALSE] : n \in 1..CodesPerSet}

Init ==
  /\ masterKey \in {0, 1}
  /\ \/ account = [enabled |-> FALSE, secret |-> None, key |-> 0] /\ codes = {}
     \/ account = [enabled |-> TRUE, secret |-> 1, key |-> 1] /\ codes = OldSet
  /\ rows = [t \in Numbers |-> Gone]
  /\ memory = [t \in Numbers |-> Gone]
  /\ req = [w \in Workers |-> Idle]
  /\ requests = 1
  /\ minted = {} /\ tried = [t \in Numbers |-> 0] /\ proven = {1} /\ out = {}
  /\ faults = 0

At(w, step) == req[w].step = step
Goto(w, step) == req' = [req EXCEPT ![w].step = step]
Done(w) == req' = [req EXCEPT ![w] = Idle]
Fault == faults < MaxFaults /\ faults' = faults + 1

Start(w, r) ==
  /\ At(w, "idle")
  /\ requests < MaxRequests
  /\ requests' = requests + 1
  /\ req' = [req EXCEPT ![w] = [r EXCEPT !.id = requests']]

\* The store is attached to Sessions when there is a master key.
Durable == masterKey # 0

\* Sessions.Get: the row is there, unexpired, and decrypts.
Served(t) ==
  IF Durable THEN rows[t].kind = "session" /\ ~ rows[t].expired /\ rows[t].key = masterKey
  ELSE memory[t].kind = "session" /\ ~ memory[t].expired

\* Mutant: the store was never attached.
Create_InMemory(t, kind) ==
  /\ memory' = [memory EXCEPT ![t] = [Gone EXCEPT !.kind = kind, !.key = masterKey]]
  /\ UNCHANGED rows

\* Sessions.Create.
Create(t, kind) ==
  LET new == [Gone EXCEPT !.kind = kind, !.key = masterKey]
  IN  IF Durable THEN rows' = [rows EXCEPT ![t] = new] /\ UNCHANGED memory
      ELSE memory' = [memory EXCEPT ![t] = new] /\ UNCHANGED rows

\* Sessions.Delete.
Delete(t) ==
  IF Durable THEN rows' = [rows EXCEPT ![t] = Gone] /\ UNCHANGED memory
  ELSE memory' = [memory EXCEPT ![t] = Gone] /\ UNCHANGED rows

-----------------------------------------------------------------------------
(* Signing in.                                                             *)

\* POST /api/webmail/login with the right password.
WebmailLogin(w) ==
  /\ Start(w, [Idle EXCEPT !.step = "account", !.off = ~ account.enabled])
  /\ UNCHANGED <<masterKey, tables, memory, history, faults>>

NeedsSecondFactor == account.enabled

\* webmailTOTPEnabled: an account that cannot be read has no second factor.
CheckAccount(w) ==
  /\ At(w, "account")
  /\ \/ Goto(w, IF NeedsSecondFactor THEN "pend" ELSE "admit") /\ UNCHANGED faults
     \/ Fault /\ req' = [req EXCEPT ![w].step = "admit", ![w].off = TRUE]
  /\ UNCHANGED <<masterKey, tables, memory, requests, history>>

\* webmailPending.Create.
Pend(w) ==
  /\ At(w, "pend")
  /\ Create(req[w].id, "pending")
  /\ Done(w)
  /\ UNCHANGED <<masterKey, account, codes, requests, history, faults>>

\* webmailSessions.Create, after the password alone.
Admit(w) ==
  /\ At(w, "admit")
  /\ Create(req[w].id, "session")
  /\ minted' = minted \cup {[token |-> req[w].id, pending |-> 0, code |-> WrongCode,
                             off |-> req[w].off, alone |-> TRUE]}
  /\ Done(w)
  /\ UNCHANGED <<masterKey, account, codes, requests, tried, proven, out, faults>>

VerifySteps == {"increment", "get", "check", "consume", "finish", "mint"}
Verifying(t) == {v \in Workers : req[v].step \in VerifySteps /\ req[v].token = t}

\* POST /api/webmail/2fa/verify: the code is that of the authenticator app, a
\* recovery code, or wrong.
TOTPVerify(w, t, code) ==
  /\ At(w, "idle") /\ requests < MaxRequests
  /\ requests' = requests + 1
  /\ req' = [v \in Workers |->
       IF v = w THEN [Idle EXCEPT !.step = IF Durable THEN "increment" ELSE "get",
                                  !.id = requests', !.token = t, !.code = code,
                                  !.alone = Verifying(t) = {}]
       ELSE IF v \in Verifying(t) THEN [req[v] EXCEPT !.alone = FALSE] ELSE req[v]]
  /\ UNCHANGED <<masterKey, tables, memory, history, faults>>

\* Mutant: the budget is compared before the attempt is counted.
InBudget_Late(attempts) == attempts - 1 <= maxPendingAttempts

InBudget(attempts) == attempts <= maxPendingAttempts

\* peekStoreBacked: IncrementAttempts, one statement; an expired row is deleted.
IncrementAttempts(w) ==
  /\ At(w, "increment")
  /\ LET t == req[w].token
     IN  IF rows[t].kind # "pending" THEN Done(w) /\ UNCHANGED rows
         ELSE IF rows[t].expired THEN Done(w) /\ rows' = [rows EXCEPT ![t] = Gone]
         ELSE /\ rows' = [rows EXCEPT ![t].attempts = @ + 1]
              /\ Goto(w, IF InBudget(rows'[t].attempts) THEN "get" ELSE "drop")
  /\ UNCHANGED <<masterKey, account, codes, memory, requests, history, faults>>

\* peekStoreBacked: the budget is spent, the row is deleted.
DropPending(w) ==
  /\ At(w, "drop")
  /\ rows' = [rows EXCEPT ![req[w].token] = Gone]
  /\ Done(w)
  /\ UNCHANGED <<masterKey, account, codes, memory, requests, history, faults>>

\* A code is about to be tried on a pending token.
Try(w) == /\ Goto(w, "check")
          /\ tried' = [tried EXCEPT ![req[w].token] = @ + 1]

\* peekStoreBacked: Get, and decryptRow.
GetPending(w) ==
  /\ At(w, "get") /\ Durable
  /\ LET r == rows[req[w].token]
     IN  IF r.kind = "pending" /\ ~ r.expired /\ r.key = masterKey
         THEN Try(w) ELSE Done(w) /\ UNCHANGED tried
  /\ UNCHANGED <<masterKey, tables, memory, requests, minted, proven, out, faults>>

\* Peek in memory, under the mutex.
PeekMemory(w) ==
  /\ At(w, "get") /\ ~ Durable
  /\ LET t == req[w].token
         r == memory[t]
     IN  IF r.kind = "pending" /\ ~ r.expired /\ InBudget(r.attempts + 1)
         THEN memory' = [memory EXCEPT ![t].attempts = @ + 1] /\ Try(w)
         ELSE /\ memory' = IF r.kind = "pending" THEN [memory EXCEPT ![t] = Gone] ELSE memory
              /\ Done(w)
              /\ UNCHANGED tried
  /\ UNCHANGED <<masterKey, tables, requests, minted, proven, out, faults>>

\* verifyWebmailTOTPOrRecovery: GetAccount, and the code of the app; without a
\* master key, or with no second factor on, no code is right.
CheckCode(w) ==
  /\ At(w, "check")
  /\ IF ~ Durable \/ ~ account.enabled THEN Done(w)
     ELSE Goto(w, IF account.key = masterKey /\ req[w].code.secret = account.secret
                  THEN "finish" ELSE "consume")
  /\ UNCHANGED <<masterKey, tables, memory, requests, history, faults>>

\* Mutant: the UPDATE does not ask for used_at = 0.
Unused_NotAsked(c, code) == c.set = code.set /\ c.n = code.n

Unused(c, code) == c.set = code.set /\ c.n = code.n /\ ~ c.used

\* ConsumeRecoveryCode: one UPDATE, which reports whether it marked a code.
ConsumeRecoveryCode(w) ==
  /\ At(w, "consume")
  /\ LET found == {c \in codes : Unused(c, req[w].code)}
     IN  /\ codes' = (codes \ found) \cup {[c EXCEPT !.used = TRUE] : c \in found}
         /\ IF found = {} THEN Done(w) ELSE Goto(w, "finish")
  /\ UNCHANGED <<masterKey, account, rows, memory, requests, history, faults>>

\* webmailPending.Delete; an error is ignored.
FinishPending(w) ==
  /\ At(w, "finish")
  /\ \/ Delete(req[w].token) /\ Goto(w, "mint") /\ UNCHANGED faults
     \/ /\ Fault /\ UNCHANGED <<rows, memory>>
        /\ req' = [req EXCEPT ![w].step = "mint", ![w].alone = FALSE]
  /\ UNCHANGED <<masterKey, account, codes, requests, history>>

\* webmailSessions.Create, after the second factor.
Mint(w) ==
  /\ At(w, "mint")
  /\ Create(req[w].id, "session")
  /\ minted' = minted \cup {[token |-> req[w].id, pending |-> req[w].token,
                             code |-> req[w].code, off |-> FALSE, alone |-> req[w].alone]}
  /\ Done(w)
  /\ UNCHANGED <<masterKey, account, codes, requests, tried, proven, out, faults>>

-----------------------------------------------------------------------------
(* With a session.                                                         *)

\* POST /api/webmail/logout.
Logout(w, t) ==
  /\ Served(t)
  /\ Start(w, [Idle EXCEPT !.step = "logout", !.token = t])
  /\ UNCHANGED <<masterKey, tables, memory, history, faults>>

\* webmailSessions.Delete; an error is ignored, and the answer is ok all the same.
EndSession(w) ==
  /\ At(w, "logout")
  /\ \/ /\ Delete(req[w].token)
        /\ out' = out \cup {req[w].token}
        /\ UNCHANGED faults
     \/ Fault /\ UNCHANGED <<rows, memory, out>>
  /\ Done(w)
  /\ UNCHANGED <<masterKey, account, codes, requests, minted, tried, proven>>

SignedIn == \E t \in Numbers : Served(t)

\* The second factor is off from now on, for the logins under way too.
Off(r) == [w \in Workers |-> IF r[w].step \in {"account", "admit"}
                             THEN [r[w] EXCEPT !.off = TRUE] ELSE r[w]]

\* POST /api/webmail/2fa/enroll: SetTOTP with a fresh secret, not enabled.
TOTPEnroll(w) ==
  /\ SignedIn /\ Durable
  /\ At(w, "idle") /\ requests < MaxRequests
  /\ requests' = requests + 1
  /\ account' = [enabled |-> FALSE, secret |-> requests', key |-> masterKey]
  /\ req' = Off(req)
  /\ UNCHANGED <<masterKey, codes, rows, memory, history, faults>>

\* POST /api/webmail/2fa/confirm: GetAccount, and a code of the stored secret.
TOTPConfirm(w) ==
  /\ SignedIn /\ Durable
  /\ account.secret # None /\ account.key = masterKey
  /\ Start(w, [Idle EXCEPT !.step = "enable", !.secret = account.secret,
                           !.key = account.key])
  /\ proven' = proven \cup {account.secret}
  /\ UNCHANGED <<masterKey, tables, memory, minted, tried, out, faults>>

\* SetTOTP, with the secret the code was verified for.
Enable(w) ==
  /\ At(w, "enable")
  /\ account' = [enabled |-> TRUE, secret |-> req[w].secret, key |-> req[w].key]
  /\ Goto(w, "delete_codes")
  /\ UNCHANGED <<masterKey, codes, rows, memory, requests, history, faults>>

\* POST /api/webmail/2fa/disable.
TOTPDisable(w) ==
  /\ SignedIn
  /\ Start(w, [Idle EXCEPT !.step = "turn_off"])
  /\ UNCHANGED <<masterKey, tables, memory, history, faults>>

\* SetTOTP(false, nil).
TurnOff(w) ==
  /\ At(w, "turn_off")
  /\ account' = [enabled |-> FALSE, secret |-> None, key |-> 0]
  /\ req' = Off([req EXCEPT ![w].step = "delete_codes"])
  /\ UNCHANGED <<masterKey, codes, rows, memory, requests, history, faults>>

\* POST /api/webmail/2fa/recovery-codes: GetAccount says enabled.
TOTPRecoveryRegenerate(w) ==
  /\ SignedIn /\ account.enabled
  /\ Start(w, [Idle EXCEPT !.step = "delete_codes", !.secret = account.secret])
  /\ UNCHANGED <<masterKey, tables, memory, history, faults>>

\* ReplaceRecoveryCodes: the DELETE.  A disable is done with it.
DeleteCodes(w) ==
  /\ At(w, "delete_codes")
  /\ codes' = {}
  /\ IF req[w].secret = None THEN Done(w) ELSE Goto(w, "insert_code")
  /\ UNCHANGED <<masterKey, account, rows, memory, requests, history, faults>>

\* ReplaceRecoveryCodes: one INSERT per code.
InsertCode(w) ==
  /\ At(w, "insert_code")
  /\ LET n == req[w].n + 1
     IN  /\ codes' = codes \cup {[set |-> req[w].id, n |-> n, used |-> FALSE]}
         /\ IF n < CodesPerSet THEN req' = [req EXCEPT ![w].n = n] ELSE Done(w)
  /\ UNCHANGED <<masterKey, account, rows, memory, requests, history, faults>>

-----------------------------------------------------------------------------
(* The environment.                                                        *)

\* A token's time is over; GC, or the Get that finds it, deletes it later.
Expire(t) ==
  \/ /\ rows[t].kind # "gone" /\ ~ rows[t].expired
     /\ rows' = [rows EXCEPT ![t].expired = TRUE]
     /\ UNCHANGED <<masterKey, account, codes, memory, req, requests, history, faults>>
  \/ /\ memory[t].kind # "gone" /\ ~ memory[t].expired
     /\ memory' = [memory EXCEPT ![t].expired = TRUE]
     /\ UNCHANGED <<masterKey, tables, req, requests, history, faults>>

\* GC of the store the sessions are in; it deletes of every kind.
GC ==
  LET Kept(tokens) == [t \in Numbers |-> IF tokens[t].expired THEN Gone ELSE tokens[t]]
  IN  /\ IF Durable THEN rows' = Kept(rows) /\ UNCHANGED memory
         ELSE memory' = Kept(memory) /\ UNCHANGED rows
      /\ UNCHANGED <<masterKey, account, codes, req, requests, history, faults>>

\* A statement fails: the request is answered with an error.
StatementFails(w) ==
  /\ req[w].step \in Steps \ {"account", "logout"}
  /\ Fault
  /\ Done(w)
  /\ UNCHANGED <<masterKey, tables, memory, requests, history>>

\* The process restarts, with this or another master key or with none.
Restart ==
  /\ Fault
  /\ masterKey' \in Keys
  /\ memory' = [t \in Numbers |-> Gone]
  /\ req' = [w \in Workers |-> Idle]
  /\ UNCHANGED <<tables, requests, history>>

CodesOfTheUser ==
  {WrongCode, [WrongCode EXCEPT !.secret = account.secret]} \cup
    {[secret |-> 0, set |-> c.set, n |-> c.n] : c \in codes}

PendingTokens == {t \in Numbers : "pending" \in {rows[t].kind, memory[t].kind}}

Next ==
  \/ \E w \in Workers :
       \/ WebmailLogin(w) \/ CheckAccount(w) \/ Pend(w) \/ Admit(w)
       \/ \E t \in PendingTokens, c \in CodesOfTheUser : TOTPVerify(w, t, c)
       \/ IncrementAttempts(w) \/ DropPending(w) \/ GetPending(w) \/ PeekMemory(w)
       \/ CheckCode(w) \/ ConsumeRecoveryCode(w) \/ FinishPending(w) \/ Mint(w)
       \/ \E t \in Numbers : Logout(w, t)
       \/ EndSession(w)
       \/ TOTPEnroll(w) \/ TOTPConfirm(w) \/ Enable(w) \/ TOTPDisable(w) \/ TurnOff(w)
       \/ TOTPRecoveryRegenerate(w) \/ DeleteCodes(w) \/ InsertCode(w)
       \/ StatementFails(w)
  \/ \E t \in Numbers : Expire(t)
  \/ GC
  \/ Restart

Spec == Init /\ [][Next]_vars

-----------------------------------------------------------------------------
Codes == [secret : Numbers \cup {None}, set : Numbers \cup {0}, n : 0..CodesPerSet]
Token == [kind : {"gone", "pending", "session"}, key : Keys, attempts : Nat,
          expired : BOOLEAN]
Request == [step : Steps \cup {"idle"}, id : Numbers \cup {0}, token : Numbers \cup {0},
            code : Codes, secret : Numbers \cup {None}, key : Keys, n : 0..CodesPerSet,
            off : BOOLEAN, alone : BOOLEAN]

\* Every variable has its type, and what is in memory is not encrypted.
TypeOK ==
  /\ masterKey \in Keys
  /\ account \in [enabled : BOOLEAN, secret : Numbers \cup {None}, key : Keys]
  /\ codes \subseteq [set : Numbers, n : 1..CodesPerSet, used : BOOLEAN]
  /\ rows \in [Numbers -> Token]
  /\ memory \in [Numbers -> Token]
  /\ \A t \in Numbers : memory[t].key = 0
  /\ req \in [Workers -> Request]
  /\ requests \in Numbers
  /\ minted \subseteq [token : Numbers, pending : Numbers \cup {0}, code : Codes,
                       off : BOOLEAN, alone : BOOLEAN]
  /\ tried \in [Numbers -> Nat]
  /\ proven \subseteq Numbers /\ out \subseteq Numbers
  /\ faults \in 0..MaxFaults

\* A password "must never be written to disk unencrypted": no row without a key,
\* whatever keys the process was restarted with.
NoPasswordInTheClear == \A t \in Numbers : rows[t].kind # "gone" => rows[t].key # 0

\* maxPendingAttempts "bounds how many codes can be tried against one pending
\* login", over concurrent requests, failures and restarts.
TriesAreBounded == \A t \in Numbers : tried[t] <= maxPendingAttempts

\* Every session is earned, once, and ends.  A password alone makes one only if
\* the second factor was off at some time of that login, or could not be read
\* ("a database hiccup should not lock every mailbox out of webmail").  A recovery
\* code buys one, on whichever pending tokens and by however many requests it
\* is given.  "the token is only consumed once a code actually verifies": two
\* sessions from one pending token take two verifies at once, or a delete that
\* failed.  And a session that a logout deleted is never served again: not by a
\* request that overlaps the logout, whatever else fails, nor after restarts with
\* other keys, with none, or with the first one again.  (A delete that fails is
\* answered ok all the same: that session lives on, and is not in out.)
SessionsAreEarned ==
  /\ \A s \in minted : s.pending = 0 => s.off
  /\ \A s, u \in minted : s # u =>
       /\ s.code.set # 0 => s.code # u.code
       /\ s.pending # 0 /\ s.alone /\ u.alone => s.pending # u.pending
  /\ \A t \in out : ~ Served(t)

\* "only on success marks 2FA enabled": nobody is asked for a code of a secret
\* they have not proven to hold, whatever enrolments and confirms overlap.
EnabledSecretIsProven == account.enabled => account.secret \in proven
=============================================================================
