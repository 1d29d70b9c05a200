------------------------- MODULE AdminSessionProofs -------------------------
(***************************************************************************)
(* What the administrator's sign-in keeps to for any number of concurrent  *)
(* requests, tokens, recovery codes and reset links, and whatever fails.   *)
(***************************************************************************)
EXTENDS AdminSession, FiniteSetTheorems, TLAPS

\* Every variable keeps its type.
LEMMA TypeStep == TypeOK /\ [Next]_vars => TypeOK'
<1> USE NoneAssumption, PasswordsAssumption DEF TypeOK, WorkerType, Steps, TokenKinds, Idle
<1> SUFFICES ASSUME TypeOK, [Next]_vars PROVE TypeOK'
  OBVIOUS
<1>1. ASSUME NEW w \in Workers, Login(w) PROVE TypeOK'
  <2>1. CASE CheckPassword(w)
    BY <2>1 DEF CheckPassword, goto, account, sessions, history
  <2>2. CASE SecondFactor(w)
    BY <2>2, SMTT(30) DEF SecondFactor, step, goto, Fails, account, sessions
  <2>3. CASE IssuePending(w)
    BY <2>3 DEF IssuePending, goto, SessionFails, Fails, account
  <2>4. CASE MintSession(w)
    <3>1. worker[w].token \in Tokens \cup {None}
      OBVIOUS
    <3>2. worker' \in [Workers -> WorkerType] /\ token' \in [Tokens -> TokenKinds]
          /\ faults' \in Nat
      BY <2>4 DEF MintSession, goto, SessionFails, Fails
    <3>3. via' \in [Tokens -> Tokens \cup {None}]
      BY <2>4, <3>1 DEF MintSession
    <3> QED
      BY <2>4, <3>2, <3>3 DEF MintSession, goto, account
  <2> QED
    BY <1>1, <2>1, <2>2, <2>3, <2>4 DEF Login
<1>2. ASSUME NEW w \in Workers, Login2FA(w) PROVE TypeOK'
  <2>1. ASSUME NEW t \in Tokens, VerifyPending(w, t) PROVE TypeOK'
    <3>1. CASE worker' = worker
      BY <2>1, <3>1 DEF VerifyPending, refuse, Delete, goto, SessionFails, Fails, account, history
    <3>2. CASE worker' # worker
      <4>1. PICK at \in {"drop", "code"} :
              worker' = [worker EXCEPT ![w] = [Idle EXCEPT !.at = at, !.token = t]]
        BY <2>1, <3>2 DEF VerifyPending, refuse, goto
      <4>2. worker' \in [Workers -> WorkerType]
        BY <4>1
      <4>3. token' = token
        BY <2>1, <3>2 DEF VerifyPending, refuse
      <4> QED
        BY <2>1, <4>1, <4>2, <4>3 DEF VerifyPending, SessionFails, Fails, account, history
    <3> QED
      BY <3>1, <3>2
  <2>2. CASE Drop(w)
    BY <2>2 DEF Drop, Delete, goto, SessionFails, Fails, account, history
  <2>3. CASE verifyTOTPOrRecovery(w)
    <3>1. checks' \in [Tokens -> Nat] /\ passes' \in [Tokens -> Nat]
      BY <2>3 DEF verifyTOTPOrRecovery, Accepted, Rejected
    <3>2. /\ worker' \in [Workers -> WorkerType]
          /\ \A v \in Workers :
               /\ worker'[v].at \in {"code", "consume", "drop", "revoke"}
                    => worker'[v].token # None
               /\ worker'[v].at = "spend" => worker'[v].reset # None
      <4>1. \/ worker' = [worker EXCEPT ![w] = [worker[w] EXCEPT !.at = "consume"]]
            \/ worker' = [worker EXCEPT ![w] = Idle]
        BY <2>3 DEF verifyTOTPOrRecovery, Accepted, Rejected, step, goto
      <4>2. worker[w].at = "code" /\ worker[w] \in WorkerType
        BY <2>3 DEF verifyTOTPOrRecovery
      <4>3. CASE worker' = [worker EXCEPT ![w] = Idle]
        BY <4>3
      <4>4. CASE worker' = [worker EXCEPT ![w] = [worker[w] EXCEPT !.at = "consume"]]
        <5>1. [worker[w] EXCEPT !.at = "consume"] \in WorkerType
          BY <4>2
        <5> QED
          BY <4>2, <4>4, <5>1
      <4> QED
        BY <4>1, <4>3, <4>4
    <3>3. unusedCodes' \subseteq Codes /\ spent' \in [Codes -> Nat] /\ faults' \in Nat
      BY <2>3 DEF verifyTOTPOrRecovery, ConsumeRecoveryCode, Fails
    <3> QED
      BY <2>3, <3>1, <3>2, <3>3 DEF verifyTOTPOrRecovery, sessions
  <2>4. CASE ConsumePending(w)
    BY <2>4 DEF ConsumePending, Delete, step, goto, SessionFails, Fails, account, history
  <2> QED
    BY <1>2, <2>1, <2>2, <2>3, <2>4 DEF Login2FA
<1>3. ASSUME NEW w \in Workers, SessionList(w) PROVE TypeOK'
  <2>1. ASSUME NEW s \in Tokens, Logout(s) PROVE TypeOK'
    <3>1. /\ token' = token \/ token' = [token EXCEPT ![s] = "gone"]
          /\ faults' \in Nat
      BY <2>1 DEF Logout, Delete, SessionFails, Fails
    <3>2. UNCHANGED <<stored, account, tries, expired, worker, history, crashes>>
      BY <2>1 DEF Logout
    <3> QED
      BY <3>1, <3>2 DEF account, history
  <2>2. ASSUME NEW s \in Tokens, SignOutOthers(s) PROVE TypeOK'
    BY <2>2 DEF SignOutOthers, revokeAllExcept, SessionFails, Fails, account, history
  <2>3. ASSUME NEW s \in Tokens, ValidateExpired(w, s) PROVE TypeOK'
    <3>1. CASE stored
      <4>1. worker' = [worker EXCEPT ![w] = [Idle EXCEPT !.at = "drop", !.token = s]]
        BY <2>3, <3>1 DEF ValidateExpired, refuse, goto
      <4>2. worker' \in [Workers -> WorkerType]
        BY <4>1
      <4>3. token' = token
        BY <2>3, <3>1 DEF ValidateExpired, refuse
      <4> QED
        BY <2>3, <4>1, <4>2, <4>3 DEF ValidateExpired, account, history
    <3>2. CASE ~ stored
      BY <2>3, <3>2 DEF ValidateExpired, refuse, Delete, account, history
    <3> QED
      BY <3>1, <3>2
  <2>4. ASSUME NEW s \in Tokens, NEW t \in Tokens, RevokeLookup(w, s, t) PROVE TypeOK'
    BY <2>4 DEF RevokeLookup, goto, account, sessions, history
  <2>5. CASE RevokeByID(w)
    BY <2>5 DEF RevokeByID, Delete, goto, SessionFails, Fails, account, history
  <2> QED
    BY <1>3, <2>1, <2>2, <2>3, <2>4, <2>5 DEF SessionList
<1>4. ASSUME NEW w \in Workers, NewPassword(w) PROVE TypeOK'
  <2>1. ASSUME NEW s \in Tokens, NEW new \in Passwords, ChangePassword(w, s, new)
        PROVE  TypeOK'
    BY <2>1 DEF ChangePassword, goto, account, sessions, history
  <2>2. ASSUME NEW r \in ResetTokens, NEW new \in Passwords, ConsumeResetToken(w, r, new)
        PROVE  TypeOK'
    BY <2>2 DEF ConsumeResetToken, goto, account, sessions, history
  <2>3. CASE SpendResetToken(w)
    BY <2>3, SMTT(30) DEF SpendResetToken, step, goto, Fails, sessions, history
  <2>4. CASE StoreHash(w)
    <3>1. worker[w] \in WorkerType /\ worker[w].pw \in Passwords
      OBVIOUS
    <3>2. dbHash' \in Passwords /\ faults' \in Nat
      BY <2>4, <3>1 DEF StoreHash, Fails
    <3>4. old' \subseteq Tokens /\ redeemed' \in [ResetTokens -> Nat]
      <4>1. CASE noteStored(w)
        <5>1. old' \subseteq Tokens
          BY <4>1, Zenon DEF noteStored, TypeOK
        <5>2. redeemed' \in [ResetTokens -> Nat]
          BY <4>1 DEF noteStored
        <5> QED
          BY <5>1, <5>2
      <4>2. CASE UNCHANGED <<old, redeemed>>
        BY <4>2
      <4> QED
        BY <2>4, <4>1, <4>2 DEF StoreHash
    <3>5. apart' \in {"no", "race", "unread"}
      BY <2>4 DEF StoreHash, noteStored
    <3>3. /\ worker' \in [Workers -> WorkerType]
          /\ \A v \in Workers :
               /\ worker'[v].at \in {"code", "consume", "drop", "revoke"}
                    => worker'[v].token # None
               /\ worker'[v].at = "spend" => worker'[v].reset # None
      BY <2>4 DEF StoreHash, step, goto
    <3> QED
      BY <2>4, <3>2, <3>3, <3>4, <3>5 DEF StoreHash, sessions
  <2>5. CASE SetHash(w)
    BY <2>5 DEF SetHash, goto, sessions, history
  <2>6. CASE RevokeAll(w)
    BY <2>6 DEF RevokeAll, revokeAllExcept, goto, SessionFails, Fails, account, history
  <2> QED
    BY <1>4, <2>1, <2>2, <2>3, <2>4, <2>5, <2>6 DEF NewPassword
<1>5. ASSUME NEW r \in ResetTokens, CreateResetToken(r) \/ ExpireReset(r) PROVE TypeOK'
  BY <1>5 DEF CreateResetToken, ExpireReset, sessions, history
<1>6. ASSUME NEW t \in Tokens, Expire(t) PROVE TypeOK'
  BY <1>6 DEF Expire, account, history
<1>7. CASE GC
  BY <1>7 DEF GC, SessionFails, Fails, account, history
<1>8. CASE Restart
  <2>1. token' \in [Tokens -> TokenKinds]
    BY <1>8 DEF Restart
  <2>2. memHash' \in Passwords /\ faults' \in Nat /\ crashes' \in Nat
    BY <1>8 DEF Restart, LoadHash, Fails
  <2>4. apart' \in {"no", "race", "unread"}
    BY <1>8 DEF Restart, LoadHash
  <2>3. worker' = [w \in Workers |-> Idle]
    BY <1>8 DEF Restart
  <2> QED
    BY <1>8, <2>1, <2>2, <2>3, <2>4 DEF Restart
<1>9. CASE UNCHANGED vars
  BY <1>9 DEF vars, account, sessions, history
<1> QED
  BY <1>1, <1>2, <1>3, <1>4, <1>5, <1>6, <1>7, <1>8, <1>9 DEF Next

\* The types hold at the start.
LEMMA TypeInit == Init => TypeOK
<1> SUFFICES ASSUME Init PROVE TypeOK
  OBVIOUS
<1>1. Idle \in WorkerType
  BY PasswordsAssumption DEF Idle, WorkerType, Steps
<1>2. worker \in [Workers -> WorkerType] /\ \A w \in Workers : worker[w].at = "idle"
  BY <1>1 DEF Init, Idle
<1> QED
  BY <1>2, PasswordsAssumption DEF Init, TypeOK, TokenKinds

\* Every variable always has its type.
THEOREM Typing == Spec => []TypeOK
  BY TypeInit, TypeStep, PTL DEF Spec

-----------------------------------------------------------------------------
(* Recovery codes: an unused code has let nobody through.                  *)

CodesInv == \A c \in Codes : spent[c] = IF c \in unusedCodes THEN 0 ELSE 1

\* The guarded UPDATE finds a code once: no step but it touches the codes.
LEMMA CodesStep == TypeOK /\ CodesInv /\ [Next]_vars => CodesInv'
<1> SUFFICES ASSUME TypeOK, CodesInv, [Next]_vars PROVE CodesInv'
  OBVIOUS
<1>1. CASE UNCHANGED <<spent, unusedCodes>>
  BY <1>1 DEF CodesInv
<1>2. ASSUME NEW c \in Codes, ConsumeRecoveryCode(c), spent' = [spent EXCEPT ![c] = @ + 1]
      PROVE  CodesInv'
  BY <1>2 DEF CodesInv, ConsumeRecoveryCode, TypeOK
<1>3. ASSUME NEW w \in Workers, Login2FA(w) PROVE CodesInv'
  <2>1. UNCHANGED <<spent, unusedCodes>>
        \/ \E c \in Codes : ConsumeRecoveryCode(c) /\ spent' = [spent EXCEPT ![c] = @ + 1]
    BY <1>3 DEF Login2FA, VerifyPending, Drop, verifyTOTPOrRecovery, ConsumePending,
                account, history
  <2> QED
    BY <1>1, <1>2, <2>1
<1>4. ASSUME NEW w \in Workers, Login(w) PROVE CodesInv'
  BY <1>1, <1>4 DEF Login, CheckPassword, SecondFactor, IssuePending, MintSession, account, history
<1>5. ASSUME NEW w \in Workers, SessionList(w) PROVE CodesInv'
  BY <1>1, <1>5 DEF SessionList, Logout, SignOutOthers, ValidateExpired, RevokeLookup, RevokeByID,
                    account, history
<1>6. ASSUME NEW w \in Workers, NewPassword(w) PROVE CodesInv'
  BY <1>1, <1>6 DEF NewPassword, ChangePassword, ConsumeResetToken, SpendResetToken, StoreHash,
                    SetHash, RevokeAll, account, history
<1>7. CASE \/ \E r \in ResetTokens : CreateResetToken(r) \/ ExpireReset(r)
           \/ \E t \in Tokens : Expire(t)
           \/ GC \/ Restart \/ UNCHANGED vars
  BY <1>1, <1>7 DEF CreateResetToken, ExpireReset, Expire, GC, Restart, vars, account, history
<1> QED
  BY <1>3, <1>4, <1>5, <1>6, <1>7 DEF Next

\* A recovery code lets one login through, however many requests present it.
THEOREM OneLoginPerRecoveryCode == Spec => []RecoveryCodeOnce
<1>1. Init => CodesInv
  BY DEF Init, CodesInv
<1>2. CodesInv => RecoveryCodeOnce
  BY DEF CodesInv, RecoveryCodeOnce
<1> QED
  BY <1>1, <1>2, Typing, CodesStep, PTL DEF Spec

-----------------------------------------------------------------------------
(* The password in memory and the one in the table.                        *)

\* While changes have not raced, at most one worker stands between its two
\* writes, and it is about to write what the table holds.
PasswordInv ==
  \/ apart # "no"
  \/ /\ \A v, w \in Workers :
          worker[v].at = "setHash" /\ worker[w].at = "setHash" => v = w
     /\ \A w \in Workers : worker[w].at = "setHash" => worker[w].pw = dbHash
     /\ memHash = dbHash \/ \E w \in Workers : worker[w].at = "setHash"

\* The steps that write neither password nor turn to writing one.
Elsewhere ==
  /\ UNCHANGED <<apart, memHash, dbHash>>
  /\ \A w \in Workers :
       worker'[w] # worker[w] => worker[w].at # "setHash" /\ worker'[w].at # "setHash"

\* Every step is one of the two writes, a restart, or elsewhere.
LEMMA WritesOrElsewhere ==
  ASSUME TypeOK, [Next]_vars
  PROVE  Elsewhere \/ Restart \/ \E w \in Workers : StoreHash(w) \/ SetHash(w)
<1> USE DEF Elsewhere, account, sessions, history, goto, step, Idle, TypeOK, WorkerType
<1>1. ASSUME NEW w \in Workers, Login(w) PROVE Elsewhere
  BY <1>1 DEF Login, CheckPassword, SecondFactor, IssuePending, MintSession
<1>2. ASSUME NEW w \in Workers, Login2FA(w) PROVE Elsewhere
  <2>1. ASSUME NEW t \in Tokens, VerifyPending(w, t) PROVE Elsewhere
    <3>1. UNCHANGED <<apart, memHash, dbHash>>
      BY <2>1 DEF VerifyPending
    <3>2. worker[w].at = "idle"
      BY <2>1 DEF VerifyPending
    <3>3. worker' = worker \/ \E x \in WorkerType : /\ x.at # "setHash"
                                                 /\ worker' = [worker EXCEPT ![w] = x]
      BY <2>1, NoneAssumption, PasswordsAssumption DEF VerifyPending, refuse, Steps
    <3> QED
      BY <3>1, <3>2, <3>3
  <2>2. CASE Drop(w)
    BY <2>2 DEF Drop
  <2>3. CASE verifyTOTPOrRecovery(w)
    BY <2>3 DEF verifyTOTPOrRecovery, Accepted, Rejected
  <2>4. CASE ConsumePending(w)
    BY <2>4 DEF ConsumePending
  <2> QED
    BY <1>2, <2>1, <2>2, <2>3, <2>4 DEF Login2FA
<1>3. ASSUME NEW w \in Workers, SessionList(w) PROVE Elsewhere
  <2>1. ASSUME NEW s \in Tokens, Logout(s) PROVE Elsewhere
    BY <2>1 DEF Logout
  <2>2. ASSUME NEW s \in Tokens, SignOutOthers(s) PROVE Elsewhere
    BY <2>2 DEF SignOutOthers
  <2>3. ASSUME NEW s \in Tokens, ValidateExpired(w, s) PROVE Elsewhere
    <3>1. UNCHANGED <<apart, memHash, dbHash>>
      BY <2>3 DEF ValidateExpired
    <3>2. worker[w].at = "idle"
      BY <2>3 DEF ValidateExpired
    <3>3. worker' = worker \/ \E x \in WorkerType : /\ x.at # "setHash"
                                                 /\ worker' = [worker EXCEPT ![w] = x]
      BY <2>3, NoneAssumption, PasswordsAssumption DEF ValidateExpired, refuse, Steps
    <3> QED
      BY <3>1, <3>2, <3>3
  <2>4. ASSUME NEW s \in Tokens, NEW t \in Tokens, RevokeLookup(w, s, t) PROVE Elsewhere
    BY <2>4 DEF RevokeLookup
  <2>5. CASE RevokeByID(w)
    BY <2>5 DEF RevokeByID
  <2> QED
    BY <1>3, <2>1, <2>2, <2>3, <2>4, <2>5 DEF SessionList
<1>4. ASSUME NEW w \in Workers, NewPassword(w), ~ StoreHash(w), ~ SetHash(w) PROVE Elsewhere
  <2>1. ASSUME NEW s \in Tokens, NEW new \in Passwords, ChangePassword(w, s, new) PROVE Elsewhere
    BY <2>1 DEF ChangePassword
  <2>2. ASSUME NEW r \in ResetTokens, NEW new \in Passwords, ConsumeResetToken(w, r, new) PROVE Elsewhere
    BY <2>2 DEF ConsumeResetToken
  <2>3. CASE SpendResetToken(w)
    BY <2>3 DEF SpendResetToken
  <2>4. CASE RevokeAll(w)
    BY <2>4 DEF RevokeAll
  <2> QED
    BY <1>4, <2>1, <2>2, <2>3, <2>4 DEF NewPassword
<1>5. ASSUME NEW r \in ResetTokens, CreateResetToken(r) \/ ExpireReset(r) PROVE Elsewhere
  BY <1>5 DEF CreateResetToken, ExpireReset
<1>6. ASSUME NEW t \in Tokens, Expire(t) PROVE Elsewhere
  BY <1>6 DEF Expire
<1>7. CASE GC
  BY <1>7 DEF GC
<1>8. CASE UNCHANGED vars
  BY <1>8 DEF vars
<1> QED
  BY <1>1, <1>2, <1>3, <1>4, <1>5, <1>6, <1>7, <1>8 DEF Next

\* A write to the table is followed by the same write to memory before the
\* next one, or the history says otherwise.
LEMMA PasswordStep == TypeOK /\ PasswordInv /\ [Next]_vars => PasswordInv'
<1> SUFFICES ASSUME TypeOK, PasswordInv, [Next]_vars PROVE PasswordInv'
  OBVIOUS
<1>1. CASE Elsewhere
  BY <1>1 DEF Elsewhere, PasswordInv
<1>2. ASSUME NEW w \in Workers, StoreHash(w) PROVE PasswordInv'
  <2>1. CASE dbHash' = worker[w].pw /\ step(w, "setHash") /\ noteStored(w)
             /\ memHash' = memHash
    <3> SUFFICES ASSUME apart' = "no" PROVE PasswordInv'
      BY DEF PasswordInv
    <3>1. \A v \in Workers : worker[v].at # "setHash"
      BY <2>1 DEF noteStored
    <3> QED
      BY <2>1, <3>1 DEF step, goto, PasswordInv, TypeOK, WorkerType
  <2>2. CASE goto(w, Idle) /\ UNCHANGED <<dbHash, apart, memHash>>
    BY <1>2, <2>2 DEF StoreHash, goto, Idle, PasswordInv, TypeOK
  <2> QED
    BY <1>2, <2>1, <2>2 DEF StoreHash
<1>3. ASSUME NEW w \in Workers, SetHash(w) PROVE PasswordInv'
  BY <1>3 DEF SetHash, goto, Idle, history, PasswordInv, TypeOK
<1>4. CASE Restart
  <2>1. \A w \in Workers : worker'[w].at = "idle"
    BY <1>4 DEF Restart, Idle
  <2> QED
    BY <1>4, <2>1 DEF Restart, LoadHash, PasswordInv
<1> QED
  BY <1>1, <1>2, <1>3, <1>4, WritesOrElsewhere

\* Memory and table hold the same password whenever no request stands between
\* the two writes, unless two changes raced or the startup read failed.
THEOREM MemoryFollowsTable == Spec => []PasswordsAgree
<1>1. Init => PasswordInv
  BY DEF Init, PasswordInv, Idle
<1>2. PasswordInv => PasswordsAgree
  BY DEF PasswordInv, PasswordsAgree
<1> QED
  BY <1>1, <1>2, Typing, PasswordStep, PTL DEF Spec

-----------------------------------------------------------------------------
(* Attempts: a code is only checked by a worker whose attempt was counted. *)

Trying(t) == {w \in Workers : worker[w].at = "code" /\ worker[w].token = t}

TriesInv ==
  \A t \in Tokens :
    /\ checks[t] + Cardinality(Trying(t)) <= tries[t]
    /\ checks[t] + Cardinality(Trying(t)) <= MaxPendingAttempts

\* The steps that neither count an attempt nor check a code.
NotTrying ==
  /\ UNCHANGED <<checks, tries>>
  /\ \A w \in Workers : worker'[w].at = "code" => worker'[w] = worker[w]

\* Every step is one of VerifyPending, verifyTOTPOrRecovery, or neither.
LEMMA TryingOrNot ==
  ASSUME TypeOK, [Next]_vars
  PROVE  \/ NotTrying
         \/ \E w \in Workers : \/ verifyTOTPOrRecovery(w)
                              \/ \E t \in Tokens : VerifyPending(w, t)
<1> USE DEF NotTrying, sessions, history, goto, step, Idle, TypeOK, WorkerType
<1>1. ASSUME NEW w \in Workers, Login(w) PROVE NotTrying
  <2>1. CASE CheckPassword(w)
    BY <2>1 DEF CheckPassword
  <2>2. CASE SecondFactor(w)
    BY <2>2 DEF SecondFactor
  <2>3. CASE IssuePending(w)
    BY <2>3 DEF IssuePending
  <2>4. CASE MintSession(w)
    BY <2>4 DEF MintSession
  <2> QED
    BY <1>1, <2>1, <2>2, <2>3, <2>4 DEF Login
<1>2. ASSUME NEW w \in Workers, Drop(w) \/ ConsumePending(w) PROVE NotTrying
  BY <1>2 DEF Drop, ConsumePending
<1>3. ASSUME NEW w \in Workers, SessionList(w) PROVE NotTrying
  <2>1. ASSUME NEW s \in Tokens, Logout(s) PROVE NotTrying
    BY <2>1 DEF Logout
  <2>2. ASSUME NEW s \in Tokens, SignOutOthers(s) PROVE NotTrying
    BY <2>2 DEF SignOutOthers
  <2>3. ASSUME NEW s \in Tokens, ValidateExpired(w, s) PROVE NotTrying
    BY <2>3 DEF ValidateExpired, refuse
  <2>4. ASSUME NEW s \in Tokens, NEW t \in Tokens, RevokeLookup(w, s, t) PROVE NotTrying
    BY <2>4 DEF RevokeLookup
  <2>5. CASE RevokeByID(w)
    BY <2>5 DEF RevokeByID
  <2> QED
    BY <1>3, <2>1, <2>2, <2>3, <2>4, <2>5 DEF SessionList
<1>4. ASSUME NEW w \in Workers, NewPassword(w) PROVE NotTrying
  <2>1. ASSUME NEW s \in Tokens, NEW new \in Passwords, ChangePassword(w, s, new) PROVE NotTrying
    BY <2>1 DEF ChangePassword
  <2>2. ASSUME NEW r \in ResetTokens, NEW new \in Passwords, ConsumeResetToken(w, r, new) PROVE NotTrying
    BY <2>2 DEF ConsumeResetToken
  <2>3. CASE SpendResetToken(w)
    BY <2>3 DEF SpendResetToken
  <2>4. CASE StoreHash(w)
    BY <2>4 DEF StoreHash, noteStored
  <2>5. CASE SetHash(w)
    BY <2>5 DEF SetHash
  <2>6. CASE RevokeAll(w)
    BY <2>6 DEF RevokeAll
  <2> QED
    BY <1>4, <2>1, <2>2, <2>3, <2>4, <2>5, <2>6 DEF NewPassword
<1>5. ASSUME NEW r \in ResetTokens, CreateResetToken(r) \/ ExpireReset(r) PROVE NotTrying
  BY <1>5 DEF CreateResetToken, ExpireReset
<1>6. ASSUME NEW t \in Tokens, Expire(t) PROVE NotTrying
  BY <1>6 DEF Expire
<1>7. CASE GC
  BY <1>7 DEF GC
<1>8. CASE Restart
  BY <1>8 DEF Restart
<1>9. CASE UNCHANGED vars
  BY <1>9 DEF vars
<1> QED
  BY <1>1, <1>2, <1>3, <1>4, <1>5, <1>6, <1>7, <1>8, <1>9 DEF Next, Login2FA

\* Counting comes before checking, and a count past the limit checks nothing.
LEMMA TriesStep == TypeOK /\ TriesInv /\ [Next]_vars => TriesInv'
<1> SUFFICES ASSUME TypeOK, TriesInv, [Next]_vars, NEW u \in Tokens
             PROVE  /\ checks'[u] + Cardinality(Trying(u)') <= tries'[u]
                    /\ checks'[u] + Cardinality(Trying(u)') <= MaxPendingAttempts
  BY DEF TriesInv
<1>1. /\ IsFiniteSet(Trying(u))
      /\ Cardinality(Trying(u)) \in Nat
      /\ checks[u] \in Nat /\ tries[u] \in Nat
      /\ checks[u] + Cardinality(Trying(u)) <= tries[u]
      /\ checks[u] + Cardinality(Trying(u)) <= MaxPendingAttempts
  BY WorkersAssumption, FS_Subset, FS_CardinalityType DEF Trying, TriesInv, TypeOK
<1>2. CASE NotTrying
  <2>1. Trying(u)' \subseteq Trying(u)
    BY <1>2 DEF NotTrying, Trying
  <2>2. Cardinality(Trying(u)') \in Nat /\ Cardinality(Trying(u)') <= Cardinality(Trying(u))
    BY <1>1, <2>1, FS_Subset, FS_CardinalityType
  <2> QED
    BY <1>1, <1>2, <2>2, AttemptsAssumption DEF NotTrying
<1>3. ASSUME NEW w \in Workers, verifyTOTPOrRecovery(w)
      PROVE  /\ checks'[u] + Cardinality(Trying(u)') <= tries'[u]
             /\ checks'[u] + Cardinality(Trying(u)') <= MaxPendingAttempts
  <2>1. UNCHANGED tries /\ worker[w].at = "code" /\ worker[w].token \in Tokens
    BY <1>3 DEF verifyTOTPOrRecovery, sessions, TypeOK, WorkerType
  <2>2. checks' = [checks EXCEPT ![worker[w].token] = @ + 1]
    BY <1>3 DEF verifyTOTPOrRecovery, Accepted, Rejected
  <2>3. worker'[w].at # "code" /\ \A v \in Workers : v # w => worker'[v] = worker[v]
    BY <1>3 DEF verifyTOTPOrRecovery, Accepted, Rejected, step, goto, Idle, TypeOK, WorkerType
  <2>4. CASE worker[w].token = u
    <3>1. Trying(u)' = Trying(u) \ {w} /\ w \in Trying(u)
      BY <2>1, <2>3, <2>4 DEF Trying
    <3>2. Cardinality(Trying(u)') = Cardinality(Trying(u)) - 1
      BY <1>1, <3>1, FS_RemoveElement
    <3>3. checks'[u] = checks[u] + 1
      BY <2>2, <2>4 DEF TypeOK
    <3> QED
      BY <1>1, <2>1, <3>2, <3>3, AttemptsAssumption
  <2>5. CASE worker[w].token # u
    <3>1. Trying(u)' = Trying(u)
      BY <2>1, <2>3, <2>5 DEF Trying
    <3>2. checks'[u] = checks[u]
      BY <2>2, <2>5 DEF TypeOK
    <3> QED
      BY <1>1, <2>1, <3>1, <3>2
  <2> QED
    BY <2>4, <2>5
<1>4. ASSUME NEW w \in Workers, NEW t \in Tokens, VerifyPending(w, t)
      PROVE  /\ checks'[u] + Cardinality(Trying(u)') <= tries'[u]
             /\ checks'[u] + Cardinality(Trying(u)') <= MaxPendingAttempts
  <2>1. UNCHANGED checks /\ worker[w].at = "idle"
    BY <1>4 DEF VerifyPending, history, Idle
  <2>2. tries'[u] \in Nat /\ tries'[u] >= tries[u]
    BY <1>1, <1>4 DEF VerifyPending, TypeOK
  <2>3. CASE worker' = [worker EXCEPT ![w] = [Idle EXCEPT !.at = "code", !.token = t]]
             /\ tries[t] + 1 <= MaxPendingAttempts /\ tries'[t] = tries[t] + 1
    <3>1. CASE t = u
      <4>1. Trying(u)' = Trying(u) \cup {w} /\ w \notin Trying(u)
        BY <2>1, <2>3, <3>1 DEF Trying, Idle, TypeOK
      <4>2. Cardinality(Trying(u)') = Cardinality(Trying(u)) + 1
        BY <1>1, <4>1, FS_AddElement
      <4> QED
        BY <1>1, <2>1, <2>3, <3>1, <4>2, AttemptsAssumption
    <3>2. CASE t # u
      <4>1. Trying(u)' = Trying(u)
        BY <2>1, <2>3, <3>2 DEF Trying, Idle, TypeOK
      <4> QED
        BY <1>1, <2>1, <2>2, <4>1
    <3> QED
      BY <3>1, <3>2
  <2>4. CASE \A v \in Workers : worker'[v].at = "code" => worker'[v] = worker[v]
    <3>1. Trying(u)' \subseteq Trying(u)
      BY <2>4 DEF Trying
    <3>2. Cardinality(Trying(u)') \in Nat /\ Cardinality(Trying(u)') <= Cardinality(Trying(u))
      BY <1>1, <3>1, FS_Subset, FS_CardinalityType
    <3> QED
      BY <1>1, <2>1, <2>2, <3>2, AttemptsAssumption
  <2>5. CASE worker' = worker
    BY <2>4, <2>5
  <2>6. CASE worker' = [worker EXCEPT ![w] = [Idle EXCEPT !.at = "drop", !.token = t]]
    BY <2>4, <2>6 DEF Idle, TypeOK
  <2>7. \/ worker' = worker
        \/ worker' = [worker EXCEPT ![w] = [Idle EXCEPT !.at = "drop", !.token = t]]
        \/ /\ worker' = [worker EXCEPT ![w] = [Idle EXCEPT !.at = "code", !.token = t]]
           /\ tries[t] + 1 <= MaxPendingAttempts
           /\ tries'[t] = tries[t] + 1
    BY <1>4, AttemptsAssumption DEF VerifyPending, refuse, goto, TypeOK
  <2> QED
    BY <2>3, <2>5, <2>6, <2>7
<1> QED
  BY <1>2, <1>3, <1>4, TryingOrNot

\* No more than maxPendingAttempts codes are checked against a pending login,
\* whatever requests race and whatever fails.
THEOREM BoundedGuessing == Spec => []AtMostFiveTries
<1>1. Init => TriesInv
  <2> SUFFICES ASSUME Init, NEW t \in Tokens
               PROVE  checks[t] = 0 /\ tries[t] = 0 /\ Trying(t) = {}
    BY FS_EmptySet, AttemptsAssumption DEF TriesInv
  <2> QED
    BY DEF Init, Trying, Idle
<1>2. TypeOK /\ TriesInv => AtMostFiveTries
  <2> SUFFICES ASSUME TypeOK, TriesInv, NEW t \in Tokens
               PROVE  checks[t] <= MaxPendingAttempts
    BY DEF AtMostFiveTries
  <2>1. Cardinality(Trying(t)) \in Nat /\ checks[t] \in Nat
    BY WorkersAssumption, FS_Subset, FS_CardinalityType DEF Trying, TypeOK
  <2> QED
    BY <2>1, AttemptsAssumption DEF TriesInv
<1> QED
  BY <1>1, <1>2, Typing, TriesStep, PTL DEF Spec

-----------------------------------------------------------------------------
(* A reset and the sessions there were before it.                          *)

OldInv ==
  /\ \A s \in old : token[s] # "unused"
  /\ OldSessionsAreRevoked

\* The steps that leave resets under way where they are; no token becomes a
\* session but an unused one.
Steady ==
  /\ UNCHANGED old
  /\ faults' >= faults /\ crashes' >= crashes
  /\ \A s \in Tokens : token[s] # "unused" =>
       token'[s] # "unused" /\ (token'[s] = "session" => token[s] = "session")
  /\ \A w \in Workers : worker[w].at \in {"setHash", "revokeAll"} => worker'[w] = worker[w]

\* Every step is one of the last three of a reset, a restart, or steady.
LEMMA ResetOrSteady ==
  ASSUME TypeOK, [Next]_vars
  PROVE  \/ Steady
         \/ Restart
         \/ \E w \in Workers : StoreHash(w) \/ SetHash(w) \/ RevokeAll(w)
<1> USE DEF Steady, sessions, history, goto, step, Idle, SessionFails, Fails, TypeOK, WorkerType
<1>1. ASSUME NEW w \in Workers, Login(w) PROVE Steady
  <2>1. CASE CheckPassword(w)
    BY <2>1 DEF CheckPassword
  <2>2. CASE SecondFactor(w)
    BY <2>2 DEF SecondFactor
  <2>3. CASE IssuePending(w)
    BY <2>3 DEF IssuePending
  <2>4. CASE MintSession(w)
    BY <2>4 DEF MintSession
  <2> QED
    BY <1>1, <2>1, <2>2, <2>3, <2>4 DEF Login
<1>2. ASSUME NEW w \in Workers, Login2FA(w) PROVE Steady
  <2>1. ASSUME NEW t \in Tokens, VerifyPending(w, t) PROVE Steady
    BY <2>1 DEF VerifyPending, refuse, Delete
  <2>2. CASE Drop(w)
    BY <2>2 DEF Drop, Delete
  <2>3. CASE verifyTOTPOrRecovery(w)
    BY <2>3 DEF verifyTOTPOrRecovery, Accepted, Rejected
  <2>4. CASE ConsumePending(w)
    BY <2>4 DEF ConsumePending, Delete
  <2> QED
    BY <1>2, <2>1, <2>2, <2>3, <2>4 DEF Login2FA
<1>3. ASSUME NEW w \in Workers, SessionList(w) PROVE Steady
  <2>1. ASSUME NEW s \in Tokens, Logout(s) PROVE Steady
    BY <2>1 DEF Logout, Delete
  <2>2. ASSUME NEW s \in Tokens, SignOutOthers(s) PROVE Steady
    BY <2>2 DEF SignOutOthers, revokeAllExcept
  <2>3. ASSUME NEW s \in Tokens, ValidateExpired(w, s) PROVE Steady
    BY <2>3 DEF ValidateExpired, refuse, Delete
  <2>4. ASSUME NEW s \in Tokens, NEW t \in Tokens, RevokeLookup(w, s, t) PROVE Steady
    BY <2>4 DEF RevokeLookup
  <2>5. CASE RevokeByID(w)
    BY <2>5 DEF RevokeByID, Delete
  <2> QED
    BY <1>3, <2>1, <2>2, <2>3, <2>4, <2>5 DEF SessionList
<1>4. ASSUME NEW w \in Workers, NewPassword(w), ~ StoreHash(w), ~ SetHash(w), ~ RevokeAll(w) PROVE Steady
  <2>1. ASSUME NEW s \in Tokens, NEW new \in Passwords, ChangePassword(w, s, new) PROVE Steady
    BY <2>1 DEF ChangePassword
  <2>2. ASSUME NEW r \in ResetTokens, NEW new \in Passwords, ConsumeResetToken(w, r, new) PROVE Steady
    BY <2>2 DEF ConsumeResetToken
  <2>3. CASE SpendResetToken(w)
    BY <2>3 DEF SpendResetToken
  <2> QED
    BY <1>4, <2>1, <2>2, <2>3 DEF NewPassword
<1>5. ASSUME NEW r \in ResetTokens, CreateResetToken(r) \/ ExpireReset(r) PROVE Steady
  BY <1>5 DEF CreateResetToken, ExpireReset
<1>6. ASSUME NEW t \in Tokens, Expire(t) PROVE Steady
  BY <1>6 DEF Expire
<1>7. CASE GC
  BY <1>7 DEF GC
<1>8. CASE UNCHANGED vars
  BY <1>8 DEF vars
<1> QED
  BY <1>1, <1>2, <1>3, <1>4, <1>5, <1>6, <1>7, <1>8 DEF Next

\* A reset that stored its password goes on to the sessions.
LEMMA OldStep == TypeOK /\ OldInv /\ [Next]_vars => OldInv'
<1> SUFFICES ASSUME TypeOK, OldInv, [Next]_vars PROVE OldInv'
  OBVIOUS
<1>1. CASE Steady
  <2>1. \A s \in old' : token'[s] # "unused" /\ (token'[s] = "session" => token[s] = "session")
    BY <1>1 DEF Steady, OldInv, TypeOK
  <2>2. CASE \A s \in old : token[s] # "session"
    BY <1>1, <2>1, <2>2 DEF Steady, OldInv, OldSessionsAreRevoked
  <2>3. ASSUME NEW w \in Workers,
               (worker[w].at = "setHash" /\ worker[w].reset # None) \/ worker[w].at = "revokeAll"
        PROVE  OldInv'
    BY <1>1, <2>1, <2>3 DEF Steady, OldInv, OldSessionsAreRevoked
  <2>4. CASE faults > 0 \/ crashes > 0
    <3>1. faults' > 0 \/ crashes' > 0
      <4>1. faults \in Nat /\ crashes \in Nat /\ faults' \in Nat /\ crashes' \in Nat
        BY TypeStep DEF TypeOK
      <4>2. faults' >= faults /\ crashes' >= crashes
        BY <1>1 DEF Steady
      <4> QED
        BY <2>4, <4>1, <4>2
    <3> QED
      BY <2>1, <3>1 DEF OldInv, OldSessionsAreRevoked
  <2> QED
    BY <2>2, <2>3, <2>4 DEF OldInv, OldSessionsAreRevoked
<1>2. CASE Restart
  <2>1. crashes' > 0
    BY <1>2 DEF Restart, TypeOK
  <2>2. \A s \in old' : token'[s] # "unused"
    BY <1>2 DEF Restart, OldInv, TypeOK
  <2> QED
    BY <2>1, <2>2 DEF OldInv, OldSessionsAreRevoked
<1>3. ASSUME NEW w \in Workers, StoreHash(w) PROVE OldInv'
  <2>1. CASE noteStored(w) /\ step(w, "setHash")
    <3>1. UNCHANGED <<token, faults, crashes>>
      BY <1>3, <2>1, NoneAssumption DEF StoreHash, sessions, goto, step, Idle, TypeOK, WorkerType
    <3>2. CASE worker[w].reset = None
      <4>1. UNCHANGED old
        BY <2>1, <3>2 DEF noteStored
      <4>2. \A v \in Workers : worker[v].at = "setHash" \/ worker[v].at = "revokeAll"
                                => worker'[v] = worker[v]
        BY <1>3, <2>1 DEF StoreHash, step, goto, TypeOK
      <4> QED
        BY <3>1, <4>1, <4>2 DEF OldInv, OldSessionsAreRevoked
    <3>3. CASE worker[w].reset # None
      <4>1. old' = {t \in Tokens : token[t] = "session"}
        BY <2>1, <3>3 DEF noteStored
      <4>2. worker'[w].at = "setHash" /\ worker'[w].reset # None
        BY <2>1, <3>3 DEF step, goto, TypeOK, WorkerType
      <4> QED
        BY <3>1, <4>1, <4>2 DEF OldInv, OldSessionsAreRevoked
    <3> QED
      BY <3>2, <3>3
  <2>2. CASE Fails /\ UNCHANGED old
    <3>1. UNCHANGED token /\ faults' > 0
      BY <1>3, <2>2 DEF StoreHash, sessions, Fails, TypeOK
    <3> QED
      BY <2>2, <3>1 DEF OldInv, OldSessionsAreRevoked
  <2> QED
    BY <1>3, <2>1, <2>2 DEF StoreHash
<1>4. ASSUME NEW w \in Workers, SetHash(w) PROVE OldInv'
  <2>1. UNCHANGED <<old, token, faults, crashes>>
    BY <1>4 DEF SetHash, sessions, history
  <2>2. worker[w].reset # None => worker'[w].at = "revokeAll"
    BY <1>4 DEF SetHash, goto, Idle, TypeOK
  <2>3. \A v \in Workers : v # w => worker'[v] = worker[v]
    BY <1>4 DEF SetHash, goto, TypeOK
  <2>4. worker[w].at = "setHash"
    BY <1>4 DEF SetHash
  <2> QED
    BY <2>1, <2>2, <2>3, <2>4 DEF OldInv, OldSessionsAreRevoked
<1>5. ASSUME NEW w \in Workers, RevokeAll(w) PROVE OldInv'
  <2>1. UNCHANGED old
    BY <1>5 DEF RevokeAll, history
  <2>2. CASE revokeAllExcept({})
    <3>1. \A s \in Tokens : token'[s] # "session" /\ (token[s] # "unused" => token'[s] # "unused")
      BY <2>2 DEF revokeAllExcept
    <3> QED
      BY <2>1, <3>1 DEF OldInv, OldSessionsAreRevoked, TypeOK
  <2>3. CASE SessionFails /\ UNCHANGED token
    <3>1. faults' > 0
      BY <2>3 DEF SessionFails, Fails, TypeOK
    <3> QED
      BY <2>1, <2>3, <3>1 DEF OldInv, OldSessionsAreRevoked
  <2> QED
    BY <1>5, <2>2, <2>3 DEF RevokeAll
<1> QED
  BY <1>1, <1>2, <1>3, <1>4, <1>5, ResetOrSteady

\* A reset leaves none of the sessions there were before it, unless a statement
\* fails or the process dies in the middle.
THEOREM ResetRevokes == Spec => []OldSessionsAreRevoked
<1>1. Init => OldInv
  BY DEF Init, OldInv, OldSessionsAreRevoked
<1>2. OldInv => OldSessionsAreRevoked
  BY DEF OldInv
<1> QED
  BY <1>1, <1>2, Typing, OldStep, PTL DEF Spec

-----------------------------------------------------------------------------
(* A session and the code behind it.                                       *)

\* Who is about to make a session that came through x, a pending login or none.
Coming(x) == {w \in Workers : worker[w].at \in {"consume", "mint"} /\ worker[w].token = x}

\* What lets such sessions be.
Allowed(x) == IF x = None THEN failedOpen ELSE passes[x]

\* A login whose code verified has a session still to come, or its session.  The
\* sessions are counted one by one, so that they are finitely many.
CodeInv ==
  /\ \A w \in Workers : worker[w].at = "checked" => worker[w].token = None
  /\ enrolled =>
       \A x \in Tokens \cup {None} :
         /\ IsFiniteSet(SessionsVia(x))
         /\ Cardinality(SessionsVia(x)) + Cardinality(Coming(x)) <= Allowed(x)

\* The steps that bring no session nearer.
NotMinting ==
  /\ UNCHANGED <<enrolled, via, passes, failedOpen>>
  /\ \A s \in Tokens : token'[s] = "session" => token[s] = "session"
  /\ \A w \in Workers :
       /\ worker'[w].at \in {"consume", "mint"} =>
            worker[w].at \in {"consume", "mint"} /\ worker'[w].token = worker[w].token
       /\ worker'[w].at = "checked" =>
            worker'[w].token = None \/ (worker[w].at = "checked" /\ worker'[w] = worker[w])

\* Every step is a step towards a session, or none.
LEMMA MintingOrNot ==
  ASSUME TypeOK, [Next]_vars
  PROVE  \/ NotMinting
         \/ \E w \in Workers : SecondFactor(w) \/ MintSession(w) \/ verifyTOTPOrRecovery(w)
<1> USE DEF NotMinting, sessions, account, history, goto, step, Idle, TypeOK, WorkerType
<1>1. ASSUME NEW w \in Workers, CheckPassword(w) \/ IssuePending(w) PROVE NotMinting
  <2>1. CASE CheckPassword(w)
    BY <2>1 DEF CheckPassword
  <2>2. CASE IssuePending(w)
    BY <2>2 DEF IssuePending
  <2> QED
    BY <1>1, <2>1, <2>2
<1>2. ASSUME NEW w \in Workers, Login2FA(w), ~ verifyTOTPOrRecovery(w) PROVE NotMinting
  <2>1. ASSUME NEW t \in Tokens, VerifyPending(w, t) PROVE NotMinting
    <3>1. UNCHANGED <<enrolled, via, passes, failedOpen>>
          /\ (token' = token \/ token' = [token EXCEPT ![t] = "gone"])
      BY <2>1 DEF VerifyPending, refuse, Delete
    <3>2. \/ worker' = worker
          \/ \E at \in {"drop", "code"} :
               worker' = [worker EXCEPT ![w] = [Idle EXCEPT !.at = at, !.token = t]]
      BY <2>1 DEF VerifyPending, refuse
    <3>3. CASE worker' = worker
      BY <3>1, <3>3
    <3>4. ASSUME NEW at \in {"drop", "code"},
                 worker' = [worker EXCEPT ![w] = [Idle EXCEPT !.at = at, !.token = t]]
          PROVE  NotMinting
      <4>1. worker'[w].at = at /\ \A v \in Workers \ {w} : worker'[v] = worker[v]
        BY <3>4
      <4> QED
        BY <3>1, <4>1
    <3> QED
      BY <3>2, <3>3, <3>4
  <2>2. CASE Drop(w)
    BY <2>2 DEF Drop, Delete
  <2>3. CASE ConsumePending(w)
    BY <2>3 DEF ConsumePending, Delete
  <2> QED
    BY <1>2, <2>1, <2>2, <2>3 DEF Login2FA
<1>3. ASSUME NEW w \in Workers, SessionList(w) PROVE NotMinting
  <2>1. ASSUME NEW s \in Tokens, Logout(s) PROVE NotMinting
    BY <2>1 DEF Logout, Delete
  <2>2. ASSUME NEW s \in Tokens, SignOutOthers(s) PROVE NotMinting
    BY <2>2 DEF SignOutOthers, revokeAllExcept
  <2>3. ASSUME NEW s \in Tokens, ValidateExpired(w, s) PROVE NotMinting
    BY <2>3 DEF ValidateExpired, refuse, Delete
  <2>4. ASSUME NEW s \in Tokens, NEW t \in Tokens, RevokeLookup(w, s, t) PROVE NotMinting
    BY <2>4 DEF RevokeLookup
  <2>5. CASE RevokeByID(w)
    BY <2>5 DEF RevokeByID, Delete
  <2> QED
    BY <1>3, <2>1, <2>2, <2>3, <2>4, <2>5 DEF SessionList
<1>4. ASSUME NEW w \in Workers, NewPassword(w) PROVE NotMinting
  <2>1. ASSUME NEW s \in Tokens, NEW new \in Passwords, ChangePassword(w, s, new)
        PROVE  NotMinting
    BY <2>1 DEF ChangePassword
  <2>2. ASSUME NEW r \in ResetTokens, NEW new \in Passwords, ConsumeResetToken(w, r, new)
        PROVE  NotMinting
    BY <2>2 DEF ConsumeResetToken
  <2>3. CASE SpendResetToken(w)
    BY <2>3 DEF SpendResetToken
  <2>4. CASE StoreHash(w)
    BY <2>4 DEF StoreHash
  <2>5. CASE SetHash(w)
    BY <2>5 DEF SetHash
  <2>6. CASE RevokeAll(w)
    BY <2>6 DEF RevokeAll, revokeAllExcept
  <2> QED
    BY <1>4, <2>1, <2>2, <2>3, <2>4, <2>5, <2>6 DEF NewPassword
<1>5. ASSUME NEW r \in ResetTokens, CreateResetToken(r) \/ ExpireReset(r) PROVE NotMinting
  BY <1>5 DEF CreateResetToken, ExpireReset
<1>6. ASSUME NEW t \in Tokens, Expire(t) PROVE NotMinting
  BY <1>6 DEF Expire
<1>7. CASE GC
  BY <1>7 DEF GC
<1>8. CASE Restart
  BY <1>8 DEF Restart
<1>9. CASE UNCHANGED vars
  BY <1>9 DEF vars
<1> QED
  BY <1>1, <1>2, <1>3, <1>4, <1>5, <1>6, <1>7, <1>8, <1>9 DEF Next, Login

\* The requests that are to make a session are finitely many, as the workers are.
LEMMA ComingFinite ==
  ASSUME NEW x
  PROVE  /\ IsFiniteSet(Coming(x)) /\ Cardinality(Coming(x)) \in Nat
         /\ IsFiniteSet(Coming(x)') /\ Cardinality(Coming(x)') \in Nat
<1>1. Coming(x) \subseteq Workers /\ Coming(x)' \subseteq Workers
  BY DEF Coming
<1> QED
  BY <1>1, WorkersAssumption, FS_Subset, FS_CardinalityType

\* Counting for x: a step that adds to neither set keeps to what allows them.
LEMMA FewerMinted ==
  ASSUME NEW x, IsFiniteSet(SessionsVia(x)), Allowed(x) \in Nat, Allowed(x)' = Allowed(x),
         Cardinality(SessionsVia(x)) + Cardinality(Coming(x)) <= Allowed(x),
         SessionsVia(x)' \subseteq SessionsVia(x), Coming(x)' \subseteq Coming(x)
  PROVE  /\ IsFiniteSet(SessionsVia(x)')
         /\ Cardinality(SessionsVia(x)') + Cardinality(Coming(x)') <= Allowed(x)'
<1>1. /\ IsFiniteSet(SessionsVia(x)') /\ Cardinality(SessionsVia(x)') \in Nat
      /\ Cardinality(SessionsVia(x)) \in Nat
      /\ Cardinality(SessionsVia(x)') <= Cardinality(SessionsVia(x))
  BY FS_Subset, FS_CardinalityType
<1>2. Cardinality(Coming(x)') <= Cardinality(Coming(x))
  BY ComingFinite, FS_Subset
<1> QED
  BY <1>1, <1>2, ComingFinite

\* One more is to come, and one more is allowed.
LEMMA OneMoreComing ==
  ASSUME NEW x, IsFiniteSet(SessionsVia(x)), Allowed(x) \in Nat, Allowed(x)' = Allowed(x) + 1,
         Cardinality(SessionsVia(x)) + Cardinality(Coming(x)) <= Allowed(x),
         SessionsVia(x)' = SessionsVia(x), NEW w, Coming(x)' \subseteq Coming(x) \cup {w}
  PROVE  /\ IsFiniteSet(SessionsVia(x)')
         /\ Cardinality(SessionsVia(x)') + Cardinality(Coming(x)') <= Allowed(x)'
<1>1. Cardinality(SessionsVia(x)) \in Nat
  BY FS_CardinalityType
<1> DEFINE C == Coming(x)
<1>2. IsFiniteSet(C) /\ Cardinality(C) \in Nat
  BY ComingFinite
<1> HIDE DEF C
<1>3. /\ IsFiniteSet(C \cup {w})
      /\ Cardinality(C \cup {w}) \in {Cardinality(C), Cardinality(C) + 1}
  BY <1>2, FS_AddElement, Zenon
<1>4. Cardinality(Coming(x)') <= Cardinality(C \cup {w})
  BY <1>3, FS_Subset DEF C
<1>5. Cardinality(Coming(x)') <= Cardinality(Coming(x)) + 1
  BY <1>2, <1>3, <1>4, ComingFinite DEF C
<1> QED
  BY <1>1, <1>5, ComingFinite

\* The session that was to come is there.
LEMMA OneMoreMinted ==
  ASSUME NEW x, IsFiniteSet(SessionsVia(x)), Allowed(x) \in Nat, Allowed(x)' = Allowed(x),
         Cardinality(SessionsVia(x)) + Cardinality(Coming(x)) <= Allowed(x),
         NEW s, SessionsVia(x)' \subseteq SessionsVia(x) \cup {s},
         NEW w \in Coming(x), Coming(x)' \subseteq Coming(x) \ {w}
  PROVE  /\ IsFiniteSet(SessionsVia(x)')
         /\ Cardinality(SessionsVia(x)') + Cardinality(Coming(x)') <= Allowed(x)'
<1> DEFINE S == SessionsVia(x)
           C == Coming(x)
<1>1. IsFiniteSet(S) /\ Cardinality(S) \in Nat /\ IsFiniteSet(C) /\ Cardinality(C) \in Nat
      /\ w \in C
  BY FS_CardinalityType, ComingFinite
<1>2. SessionsVia(x)' \subseteq S \cup {s} /\ Coming(x)' \subseteq C \ {w}
  OBVIOUS
<1> HIDE DEF S, C
<1>3. /\ IsFiniteSet(S \cup {s})
      /\ Cardinality(S \cup {s}) \in {Cardinality(S), Cardinality(S) + 1}
  BY <1>1, FS_AddElement, Zenon
<1>4. IsFiniteSet(C \ {w}) /\ Cardinality(C \ {w}) = Cardinality(C) - 1
  BY <1>1, FS_RemoveElement
<1>5. /\ IsFiniteSet(SessionsVia(x)') /\ Cardinality(SessionsVia(x)') \in Nat
      /\ Cardinality(SessionsVia(x)') <= Cardinality(S \cup {s})
  BY <1>2, <1>3, FS_Subset, FS_CardinalityType
<1>6. Cardinality(Coming(x)') <= Cardinality(C \ {w})
  BY <1>2, <1>4, FS_Subset
<1>7. Cardinality(SessionsVia(x)') <= Cardinality(S) + 1
  BY <1>1, <1>3, <1>5
<1>8. Cardinality(Coming(x)') <= Cardinality(C) - 1
  BY <1>4, <1>6
<1>9. Cardinality(S) + Cardinality(C) <= Allowed(x)
  BY DEF S, C
<1> QED
  BY <1>1, <1>5, <1>7, <1>8, <1>9, ComingFinite

LEMMA CodeStep == TypeOK /\ CodeInv /\ [Next]_vars => CodeInv'
<1> SUFFICES ASSUME TypeOK, CodeInv, [Next]_vars PROVE CodeInv'
  OBVIOUS
<1>0. /\ \A x \in Tokens \cup {None} : Allowed(x) \in Nat
      /\ enrolled => \A x \in Tokens \cup {None} :
           /\ IsFiniteSet(SessionsVia(x))
           /\ Cardinality(SessionsVia(x)) + Cardinality(Coming(x)) <= Allowed(x)
  BY DEF CodeInv, Allowed, TypeOK
<1>1. CASE NotMinting
  <2>1. \A w \in Workers : worker'[w].at = "checked" => worker'[w].token = None
    BY <1>1 DEF NotMinting, CodeInv
  <2>2. ASSUME enrolled', NEW x \in Tokens \cup {None}
        PROVE  /\ IsFiniteSet(SessionsVia(x)')
               /\ Cardinality(SessionsVia(x)') + Cardinality(Coming(x)') <= Allowed(x)'
    <3>1. enrolled /\ Allowed(x)' = Allowed(x)
      BY <1>1, <2>2 DEF NotMinting, Allowed
    <3>2. SessionsVia(x)' \subseteq SessionsVia(x) /\ Coming(x)' \subseteq Coming(x)
      BY <1>1 DEF NotMinting, SessionsVia, Coming
    <3> QED
      BY <1>0, <3>1, <3>2, FewerMinted
  <2> QED
    BY <2>1, <2>2 DEF CodeInv
<1>2. ASSUME NEW w \in Workers, SecondFactor(w) PROVE CodeInv'
  <2>1. /\ UNCHANGED <<enrolled, via, passes, token>> /\ worker[w].at = "checked"
        /\ worker[w].token = None
    BY <1>2 DEF SecondFactor, account, sessions, CodeInv
  <2>2. /\ worker'[w].token = None /\ worker'[w].at \in {"issue", "mint"}
        /\ \A v \in Workers \ {w} : worker'[v] = worker[v]
    BY <1>2, <2>1 DEF SecondFactor, step, goto, TypeOK, WorkerType
  <2>3. \A v \in Workers : worker'[v].at = "checked" => worker'[v].token = None
    BY <2>2 DEF CodeInv
  <2>4. \A x : SessionsVia(x)' = SessionsVia(x)
    BY <2>1 DEF SessionsVia
  <2>5. \A x : Coming(x)' \subseteq Coming(x) \cup {w}
    BY <2>2 DEF Coming
  <2>6. \A x : x # None => Coming(x)' \subseteq Coming(x) /\ Allowed(x)' = Allowed(x)
    BY <2>1, <2>2 DEF Coming, Allowed
  <2>7. ASSUME enrolled', NEW x \in Tokens \cup {None}
        PROVE  /\ IsFiniteSet(SessionsVia(x)')
               /\ Cardinality(SessionsVia(x)') + Cardinality(Coming(x)') <= Allowed(x)'
    <3>1. CASE x # None
      BY <1>0, <2>1, <2>4, <2>6, <2>7, <3>1, FewerMinted
    <3>2. CASE x = None /\ failedOpen' = failedOpen + 1
      <4>1. Allowed(x)' = Allowed(x) + 1
        BY <3>2 DEF Allowed
      <4> QED
        BY <1>0, <2>1, <2>4, <2>5, <2>7, <4>1, OneMoreComing
    <3>3. CASE x = None /\ step(w, "issue") /\ UNCHANGED failedOpen
      <4>1. worker'[w].at = "issue"
        BY <3>3 DEF step, goto, TypeOK, WorkerType
      <4>2. Coming(x)' \subseteq Coming(x) /\ Allowed(x)' = Allowed(x)
        BY <2>2, <3>3, <4>1 DEF Coming, Allowed
      <4> QED
        BY <1>0, <2>1, <2>4, <2>7, <4>2, FewerMinted
    <3> QED
      BY <1>2, <2>1, <2>7, <3>1, <3>2, <3>3 DEF SecondFactor
  <2> QED
    BY <2>3, <2>7 DEF CodeInv
<1>3. ASSUME NEW w \in Workers, MintSession(w) PROVE CodeInv'
  <2>1. /\ UNCHANGED <<enrolled, passes, failedOpen>> /\ worker[w].at = "mint"
        /\ worker' = [worker EXCEPT ![w] = Idle]
    BY <1>3 DEF MintSession, account, goto
  <2>2. worker'[w] = Idle /\ \A v \in Workers \ {w} : worker'[v] = worker[v]
    BY <2>1 DEF TypeOK
  <2>3. \A v \in Workers : worker'[v].at = "checked" => worker'[v].token = None
    BY <2>2 DEF CodeInv, Idle
  <2>4. \A x : Coming(x)' \subseteq Coming(x) \ {w} /\ Allowed(x)' = Allowed(x)
    BY <2>1, <2>2 DEF Coming, Idle, Allowed
  <2>5. ASSUME enrolled', NEW x \in Tokens \cup {None}
        PROVE  /\ IsFiniteSet(SessionsVia(x)')
               /\ Cardinality(SessionsVia(x)') + Cardinality(Coming(x)') <= Allowed(x)'
    <3>1. CASE UNCHANGED <<token, via>>
      <4>1. SessionsVia(x)' \subseteq SessionsVia(x)
        BY <3>1 DEF SessionsVia
      <4> QED
        BY <1>0, <2>1, <2>4, <2>5, <4>1, FewerMinted
    <3>2. ASSUME NEW t \in Tokens, token[t] = "unused", token' = [token EXCEPT ![t] = "session"],
                 via' = [via EXCEPT ![t] = worker[w].token]
          PROVE  /\ IsFiniteSet(SessionsVia(x)')
                 /\ Cardinality(SessionsVia(x)') + Cardinality(Coming(x)') <= Allowed(x)'
      <4>1. CASE worker[w].token = x
        <5>1. SessionsVia(x)' \subseteq SessionsVia(x) \cup {t}
          BY <3>2 DEF SessionsVia, TypeOK
        <5>2. w \in Coming(x)
          BY <2>1, <4>1 DEF Coming
        <5> QED
          BY <1>0, <2>1, <2>4, <2>5, <5>1, <5>2, OneMoreMinted
      <4>2. CASE worker[w].token # x
        <5>1. SessionsVia(x)' \subseteq SessionsVia(x)
          BY <3>2, <4>2 DEF SessionsVia, TypeOK
        <5> QED
          BY <1>0, <2>1, <2>4, <2>5, <5>1, FewerMinted
      <4> QED
        BY <4>1, <4>2
    <3> QED
      BY <1>3, <3>1, <3>2 DEF MintSession
  <2> QED
    BY <2>3, <2>5 DEF CodeInv
<1>4. ASSUME NEW w \in Workers, verifyTOTPOrRecovery(w) PROVE CodeInv'
  <2>1. /\ UNCHANGED <<enrolled, via, token, failedOpen>> /\ worker[w].at = "code"
        /\ worker[w].token \in Tokens /\ (Accepted(w) \/ Rejected(w))
    BY <1>4 DEF verifyTOTPOrRecovery, sessions, TypeOK, WorkerType
  <2>2. \/ /\ worker'[w].at = "consume" /\ worker'[w].token = worker[w].token
           /\ passes' = [passes EXCEPT ![worker[w].token] = @ + 1]
        \/ worker'[w] = Idle /\ passes' = passes
    BY <2>1 DEF Accepted, Rejected, step, goto, TypeOK, WorkerType
  <2>3. \A v \in Workers \ {w} : worker'[v] = worker[v]
    BY <2>1 DEF Accepted, Rejected, step, goto, TypeOK
  <2>4. \A v \in Workers : worker'[v].at = "checked" => worker'[v].token = None
    BY <2>2, <2>3 DEF CodeInv, Idle
  <2>5. \A x : SessionsVia(x)' = SessionsVia(x)
    BY <2>1 DEF SessionsVia
  <2>6. ASSUME enrolled', NEW x \in Tokens \cup {None}
        PROVE  /\ IsFiniteSet(SessionsVia(x)')
               /\ Cardinality(SessionsVia(x)') + Cardinality(Coming(x)') <= Allowed(x)'
    <3>1. CASE Accepted(w) /\ x = worker[w].token
      <4>1. passes' = [passes EXCEPT ![x] = @ + 1]
        BY <3>1 DEF Accepted
      <4>2. Allowed(x)' = Allowed(x) + 1
        BY <2>1, <3>1, <4>1, NoneAssumption DEF Allowed, TypeOK
      <4>3. Coming(x)' \subseteq Coming(x) \cup {w}
        BY <2>3 DEF Coming
      <4> QED
        BY <1>0, <2>1, <2>5, <2>6, <4>2, <4>3, OneMoreComing
    <3>2. CASE Rejected(w) \/ x # worker[w].token
      <4>1. Allowed(x)' = Allowed(x)
        BY <2>1, <2>2, <2>6, <3>2 DEF Allowed, TypeOK, Rejected
      <4>2. Coming(x)' \subseteq Coming(x)
        <5>1. CASE Rejected(w)
          BY <2>3, <5>1 DEF Coming, Rejected, goto, Idle, TypeOK
        <5>2. CASE x # worker[w].token
          BY <2>2, <2>3, <5>2 DEF Coming, Idle
        <5> QED
          BY <3>2, <5>1, <5>2
      <4> QED
        BY <1>0, <2>1, <2>5, <2>6, <4>1, <4>2, FewerMinted
    <3> QED
      BY <2>1, <3>1, <3>2
  <2> QED
    BY <2>4, <2>6 DEF CodeInv
<1> QED
  BY <1>1, <1>2, <1>3, <1>4, MintingOrNot

\* With a second factor every session has a verified code of its own behind it, but
\* for the logins that could not read the account: for any number of requests,
\* whatever overlaps, fails or restarts.
THEOREM NoSessionWithoutACode == Spec => []SessionNeedsACode
<1>1. Init => CodeInv
  <2> SUFFICES ASSUME Init PROVE CodeInv
    OBVIOUS
  <2>1. \A x : SessionsVia(x) = {} /\ Coming(x) = {}
    BY DEF Init, SessionsVia, Coming, Idle
  <2>2. \A x \in Tokens \cup {None} : Allowed(x) \in Nat
    BY DEF Init, Allowed
  <2>3. \A x \in Tokens \cup {None} :
          /\ IsFiniteSet(SessionsVia(x)) /\ Cardinality(SessionsVia(x)) = 0
          /\ Cardinality(Coming(x)) = 0
    BY <2>1, FS_EmptySet
  <2>4. \A w \in Workers : worker[w].at # "checked"
    BY DEF Init, Idle
  <2> QED
    BY <2>2, <2>3, <2>4 DEF CodeInv
<1>2. TypeOK /\ CodeInv => SessionNeedsACode
  <2> SUFFICES ASSUME TypeOK, CodeInv, enrolled, NEW x \in Tokens \cup {None}
               PROVE  Cardinality(SessionsVia(x)) <= Allowed(x)
    BY NoneAssumption DEF SessionNeedsACode, Allowed
  <2>1. Cardinality(SessionsVia(x)) \in Nat /\ Cardinality(Coming(x)) \in Nat
    BY ComingFinite, FS_CardinalityType DEF CodeInv
  <2>2. Allowed(x) \in Nat
    BY DEF Allowed, TypeOK
  <2> QED
    BY <2>1, <2>2 DEF CodeInv
<1> QED
  BY <1>1, <1>2, Typing, CodeStep, PTL DEF Spec

-----------------------------------------------------------------------------
(* A reset link and the passwords stored for it.                           *)

\* The requests that read the link and have not stored their password yet.
Using(r) == {w \in Workers : worker[w].reset = r /\ worker[w].at \in {"spend", "storeHash"}}

\* Once a request is past the UPDATE the link is marked used, and no request that
\* was not under way then comes to use it.
LinkInv ==
  /\ \A w \in Workers : worker[w].at = "storeHash" /\ worker[w].reset # None
                          => reset[worker[w].reset] = "used"
  /\ \A r \in ResetTokens : redeemed[r] > 0 => reset[r] = "used"
  /\ ResetLinkUsesOverlap

\* The steps that use no link.
NotUsing ==
  /\ UNCHANGED redeemed
  /\ \A r \in ResetTokens : reset[r] = "used" => reset'[r] = "used"
  /\ \A w \in Workers :
       worker'[w].at \in {"spend", "storeHash"} => worker'[w] = worker[w]
                                                   \/ worker'[w].reset = None

\* Every step is one of the three of a reset, or uses no link.
LEMMA UsingOrNot ==
  ASSUME TypeOK, [Next]_vars
  PROVE  \/ NotUsing
         \/ \E w \in Workers :
              \/ \E r \in ResetTokens, new \in Passwords : ConsumeResetToken(w, r, new)
              \/ SpendResetToken(w) \/ StoreHash(w)
<1> USE DEF NotUsing, sessions, account, history, goto, step, Idle, TypeOK, WorkerType
<1>1. ASSUME NEW w \in Workers, Login(w) PROVE NotUsing
  <2>1. CASE CheckPassword(w)
    BY <2>1 DEF CheckPassword
  <2>2. CASE SecondFactor(w)
    BY <2>2 DEF SecondFactor
  <2>3. CASE IssuePending(w)
    BY <2>3 DEF IssuePending
  <2>4. CASE MintSession(w)
    BY <2>4 DEF MintSession
  <2> QED
    BY <1>1, <2>1, <2>2, <2>3, <2>4 DEF Login
<1>2. ASSUME NEW w \in Workers, Login2FA(w) PROVE NotUsing
  <2>1. ASSUME NEW t \in Tokens, VerifyPending(w, t) PROVE NotUsing
    <3>1. UNCHANGED <<redeemed, reset>>
      BY <2>1 DEF VerifyPending
    <3>2. \/ worker' = worker
          \/ \E at \in {"drop", "code"} :
               worker' = [worker EXCEPT ![w] = [Idle EXCEPT !.at = at, !.token = t]]
      BY <2>1 DEF VerifyPending, refuse
    <3>3. ASSUME NEW at \in {"drop", "code"},
                 worker' = [worker EXCEPT ![w] = [Idle EXCEPT !.at = at, !.token = t]]
          PROVE  NotUsing
      <4>1. worker'[w].at = at /\ \A v \in Workers \ {w} : worker'[v] = worker[v]
        BY <3>3
      <4> QED
        BY <3>1, <4>1
    <3> QED
      BY <3>1, <3>2, <3>3
  <2>2. CASE Drop(w)
    BY <2>2 DEF Drop
  <2>3. CASE verifyTOTPOrRecovery(w)
    BY <2>3 DEF verifyTOTPOrRecovery, Accepted, Rejected
  <2>4. CASE ConsumePending(w)
    BY <2>4 DEF ConsumePending
  <2> QED
    BY <1>2, <2>1, <2>2, <2>3, <2>4 DEF Login2FA
<1>3. ASSUME NEW w \in Workers, SessionList(w) PROVE NotUsing
  <2>1. ASSUME NEW s \in Tokens, Logout(s) PROVE NotUsing
    BY <2>1 DEF Logout
  <2>2. ASSUME NEW s \in Tokens, SignOutOthers(s) PROVE NotUsing
    BY <2>2 DEF SignOutOthers
  <2>3. ASSUME NEW s \in Tokens, ValidateExpired(w, s) PROVE NotUsing
    BY <2>3 DEF ValidateExpired, refuse
  <2>4. ASSUME NEW s \in Tokens, NEW t \in Tokens, RevokeLookup(w, s, t) PROVE NotUsing
    BY <2>4 DEF RevokeLookup
  <2>5. CASE RevokeByID(w)
    BY <2>5 DEF RevokeByID
  <2> QED
    BY <1>3, <2>1, <2>2, <2>3, <2>4, <2>5 DEF SessionList
<1>4. ASSUME NEW w \in Workers,
             \/ \E s \in Tokens, new \in Passwords : ChangePassword(w, s, new)
             \/ SetHash(w) \/ RevokeAll(w)
      PROVE  NotUsing
  <2>1. ASSUME NEW s \in Tokens, NEW new \in Passwords, ChangePassword(w, s, new)
        PROVE  NotUsing
    BY <2>1 DEF ChangePassword
  <2>2. CASE SetHash(w)
    BY <2>2 DEF SetHash
  <2>3. CASE RevokeAll(w)
    BY <2>3 DEF RevokeAll
  <2> QED
    BY <1>4, <2>1, <2>2, <2>3
<1>5. ASSUME NEW r \in ResetTokens, CreateResetToken(r) \/ ExpireReset(r) PROVE NotUsing
  BY <1>5 DEF CreateResetToken, ExpireReset
<1>6. ASSUME NEW t \in Tokens, Expire(t) PROVE NotUsing
  BY <1>6 DEF Expire
<1>7. CASE GC
  BY <1>7 DEF GC
<1>8. CASE Restart
  BY <1>8 DEF Restart
<1>9. CASE UNCHANGED vars
  BY <1>9 DEF vars
<1> QED
  BY <1>1, <1>2, <1>3, <1>4, <1>5, <1>6, <1>7, <1>8, <1>9 DEF Next, NewPassword

\* The requests that use a link are finitely many.
LEMMA UsingFinite ==
  ASSUME NEW r
  PROVE  /\ IsFiniteSet(Using(r)) /\ Cardinality(Using(r)) \in Nat
         /\ IsFiniteSet(Using(r)') /\ Cardinality(Using(r)') \in Nat
         /\ Cardinality(Using(r)') <= Cardinality(Workers) /\ Cardinality(Workers) \in Nat
         /\ Using(r)' \subseteq Using(r) => Cardinality(Using(r)') <= Cardinality(Using(r))
<1>1. Using(r) \subseteq Workers /\ Using(r)' \subseteq Workers
  BY DEF Using
<1>2. /\ IsFiniteSet(Using(r)) /\ Cardinality(Using(r)) \in Nat
      /\ IsFiniteSet(Using(r)') /\ Cardinality(Using(r)') \in Nat
      /\ Cardinality(Workers) \in Nat
  BY <1>1, WorkersAssumption, FS_Subset, FS_CardinalityType
<1>3. Cardinality(Using(r)') <= Cardinality(Workers)
  BY <1>1, WorkersAssumption, FS_Subset
<1>4. ASSUME Using(r)' \subseteq Using(r)
      PROVE  Cardinality(Using(r)') <= Cardinality(Using(r))
  BY <1>2, <1>4, FS_Subset
<1> QED
  BY <1>2, <1>3, <1>4

LEMMA LinkStep == TypeOK /\ LinkInv /\ [Next]_vars => LinkInv'
<1> SUFFICES ASSUME TypeOK, LinkInv, [Next]_vars PROVE LinkInv'
  OBVIOUS
<1> DEFINE Few(r) == redeemed[r] + Cardinality(Using(r)) <= Cardinality(Workers)
           Known(w) == worker[w].at = "storeHash" /\ worker[w].reset # None
                         => reset[worker[w].reset] = "used"
           Used(r) == redeemed[r] > 0 => reset[r] = "used"
<1>0. ResetLinkUsesOverlap <=> \A r \in ResetTokens : Few(r)
  BY DEF ResetLinkUsesOverlap, Using
<1>1. /\ \A r \in ResetTokens : Few(r) /\ Used(r) /\ redeemed[r] \in Nat
      /\ \A w \in Workers : Known(w) /\ worker[w] \in WorkerType
  BY <1>0 DEF LinkInv, TypeOK
<1>2. ResetLinkUsesOverlap' <=> \A r \in ResetTokens : Few(r)'
  BY DEF ResetLinkUsesOverlap, Using
<1> SUFFICES /\ \A r \in ResetTokens : Few(r)' /\ Used(r)'
             /\ \A w \in Workers : Known(w)'
  BY <1>2 DEF LinkInv
\* A link that nobody comes to use is used no more often.
<1>3. ASSUME NEW r \in ResetTokens, redeemed'[r] = redeemed[r], Using(r)' \subseteq Using(r)
      PROVE  Few(r)'
  BY <1>1, <1>3, UsingFinite
<1>4. CASE NotUsing
  <2>1. \A r \in ResetTokens : Using(r)' \subseteq Using(r)
    BY <1>4, NoneAssumption DEF NotUsing, Using
  <2>2. \A r \in ResetTokens : Few(r)' /\ Used(r)'
    BY <1>1, <1>3, <1>4, <2>1 DEF NotUsing
  <2>3. \A w \in Workers : Known(w)'
    BY <1>1, <1>4 DEF NotUsing, WorkerType
  <2> QED
    BY <2>2, <2>3
<1>5. ASSUME NEW w \in Workers, NEW r \in ResetTokens, NEW new \in Passwords,
             ConsumeResetToken(w, r, new)
      PROVE  /\ \A x \in ResetTokens : Few(x)' /\ Used(x)'
             /\ \A v \in Workers : Known(v)'
  <2>1. UNCHANGED <<reset, redeemed>> /\ reset[r] = "sent"
    BY <1>5 DEF ConsumeResetToken, account, history
  <2>2. /\ worker'[w].at = "spend" /\ worker'[w].reset = r
        /\ \A v \in Workers \ {w} : worker'[v] = worker[v]
    BY <1>5 DEF ConsumeResetToken, goto, Idle, TypeOK
  <2>3. ASSUME NEW x \in ResetTokens PROVE Few(x)'
    <3>1. CASE x = r
      <4>1. redeemed[x] = 0
        BY <1>1, <2>1, <3>1
      <4> QED
        BY <2>1, <4>1, UsingFinite
    <3>2. CASE x # r
      <4>1. Using(x)' \subseteq Using(x)
        BY <2>2, <3>2 DEF Using
      <4> QED
        BY <1>3, <2>1, <4>1
    <3> QED
      BY <3>1, <3>2
  <2> QED
    BY <1>1, <2>1, <2>2, <2>3
<1>6. ASSUME NEW w \in Workers, SpendResetToken(w)
      PROVE  /\ \A x \in ResetTokens : Few(x)' /\ Used(x)'
             /\ \A v \in Workers : Known(v)'
  <2>1. UNCHANGED redeemed /\ worker[w].at = "spend" /\ worker[w].reset \in ResetTokens
    BY <1>6 DEF SpendResetToken, history, TypeOK, WorkerType
  <2>2. \/ /\ reset' = [reset EXCEPT ![worker[w].reset] = "used"]
           /\ worker'[w].at = "storeHash" /\ worker'[w].reset = worker[w].reset
        \/ UNCHANGED reset /\ worker'[w] = Idle
    BY <1>6 DEF SpendResetToken, step, goto, TypeOK, WorkerType
  <2>3. \A v \in Workers \ {w} : worker'[v] = worker[v]
    BY <1>6 DEF SpendResetToken, step, goto, TypeOK
  <2>4. \A x \in ResetTokens : (reset[x] = "used" => reset'[x] = "used")
    BY <2>2 DEF TypeOK
  <2>5. \A x \in ResetTokens : Using(x)' \subseteq Using(x)
    BY <2>1, <2>2, <2>3 DEF Using, Idle
  <2>6. \A v \in Workers : Known(v)'
    <3>1. Known(w)'
      BY <2>1, <2>2 DEF Idle, TypeOK
    <3>2. ASSUME NEW v \in Workers \ {w} PROVE Known(v)'
      BY <1>1, <2>3, <2>4 DEF WorkerType
    <3> QED
      BY <3>1, <3>2
  <2> QED
    BY <1>1, <1>3, <2>1, <2>4, <2>5, <2>6
<1>7. ASSUME NEW w \in Workers, StoreHash(w)
      PROVE  /\ \A x \in ResetTokens : Few(x)' /\ Used(x)'
             /\ \A v \in Workers : Known(v)'
  <2>1. UNCHANGED reset /\ worker[w].at = "storeHash"
    BY <1>7 DEF StoreHash
  <2>2. worker'[w].at \in {"idle", "setHash"} /\ \A v \in Workers \ {w} : worker'[v] = worker[v]
    BY <1>7 DEF StoreHash, step, goto, Idle, TypeOK, WorkerType
  <2>3. \A x : Using(x)' \subseteq Using(x) \ {w}
    BY <2>2 DEF Using
  <2>4. \A v \in Workers : Known(v)'
    BY <1>1, <2>1, <2>2
  <2>5. ASSUME NEW x \in ResetTokens PROVE Few(x)' /\ Used(x)'
    <3>1. CASE redeemed'[x] = redeemed[x]
      BY <1>1, <1>3, <2>1, <2>3, <3>1
    <3>2. CASE x = worker[w].reset /\ redeemed'[x] = redeemed[x] + 1
      <4>1. reset[x] = "used"
        BY <1>1, <2>1, <3>2, NoneAssumption
      <4>2. w \in Using(x)
        BY <2>1, <3>2 DEF Using
      <4> DEFINE U == Using(x)
      <4>3. IsFiniteSet(U) /\ Cardinality(U) \in Nat /\ w \in U /\ Using(x)' \subseteq U \ {w}
        BY <2>3, <4>2, UsingFinite
      <4> HIDE DEF U
      <4>4. IsFiniteSet(U \ {w}) /\ Cardinality(U \ {w}) = Cardinality(U) - 1
        BY <4>3, FS_RemoveElement
      <4>5. Cardinality(Using(x)') <= Cardinality(U) - 1
        BY <4>3, <4>4, FS_Subset
      <4>6. redeemed[x] + Cardinality(U) <= Cardinality(Workers) /\ redeemed[x] \in Nat
        BY <1>1 DEF U
      <4>7. redeemed'[x] + Cardinality(Using(x)') <= Cardinality(Workers)
        BY <3>2, <4>3, <4>5, <4>6, UsingFinite
      <4> QED
        BY <2>1, <4>1, <4>7
    <3>3. redeemed'[x] = redeemed[x] \/ (x = worker[w].reset /\ redeemed'[x] = redeemed[x] + 1)
      BY <1>7 DEF StoreHash, noteStored
    <3> QED
      BY <3>1, <3>2, <3>3
  <2> QED
    BY <2>4, <2>5
<1> QED
  BY <1>4, <1>5, <1>6, <1>7, UsingOrNot

\* How far a reset link is single-use: it stores a password for each of the requests
\* that read it before one of them marked it used, and for no other.
THEOREM ResetLinkIsOverlapped == Spec => []ResetLinkUsesOverlap
<1>1. Init => LinkInv
  <2> SUFFICES ASSUME Init PROVE LinkInv
    OBVIOUS
  <2>1. \A w \in Workers : worker[w].at = "idle"
    BY DEF Init, Idle
  <2>2. \A r \in ResetTokens : Using(r) = {} /\ redeemed[r] = 0
    BY <2>1 DEF Init, Using
  <2>3. Cardinality({}) = 0 /\ Cardinality(Workers) \in Nat
    BY FS_EmptySet, WorkersAssumption, FS_CardinalityType
  <2>4. \A r \in ResetTokens : redeemed[r] + Cardinality(Using(r)) <= Cardinality(Workers)
    BY <2>2, <2>3
  <2>5. ResetLinkUsesOverlap
    BY <2>4 DEF ResetLinkUsesOverlap, Using
  <2> QED
    BY <2>1, <2>2, <2>5 DEF LinkInv
<1>2. LinkInv => ResetLinkUsesOverlap
  BY DEF LinkInv
<1> QED
  BY <1>1, <1>2, Typing, LinkStep, PTL DEF Spec
=============================================================================
