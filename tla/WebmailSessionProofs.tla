------------------------ MODULE WebmailSessionProofs ------------------------
(***************************************************************************)
(* What the webmail sign-in promises, however requests, failed statements, *)
(* restarts and changes of the master key interleave, and for any number   *)
(* of requests, codes and tries: no mailbox password is written to the     *)
(* database unencrypted, nobody is asked for a code of a secret they never *)
(* proved to hold, the tries on a pending token are bounded, and every     *)
(* session is earned, once, and ends.                                      *)
(***************************************************************************)
EXTENDS WebmailSession, FiniteSetTheorems, TLAPS

-----------------------------------------------------------------------------
(* Passwords at rest.                                                      *)

\* A row that is written while the store is attached has the key of then.
RInv == /\ DOMAIN rows = Numbers
        /\ \A t \in Numbers : DOMAIN rows[t] = {"kind", "key", "attempts", "expired"}
        /\ NoPasswordInTheClear

\* The table is empty at the start.
LEMMA RInit == Init => RInv
  BY DEF Init, RInv, NoPasswordInTheClear, Gone

\* Create and Delete keep passwords encrypted.
LEMMA CreateKeeps ==
  ASSUME RInv, NEW t, NEW kind, Create(t, kind)
  PROVE  RInv'
  BY DEF RInv, NoPasswordInTheClear, Create, Durable, Gone

LEMMA DeleteKeeps ==
  ASSUME RInv, NEW t, Delete(t)
  PROVE  RInv'
  BY DEF RInv, NoPasswordInTheClear, Delete, Gone

\* Every step keeps passwords encrypted.
LEMMA RNext == RInv /\ [Next]_vars => RInv'
<1> SUFFICES ASSUME RInv, [Next]_vars PROVE RInv'
  OBVIOUS
<1>1. CASE UNCHANGED rows
  BY <1>1 DEF RInv, NoPasswordInTheClear
<1>2. ASSUME NEW w \in Workers, Pend(w) \/ Admit(w) \/ Mint(w) PROVE RInv'
  BY <1>2, CreateKeeps DEF Pend, Admit, Mint
<1>3. ASSUME NEW w \in Workers, FinishPending(w) \/ EndSession(w) PROVE RInv'
  BY <1>1, <1>3, DeleteKeeps DEF FinishPending, EndSession
<1>4. ASSUME NEW w \in Workers, IncrementAttempts(w) PROVE RInv'
  <2> DEFINE t == req[w].token
  <2>1. \/ UNCHANGED rows
        \/ rows' = [rows EXCEPT ![t] = Gone]
        \/ rows' = [rows EXCEPT ![t].attempts = @ + 1]
    BY <1>4 DEF IncrementAttempts
  <2> HIDE DEF t
  <2>2. CASE rows' = [rows EXCEPT ![t] = Gone]
    BY <2>2 DEF RInv, NoPasswordInTheClear, Gone
  <2>3. CASE rows' = [rows EXCEPT ![t].attempts = @ + 1]
    BY <2>3 DEF RInv, NoPasswordInTheClear
  <2> QED
    BY <1>1, <2>1, <2>2, <2>3
<1>5. ASSUME NEW w \in Workers, DropPending(w) PROVE RInv'
  BY <1>5 DEF DropPending, RInv, NoPasswordInTheClear, Gone
<1>6. ASSUME NEW t \in Numbers, Expire(t) PROVE RInv'
  <2>1. \/ UNCHANGED rows
        \/ rows' = [rows EXCEPT ![t].expired = TRUE]
    BY <1>6 DEF Expire, tables
  <2>2. CASE rows' = [rows EXCEPT ![t].expired = TRUE]
    BY <2>2 DEF RInv, NoPasswordInTheClear
  <2> QED
    BY <1>1, <2>1, <2>2
<1>7. CASE GC
  <2>1. \/ UNCHANGED rows
        \/ rows' = [t \in Numbers |-> IF rows[t].expired THEN Gone ELSE rows[t]]
    BY <1>7 DEF GC
  <2>2. CASE rows' = [t \in Numbers |-> IF rows[t].expired THEN Gone ELSE rows[t]]
    BY <2>2 DEF RInv, NoPasswordInTheClear, Gone
  <2> QED
    BY <1>1, <2>1, <2>2
<1>8. CASE Restart
  BY <1>1, <1>8 DEF Restart, tables
<1>9. ASSUME NEW w \in Workers,
             \/ WebmailLogin(w) \/ CheckAccount(w) \/ GetPending(w) \/ PeekMemory(w)
             \/ \E t \in PendingTokens, c \in CodesOfTheUser : TOTPVerify(w, t, c)
             \/ CheckCode(w) \/ ConsumeRecoveryCode(w) \/ StatementFails(w)
             \/ \E t \in Numbers : Logout(w, t)
      PROVE  RInv'
  BY <1>1, <1>9 DEF WebmailLogin, CheckAccount, GetPending, PeekMemory, TOTPVerify, CheckCode,
                    ConsumeRecoveryCode, StatementFails, Logout, tables
<1>10. ASSUME NEW w \in Workers,
              \/ TOTPEnroll(w) \/ TOTPConfirm(w) \/ Enable(w) \/ TOTPDisable(w) \/ TurnOff(w)
              \/ TOTPRecoveryRegenerate(w) \/ DeleteCodes(w) \/ InsertCode(w)
       PROVE  RInv'
  BY <1>1, <1>10 DEF TOTPEnroll, TOTPConfirm, Enable, TOTPDisable, TurnOff,
                     TOTPRecoveryRegenerate, DeleteCodes, InsertCode, tables
<1>11. CASE UNCHANGED vars
  BY <1>1, <1>11 DEF vars, tables
<1> QED
  BY <1>2, <1>3, <1>4, <1>5, <1>6, <1>7, <1>8, <1>9, <1>10, <1>11 DEF Next

\* A password "must never be written to disk unencrypted": it is in a row only
\* under a key, whatever keys the process was and will be started with.
THEOREM EncryptedAtRest == Spec => []NoPasswordInTheClear
<1>1. RInv => NoPasswordInTheClear
  BY DEF RInv
<1> QED
  BY <1>1, RInit, RNext, PTL DEF Spec

-----------------------------------------------------------------------------
(* The second factor that is on.                                           *)

\* A confirm that is about to enable carries a secret that was proven; requests
\* that were begun have a number, from which secrets are made.
EInv ==
  /\ DOMAIN req = Workers
  /\ \A w \in Workers : DOMAIN req[w] = DOMAIN Idle
  /\ \A w \in Workers : At(w, "enable") => req[w].secret \in proven
  /\ EnabledSecretIsProven

\* The enrolment of long ago was proven.
LEMMA EInit == Init => EInv
  BY DEF Init, EInv, At, Idle, EnabledSecretIsProven

\* Steps that put no request before its SetTOTP, and enable nothing.
Harmless ==
  /\ proven \subseteq proven' /\ account' = account
  /\ DOMAIN req' = Workers
  /\ \A v \in Workers :
       /\ DOMAIN req'[v] = DOMAIN Idle
       /\ req'[v].step = "enable" => req[v].step = "enable" /\ req'[v].secret = req[v].secret

LEMMA HarmlessKeeps == EInv /\ Harmless => EInv'
  BY DEF EInv, Harmless, At, EnabledSecretIsProven

\* Every step keeps the secret that is enabled a proven one: a confirm enables
\* the secret it verified, not the one that is stored by then.
LEMMA ENext == EInv /\ [Next]_vars => EInv'
<1> SUFFICES ASSUME EInv, [Next]_vars PROVE EInv'
  OBVIOUS
<1> USE DEF EInv
<1>1. ASSUME NEW w \in Workers, Enable(w) PROVE EInv'
  BY <1>1 DEF Enable, At, Goto, EnabledSecretIsProven, history
<1>2. ASSUME NEW w \in Workers, TOTPConfirm(w) PROVE EInv'
  BY <1>2 DEF TOTPConfirm, Start, At, Idle, EnabledSecretIsProven, tables
<1>3. ASSUME NEW w \in Workers, TurnOff(w) PROVE EInv'
  BY <1>3 DEF TurnOff, Off, At, Idle, EnabledSecretIsProven, history
<1>4. ASSUME NEW w \in Workers, TOTPEnroll(w) PROVE EInv'
  BY <1>4 DEF TOTPEnroll, Off, At, Idle, EnabledSecretIsProven, history
<1> USE DEF Harmless, At, Start, Goto, Done, tables, history
<1>5. ASSUME NEW w \in Workers,
             \/ WebmailLogin(w) \/ CheckAccount(w) \/ Pend(w) \/ Admit(w)
             \/ IncrementAttempts(w) \/ DropPending(w) \/ GetPending(w) \/ PeekMemory(w)
      PROVE  Harmless
  <2>1. CASE WebmailLogin(w)
    BY <2>1 DEF WebmailLogin, Idle
  <2>2. CASE CheckAccount(w)
    <3>1. \/ \E step \in {"pend", "admit"} : req' = [req EXCEPT ![w].step = step]
          \/ req' = [req EXCEPT ![w].step = "admit", ![w].off = TRUE]
      BY <2>2 DEF CheckAccount
    <3>2. proven' = proven /\ account' = account
      BY <2>2 DEF CheckAccount
    <3> QED
      BY <3>1, <3>2 DEF Idle
  <2>3. CASE Pend(w)
    BY <2>3 DEF Pend, Idle
  <2>4. CASE Admit(w)
    BY <2>4 DEF Admit, Idle
  <2>5. CASE IncrementAttempts(w)
    BY <2>5 DEF IncrementAttempts, Idle
  <2>6. CASE DropPending(w)
    BY <2>6 DEF DropPending, Idle
  <2>7. CASE GetPending(w)
    BY <2>7 DEF GetPending, Try, Idle
  <2>8. CASE PeekMemory(w)
    BY <2>8 DEF PeekMemory, Try, Idle
  <2> QED
    BY <1>5, <2>1, <2>2, <2>3, <2>4, <2>5, <2>6, <2>7, <2>8
<1>6. ASSUME NEW w \in Workers, NEW t, NEW c, TOTPVerify(w, t, c) PROVE Harmless
  BY <1>6 DEF TOTPVerify, Idle
<1>7. ASSUME NEW w \in Workers,
             \/ CheckCode(w) \/ ConsumeRecoveryCode(w) \/ FinishPending(w) \/ Mint(w)
             \/ \E t \in Numbers : Logout(w, t)
             \/ EndSession(w)
      PROVE  Harmless
  <2>1. CASE CheckCode(w)
    BY <2>1 DEF CheckCode, Idle
  <2>2. CASE ConsumeRecoveryCode(w)
    BY <2>2 DEF ConsumeRecoveryCode, Idle
  <2>3. CASE FinishPending(w)
    <3>1. \/ req' = [req EXCEPT ![w].step = "mint"]
          \/ req' = [req EXCEPT ![w].step = "mint", ![w].alone = FALSE]
      BY <2>3 DEF FinishPending
    <3>2. proven' = proven /\ account' = account
      BY <2>3 DEF FinishPending
    <3> QED
      BY <3>1, <3>2 DEF Idle
  <2>4. CASE Mint(w)
    BY <2>4 DEF Mint, Idle
  <2>5. CASE \E t \in Numbers : Logout(w, t)
    BY <2>5 DEF Logout, Idle
  <2>6. CASE EndSession(w)
    BY <2>6 DEF EndSession, Idle
  <2> QED
    BY <1>7, <2>1, <2>2, <2>3, <2>4, <2>5, <2>6
<1>8. ASSUME NEW w \in Workers,
             \/ TOTPDisable(w) \/ TOTPRecoveryRegenerate(w) \/ DeleteCodes(w)
             \/ InsertCode(w) \/ StatementFails(w)
      PROVE  Harmless
  <2>1. CASE TOTPDisable(w)
    BY <2>1 DEF TOTPDisable, Idle
  <2>2. CASE TOTPRecoveryRegenerate(w)
    BY <2>2 DEF TOTPRecoveryRegenerate, Idle
  <2>3. CASE DeleteCodes(w)
    BY <2>3 DEF DeleteCodes, Idle
  <2>4. CASE InsertCode(w)
    BY <2>4 DEF InsertCode, Idle
  <2>5. CASE StatementFails(w)
    BY <2>5 DEF StatementFails, Idle
  <2> QED
    BY <1>8, <2>1, <2>2, <2>3, <2>4, <2>5
<1>9. ASSUME GC \/ Restart \/ \E t \in Numbers : Expire(t) PROVE Harmless
  BY <1>9 DEF GC, Restart, Expire, Idle
<1>10. ASSUME UNCHANGED vars PROVE Harmless
  BY <1>10 DEF vars
<1> QED
  BY <1>1, <1>2, <1>3, <1>4, <1>5, <1>6, <1>7, <1>8, <1>9, <1>10, HarmlessKeeps DEF Next

\* "only on success marks 2FA enabled": whatever enrolments, confirms and
\* disables overlap, the secret that is on is one a code was verified for.
THEOREM NobodyLocksThemselvesOut == Spec => []EnabledSecretIsProven
<1>1. EInv => EnabledSecretIsProven
  BY DEF EInv
<1> QED
  BY <1>1, EInit, ENext, PTL DEF Spec

-----------------------------------------------------------------------------
(* Types.                                                                  *)

\* What a request carries fits the step it is at: it has a number unless it is
\* idle, a token where it works on one, a secret where it enables one.
WellFormed(r) ==
  /\ r.step = "idle" <=> r.id = 0
  /\ r.id = 0 => r = Idle
  /\ r.step \in VerifySteps \cup {"drop", "logout"} => r.token # 0
  /\ r.step \in {"increment", "drop", "consume", "finish", "mint"} => Durable
  /\ r.n < CodesPerSet /\ (r.step # "insert_code" => r.n = 0)
  /\ r.step = "enable" => r.secret # None
  /\ r.code.set # 0 => r.code.secret = 0

TypeInv ==
  /\ TypeOK
  /\ account.enabled => account.secret # None
  /\ \A w \in Workers : WellFormed(req[w])

LEMMA IdleFits == Idle \in Request /\ WellFormed(Idle)
<1>1. WrongCode \in Codes
  BY WebmailSessionAssumption DEF WrongCode, Codes, None
<1>2. Idle \in Request
  BY <1>1, WebmailSessionAssumption DEF Idle, Request, Keys, None
<1>3. WellFormed(Idle)
  BY WebmailSessionAssumption DEF Idle, WellFormed, VerifySteps, WrongCode
<1> QED
  BY <1>2, <1>3

LEMMA TypeInit == Init => TypeInv
<1> SUFFICES ASSUME Init PROVE TypeInv
  OBVIOUS
<1> USE WebmailSessionAssumption
<1>1. 1 \in Numbers
  BY DEF Numbers
<1>2. /\ codes = {} \/ codes = OldSet
      /\ \E key \in Keys : \/ account = [enabled |-> FALSE, secret |-> None, key |-> key]
                          \/ account = [enabled |-> TRUE, secret |-> 1, key |-> key]
  BY DEF Init, Keys
<1>3. OldSet \subseteq [set : Numbers, n : 1..CodesPerSet, used : BOOLEAN]
  <2> SUFFICES ASSUME NEW n \in 1..CodesPerSet
               PROVE  [set |-> 1, n |-> n, used |-> FALSE]
                        \in [set : Numbers, n : 1..CodesPerSet, used : BOOLEAN]
    BY DEF OldSet
  <2> QED
    BY <1>1
<1>4. /\ account \in [enabled : BOOLEAN, secret : Numbers \cup {None}, key : Keys]
      /\ account.enabled => account.secret # None
  <2>1. PICK key \in Keys : \/ account = [enabled |-> FALSE, secret |-> None, key |-> key]
                            \/ account = [enabled |-> TRUE, secret |-> 1, key |-> key]
    BY <1>2
  <2>2. CASE account = [enabled |-> FALSE, secret |-> None, key |-> key]
    BY <2>2
  <2>3. CASE account = [enabled |-> TRUE, secret |-> 1, key |-> key]
    BY <1>1, <2>3 DEF None
  <2> QED
    BY <2>1, <2>2, <2>3
<1>7. Gone \in Token
  BY DEF Gone, Token, Keys
<1>5. rows \in [Numbers -> Token] /\ memory \in [Numbers -> Token]
      /\ \A t \in Numbers : memory[t].key = 0
  BY <1>7 DEF Init, Gone
<1>6. req \in [Workers -> Request] /\ \A w \in Workers : WellFormed(req[w])
  BY IdleFits DEF Init
<1> QED
  BY <1>1, <1>2, <1>3, <1>4, <1>5, <1>6 DEF Init, TypeInv, TypeOK, Keys

\* The request of w becomes r, which fits.
Moves(w) == \E r \in Request : WellFormed(r) /\ req' = [req EXCEPT ![w] = r]

ReqTyped == req \in [Workers -> Request] /\ \A w \in Workers : WellFormed(req[w])

\* What the lemmas below conclude about the requests.
LEMMA MovesKeeps ==
  ASSUME TypeInv, NEW w \in Workers, Moves(w), masterKey' = masterKey
  PROVE  ReqTyped'
<1>1. PICK r \in Request : WellFormed(r) /\ req' = [req EXCEPT ![w] = r]
  BY DEF Moves
<1>2. req' \in [Workers -> Request]
  BY <1>1 DEF TypeInv, TypeOK
<1>3. \A v \in Workers : req'[v] = r \/ req'[v] = req[v]
  BY <1>1 DEF TypeInv, TypeOK
<1>4. \A v \in Workers : WellFormed(req'[v])
  BY <1>1, <1>3 DEF TypeInv
<1> QED
  BY <1>2, <1>4 DEF ReqTyped, WellFormed, Durable

\* The number of the next request.
LEMMA NextNumber ==
  ASSUME TypeInv, requests < MaxRequests, requests' = requests + 1
  PROVE  requests' \in Numbers /\ requests' # 0
<1>1. requests \in 1..MaxRequests
  BY DEF TypeInv, TypeOK, Numbers
<1> QED
  BY <1>1, WebmailSessionAssumption DEF Numbers

\* A request that fits its step still fits when what is recorded of it changes.
LEMMA NotesKeepFit ==
  ASSUME NEW r \in Request, WellFormed(r), r.step # "idle", NEW b \in BOOLEAN
  PROVE  /\ [r EXCEPT !.off = b] \in Request /\ WellFormed([r EXCEPT !.off = b])
         /\ [r EXCEPT !.alone = b] \in Request /\ WellFormed([r EXCEPT !.alone = b])
<1>1. [r EXCEPT !.off = b] \in Request /\ [r EXCEPT !.alone = b] \in Request
  BY DEF Request
<1>2. r.id # 0
  BY DEF WellFormed
<1>3. WellFormed([r EXCEPT !.off = b])
  BY <1>2 DEF WellFormed, Request
<1>4. WellFormed([r EXCEPT !.alone = b])
  BY <1>2 DEF WellFormed, Request
<1> QED
  BY <1>1, <1>3, <1>4

LEMMA DoneMoves ==
  ASSUME NEW w \in Workers, Done(w)
  PROVE  Moves(w)
  BY IdleFits DEF Done, Moves

LEMMA StaysTyped ==
  ASSUME TypeInv, req' = req, masterKey' = masterKey
  PROVE  ReqTyped'
  BY DEF TypeInv, TypeOK, ReqTyped, WellFormed, Durable

LEMMA GotoMoves ==
  ASSUME TypeInv, NEW w \in Workers, NEW step \in Steps, Goto(w, step),
         ~ At(w, "idle"), ~ At(w, "insert_code"),
         step \in VerifySteps \cup {"drop", "logout"} => req[w].token # 0,
         step \in {"increment", "drop", "consume", "finish", "mint"} => Durable,
         step = "enable" => req[w].secret # None
  PROVE  Moves(w)
<1> DEFINE r == [req[w] EXCEPT !.step = step]
<1>1. req[w] \in Request /\ WellFormed(req[w])
  BY DEF TypeInv, TypeOK
<1>2. r \in Request
  BY <1>1 DEF Request
<1>3. step # "idle"
  BY DEF Steps
<1>4. WellFormed(r)
  BY <1>1, <1>3 DEF WellFormed, At, Request
<1>5. req' = [req EXCEPT ![w] = r]
  BY DEF Goto
<1> QED
  BY <1>2, <1>4, <1>5 DEF Moves

\* A request that begins with r has the next number.
LEMMA StartMoves ==
  ASSUME TypeInv, NEW w \in Workers, NEW r \in Request, Start(w, r),
         r.step # "idle",
         r.step \in VerifySteps \cup {"drop", "logout"} => r.token # 0,
         r.step \in {"increment", "drop", "consume", "finish", "mint"} => Durable,
         r.n = 0,
         r.step = "enable" => r.secret # None,
         r.code.set # 0 => r.code.secret = 0
  PROVE  Moves(w) /\ requests' \in Numbers
<1> DEFINE q == [r EXCEPT !.id = requests']
<1>1. requests' \in Numbers /\ requests' # 0
  BY NextNumber DEF Start
<1>2. q \in Request
  BY <1>1 DEF Request
<1>3. WellFormed(q)
  BY <1>1, WebmailSessionAssumption DEF WellFormed, Request
<1>4. req' = [req EXCEPT ![w] = q]
  BY DEF Start
<1> QED
  BY <1>1, <1>2, <1>3, <1>4 DEF Moves

\* Create and Delete keep the types of the two stores.
StoresTyped == /\ rows \in [Numbers -> Token] /\ memory \in [Numbers -> Token]
               /\ \A t \in Numbers : memory[t].key = 0

LEMMA CreateTyped ==
  ASSUME TypeInv, NEW t \in Numbers, NEW kind \in {"session", "pending"}, Create(t, kind)
  PROVE  StoresTyped'
<1> DEFINE new == [Gone EXCEPT !.kind = kind, !.key = masterKey]
<1>1. new \in Token
  BY DEF Gone, Token, TypeInv, TypeOK
<1>2. ~ Durable => new.key = 0
  BY DEF Durable, Gone
<1>3. CASE Durable
  BY <1>1, <1>3 DEF Create, StoresTyped, TypeInv, TypeOK
<1>4. CASE ~ Durable
  BY <1>1, <1>2, <1>4 DEF Create, StoresTyped, TypeInv, TypeOK
<1> QED
  BY <1>3, <1>4

LEMMA GoneTyped == Gone \in Token /\ Gone.key = 0
  BY DEF Gone, Token, Keys

LEMMA DeleteTyped ==
  ASSUME TypeInv, NEW t, Delete(t)
  PROVE  StoresTyped'
  BY GoneTyped DEF Delete, StoresTyped, TypeInv, TypeOK

\* Every step leaves each request with what its step needs.
LEMMA RequestsStayTyped ==
  ASSUME TypeInv, [Next]_vars
  PROVE  ReqTyped' /\ requests' \in Numbers
<1> USE DEF Steps
<1>0. requests \in Numbers
  BY DEF TypeInv, TypeOK
<1>1. CASE \E w \in Workers : Moves(w) /\ requests' \in Numbers /\ masterKey' = masterKey
  BY <1>1, MovesKeeps
<1>2. CASE req' = req /\ masterKey' = masterKey /\ requests' \in Numbers
  BY <1>2, StaysTyped
<1>3. ASSUME NEW w \in Workers, WebmailLogin(w) PROVE Moves(w) /\ requests' \in Numbers
  <2> DEFINE r == [Idle EXCEPT !.step = "account", !.off = ~ account.enabled]
  <2>1. r \in Request /\ r.step = "account" /\ r.code.set = 0 /\ r.n = 0
    BY IdleFits DEF Idle, Request, WrongCode, TypeInv, TypeOK
  <2> QED
    BY <1>3, <2>1, StartMoves DEF WebmailLogin, VerifySteps
<1>4. ASSUME NEW w \in Workers, CheckAccount(w) PROVE Moves(w)
  <2>1. CASE Goto(w, "pend") \/ Goto(w, "admit")
    BY <1>4, <2>1, GotoMoves DEF CheckAccount, At, VerifySteps
  <2>2. CASE req' = [req EXCEPT ![w].step = "admit", ![w].off = TRUE]
    <3> DEFINE r == [req[w] EXCEPT !.step = "admit", !.off = TRUE]
    <3>1. req[w] \in Request /\ WellFormed(req[w]) /\ req[w].step = "account"
      BY <1>4 DEF TypeInv, TypeOK, CheckAccount, At
    <3>2. r \in Request
      BY <3>1 DEF Request
    <3>3. WellFormed(r)
      BY <3>1 DEF Request, WellFormed, VerifySteps
    <3> QED
      BY <2>2, <3>2, <3>3 DEF Moves
  <2> QED
    BY <1>4, <2>1, <2>2 DEF CheckAccount
<1>5. ASSUME NEW w \in Workers, Pend(w) \/ Admit(w) \/ Mint(w) \/ DropPending(w) \/ EndSession(w)
                                \/ StatementFails(w)
      PROVE  Moves(w)
  BY <1>5, DoneMoves DEF Pend, Admit, Mint, DropPending, EndSession, StatementFails
<1>6. ASSUME NEW w \in Workers, NEW t \in PendingTokens, NEW c \in CodesOfTheUser,
             TOTPVerify(w, t, c)
      PROVE  ReqTyped' /\ requests' \in Numbers
  <2> DEFINE r == [Idle EXCEPT !.step = IF Durable THEN "increment" ELSE "get",
                               !.id = requests', !.token = t, !.code = c,
                               !.alone = Verifying(t) = {}]
  <2>1. requests' \in Numbers /\ requests' # 0
    BY <1>6, NextNumber DEF TOTPVerify
  <2>2. t \in Numbers /\ t # 0
    BY DEF PendingTokens, Numbers
  <2>3. c \in Codes /\ (c.set # 0 => c.secret = 0)
    <3>1. CASE c \in {WrongCode, [WrongCode EXCEPT !.secret = account.secret]}
      BY <3>1, WebmailSessionAssumption DEF WrongCode, Codes, None, TypeInv, TypeOK
    <3>2. CASE \E d \in codes : c = [secret |-> 0, set |-> d.set, n |-> d.n]
      <4>1. PICK d \in codes : c = [secret |-> 0, set |-> d.set, n |-> d.n]
        BY <3>2
      <4>2. d.set \in Numbers /\ d.n \in 0..CodesPerSet
        BY WebmailSessionAssumption DEF TypeInv, TypeOK
      <4> QED
        BY <4>1, <4>2 DEF Codes, None
    <3> QED
      BY <3>1, <3>2 DEF CodesOfTheUser
  <2>4. r \in Request
    BY <2>1, <2>2, <2>3, IdleFits DEF Idle, Request
  <2>5. WellFormed(r)
    BY <2>1, <2>2, <2>3, WebmailSessionAssumption DEF WellFormed, Idle, VerifySteps
  <2>6. \A v \in Verifying(t) : [req[v] EXCEPT !.alone = FALSE] \in Request
                                /\ WellFormed([req[v] EXCEPT !.alone = FALSE])
    BY NotesKeepFit DEF Verifying, VerifySteps, TypeInv, TypeOK
  <2>7. req' = [v \in Workers |-> IF v = w THEN r
                                  ELSE IF v \in Verifying(t) THEN [req[v] EXCEPT !.alone = FALSE]
                                  ELSE req[v]]
        /\ masterKey' = masterKey
    BY <1>6 DEF TOTPVerify
  <2> HIDE DEF r
  <2>8. \A v \in Workers : req'[v] \in Request /\ WellFormed(req'[v])
    BY <2>4, <2>5, <2>6, <2>7 DEF TypeInv, TypeOK
  <2>9. req' \in [Workers -> Request]
    BY <2>7, <2>8
  <2> QED
    BY <2>1, <2>7, <2>8, <2>9 DEF ReqTyped, WellFormed, Durable
<1>7. ASSUME NEW w \in Workers, IncrementAttempts(w) PROVE Moves(w)
  <2>1. Done(w) \/ Goto(w, "get") \/ Goto(w, "drop")
    BY <1>7 DEF IncrementAttempts
  <2>2. req[w].token # 0 /\ Durable
    BY <1>7 DEF IncrementAttempts, At, TypeInv, WellFormed, VerifySteps
  <2> QED
    BY <1>7, <2>1, <2>2, DoneMoves, GotoMoves DEF IncrementAttempts, At
<1>8. ASSUME NEW w \in Workers, GetPending(w) \/ PeekMemory(w) PROVE Moves(w)
  <2>1. Done(w) \/ Goto(w, "check")
    BY <1>8 DEF GetPending, PeekMemory, Try
  <2>2. req[w].token # 0 /\ req[w].step = "get"
    BY <1>8 DEF GetPending, PeekMemory, At, TypeInv, WellFormed, VerifySteps
  <2> QED
    BY <2>1, <2>2, DoneMoves, GotoMoves DEF At
<1>9. ASSUME NEW w \in Workers, CheckCode(w) PROVE Moves(w)
  <2>1. Done(w) \/ (Durable /\ (Goto(w, "finish") \/ Goto(w, "consume")))
    BY <1>9 DEF CheckCode
  <2>2. req[w].token # 0 /\ req[w].step = "check"
    BY <1>9 DEF CheckCode, At, TypeInv, WellFormed, VerifySteps
  <2> QED
    BY <2>1, <2>2, DoneMoves, GotoMoves DEF At
<1>10. ASSUME NEW w \in Workers, ConsumeRecoveryCode(w) PROVE Moves(w)
  <2>1. Done(w) \/ Goto(w, "finish")
    BY <1>10 DEF ConsumeRecoveryCode
  <2>2. req[w].token # 0 /\ req[w].step = "consume" /\ Durable
    BY <1>10 DEF ConsumeRecoveryCode, At, TypeInv, WellFormed, VerifySteps
  <2> QED
    BY <2>1, <2>2, DoneMoves, GotoMoves DEF At
<1>11. ASSUME NEW w \in Workers, FinishPending(w) PROVE Moves(w)
  <2>1. req[w].token # 0 /\ req[w].step = "finish" /\ Durable
    BY <1>11 DEF FinishPending, At, TypeInv, WellFormed, VerifySteps
  <2>2. CASE Goto(w, "mint")
    BY <2>1, <2>2, GotoMoves DEF At
  <2>3. CASE req' = [req EXCEPT ![w].step = "mint", ![w].alone = FALSE]
    <3> DEFINE r == [req[w] EXCEPT !.step = "mint", !.alone = FALSE]
    <3>1. req[w] \in Request /\ WellFormed(req[w])
      BY DEF TypeInv, TypeOK
    <3>2. r \in Request
      BY <3>1 DEF Request
    <3>3. WellFormed(r)
      BY <2>1, <3>1 DEF Request, WellFormed, VerifySteps
    <3> QED
      BY <2>3, <3>2, <3>3 DEF Moves
  <2> QED
    BY <1>11, <2>2, <2>3 DEF FinishPending
<1>12. ASSUME NEW w \in Workers, NEW t \in Numbers, Logout(w, t)
       PROVE  Moves(w) /\ requests' \in Numbers
  <2> DEFINE r == [Idle EXCEPT !.step = "logout", !.token = t]
  <2>1. r \in Request /\ r.step = "logout" /\ r.code.set = 0 /\ r.token # 0 /\ r.n = 0
    <3>1. t # 0
      BY DEF Numbers
    <3> QED
      BY <3>1, IdleFits DEF Idle, Request, WrongCode
  <2> QED
    BY <1>12, <2>1, StartMoves DEF Logout
<1>13. ASSUME NEW w \in Workers, TOTPEnroll(w)
       PROVE  ReqTyped' /\ requests' \in Numbers
  <2>1. \A v \in Workers : req[v].step \in {"account", "admit"}
          => [req[v] EXCEPT !.off = TRUE] \in Request /\ WellFormed([req[v] EXCEPT !.off = TRUE])
    BY NotesKeepFit DEF TypeInv, TypeOK
  <2>2. req' = Off(req) /\ masterKey' = masterKey /\ requests' \in Numbers
    BY <1>13, NextNumber DEF TOTPEnroll
  <2> QED
    BY <2>1, <2>2 DEF Off, ReqTyped, TypeInv, TypeOK, WellFormed, Durable
<1>14. ASSUME NEW w \in Workers, TurnOff(w) PROVE ReqTyped' /\ requests' \in Numbers
  <2> DEFINE q == [req EXCEPT ![w].step = "delete_codes"]
  <2>1. q \in [Workers -> Request] /\ \A v \in Workers : WellFormed(q[v])
    <3>1. req[w] \in Request /\ WellFormed(req[w]) /\ req[w].step = "turn_off"
      BY <1>14 DEF TurnOff, At, TypeInv, TypeOK
    <3>2. [req[w] EXCEPT !.step = "delete_codes"] \in Request
      BY <3>1 DEF Request
    <3>3. WellFormed([req[w] EXCEPT !.step = "delete_codes"])
      BY <3>1 DEF VerifySteps, Request, WellFormed
    <3> QED
      BY <3>2, <3>3 DEF TypeInv, TypeOK
  <2>2. req' = Off(q) /\ masterKey' = masterKey /\ requests' = requests
    BY <1>14 DEF TurnOff
  <2> HIDE DEF q
  <2>3. \A v \in Workers : q[v].step \in {"account", "admit"}
          => [q[v] EXCEPT !.off = TRUE] \in Request /\ WellFormed([q[v] EXCEPT !.off = TRUE])
    BY <2>1, NotesKeepFit
  <2> QED
    BY <1>0, <2>1, <2>2, <2>3 DEF Off, ReqTyped, WellFormed, Durable
<1>15. ASSUME NEW w \in Workers, TOTPConfirm(w) PROVE Moves(w) /\ requests' \in Numbers
  <2> DEFINE r == [Idle EXCEPT !.step = "enable", !.secret = account.secret, !.key = account.key]
  <2>1. r \in Request /\ r.step = "enable" /\ r.code.set = 0 /\ r.secret = account.secret /\ r.n = 0
    BY IdleFits DEF Idle, Request, WrongCode, TypeInv, TypeOK
  <2> QED
    BY <1>15, <2>1, StartMoves DEF TOTPConfirm, VerifySteps
<1>16. ASSUME NEW w \in Workers, Enable(w) PROVE Moves(w)
  BY <1>16, GotoMoves DEF Enable, At, VerifySteps
<1>17. ASSUME NEW w \in Workers, TOTPDisable(w) PROVE Moves(w) /\ requests' \in Numbers
  <2> DEFINE r == [Idle EXCEPT !.step = "turn_off"]
  <2>1. r \in Request /\ r.step = "turn_off" /\ r.code.set = 0 /\ r.n = 0
    BY IdleFits DEF Idle, Request, WrongCode
  <2> QED
    BY <1>17, <2>1, StartMoves DEF TOTPDisable, VerifySteps
<1>18. ASSUME NEW w \in Workers, TOTPRecoveryRegenerate(w) PROVE Moves(w) /\ requests' \in Numbers
  <2> DEFINE r == [Idle EXCEPT !.step = "delete_codes", !.secret = account.secret]
  <2>1. r \in Request /\ r.step = "delete_codes" /\ r.code.set = 0 /\ r.n = 0
    BY IdleFits DEF Idle, Request, WrongCode, TypeInv, TypeOK
  <2> QED
    BY <1>18, <2>1, StartMoves DEF TOTPRecoveryRegenerate, VerifySteps
<1>19. ASSUME NEW w \in Workers, DeleteCodes(w) PROVE Moves(w)
  BY <1>19, DoneMoves, GotoMoves DEF DeleteCodes, At, VerifySteps
<1>20. ASSUME NEW w \in Workers, InsertCode(w) PROVE Moves(w)
  <2>1. CASE Done(w)
    BY <2>1, DoneMoves
  <2>2. CASE req[w].n + 1 < CodesPerSet /\ req' = [req EXCEPT ![w].n = req[w].n + 1]
    <3> DEFINE r == [req[w] EXCEPT !.n = req[w].n + 1]
    <3>1. req[w] \in Request /\ WellFormed(req[w]) /\ req[w].step = "insert_code"
      BY <1>20 DEF InsertCode, At, TypeInv, TypeOK
    <3>2. r \in Request
      BY <2>2, <3>1, WebmailSessionAssumption DEF Request
    <3>3. WellFormed(r)
      BY <2>2, <3>1 DEF VerifySteps, Request, WellFormed
    <3> QED
      BY <2>2, <3>2, <3>3 DEF Moves
  <2> QED
    BY <1>20, <2>1, <2>2 DEF InsertCode
<1>21. CASE Restart
  BY <1>0, <1>21, IdleFits DEF Restart, ReqTyped, WellFormed, Idle, VerifySteps, WrongCode
<1>22. ASSUME NEW w \in Workers,
              \/ CheckAccount(w) \/ Pend(w) \/ Admit(w) \/ Mint(w) \/ DropPending(w)
              \/ EndSession(w) \/ StatementFails(w) \/ IncrementAttempts(w) \/ GetPending(w)
              \/ PeekMemory(w) \/ CheckCode(w) \/ ConsumeRecoveryCode(w) \/ FinishPending(w)
              \/ Enable(w) \/ DeleteCodes(w) \/ InsertCode(w)
       PROVE  ReqTyped' /\ requests' \in Numbers
  <2>1. Moves(w)
    BY <1>4, <1>5, <1>7, <1>8, <1>9, <1>10, <1>11, <1>16, <1>19, <1>20, <1>22
  <2>2. masterKey' = masterKey /\ requests' = requests
    BY <1>22 DEF CheckAccount, Pend, Admit, Mint, DropPending, EndSession, StatementFails,
                 IncrementAttempts, GetPending, PeekMemory, CheckCode, ConsumeRecoveryCode,
                 FinishPending, Enable, DeleteCodes, InsertCode
  <2> QED
    BY <1>0, <1>1, <2>1, <2>2
<1>23. ASSUME NEW w \in Workers,
              \/ WebmailLogin(w) \/ \E t \in Numbers : Logout(w, t)
              \/ TOTPConfirm(w) \/ TOTPDisable(w) \/ TOTPRecoveryRegenerate(w)
       PROVE  ReqTyped' /\ requests' \in Numbers
  <2>1. Moves(w) /\ requests' \in Numbers
    BY <1>3, <1>12, <1>15, <1>17, <1>18, <1>23
  <2>2. masterKey' = masterKey
    BY <1>23 DEF WebmailLogin, Logout, TOTPConfirm, TOTPDisable, TOTPRecoveryRegenerate
  <2> QED
    BY <1>1, <2>1, <2>2
<1>24. ASSUME GC \/ (\E t \in Numbers : Expire(t)) \/ UNCHANGED vars
       PROVE  ReqTyped' /\ requests' \in Numbers
  BY <1>0, <1>2, <1>24 DEF GC, Expire, vars
<1> QED
  BY <1>6, <1>13, <1>14, <1>21, <1>22, <1>23, <1>24 DEF Next

\* An attempt is counted on a token, if it is one.
LEMMA CountedTyped ==
  ASSUME NEW store \in [Numbers -> Token], NEW t
  PROVE  /\ [store EXCEPT ![t].attempts = @ + 1] \in [Numbers -> Token]
         /\ \A u \in Numbers : [store EXCEPT ![t].attempts = @ + 1][u].key = store[u].key
<1>1. CASE t \in Numbers
  <2>1. [store[t] EXCEPT !.attempts = @ + 1] \in Token
    BY <1>1 DEF Token
  <2> QED
    BY <1>1, <2>1 DEF Token
<1>2. CASE t \notin Numbers
  BY <1>2
<1> QED
  BY <1>1, <1>2

\* Every step keeps the types of the two stores.
LEMMA StoresStayTyped ==
  ASSUME TypeInv, [Next]_vars
  PROVE  StoresTyped'
<1> USE DEF StoresTyped
<1>0. StoresTyped
  BY DEF TypeInv, TypeOK
<1>1. CASE UNCHANGED <<rows, memory>>
  BY <1>0, <1>1
<1>2. ASSUME NEW w \in Workers, Pend(w) \/ Admit(w) \/ Mint(w) PROVE StoresTyped'
  <2>1. req[w].id \in Numbers
    BY <1>2 DEF Pend, Admit, Mint, At, TypeInv, TypeOK, Request, WellFormed
  <2> QED
    BY <1>2, <2>1, CreateTyped DEF Pend, Admit, Mint
<1>3. ASSUME NEW w \in Workers, FinishPending(w) \/ EndSession(w) PROVE StoresTyped'
  BY <1>1, <1>3, DeleteTyped DEF FinishPending, EndSession
<1>4. ASSUME NEW w \in Workers, IncrementAttempts(w) \/ DropPending(w) PROVE StoresTyped'
  <2> DEFINE t == req[w].token
  <2>1. /\ UNCHANGED memory
        /\ \/ UNCHANGED rows
           \/ rows' = [rows EXCEPT ![t] = Gone]
           \/ rows' = [rows EXCEPT ![t].attempts = @ + 1]
    <3>1. CASE DropPending(w)
      BY <3>1 DEF DropPending
    <3>2. CASE IncrementAttempts(w)
      BY <3>2 DEF IncrementAttempts
    <3> QED
      BY <1>4, <3>1, <3>2
  <2> HIDE DEF t
  <2>2. CASE rows' = [rows EXCEPT ![t] = Gone]
    BY <1>0, <2>1, <2>2, GoneTyped
  <2>3. CASE rows' = [rows EXCEPT ![t].attempts = @ + 1]
    BY <1>0, <2>1, <2>3, CountedTyped
  <2> QED
    BY <1>1, <2>1, <2>2, <2>3
<1>5. ASSUME NEW w \in Workers, PeekMemory(w) PROVE StoresTyped'
  <2> DEFINE t == req[w].token
  <2>1. /\ UNCHANGED rows
        /\ \/ UNCHANGED memory
           \/ memory' = [memory EXCEPT ![t] = Gone]
           \/ memory' = [memory EXCEPT ![t].attempts = @ + 1]
    BY <1>5, Zenon DEF PeekMemory, tables
  <2> HIDE DEF t
  <2>2. CASE memory' = [memory EXCEPT ![t] = Gone]
    BY <1>0, <2>1, <2>2, GoneTyped
  <2>3. CASE memory' = [memory EXCEPT ![t].attempts = @ + 1]
    BY <1>0, <2>1, <2>3, CountedTyped
  <2> QED
    BY <1>1, <2>1, <2>2, <2>3
<1>6. ASSUME NEW t \in Numbers, Expire(t) PROVE StoresTyped'
  <2>1. CASE rows' = [rows EXCEPT ![t].expired = TRUE] /\ UNCHANGED memory
    BY <1>0, <2>1 DEF Token
  <2>2. CASE memory' = [memory EXCEPT ![t].expired = TRUE] /\ UNCHANGED rows
    BY <1>0, <2>2 DEF Token
  <2> QED
    BY <1>6, <2>1, <2>2 DEF Expire, tables
<1>7. CASE GC
  <2>1. CASE rows' = [t \in Numbers |-> IF rows[t].expired THEN Gone ELSE rows[t]]
             /\ UNCHANGED memory
    BY <1>0, <2>1, GoneTyped
  <2>2. CASE memory' = [t \in Numbers |-> IF memory[t].expired THEN Gone ELSE memory[t]]
             /\ UNCHANGED rows
    BY <1>0, <2>2, GoneTyped
  <2> QED
    BY <1>7, <2>1, <2>2 DEF GC
<1>8. CASE Restart
  BY <1>0, <1>8, GoneTyped DEF Restart, tables
<1>9. ASSUME NEW w \in Workers,
             \/ WebmailLogin(w) \/ CheckAccount(w) \/ GetPending(w)
             \/ \E t \in PendingTokens, c \in CodesOfTheUser : TOTPVerify(w, t, c)
             \/ CheckCode(w) \/ ConsumeRecoveryCode(w) \/ StatementFails(w)
             \/ \E t \in Numbers : Logout(w, t)
      PROVE  UNCHANGED <<rows, memory>>
  BY <1>9 DEF WebmailLogin, CheckAccount, GetPending, TOTPVerify, CheckCode,
              ConsumeRecoveryCode, StatementFails, Logout, tables
<1>10. ASSUME NEW w \in Workers,
              \/ TOTPEnroll(w) \/ TOTPConfirm(w) \/ Enable(w) \/ TOTPDisable(w) \/ TurnOff(w)
              \/ TOTPRecoveryRegenerate(w) \/ DeleteCodes(w) \/ InsertCode(w)
       PROVE  UNCHANGED <<rows, memory>>
  BY <1>10 DEF TOTPEnroll, TOTPConfirm, Enable, TOTPDisable, TurnOff,
               TOTPRecoveryRegenerate, DeleteCodes, InsertCode, tables
<1>11. CASE UNCHANGED vars
  BY <1>1, <1>11 DEF vars, tables
<1> QED
  BY <1>1, <1>2, <1>3, <1>4, <1>5, <1>6, <1>7, <1>8, <1>9, <1>10, <1>11 DEF Next

AccountTyped ==
  /\ account \in [enabled : BOOLEAN, secret : Numbers \cup {None}, key : Keys]
  /\ account.enabled => account.secret # None
  /\ codes \subseteq [set : Numbers, n : 1..CodesPerSet, used : BOOLEAN]

\* Every step keeps the types of the account and of its recovery codes.
LEMMA AccountStaysTyped ==
  ASSUME TypeInv, [Next]_vars
  PROVE  AccountTyped'
<1> USE DEF AccountTyped
<1>0. AccountTyped
  BY DEF TypeInv, TypeOK
<1>1. CASE UNCHANGED <<account, codes>>
  BY <1>0, <1>1
<1>2. ASSUME NEW w \in Workers, ConsumeRecoveryCode(w) PROVE AccountTyped'
  <2> DEFINE found == {c \in codes : Unused(c, req[w].code)}
  <2>1. /\ codes' = (codes \ found) \cup {[c EXCEPT !.used = TRUE] : c \in found}
        /\ UNCHANGED account
    BY <1>2 DEF ConsumeRecoveryCode
  <2> HIDE DEF found
  <2>2. \A c \in [set : Numbers, n : 1..CodesPerSet, used : BOOLEAN] :
          [c EXCEPT !.used = TRUE] \in [set : Numbers, n : 1..CodesPerSet, used : BOOLEAN]
    OBVIOUS
  <2>3. found \subseteq codes
    BY DEF found
  <2> QED
    BY <1>0, <2>1, <2>2, <2>3
<1>3. ASSUME NEW w \in Workers, InsertCode(w) PROVE AccountTyped'
  <2>1. req[w].id \in Numbers /\ req[w].n + 1 \in 1..CodesPerSet
    BY <1>3, WebmailSessionAssumption DEF InsertCode, At, TypeInv, TypeOK, Request, WellFormed
  <2>2. UNCHANGED account
        /\ codes' = codes \cup {[set |-> req[w].id, n |-> req[w].n + 1, used |-> FALSE]}
    BY <1>3 DEF InsertCode
  <2>3. [set |-> req[w].id, n |-> req[w].n + 1, used |-> FALSE]
          \in [set : Numbers, n : 1..CodesPerSet, used : BOOLEAN]
    BY <2>1
  <2> QED
    BY <1>0, <2>2, <2>3
<1>4. ASSUME NEW w \in Workers, DeleteCodes(w) PROVE AccountTyped'
  BY <1>0, <1>4 DEF DeleteCodes
<1>5. ASSUME NEW w \in Workers, Enable(w) PROVE AccountTyped'
  <2>1. req[w].secret \in Numbers \cup {None} /\ req[w].key \in Keys /\ req[w].secret # None
    BY <1>5 DEF Enable, At, TypeInv, TypeOK, Request, WellFormed
  <2> QED
    BY <1>0, <1>5, <2>1 DEF Enable
<1>6. ASSUME NEW w \in Workers, TurnOff(w) PROVE AccountTyped'
  BY <1>0, <1>6 DEF TurnOff, Keys
<1>7. ASSUME NEW w \in Workers, TOTPEnroll(w) PROVE AccountTyped'
  <2>1. requests' \in Numbers /\ masterKey \in Keys
    BY <1>7, NextNumber DEF TOTPEnroll, TypeInv, TypeOK
  <2> QED
    BY <1>0, <1>7, <2>1 DEF TOTPEnroll
<1>8. ASSUME NEW w \in Workers,
             \/ WebmailLogin(w) \/ CheckAccount(w) \/ Pend(w) \/ Admit(w)
             \/ \E t \in PendingTokens, c \in CodesOfTheUser : TOTPVerify(w, t, c)
             \/ IncrementAttempts(w) \/ DropPending(w) \/ GetPending(w) \/ PeekMemory(w)
      PROVE  UNCHANGED <<account, codes>>
  BY <1>8, Zenon DEF WebmailLogin, CheckAccount, Pend, Admit, TOTPVerify, IncrementAttempts, DropPending,
              GetPending, PeekMemory, tables
<1>9. ASSUME NEW w \in Workers,
             \/ CheckCode(w) \/ FinishPending(w) \/ Mint(w) \/ EndSession(w)
             \/ \E t \in Numbers : Logout(w, t)
             \/ TOTPConfirm(w) \/ TOTPDisable(w) \/ TOTPRecoveryRegenerate(w) \/ StatementFails(w)
      PROVE  UNCHANGED <<account, codes>>
  BY <1>9, Zenon DEF CheckCode, FinishPending, Mint, EndSession, Logout, TOTPConfirm, TOTPDisable,
              TOTPRecoveryRegenerate, StatementFails, tables
<1>10. CASE GC \/ Restart \/ (\E t \in Numbers : Expire(t)) \/ UNCHANGED vars
  BY <1>1, <1>10, Zenon DEF GC, Restart, Expire, vars, tables
<1> QED
  BY <1>1, <1>2, <1>3, <1>4, <1>5, <1>6, <1>7, <1>8, <1>9, <1>10 DEF Next

HistoryTyped ==
  /\ minted \subseteq [token : Numbers, pending : Numbers \cup {0}, code : Codes,
                       off : BOOLEAN, alone : BOOLEAN]
  /\ tried \in [Numbers -> Nat]
  /\ proven \subseteq Numbers /\ out \subseteq Numbers

\* Every step keeps the types of the history.
LEMMA HistoryStaysTyped ==
  ASSUME TypeInv, [Next]_vars
  PROVE  HistoryTyped'
<1> USE DEF HistoryTyped, history
<1>0. HistoryTyped
  BY DEF TypeInv, TypeOK
<1>1. CASE UNCHANGED history
  BY <1>0, <1>1
<1>2. ASSUME NEW w \in Workers, Admit(w) \/ Mint(w) PROVE HistoryTyped'
  <2>1. req[w] \in Request /\ req[w].id \in Numbers
    BY <1>2 DEF Admit, Mint, At, TypeInv, TypeOK, Request, WellFormed
  <2>2. WrongCode \in Codes
    BY IdleFits DEF Idle, Request
  <2>3. /\ UNCHANGED <<tried, proven, out>>
        /\ \E pending \in {0, req[w].token}, code \in {WrongCode, req[w].code},
              off \in {FALSE, req[w].off}, alone \in {TRUE, req[w].alone} :
             minted' = minted \cup {[token |-> req[w].id, pending |-> pending, code |-> code,
                                     off |-> off, alone |-> alone]}
    BY <1>2 DEF Admit, Mint
  <2>4. PICK pending \in {0, req[w].token}, code \in {WrongCode, req[w].code},
             off \in {FALSE, req[w].off}, alone \in {TRUE, req[w].alone} :
          minted' = minted \cup {[token |-> req[w].id, pending |-> pending, code |-> code,
                                  off |-> off, alone |-> alone]}
    BY <2>3
  <2>5. pending \in Numbers \cup {0} /\ code \in Codes /\ off \in BOOLEAN /\ alone \in BOOLEAN
    BY <2>1, <2>2 DEF Request
  <2>6. [token |-> req[w].id, pending |-> pending, code |-> code, off |-> off, alone |-> alone]
          \in [token : Numbers, pending : Numbers \cup {0}, code : Codes,
               off : BOOLEAN, alone : BOOLEAN]
    BY <2>1, <2>5
  <2> QED
    BY <1>0, <2>3, <2>4, <2>6
<1>3. ASSUME NEW w \in Workers, GetPending(w) \/ PeekMemory(w) PROVE HistoryTyped'
  <2>1. /\ UNCHANGED <<minted, proven, out>>
        /\ \/ UNCHANGED tried
           \/ tried' = [tried EXCEPT ![req[w].token] = @ + 1]
    BY <1>3 DEF GetPending, PeekMemory, Try
  <2> QED
    BY <1>0, <2>1
<1>4. ASSUME NEW w \in Workers, EndSession(w) PROVE HistoryTyped'
  <2>1. req[w].token \in Numbers
    BY <1>4 DEF EndSession, At, TypeInv, TypeOK, Request, WellFormed
  <2>2. UNCHANGED <<minted, tried, proven>> /\ out' \in {out, out \cup {req[w].token}}
    BY <1>4 DEF EndSession
  <2> QED
    BY <1>0, <2>1, <2>2
<1>5. ASSUME NEW w \in Workers, TOTPConfirm(w) PROVE HistoryTyped'
  <2>1. account.secret \in Numbers
    BY <1>5 DEF TOTPConfirm, TypeInv, TypeOK
  <2> QED
    BY <1>0, <1>5, <2>1 DEF TOTPConfirm
<1>6. ASSUME NEW w \in Workers,
             \/ WebmailLogin(w) \/ CheckAccount(w) \/ Pend(w)
             \/ \E t \in PendingTokens, c \in CodesOfTheUser : TOTPVerify(w, t, c)
             \/ IncrementAttempts(w) \/ DropPending(w) \/ CheckCode(w) \/ ConsumeRecoveryCode(w)
      PROVE  UNCHANGED history
  BY <1>6, Zenon DEF WebmailLogin, CheckAccount, Pend, TOTPVerify, IncrementAttempts, DropPending,
              CheckCode, ConsumeRecoveryCode
<1>7. ASSUME NEW w \in Workers,
             \/ FinishPending(w) \/ \E t \in Numbers : Logout(w, t)
             \/ TOTPEnroll(w) \/ Enable(w) \/ TOTPDisable(w) \/ TurnOff(w)
             \/ TOTPRecoveryRegenerate(w) \/ DeleteCodes(w) \/ InsertCode(w) \/ StatementFails(w)
      PROVE  UNCHANGED history
  BY <1>7, Zenon DEF FinishPending, Logout, TOTPEnroll, Enable, TOTPDisable, TurnOff,
              TOTPRecoveryRegenerate, DeleteCodes, InsertCode, StatementFails
<1>8. CASE GC \/ Restart \/ (\E t \in Numbers : Expire(t)) \/ UNCHANGED vars
  BY <1>1, <1>8, Zenon DEF GC, Restart, Expire, vars
<1> QED
  BY <1>1, <1>2, <1>3, <1>4, <1>5, <1>6, <1>7, <1>8 DEF Next

\* The key and the faults counted keep their types.
LEMMA RestStaysTyped ==
  ASSUME TypeInv, [Next]_vars
  PROVE  masterKey' \in Keys /\ faults' \in 0..MaxFaults
<1>0. masterKey \in Keys /\ faults \in 0..MaxFaults
  BY DEF TypeInv, TypeOK
<1>2. ASSUME Fault \/ UNCHANGED faults PROVE faults' \in 0..MaxFaults
  <2>1. CASE Fault
    BY <1>0, <2>1, WebmailSessionAssumption DEF Fault
  <2> QED
    BY <1>0, <1>2, <2>1
<1>3. ASSUME NEW w \in Workers,
             \/ WebmailLogin(w) \/ CheckAccount(w) \/ Pend(w) \/ Admit(w)
             \/ \E t \in PendingTokens, c \in CodesOfTheUser : TOTPVerify(w, t, c)
             \/ IncrementAttempts(w) \/ DropPending(w) \/ GetPending(w) \/ PeekMemory(w)
             \/ CheckCode(w) \/ ConsumeRecoveryCode(w) \/ FinishPending(w) \/ Mint(w)
      PROVE  masterKey' = masterKey /\ (Fault \/ UNCHANGED faults)
  BY <1>3, Zenon DEF WebmailLogin, CheckAccount, Pend, Admit, TOTPVerify, IncrementAttempts,
              DropPending, GetPending, PeekMemory, CheckCode, ConsumeRecoveryCode, FinishPending, Mint
<1>4. ASSUME NEW w \in Workers,
             \/ \E t \in Numbers : Logout(w, t)
             \/ EndSession(w) \/ TOTPEnroll(w) \/ TOTPConfirm(w) \/ Enable(w) \/ TOTPDisable(w)
             \/ TurnOff(w) \/ TOTPRecoveryRegenerate(w) \/ DeleteCodes(w) \/ InsertCode(w)
             \/ StatementFails(w)
      PROVE  masterKey' = masterKey /\ (Fault \/ UNCHANGED faults)
  BY <1>4, Zenon DEF Logout, EndSession, TOTPEnroll, TOTPConfirm, Enable, TOTPDisable, TurnOff,
              TOTPRecoveryRegenerate, DeleteCodes, InsertCode, StatementFails
<1>5. ASSUME GC \/ (\E t \in Numbers : Expire(t)) \/ UNCHANGED vars
      PROVE  masterKey' = masterKey /\ UNCHANGED faults
  BY <1>5, Zenon DEF GC, Expire, vars
<1>6. CASE Restart
  BY <1>2, <1>6 DEF Restart
<1> QED
  BY <1>0, <1>2, <1>3, <1>4, <1>5, <1>6 DEF Next

LEMMA TypeNext == TypeInv /\ [Next]_vars => TypeInv'
<1> SUFFICES ASSUME TypeInv, [Next]_vars PROVE TypeInv'
  OBVIOUS
<1> QED
  BY RequestsStayTyped, StoresStayTyped, AccountStaysTyped, HistoryStaysTyped, RestStaysTyped
  DEF TypeInv, TypeOK, ReqTyped, StoresTyped, AccountTyped, HistoryTyped

\* Every variable always has its type; above all, nothing in memory is under a
\* key, and no fault or number passes its bound.
THEOREM Typing == Spec => []TypeOK
<1>1. TypeInv => TypeOK
  BY DEF TypeInv
<1> QED
  BY <1>1, TypeInit, TypeNext, PTL DEF Spec

-----------------------------------------------------------------------------
(* How requests go on, and what a number names.                            *)

\* A request keeps its number, its token and its code; what is noted of it only
\* goes one way.
Continues(v) ==
  /\ req'[v].id = req[v].id /\ req'[v].token = req[v].token /\ req'[v].code = req[v].code
  /\ req'[v].n >= req[v].n
  /\ req'[v].alone => req[v].alone
  /\ req[v].off => req'[v].off

Ends(v) == req'[v] = Idle

\* A request begins with the next number, and a token and a code that are there.
Begins(v) ==
  /\ At(v, "idle")
  /\ \/ Ends(v)
     \/ /\ req'[v].id = requests' /\ req'[v].n = 0
        /\ req'[v].token # 0 => \/ rows[req'[v].token].kind # "gone"
                                \/ memory[req'[v].token].kind # "gone"
        /\ req'[v].code.set # 0 =>
             \E c \in codes : c.set = req'[v].code.set /\ c.n = req'[v].code.n

RequestsGo ==
  \/ /\ requests' = requests
     /\ \A v \in Workers : Continues(v) \/ Ends(v)
  \/ /\ requests' = requests + 1
     /\ \E w \in Workers : Begins(w) /\ \A v \in Workers \ {w} : Continues(v)

LEMMA NotesContinue ==
  ASSUME TypeInv, NEW v \in Workers, NEW r \in Request,
         r = req[v] \/ r = [req[v] EXCEPT !.step = "delete_codes"],
         req'[v] \in {r, [r EXCEPT !.off = TRUE], [r EXCEPT !.alone = FALSE]}
  PROVE  Continues(v)
<1>1. req[v] \in Request
  BY DEF TypeInv, TypeOK
<1>2. r.id = req[v].id /\ r.token = req[v].token /\ r.code = req[v].code /\ r.n = req[v].n
      /\ r.alone = req[v].alone /\ r.off = req[v].off
  BY <1>1 DEF Request
<1>3. req'[v].id = r.id /\ req'[v].token = r.token /\ req'[v].code = r.code /\ req'[v].n = r.n
      /\ (req'[v].alone => r.alone) /\ (r.off => req'[v].off)
  BY DEF Request
<1> QED
  BY <1>1, <1>2, <1>3 DEF Continues, Request

LEMMA GotoGoes ==
  ASSUME TypeInv, NEW w \in Workers, NEW step, Goto(w, step), requests' = requests
  PROVE  RequestsGo
  BY DEF TypeInv, TypeOK, Request, Goto, RequestsGo, Continues

LEMMA DoneGoes ==
  ASSUME TypeInv, NEW w \in Workers, Done(w), requests' = requests
  PROVE  RequestsGo
  BY DEF TypeInv, TypeOK, Request, Done, RequestsGo, Continues, Ends

LEMMA StartGoes ==
  ASSUME TypeInv, NEW w \in Workers, NEW r \in Request, Start(w, r), r.n = 0,
         r.token # 0 => rows[r.token].kind # "gone" \/ memory[r.token].kind # "gone",
         r.code.set = 0
  PROVE  RequestsGo
<1>1. requests' = requests + 1 /\ At(w, "idle")
  BY DEF Start
<1>2. req' = [req EXCEPT ![w] = [r EXCEPT !.id = requests']]
  BY DEF Start
<1>3. /\ req'[w].id = requests' /\ req'[w].n = r.n /\ req'[w].token = r.token
      /\ req'[w].code = r.code
      /\ \A v \in Workers \ {w} : req'[v] = req[v]
  BY <1>2 DEF TypeInv, TypeOK, Request
<1>4. \A v \in Workers \ {w} : Continues(v)
  BY <1>3 DEF TypeInv, TypeOK, Request, Continues
<1> QED
  BY <1>1, <1>3, <1>4 DEF RequestsGo, Begins

LEMMA RequestsGoOn ==
  ASSUME TypeInv, [Next]_vars
  PROVE  RequestsGo
<1>1. ASSUME NEW w \in Workers, WebmailLogin(w) PROVE RequestsGo
  <2> DEFINE r == [Idle EXCEPT !.step = "account", !.off = ~ account.enabled]
  <2>1. r \in Request /\ r.token = 0 /\ r.code.set = 0 /\ r.n = 0
    BY IdleFits DEF Idle, Request, WrongCode, TypeInv, TypeOK, Steps
  <2> QED
    BY <1>1, <2>1, StartGoes DEF WebmailLogin
<1>2. ASSUME NEW w \in Workers, CheckAccount(w) PROVE RequestsGo
  <2>1. CASE Goto(w, "pend") \/ Goto(w, "admit")
    BY <1>2, <2>1, GotoGoes DEF CheckAccount
  <2>2. CASE req' = [req EXCEPT ![w].step = "admit", ![w].off = TRUE]
    BY <1>2, <2>2 DEF CheckAccount, TypeInv, TypeOK, Request, RequestsGo, Continues
  <2> QED
    BY <1>2, <2>1, <2>2 DEF CheckAccount
<1>3. ASSUME NEW w \in Workers, Pend(w) \/ Admit(w) \/ Mint(w) \/ DropPending(w) \/ EndSession(w)
                                \/ StatementFails(w)
      PROVE  RequestsGo
  BY <1>3, DoneGoes DEF Pend, Admit, Mint, DropPending, EndSession, StatementFails
<1>4. ASSUME NEW w \in Workers, NEW t \in PendingTokens, NEW c \in CodesOfTheUser,
             TOTPVerify(w, t, c)
      PROVE  RequestsGo
  <2>1. /\ requests' = requests + 1 /\ At(w, "idle")
        /\ req'[w] = [Idle EXCEPT !.step = IF Durable THEN "increment" ELSE "get",
                                  !.id = requests', !.token = t, !.code = c,
                                  !.alone = Verifying(t) = {}]
        /\ \A v \in Workers \ {w} :
             req'[v] = req[v] \/ req'[v] = [req[v] EXCEPT !.alone = FALSE]
    BY <1>4 DEF TOTPVerify
  <2>2. /\ req'[w].id = requests' /\ req'[w].n = 0
        /\ req'[w].token = t /\ req'[w].code = c
    BY <2>1 DEF Idle
  <2>3. rows[t].kind # "gone" \/ memory[t].kind # "gone"
    BY DEF PendingTokens
  <2>4. c.set # 0 => \E d \in codes : d.set = c.set /\ d.n = c.n
    BY DEF CodesOfTheUser, WrongCode
  <2>5. \A v \in Workers \ {w} : Continues(v)
    BY <2>1, NotesContinue DEF TypeInv, TypeOK
  <2> QED
    BY <2>1, <2>2, <2>3, <2>4, <2>5 DEF RequestsGo, Begins
<1>5. ASSUME NEW w \in Workers,
             \/ IncrementAttempts(w) \/ GetPending(w) \/ PeekMemory(w) \/ CheckCode(w)
             \/ ConsumeRecoveryCode(w) \/ DeleteCodes(w) \/ Enable(w)
      PROVE  RequestsGo
  <2>1. requests' = requests /\ (Done(w) \/ \E step \in Steps : Goto(w, step))
    <3>1. CASE IncrementAttempts(w)
      BY <3>1 DEF IncrementAttempts, Steps
    <3>2. CASE GetPending(w) \/ PeekMemory(w)
      BY <3>2 DEF GetPending, PeekMemory, Try, Steps
    <3>3. CASE CheckCode(w)
      BY <3>3 DEF CheckCode, Steps
    <3>4. CASE ConsumeRecoveryCode(w)
      BY <3>4 DEF ConsumeRecoveryCode, Steps
    <3>5. CASE DeleteCodes(w) \/ Enable(w)
      BY <3>5 DEF DeleteCodes, Enable, Steps
    <3> QED
      BY <1>5, <3>1, <3>2, <3>3, <3>4, <3>5
  <2> QED
    BY <2>1, DoneGoes, GotoGoes
<1>6. ASSUME NEW w \in Workers, FinishPending(w) PROVE RequestsGo
  <2>1. CASE Goto(w, "mint")
    BY <1>6, <2>1, GotoGoes DEF FinishPending
  <2>2. CASE req' = [req EXCEPT ![w].step = "mint", ![w].alone = FALSE]
    BY <1>6, <2>2 DEF FinishPending, TypeInv, TypeOK, Request, RequestsGo, Continues
  <2> QED
    BY <1>6, <2>1, <2>2 DEF FinishPending
<1>7. ASSUME NEW w \in Workers, NEW t \in Numbers, Logout(w, t) PROVE RequestsGo
  <2> DEFINE r == [Idle EXCEPT !.step = "logout", !.token = t]
  <2>1. r \in Request /\ r.token = t /\ r.code.set = 0 /\ r.n = 0
    BY IdleFits DEF Idle, Request, WrongCode, Steps
  <2>2. rows[t].kind # "gone" \/ memory[t].kind # "gone"
    BY <1>7 DEF Logout, Served
  <2> QED
    BY <1>7, <2>1, <2>2, StartGoes DEF Logout
<1>8. ASSUME NEW w \in Workers, TOTPEnroll(w) PROVE RequestsGo
  <2>1. req' = Off(req) /\ requests' = requests + 1 /\ At(w, "idle")
    BY <1>8 DEF TOTPEnroll
  <2>2. \A v \in Workers : Continues(v)
    BY <2>1 DEF Off, Continues, TypeInv, TypeOK, Request
  <2>3. req'[w] = Idle
    BY <2>1 DEF Off, At, TypeInv, WellFormed
  <2> QED
    BY <2>1, <2>2, <2>3 DEF RequestsGo, Begins, Ends
<1>9. ASSUME NEW w \in Workers, TurnOff(w) PROVE RequestsGo
  <2> DEFINE q == [req EXCEPT ![w].step = "delete_codes"]
  <2>1. req' = Off(q) /\ requests' = requests
    BY <1>9 DEF TurnOff
  <2>2. \A v \in Workers : /\ q[v] \in Request
                           /\ q[v] = req[v] \/ q[v] = [req[v] EXCEPT !.step = "delete_codes"]
    BY DEF TypeInv, TypeOK, Request, Steps
  <2> HIDE DEF q
  <2>3. \A v \in Workers : req'[v] = q[v] \/ req'[v] = [q[v] EXCEPT !.off = TRUE]
    BY <2>1 DEF Off
  <2>4. \A v \in Workers : Continues(v)
    BY <2>2, <2>3, NotesContinue
  <2> QED
    BY <2>1, <2>4 DEF RequestsGo
<1>10. ASSUME NEW w \in Workers, TOTPConfirm(w) \/ TOTPDisable(w) \/ TOTPRecoveryRegenerate(w)
       PROVE  RequestsGo
  <2>1. \E r \in Request : Start(w, r) /\ r.token = 0 /\ r.code.set = 0 /\ r.n = 0
    <3>1. CASE TOTPConfirm(w)
      <4> DEFINE r == [Idle EXCEPT !.step = "enable", !.secret = account.secret,
                                   !.key = account.key]
      <4>1. r \in Request /\ r.token = 0 /\ r.code.set = 0 /\ r.n = 0
        BY IdleFits DEF Idle, Request, WrongCode, Steps, TypeInv, TypeOK
      <4> QED
        BY <3>1, <4>1 DEF TOTPConfirm
    <3>2. CASE TOTPDisable(w)
      <4> DEFINE r == [Idle EXCEPT !.step = "turn_off"]
      <4>1. r \in Request /\ r.token = 0 /\ r.code.set = 0 /\ r.n = 0
        BY IdleFits DEF Idle, Request, WrongCode, Steps
      <4> QED
        BY <3>2, <4>1 DEF TOTPDisable
    <3>3. CASE TOTPRecoveryRegenerate(w)
      <4> DEFINE r == [Idle EXCEPT !.step = "delete_codes", !.secret = account.secret]
      <4>1. r \in Request /\ r.token = 0 /\ r.code.set = 0 /\ r.n = 0
        BY IdleFits DEF Idle, Request, WrongCode, Steps, TypeInv, TypeOK
      <4> QED
        BY <3>3, <4>1 DEF TOTPRecoveryRegenerate
    <3> QED
      BY <1>10, <3>1, <3>2, <3>3
  <2> QED
    BY <2>1, StartGoes
<1>11. ASSUME NEW w \in Workers, InsertCode(w) PROVE RequestsGo
  <2>1. CASE Done(w)
    BY <1>11, <2>1, DoneGoes DEF InsertCode
  <2>2. CASE req' = [req EXCEPT ![w].n = req[w].n + 1]
    BY <1>11, <2>2 DEF InsertCode, TypeInv, TypeOK, Request, RequestsGo, Continues
  <2> QED
    BY <1>11, <2>1, <2>2 DEF InsertCode
<1>12. CASE Restart
  BY <1>12 DEF Restart, RequestsGo, Ends
<1>13. CASE GC \/ (\E t \in Numbers : Expire(t)) \/ UNCHANGED vars
  <2>1. req' = req /\ requests' = requests
    BY <1>13 DEF GC, Expire, vars
  <2> QED
    BY <2>1 DEF RequestsGo, Continues, TypeInv, TypeOK, Request
<1> QED
  BY <1>1, <1>2, <1>3, <1>4, <1>5, <1>6, <1>7, <1>8, <1>9, <1>10, <1>11, <1>12, <1>13 DEF Next

\* A token is left as it is, but for attempts counted and its time being over, or
\* deleted.
Stays(old, new) ==
  \/ new.kind = "gone"
  \/ new.kind = old.kind /\ new.attempts >= old.attempts

\* A token is made by the request whose number it has, which is over with that.
Made(t) ==
  \E w \in Workers :
    /\ req[w].id = t /\ Ends(w)
    /\ \/ At(w, "pend") /\ Create(t, "pending")
       \/ req[w].step \in {"admit", "mint"} /\ Create(t, "session")

StoresGo ==
  \A t \in Numbers : \/ Stays(rows[t], rows'[t]) /\ Stays(memory[t], memory'[t])
                     \/ Made(t)

LEMMA StoresGoOn ==
  ASSUME TypeInv, [Next]_vars
  PROVE  StoresGo
<1> USE DEF StoresGo
<1>0. \A t \in Numbers : /\ Stays(rows[t], rows[t]) /\ Stays(memory[t], memory[t])
                         /\ rows[t] \in Token /\ memory[t] \in Token
  BY DEF TypeInv, TypeOK, Stays, Token
<1>1. CASE UNCHANGED <<rows, memory>>
  BY <1>0, <1>1
<1>2. ASSUME NEW w \in Workers, Pend(w) \/ Admit(w) \/ Mint(w) PROVE StoresGo
  <2>1. /\ Ends(w)
        /\ \/ At(w, "pend") /\ Create(req[w].id, "pending")
           \/ req[w].step \in {"admit", "mint"} /\ Create(req[w].id, "session")
    BY <1>2 DEF Pend, Admit, Mint, At, Done, Ends, TypeInv, TypeOK
  <2>2. Made(req[w].id)
    BY <2>1 DEF Made
  <2>3. \A t \in Numbers \ {req[w].id} : rows'[t] = rows[t] /\ memory'[t] = memory[t]
    BY <2>1 DEF Create, TypeInv, TypeOK
  <2> QED
    BY <1>0, <2>2, <2>3
<1>3. ASSUME NEW t, Delete(t) PROVE StoresGo
  BY <1>0, <1>3 DEF Delete, Stays, Gone, TypeInv, TypeOK
<1>4. ASSUME NEW w \in Workers, FinishPending(w) \/ EndSession(w) PROVE StoresGo
  BY <1>1, <1>3, <1>4 DEF FinishPending, EndSession
<1>5. ASSUME NEW w \in Workers, IncrementAttempts(w) \/ DropPending(w) PROVE StoresGo
  <2> DEFINE u == req[w].token
  <2>1. /\ UNCHANGED memory
        /\ \/ UNCHANGED rows
           \/ rows' = [rows EXCEPT ![u] = Gone]
           \/ rows' = [rows EXCEPT ![u].attempts = @ + 1]
    <3>1. CASE DropPending(w)
      BY <3>1 DEF DropPending
    <3>2. CASE IncrementAttempts(w)
      BY <3>2 DEF IncrementAttempts
    <3> QED
      BY <1>5, <3>1, <3>2
  <2> HIDE DEF u
  <2>2. CASE rows' = [rows EXCEPT ![u] = Gone]
    BY <1>0, <2>1, <2>2 DEF Stays, Gone, TypeInv, TypeOK
  <2>3. CASE rows' = [rows EXCEPT ![u].attempts = @ + 1]
    BY <1>0, <2>1, <2>3 DEF Stays, Token, TypeInv, TypeOK
  <2> QED
    BY <1>1, <2>1, <2>2, <2>3
<1>6. ASSUME NEW w \in Workers, PeekMemory(w) PROVE StoresGo
  <2> DEFINE u == req[w].token
  <2>1. /\ UNCHANGED rows
        /\ \/ UNCHANGED memory
           \/ memory' = [memory EXCEPT ![u] = Gone]
           \/ memory' = [memory EXCEPT ![u].attempts = @ + 1]
    BY <1>6, Zenon DEF PeekMemory, tables
  <2> HIDE DEF u
  <2>2. CASE memory' = [memory EXCEPT ![u] = Gone]
    BY <1>0, <2>1, <2>2 DEF Stays, Gone, TypeInv, TypeOK
  <2>3. CASE memory' = [memory EXCEPT ![u].attempts = @ + 1]
    BY <1>0, <2>1, <2>3 DEF Stays, Token, TypeInv, TypeOK
  <2> QED
    BY <1>1, <2>1, <2>2, <2>3
<1>7. ASSUME NEW t \in Numbers, Expire(t) PROVE StoresGo
  <2>1. CASE rows' = [rows EXCEPT ![t].expired = TRUE] /\ UNCHANGED memory
    BY <1>0, <2>1 DEF Stays, Token, TypeInv, TypeOK
  <2>2. CASE memory' = [memory EXCEPT ![t].expired = TRUE] /\ UNCHANGED rows
    BY <1>0, <2>2 DEF Stays, Token, TypeInv, TypeOK
  <2> QED
    BY <1>7, <2>1, <2>2 DEF Expire, tables
<1>8. CASE GC
  BY <1>0, <1>8 DEF GC, Stays, Gone
<1>9. CASE Restart
  BY <1>0, <1>9 DEF Restart, tables, Stays, Gone
<1>10. ASSUME NEW w \in Workers,
             \/ WebmailLogin(w) \/ CheckAccount(w) \/ GetPending(w)
             \/ \E t \in PendingTokens, c \in CodesOfTheUser : TOTPVerify(w, t, c)
             \/ CheckCode(w) \/ ConsumeRecoveryCode(w) \/ StatementFails(w)
             \/ \E t \in Numbers : Logout(w, t)
      PROVE  UNCHANGED <<rows, memory>>
  BY <1>10, Zenon DEF WebmailLogin, CheckAccount, GetPending, TOTPVerify, CheckCode,
              ConsumeRecoveryCode, StatementFails, Logout, tables
<1>11. ASSUME NEW w \in Workers,
              \/ TOTPEnroll(w) \/ TOTPConfirm(w) \/ Enable(w) \/ TOTPDisable(w) \/ TurnOff(w)
              \/ TOTPRecoveryRegenerate(w) \/ DeleteCodes(w) \/ InsertCode(w)
       PROVE  UNCHANGED <<rows, memory>>
  BY <1>11, Zenon DEF TOTPEnroll, TOTPConfirm, Enable, TOTPDisable, TurnOff,
               TOTPRecoveryRegenerate, DeleteCodes, InsertCode, tables
<1>12. CASE UNCHANGED vars
  BY <1>1, <1>12 DEF vars, tables
<1> QED
  BY <1>1, <1>2, <1>4, <1>5, <1>6, <1>7, <1>8, <1>9, <1>10, <1>11, <1>12 DEF Next

\* What the history records of the session that w makes.
Entry(w) ==
  IF At(w, "mint")
  THEN [token |-> req[w].id, pending |-> req[w].token, code |-> req[w].code, off |-> FALSE,
        alone |-> req[w].alone]
  ELSE [token |-> req[w].id, pending |-> 0, code |-> WrongCode, off |-> req[w].off,
        alone |-> TRUE]

Mints(w) ==
  /\ req[w].step \in {"admit", "mint"} /\ Done(w)
  /\ minted' = minted \cup {Entry(w)}

Tries(w) ==
  /\ GetPending(w) \/ PeekMemory(w)
  /\ tried' = [tried EXCEPT ![req[w].token] = @ + 1]

LogsOut(w) ==
  /\ At(w, "logout") /\ Delete(req[w].token)
  /\ out' = out \cup {req[w].token}

\* The history grows by what a request does to its token.
HistoryGoes ==
  /\ minted' = minted \/ \E w \in Workers : Mints(w)
  /\ tried' = tried \/ \E w \in Workers : Tries(w)
  /\ out' = out \/ \E w \in Workers : LogsOut(w)

LEMMA HistoryGoesOn ==
  ASSUME TypeInv, [Next]_vars
  PROVE  HistoryGoes
<1> USE DEF HistoryGoes, history
<1>1. ASSUME NEW w \in Workers, Admit(w) PROVE HistoryGoes
  <2>1. Mints(w)
    BY <1>1, Zenon DEF Admit, Mints, Entry, At
  <2> QED
    BY <1>1, <2>1 DEF Admit
<1>2. ASSUME NEW w \in Workers, Mint(w) PROVE HistoryGoes
  BY <1>2 DEF Mint, Mints, Entry, At
<1>3. ASSUME NEW w \in Workers, GetPending(w) \/ PeekMemory(w) PROVE HistoryGoes
  <2>1. UNCHANGED <<minted, out>> /\ (UNCHANGED tried \/ Tries(w))
    BY <1>3, Zenon DEF GetPending, PeekMemory, Try, Tries
  <2> QED
    BY <2>1
<1>4. ASSUME NEW w \in Workers, EndSession(w) PROVE HistoryGoes
  <2>1. UNCHANGED <<minted, tried>> /\ (out' = out \/ LogsOut(w))
    BY <1>4 DEF EndSession, LogsOut
  <2> QED
    BY <2>1
<1>5. ASSUME NEW w \in Workers, TOTPConfirm(w) PROVE HistoryGoes
  BY <1>5 DEF TOTPConfirm
<1>6. ASSUME NEW w \in Workers,
             \/ WebmailLogin(w) \/ CheckAccount(w) \/ Pend(w)
             \/ \E t \in PendingTokens, c \in CodesOfTheUser : TOTPVerify(w, t, c)
             \/ IncrementAttempts(w) \/ DropPending(w) \/ CheckCode(w) \/ ConsumeRecoveryCode(w)
      PROVE  UNCHANGED history
  BY <1>6, Zenon DEF WebmailLogin, CheckAccount, Pend, TOTPVerify, IncrementAttempts, DropPending,
              CheckCode, ConsumeRecoveryCode
<1>7. ASSUME NEW w \in Workers,
             \/ FinishPending(w) \/ \E t \in Numbers : Logout(w, t)
             \/ TOTPEnroll(w) \/ Enable(w) \/ TOTPDisable(w) \/ TurnOff(w)
             \/ TOTPRecoveryRegenerate(w) \/ DeleteCodes(w) \/ InsertCode(w) \/ StatementFails(w)
      PROVE  UNCHANGED history
  BY <1>7, Zenon DEF FinishPending, Logout, TOTPEnroll, Enable, TOTPDisable, TurnOff,
              TOTPRecoveryRegenerate, DeleteCodes, InsertCode, StatementFails
<1>8. CASE GC \/ Restart \/ (\E t \in Numbers : Expire(t)) \/ UNCHANGED vars
  <2>1. UNCHANGED history
    BY <1>8, Zenon DEF GC, Restart, Expire, vars
  <2> QED
    BY <2>1
<1> QED
  BY <1>1, <1>2, <1>3, <1>4, <1>5, <1>6, <1>7, <1>8 DEF Next

\* A number that no request has had yet, or whose request is not over.
Unborn(t) == t > requests \/ \E w \in Workers : req[w].id = t

\* Nothing is named by it.
Untouched(t) ==
  /\ rows[t].kind = "gone" /\ memory[t].kind = "gone" /\ t \notin out /\ tried[t] = 0
  /\ \A w \in Workers : req[w].token # t
  /\ \A s \in minted : s.token # t /\ s.pending # t

\* Requests have numbers of their own, and until a request is over its number
\* names nothing.
NumbersInv ==
  /\ \A w \in Workers : req[w].id <= requests
  /\ \A v, w \in Workers : req[v].id = req[w].id => v = w \/ req[v].id = 0
  /\ \A t \in Numbers : Unborn(t) => Untouched(t)

LEMMA NumbersInit == Init => NumbersInv
  BY DEF Init, NumbersInv, Idle, Untouched, Gone, Numbers

LEMMA NumbersNext == TypeInv /\ NumbersInv /\ [Next]_vars => NumbersInv'
<1> SUFFICES ASSUME TypeInv, NumbersInv, [Next]_vars PROVE NumbersInv'
  OBVIOUS
<1>0. /\ requests \in Nat /\ \A w \in Workers : req[w].id \in Nat
      /\ 0 \notin Numbers
  BY DEF TypeInv, TypeOK, Request, Numbers
<1>1. RequestsGo
  BY RequestsGoOn
<1>2. \A v \in Workers : Continues(v) \/ Ends(v) \/ (Begins(v) /\ requests' = requests + 1)
  BY <1>1 DEF RequestsGo
<1>3. \A v \in Workers : req'[v].id \in {0, req[v].id} \/ (req'[v].id = requests + 1
                                                           /\ requests' = requests + 1)
  BY <1>2 DEF Continues, Ends, Begins, Idle
<1>4. requests' \in {requests, requests + 1}
  BY <1>1 DEF RequestsGo
<1>5. \A w \in Workers : req'[w].id <= requests'
  BY <1>0, <1>3, <1>4 DEF NumbersInv
<1>6. ASSUME NEW v \in Workers, NEW w \in Workers, req'[v].id = req'[w].id
      PROVE  v = w \/ req'[v].id = 0
  <2>1. CASE \A u \in Workers : Continues(u) \/ Ends(u)
    BY <1>6, <2>1 DEF NumbersInv, Continues, Ends, Idle
  <2>2. ASSUME NEW u \in Workers, requests' = requests + 1, Begins(u),
               \A x \in Workers \ {u} : Continues(x)
        PROVE  v = w \/ req'[v].id = 0
    BY <1>0, <1>6, <2>2 DEF NumbersInv, Continues, Begins, Ends, Idle
  <2> QED
    BY <1>1, <2>1, <2>2 DEF RequestsGo
<1>7. ASSUME NEW t \in Numbers, Unborn(t)' PROVE Untouched(t)'
  <2>1. t \in Nat /\ t # 0
    BY DEF Numbers
  <2>2. Unborn(t)
    BY <1>0, <1>3, <1>4, <1>7, <2>1 DEF Unborn
  <2>3. Untouched(t)
    BY <2>2 DEF NumbersInv
  <2>4. \A w \in Workers : req[w].id = t => ~ Ends(w)
    <3> SUFFICES ASSUME NEW w \in Workers, req[w].id = t, Ends(w) PROVE FALSE
      OBVIOUS
    <3>1. t <= requests
      BY DEF NumbersInv
    <3>2. PICK v \in Workers : req'[v].id = t
      BY <1>0, <1>4, <1>7, <2>1, <3>1 DEF Unborn
    <3>3. req[v].id = t
      BY <1>0, <1>3, <2>1, <3>1, <3>2
    <3>4. v = w
      BY <2>1, <3>3 DEF NumbersInv
    <3> QED
      BY <2>1, <3>2, <3>4 DEF Ends, Idle
  <2>5. rows'[t].kind = "gone" /\ memory'[t].kind = "gone"
    <3>1. ~ Made(t)
      BY <2>4 DEF Made
    <3> QED
      BY <2>3, <3>1, StoresGoOn DEF StoresGo, Stays, Untouched
  <2>6. t \notin out' /\ tried'[t] = 0
    BY <2>3, HistoryGoesOn DEF HistoryGoes, Tries, LogsOut, Untouched, TypeInv, TypeOK
  <2>7. \A w \in Workers : req'[w].token # t
    BY <1>2, <2>1, <2>3 DEF Untouched, Continues, Ends, Begins, Idle
  <2>8. \A s \in minted' : s.token # t /\ s.pending # t
    <3>1. ASSUME NEW w \in Workers, Mints(w)
          PROVE  \A s \in minted' : s.token # t /\ s.pending # t
      <4>1. Ends(w)
        BY <3>1 DEF Mints, Done, Ends, TypeInv, TypeOK
      <4>2. req[w].id # t /\ req[w].token # t
        BY <2>3, <2>4, <4>1 DEF Untouched
      <4> QED
        BY <2>1, <2>3, <3>1, <4>2 DEF Mints, Entry, Untouched
    <3> QED
      BY <2>3, <3>1, HistoryGoesOn DEF HistoryGoes, Untouched
  <2> QED
    BY <2>5, <2>6, <2>7, <2>8 DEF Untouched
<1> QED
  BY <1>5, <1>6, <1>7 DEF NumbersInv

\* The step a request is at changes by the action that leads there.
Arrives(v) ==
  \/ req'[v].step = req[v].step
  \/ req'[v].step \in {"idle", "pend", "drop", "enable", "turn_off", "delete_codes", "insert_code"}
  \/ req'[v].step = "logout" /\ \E t \in Numbers : Logout(v, t)
  \/ req'[v].step = "account" /\ WebmailLogin(v)
  \/ req'[v].step = "admit" /\ CheckAccount(v)
  \/ /\ req'[v].step \in {"increment", "get"}
     /\ \E t \in PendingTokens, c \in CodesOfTheUser : TOTPVerify(v, t, c)
  \/ req'[v].step = "get" /\ IncrementAttempts(v)
  \/ req'[v].step = "check" /\ (GetPending(v) \/ PeekMemory(v))
  \/ req'[v].step \in {"consume", "finish"} /\ CheckCode(v)
  \/ req'[v].step = "finish" /\ ConsumeRecoveryCode(v)
  \/ req'[v].step = "mint" /\ FinishPending(v)

LEMMA NotesMoveNobody ==
  ASSUME NEW r \in Request
  PROVE  [r EXCEPT !.off = TRUE].step = r.step /\ [r EXCEPT !.alone = FALSE].step = r.step
  BY DEF Request

LEMMA GotoArrives ==
  ASSUME TypeInv, NEW w \in Workers, NEW step, Goto(w, step) \/ (Done(w) /\ step = "idle")
  PROVE  req'[w].step = step /\ \A v \in Workers \ {w} : req'[v] = req[v]
  BY DEF Goto, Done, Idle, TypeInv, TypeOK, Request

LEMMA ArrivesIf ==
  ASSUME NEW w \in Workers, Arrives(w), \A v \in Workers \ {w} : req'[v].step = req[v].step
  PROVE  \A v \in Workers : Arrives(v)
  BY DEF Arrives

LEMMA RequestsArrive ==
  ASSUME TypeInv, [Next]_vars
  PROVE  \A v \in Workers : Arrives(v)
<1>1. ASSUME NEW w \in Workers, Done(w) PROVE \A v \in Workers : Arrives(v)
  BY <1>1, GotoArrives, ArrivesIf DEF Arrives
<1>2. ASSUME NEW w \in Workers,
             NEW step \in {"pend", "drop", "delete_codes", "insert_code"}, Goto(w, step)
      PROVE  \A v \in Workers : Arrives(v)
  BY <1>2, GotoArrives, ArrivesIf DEF Arrives
<1>3. ASSUME NEW w \in Workers, NEW r \in Request, Start(w, r),
             r.step \in {"enable", "turn_off", "delete_codes"}
      PROVE  \A v \in Workers : Arrives(v)
  <2>1. req'[w].step = r.step /\ \A v \in Workers \ {w} : req'[v] = req[v]
    BY <1>3 DEF Start, TypeInv, TypeOK, Request
  <2> QED
    BY <1>3, <2>1, ArrivesIf DEF Arrives
<1>4. ASSUME NEW w \in Workers, WebmailLogin(w) PROVE \A v \in Workers : Arrives(v)
  <2> DEFINE r == [Idle EXCEPT !.step = "account", !.off = ~ account.enabled]
  <2>1. req' = [req EXCEPT ![w] = [r EXCEPT !.id = requests']]
    BY <1>4 DEF WebmailLogin, Start
  <2>2. req'[w].step = "account" /\ \A v \in Workers \ {w} : req'[v] = req[v]
    BY <2>1 DEF Idle, TypeInv, TypeOK
  <2> QED
    BY <1>4, <2>2, ArrivesIf DEF Arrives
<1>5. ASSUME NEW w \in Workers, CheckAccount(w) PROVE \A v \in Workers : Arrives(v)
  <2>1. CASE Goto(w, "pend")
    BY <1>2, <2>1
  <2>2. CASE Goto(w, "admit")
    BY <1>5, <2>2, GotoArrives, ArrivesIf DEF Arrives
  <2>3. CASE req' = [req EXCEPT ![w].step = "admit", ![w].off = TRUE]
    <3>1. req'[w].step = "admit" /\ \A v \in Workers \ {w} : req'[v] = req[v]
      BY <2>3 DEF TypeInv, TypeOK, Request
    <3> QED
      BY <1>5, <3>1, ArrivesIf DEF Arrives
  <2> QED
    BY <1>5, <2>1, <2>2, <2>3 DEF CheckAccount
<1>6. ASSUME NEW w \in Workers, Pend(w) \/ Admit(w) \/ Mint(w) \/ DropPending(w) \/ EndSession(w)
                                \/ StatementFails(w)
      PROVE  Done(w)
  BY <1>6 DEF Pend, Admit, Mint, DropPending, EndSession, StatementFails
<1>7. ASSUME NEW w \in Workers, NEW t \in PendingTokens, NEW c \in CodesOfTheUser,
             TOTPVerify(w, t, c)
      PROVE  \A v \in Workers : Arrives(v)
  <2>1. req'[w].step \in {"increment", "get"}
        /\ \A v \in Workers \ {w} : req'[v] = req[v] \/ req'[v] = [req[v] EXCEPT !.alone = FALSE]
    BY <1>7 DEF TOTPVerify, Idle
  <2>2. \A v \in Workers \ {w} : req'[v].step = req[v].step
    BY <2>1, NotesMoveNobody DEF TypeInv, TypeOK
  <2> QED
    BY <1>7, <2>1, <2>2, ArrivesIf DEF Arrives
<1>8. ASSUME NEW w \in Workers, IncrementAttempts(w) PROVE \A v \in Workers : Arrives(v)
  <2>1. Done(w) \/ Goto(w, "get") \/ Goto(w, "drop")
    BY <1>8 DEF IncrementAttempts
  <2>2. CASE Goto(w, "get")
    BY <1>8, <2>2, GotoArrives, ArrivesIf DEF Arrives
  <2> QED
    BY <1>1, <1>2, <2>1, <2>2
<1>9. ASSUME NEW w \in Workers, GetPending(w) \/ PeekMemory(w)
      PROVE  \A v \in Workers : Arrives(v)
  <2>1. Done(w) \/ Goto(w, "check")
    BY <1>9 DEF GetPending, PeekMemory, Try
  <2>2. CASE Goto(w, "check")
    BY <1>9, <2>2, GotoArrives, ArrivesIf DEF Arrives
  <2> QED
    BY <1>1, <2>1, <2>2
<1>10. ASSUME NEW w \in Workers, CheckCode(w) PROVE \A v \in Workers : Arrives(v)
  <2>1. Done(w) \/ Goto(w, "finish") \/ Goto(w, "consume")
    BY <1>10 DEF CheckCode
  <2>2. CASE Goto(w, "finish") \/ Goto(w, "consume")
    BY <1>10, <2>2, GotoArrives, ArrivesIf DEF Arrives
  <2> QED
    BY <1>1, <2>1, <2>2
<1>11. ASSUME NEW w \in Workers, ConsumeRecoveryCode(w) PROVE \A v \in Workers : Arrives(v)
  <2>1. Done(w) \/ Goto(w, "finish")
    BY <1>11 DEF ConsumeRecoveryCode
  <2>2. CASE Goto(w, "finish")
    BY <1>11, <2>2, GotoArrives, ArrivesIf DEF Arrives
  <2> QED
    BY <1>1, <2>1, <2>2
<1>12. ASSUME NEW w \in Workers, FinishPending(w) PROVE \A v \in Workers : Arrives(v)
  <2>1. CASE Goto(w, "mint")
    BY <1>12, <2>1, GotoArrives, ArrivesIf DEF Arrives
  <2>2. CASE req' = [req EXCEPT ![w].step = "mint", ![w].alone = FALSE]
    <3>1. req'[w].step = "mint" /\ \A v \in Workers \ {w} : req'[v] = req[v]
      BY <2>2 DEF TypeInv, TypeOK, Request
    <3> QED
      BY <1>12, <3>1, ArrivesIf DEF Arrives
  <2> QED
    BY <1>12, <2>1, <2>2 DEF FinishPending
<1>13. ASSUME NEW w \in Workers, NEW t \in Numbers, Logout(w, t)
       PROVE  \A v \in Workers : Arrives(v)
  <2> DEFINE r == [Idle EXCEPT !.step = "logout", !.token = t]
  <2>1. req' = [req EXCEPT ![w] = [r EXCEPT !.id = requests']]
    BY <1>13 DEF Logout, Start
  <2>2. req'[w].step = "logout" /\ \A v \in Workers \ {w} : req'[v] = req[v]
    BY <2>1 DEF Idle, TypeInv, TypeOK
  <2> QED
    BY <1>13, <2>2, ArrivesIf DEF Arrives
<1>14. ASSUME NEW w \in Workers, TOTPEnroll(w) PROVE \A v \in Workers : Arrives(v)
  <2>1. \A v \in Workers : req'[v] = req[v] \/ req'[v] = [req[v] EXCEPT !.off = TRUE]
    BY <1>14 DEF TOTPEnroll, Off
  <2>2. \A v \in Workers : req'[v].step = req[v].step
    BY <2>1 DEF TypeInv, TypeOK, Request
  <2> QED
    BY <2>2 DEF Arrives
<1>15. ASSUME NEW w \in Workers, TOTPConfirm(w) \/ TOTPDisable(w) \/ TOTPRecoveryRegenerate(w)
       PROVE  \A v \in Workers : Arrives(v)
  <2>1. CASE TOTPConfirm(w)
    <3> DEFINE r == [Idle EXCEPT !.step = "enable", !.secret = account.secret,
                                 !.key = account.key]
    <3>1. r \in Request /\ r.step = "enable"
      BY IdleFits DEF Idle, Request, Steps, TypeInv, TypeOK
    <3> QED
      BY <1>3, <2>1, <3>1 DEF TOTPConfirm
  <2>2. CASE TOTPDisable(w)
    <3> DEFINE r == [Idle EXCEPT !.step = "turn_off"]
    <3>1. r \in Request /\ r.step = "turn_off"
      BY IdleFits DEF Idle, Request, Steps
    <3> QED
      BY <1>3, <2>2, <3>1 DEF TOTPDisable
  <2>3. CASE TOTPRecoveryRegenerate(w)
    <3> DEFINE r == [Idle EXCEPT !.step = "delete_codes", !.secret = account.secret]
    <3>1. r \in Request /\ r.step = "delete_codes"
      BY IdleFits DEF Idle, Request, Steps, TypeInv, TypeOK
    <3> QED
      BY <1>3, <2>3, <3>1 DEF TOTPRecoveryRegenerate
  <2> QED
    BY <1>15, <2>1, <2>2, <2>3
<1>16. ASSUME NEW w \in Workers, Enable(w) \/ DeleteCodes(w) PROVE \A v \in Workers : Arrives(v)
  <2>1. Done(w) \/ Goto(w, "delete_codes") \/ Goto(w, "insert_code")
    BY <1>16 DEF Enable, DeleteCodes
  <2> QED
    BY <1>1, <1>2, <2>1
<1>17. ASSUME NEW w \in Workers, TurnOff(w) PROVE \A v \in Workers : Arrives(v)
  <2> DEFINE q == [req EXCEPT ![w].step = "delete_codes"]
  <2>1. req' = Off(q)
    BY <1>17 DEF TurnOff
  <2>2. /\ q \in [Workers -> Request]
        /\ q[w].step = "delete_codes" /\ \A v \in Workers \ {w} : q[v] = req[v]
    BY DEF TypeInv, TypeOK, Request, Steps
  <2> HIDE DEF q
  <2>3. \A v \in Workers : req'[v] = q[v] \/ req'[v] = [q[v] EXCEPT !.off = TRUE]
    BY <2>1 DEF Off
  <2>4. \A v \in Workers : req'[v].step = q[v].step
    BY <2>2, <2>3, NotesMoveNobody
  <2> QED
    BY <2>2, <2>4, ArrivesIf DEF Arrives
<1>18. ASSUME NEW w \in Workers, InsertCode(w) PROVE \A v \in Workers : Arrives(v)
  <2>1. CASE req' = [req EXCEPT ![w].n = req[w].n + 1]
    <3>1. \A v \in Workers : req'[v].step = req[v].step
      BY <2>1 DEF TypeInv, TypeOK, Request
    <3> QED
      BY <3>1 DEF Arrives
  <2> QED
    BY <1>1, <1>18, <2>1 DEF InsertCode
<1>19. CASE Restart
  BY <1>19 DEF Restart, Arrives, Idle
<1>20. CASE GC \/ (\E t \in Numbers : Expire(t)) \/ UNCHANGED vars
  <2>1. req' = req
    BY <1>20 DEF GC, Expire, vars
  <2> QED
    BY <2>1 DEF Arrives
<1> QED
  BY <1>1, <1>4, <1>5, <1>6, <1>7, <1>8, <1>9, <1>10, <1>11, <1>12, <1>13, <1>14, <1>15, <1>16, <1>17,
     <1>18, <1>19, <1>20 DEF Next

\* The master key changes with a restart only.
LEMMA KeyOrRestart ==
  ASSUME [Next]_vars
  PROVE  (masterKey' = masterKey /\ ~ Restart) \/ Restart
<1>1. ASSUME NEW w \in Workers,
             \/ WebmailLogin(w) \/ CheckAccount(w) \/ Pend(w) \/ Admit(w)
             \/ \E t \in PendingTokens, c \in CodesOfTheUser : TOTPVerify(w, t, c)
             \/ IncrementAttempts(w) \/ DropPending(w) \/ GetPending(w) \/ PeekMemory(w)
             \/ CheckCode(w) \/ ConsumeRecoveryCode(w) \/ FinishPending(w) \/ Mint(w)
      PROVE  masterKey' = masterKey
  BY <1>1, Zenon DEF WebmailLogin, CheckAccount, Pend, Admit, TOTPVerify, IncrementAttempts,
              DropPending, GetPending, PeekMemory, CheckCode, ConsumeRecoveryCode, FinishPending, Mint
<1>2. ASSUME NEW w \in Workers,
             \/ \E t \in Numbers : Logout(w, t)
             \/ EndSession(w) \/ TOTPEnroll(w) \/ TOTPConfirm(w) \/ Enable(w) \/ TOTPDisable(w)
             \/ TurnOff(w) \/ TOTPRecoveryRegenerate(w) \/ DeleteCodes(w) \/ InsertCode(w)
             \/ StatementFails(w)
      PROVE  masterKey' = masterKey
  BY <1>2, Zenon DEF Logout, EndSession, TOTPEnroll, TOTPConfirm, Enable, TOTPDisable, TurnOff,
              TOTPRecoveryRegenerate, DeleteCodes, InsertCode, StatementFails
<1>3. ASSUME GC \/ (\E t \in Numbers : Expire(t)) \/ UNCHANGED vars
      PROVE  masterKey' = masterKey
  BY <1>3, Zenon DEF GC, Expire, vars
<1> QED
  BY <1>1, <1>2, <1>3 DEF Next

\* With the table attached nothing is in memory, and no token is in both stores.
StoreInv ==
  /\ Durable => \A t \in Numbers : memory[t].kind = "gone"
  /\ \A t \in Numbers : rows[t].kind = "gone" \/ memory[t].kind = "gone"

LEMMA StoreNext == TypeInv /\ NumbersInv /\ StoreInv /\ [Next]_vars => StoreInv'
<1> SUFFICES ASSUME TypeInv, NumbersInv, StoreInv, [Next]_vars PROVE StoreInv'
  OBVIOUS
<1>1. CASE Restart
  BY <1>1 DEF Restart, StoreInv, Gone
<1>2. CASE masterKey' = masterKey
  <2> SUFFICES ASSUME NEW t \in Numbers
               PROVE  /\ Durable => memory'[t].kind = "gone"
                      /\ rows'[t].kind = "gone" \/ memory'[t].kind = "gone"
    BY <1>2 DEF StoreInv, Durable
  <2>1. CASE Stays(rows[t], rows'[t]) /\ Stays(memory[t], memory'[t])
    BY <2>1 DEF StoreInv, Stays
  <2>2. CASE Made(t)
    <3>1. rows[t].kind = "gone" /\ memory[t].kind = "gone"
      BY <2>2 DEF Made, NumbersInv, Unborn, Untouched
    <3>2. PICK kind : Create(t, kind)
      BY <2>2 DEF Made
    <3> QED
      BY <3>1, <3>2 DEF Create
  <2> QED
    BY <2>1, <2>2, StoresGoOn DEF StoresGo
<1> QED
  BY <1>1, <1>2, KeyOrRestart

-----------------------------------------------------------------------------
(* Tries: a code is tried by a request whose attempt was counted.          *)

\* The requests whose attempt on t was counted and whose code was not yet tried.
Counted(t) == {w \in Workers : req[w].step = "get" /\ req[w].token = t}

TriesInv ==
  \A t \in Numbers :
    /\ tried[t] <= maxPendingAttempts
    /\ rows[t].kind = "pending" => tried[t] <= rows[t].attempts
    /\ memory[t].kind = "pending" => tried[t] <= memory[t].attempts
    /\ Durable => /\ tried[t] + Cardinality(Counted(t)) <= maxPendingAttempts
                  /\ rows[t].kind = "pending" =>
                       tried[t] + Cardinality(Counted(t)) <= rows[t].attempts

LEMMA TriesInit == Init => TriesInv
<1> SUFFICES ASSUME Init PROVE TriesInv
  OBVIOUS
<1>1. \A t : Counted(t) = {}
  BY DEF Init, Counted, Idle
<1>2. \A t \in Numbers : /\ tried[t] = 0 /\ rows[t].kind = "gone" /\ memory[t].kind = "gone"
                         /\ Cardinality(Counted(t)) = 0
  BY <1>1, FS_EmptySet DEF Init, Gone
<1> QED
  BY <1>2, WebmailSessionAssumption DEF TriesInv

\* The workers are finitely many.
LEMMA CountedFinite ==
  \A t : IsFiniteSet(Counted(t)) /\ Cardinality(Counted(t)) \in Nat
<1>1. \A t : Counted(t) \subseteq Workers
  BY DEF Counted
<1> QED
  BY <1>1, WebmailSessionAssumption, FS_Subset, FS_CardinalityType

\* What becomes of the number of those counted.
LEMMA FewerCounted ==
  ASSUME NEW t, Counted(t)' \subseteq Counted(t)
  PROVE  /\ Cardinality(Counted(t))' <= Cardinality(Counted(t))
         /\ Cardinality(Counted(t))' \in Nat
BY CountedFinite, FS_Subset, FS_CardinalityType

LEMMA OneMoreCounted ==
  ASSUME NEW t, NEW w, Counted(t)' \subseteq Counted(t) \cup {w}
  PROVE  /\ Cardinality(Counted(t))' <= Cardinality(Counted(t)) + 1
         /\ Cardinality(Counted(t))' \in Nat
<1>0. IsFiniteSet(Counted(t)) /\ Cardinality(Counted(t)) \in Nat
  BY CountedFinite
<1> DEFINE S == Counted(t)
<1> HIDE DEF S
<1>3. IsFiniteSet(S) /\ Cardinality(S) \in Nat
  BY <1>0 DEF S
<1>4. /\ IsFiniteSet(S \cup {w})
      /\ Cardinality(S \cup {w}) \in {Cardinality(S), Cardinality(S) + 1}
  BY <1>3, FS_AddElement, Zenon
<1>1. IsFiniteSet(Counted(t) \cup {w})
      /\ Cardinality(Counted(t) \cup {w}) <= Cardinality(Counted(t)) + 1
      /\ Cardinality(Counted(t) \cup {w}) \in Nat
  BY <1>3, <1>4 DEF S
<1>2. Cardinality(Counted(t)') <= Cardinality(Counted(t) \cup {w})
      /\ IsFiniteSet(Counted(t)') /\ Cardinality(Counted(t)') \in Nat
  BY <1>1, FS_Subset, FS_CardinalityType
<1> QED
  BY <1>1, <1>2, CountedFinite

LEMMA OneCountedLess ==
  ASSUME NEW t, NEW w \in Counted(t), Counted(t)' \subseteq Counted(t) \ {w}
  PROVE  /\ Cardinality(Counted(t))' + 1 <= Cardinality(Counted(t))
         /\ Cardinality(Counted(t))' \in Nat
<1>1. IsFiniteSet(Counted(t) \ {w})
      /\ Cardinality(Counted(t) \ {w}) = Cardinality(Counted(t)) - 1
      /\ Cardinality(Counted(t) \ {w}) \in Nat
  BY CountedFinite, FS_RemoveElement, FS_CardinalityType
<1>2. Cardinality(Counted(t)') <= Cardinality(Counted(t) \ {w})
      /\ IsFiniteSet(Counted(t)') /\ Cardinality(Counted(t)') \in Nat
  BY <1>1, FS_Subset, FS_CardinalityType
<1> QED
  BY <1>1, <1>2, CountedFinite

\* Nobody but who is at IncrementAttempts comes to be counted in the table.
LEMMA CountedStay ==
  ASSUME TypeInv, NumbersInv, [Next]_vars, Durable, NEW t, t # 0,
         NEW v \in Counted(t)'
  PROVE  v \in Counted(t) \/ IncrementAttempts(v)
<1>1. v \in Workers /\ req'[v].step = "get" /\ req'[v].token = t
  BY DEF Counted
<1>2. Arrives(v)
  BY <1>1, RequestsArrive
<1>3. req[v].step = "get" \/ IncrementAttempts(v)
  <2>1. ~ \E u \in PendingTokens, c \in CodesOfTheUser : TOTPVerify(v, u, c)
    BY <1>1 DEF TOTPVerify, Idle
  <2> QED
    BY <1>1, <1>2, <2>1 DEF Arrives
<1>4. req[v].step = "get" => req[v].token = t
  <2>1. Continues(v) \/ Ends(v) \/ Begins(v)
    BY <1>1, RequestsGoOn DEF RequestsGo
  <2>2. req[v].step = "get" => ~ Begins(v)
    BY DEF Begins, At
  <2> QED
    BY <1>1, <2>1, <2>2 DEF Continues, Ends, Idle
<1> QED
  BY <1>1, <1>3, <1>4 DEF Counted

LEMMA TriesNext == TypeInv /\ NumbersInv /\ StoreInv /\ TriesInv /\ [Next]_vars => TriesInv'
<1> SUFFICES ASSUME TypeInv, NumbersInv, StoreInv, TriesInv, [Next]_vars,
                    NEW t \in Numbers
             PROVE  /\ tried'[t] <= maxPendingAttempts
                    /\ rows'[t].kind = "pending" => tried'[t] <= rows'[t].attempts
                    /\ memory'[t].kind = "pending" => tried'[t] <= memory'[t].attempts
                    /\ Durable' => /\ tried'[t] + Cardinality(Counted(t))' <= maxPendingAttempts
                                   /\ rows'[t].kind = "pending" =>
                                        tried'[t] + Cardinality(Counted(t))' <= rows'[t].attempts
  BY DEF TriesInv
<1> DEFINE C == Cardinality(Counted(t))
<1>0. /\ t # 0 /\ tried[t] \in Nat /\ maxPendingAttempts \in Nat /\ C \in Nat /\ C' \in Nat
      /\ rows[t].attempts \in Nat /\ memory[t].attempts \in Nat
      /\ rows'[t].attempts \in Nat /\ memory'[t].attempts \in Nat
  <2>1. TypeInv'
    BY TypeNext
  <2>2. C' \in Nat
    <3>1. Counted(t)' \subseteq Workers
      BY DEF Counted
    <3> QED
      BY <3>1, WebmailSessionAssumption, FS_Subset, FS_CardinalityType
  <2>3. t # 0 /\ maxPendingAttempts \in Nat
    BY WebmailSessionAssumption DEF Numbers
  <2>4. tried[t] \in Nat /\ rows[t] \in Token /\ memory[t] \in Token
    BY DEF TypeInv, TypeOK
  <2>5. rows'[t] \in Token /\ memory'[t] \in Token
    BY <2>1 DEF TypeInv, TypeOK
  <2>6. \A r \in Token : r.attempts \in Nat
    BY DEF Token
  <2> QED
    BY <2>2, <2>3, <2>4, <2>5, <2>6, CountedFinite
<1>1. /\ tried[t] <= maxPendingAttempts
      /\ rows[t].kind = "pending" => tried[t] <= rows[t].attempts
      /\ memory[t].kind = "pending" => tried[t] <= memory[t].attempts
      /\ Durable => /\ tried[t] + C <= maxPendingAttempts
                    /\ rows[t].kind = "pending" => tried[t] + C <= rows[t].attempts
  BY DEF TriesInv
<1>2. CASE Restart
  <2>1. Counted(t)' = {}
    BY <1>2 DEF Restart, Counted, Idle
  <2>2. C' = 0
    BY <2>1, FS_EmptySet
  <2> QED
    BY <1>0, <1>1, <1>2, <2>2 DEF Restart, Gone, tables, history
<1> SUFFICES ASSUME masterKey' = masterKey, ~ Restart
             PROVE  /\ tried'[t] <= maxPendingAttempts
                    /\ rows'[t].kind = "pending" => tried'[t] <= rows'[t].attempts
                    /\ memory'[t].kind = "pending" => tried'[t] <= memory'[t].attempts
                    /\ Durable' => /\ tried'[t] + C' <= maxPendingAttempts
                                   /\ rows'[t].kind = "pending" => tried'[t] + C' <= rows'[t].attempts
  BY <1>2, KeyOrRestart
<1>3. Durable' = Durable
  BY DEF Durable
<1>4. CASE Made(t)
  <2>1. Untouched(t)
    BY <1>4 DEF Made, NumbersInv, Unborn
  <2>2. tried'[t] = 0
    BY <2>1, HistoryGoesOn DEF HistoryGoes, Tries, Untouched, TypeInv, TypeOK
  <2>3. Durable => Counted(t)' = {}
    <3> SUFFICES ASSUME Durable, NEW v \in Counted(t)' PROVE FALSE
      OBVIOUS
    <3>1. v \in Counted(t) \/ IncrementAttempts(v)
      BY <1>0, CountedStay
    <3>2. v \in Workers /\ req[v].token # t
      BY <2>1 DEF Untouched, Counted
    <3>3. req'[v].token = t
      BY DEF Counted
    <3>4. CASE IncrementAttempts(v)
      <4>1. req'[v].token \in {req[v].token, 0}
        BY <3>2, <3>4 DEF IncrementAttempts, Done, Goto, Idle, TypeInv, TypeOK, Request
      <4> QED
        BY <1>0, <3>2, <3>3, <4>1
    <3> QED
      BY <3>1, <3>2, <3>4 DEF Counted
  <2>4. Durable => C' = 0
    BY <2>3, FS_EmptySet
  <2> QED
    BY <1>0, <1>3, <2>2, <2>4
<1> SUFFICES ASSUME Stays(rows[t], rows'[t]), Stays(memory[t], memory'[t])
             PROVE  /\ tried'[t] <= maxPendingAttempts
                    /\ rows'[t].kind = "pending" => tried'[t] <= rows'[t].attempts
                    /\ memory'[t].kind = "pending" => tried'[t] <= memory'[t].attempts
                    /\ Durable => /\ tried'[t] + C' <= maxPendingAttempts
                                  /\ rows'[t].kind = "pending" => tried'[t] + C' <= rows'[t].attempts
  BY <1>3, <1>4, StoresGoOn DEF StoresGo
<1>5. ASSUME tried'[t] = tried[t], Durable => C' <= C
      PROVE  /\ tried'[t] <= maxPendingAttempts
             /\ rows'[t].kind = "pending" => tried'[t] <= rows'[t].attempts
             /\ memory'[t].kind = "pending" => tried'[t] <= memory'[t].attempts
             /\ Durable => /\ tried'[t] + C' <= maxPendingAttempts
                           /\ rows'[t].kind = "pending" => tried'[t] + C' <= rows'[t].attempts
  BY <1>0, <1>1, <1>5 DEF Stays
<1>6. ASSUME NEW w \in Workers, IncrementAttempts(w)
      PROVE  /\ tried'[t] <= maxPendingAttempts
             /\ rows'[t].kind = "pending" => tried'[t] <= rows'[t].attempts
             /\ memory'[t].kind = "pending" => tried'[t] <= memory'[t].attempts
             /\ Durable => /\ tried'[t] + C' <= maxPendingAttempts
                           /\ rows'[t].kind = "pending" => tried'[t] + C' <= rows'[t].attempts
  <2>1. Durable /\ tried' = tried
    BY <1>6 DEF IncrementAttempts, At, TypeInv, WellFormed, history
  <2>2. \A v \in Workers \ {w} : req'[v] = req[v]
    BY <1>6 DEF IncrementAttempts, Done, Goto, TypeInv, TypeOK
  <2>3. w \in Counted(t)' => /\ req[w].token = t /\ Goto(w, "get")
    BY <1>6 DEF IncrementAttempts, Counted, Done, Goto, Idle, TypeInv, TypeOK, Request
  <2>4. CASE w \in Counted(t)'
    <3>1. req[w].token = t /\ Goto(w, "get")
      BY <2>3, <2>4
    <3>2. /\ rows[t].kind = "pending" /\ rows' = [rows EXCEPT ![t].attempts = @ + 1]
          /\ rows'[t].attempts <= maxPendingAttempts
      <4>1. req'[w].step = "get"
        BY <2>4 DEF Counted
      <4>2. ~ Done(w) /\ ~ Goto(w, "drop")
        BY <4>1 DEF Done, Goto, Idle, TypeInv, TypeOK, Request
      <4> QED
        BY <1>6, <3>1, <4>2 DEF IncrementAttempts, InBudget
    <3>3. rows'[t].attempts = rows[t].attempts + 1
      BY <3>2 DEF TypeInv, TypeOK, Token
    <3>4. Counted(t)' \subseteq Counted(t) \cup {w}
      BY <2>2 DEF Counted
    <3>5. C' <= C + 1
      BY <3>4, OneMoreCounted
    <3> QED
      BY <1>0, <1>1, <2>1, <3>2, <3>3, <3>5 DEF Stays
  <2>5. CASE w \notin Counted(t)'
    <3>1. Counted(t)' \subseteq Counted(t)
      BY <2>2, <2>5 DEF Counted
    <3> QED
      BY <1>5, <2>1, <3>1, FewerCounted
  <2> QED
    BY <2>4, <2>5
<1> SUFFICES ASSUME \A w \in Workers : ~ IncrementAttempts(w)
             PROVE  /\ tried'[t] <= maxPendingAttempts
                    /\ rows'[t].kind = "pending" => tried'[t] <= rows'[t].attempts
                    /\ memory'[t].kind = "pending" => tried'[t] <= memory'[t].attempts
                    /\ Durable => /\ tried'[t] + C' <= maxPendingAttempts
                                  /\ rows'[t].kind = "pending" => tried'[t] + C' <= rows'[t].attempts
  BY <1>6
<1>7. Durable => Counted(t)' \subseteq Counted(t)
  <2> SUFFICES ASSUME Durable, NEW v \in Counted(t)' PROVE v \in Counted(t)
    OBVIOUS
  <2>1. v \in Workers
    BY DEF Counted
  <2> QED
    BY <1>0, <2>1, CountedStay
<1>8. CASE tried'[t] = tried[t]
  BY <1>5, <1>7, <1>8, FewerCounted
<1>9. ASSUME NEW w \in Workers, Tries(w), tried'[t] # tried[t]
      PROVE  /\ tried'[t] <= maxPendingAttempts
             /\ rows'[t].kind = "pending" => tried'[t] <= rows'[t].attempts
             /\ memory'[t].kind = "pending" => tried'[t] <= memory'[t].attempts
             /\ Durable => /\ tried'[t] + C' <= maxPendingAttempts
                           /\ rows'[t].kind = "pending" => tried'[t] + C' <= rows'[t].attempts
  <2>1. req[w].token = t /\ tried'[t] = tried[t] + 1 /\ At(w, "get")
    BY <1>9 DEF Tries, GetPending, PeekMemory, TypeInv, TypeOK
  <2>2. ~ UNCHANGED tried
    BY <1>9
  <2>3. CASE GetPending(w)
    <3>1. Durable /\ Goto(w, "check") /\ rows' = rows /\ memory' = memory
      BY <2>2, <2>3 DEF GetPending, Try, tables
    <3>2. w \in Counted(t)
      BY <2>1 DEF Counted, At
    <3>3. w \notin Counted(t)'
      BY <3>1, GotoArrives DEF Counted
    <3>4. Counted(t)' \subseteq Counted(t) \ {w}
      BY <1>7, <3>1, <3>3
    <3>5. C' + 1 <= C
      BY <3>2, <3>4, OneCountedLess
    <3>6. memory[t].kind # "pending"
      BY <3>1 DEF StoreInv
    <3> QED
      BY <1>0, <1>1, <2>1, <3>1, <3>5, <3>6
  <2>4. CASE PeekMemory(w)
    <3>1. /\ ~ Durable /\ rows' = rows /\ memory[t].kind = "pending"
          /\ memory' = [memory EXCEPT ![t].attempts = @ + 1]
          /\ memory[t].attempts + 1 <= maxPendingAttempts
      BY <2>1, <2>2, <2>4 DEF PeekMemory, InBudget, tables
    <3>2. memory'[t].attempts = memory[t].attempts + 1
      BY <3>1 DEF TypeInv, TypeOK, Token
    <3>3. rows[t].kind # "pending"
      BY <3>1 DEF StoreInv
    <3> QED
      BY <1>0, <1>1, <2>1, <3>1, <3>2, <3>3
  <2> QED
    BY <1>9, <2>3, <2>4 DEF Tries
<1> QED
  BY <1>8, <1>9, HistoryGoesOn DEF HistoryGoes

LEMMA StoreInit == Init => StoreInv
  BY DEF Init, StoreInv, Gone

\* What the bound on the tries rests on.
LEMMA Foundations == Spec => [](TypeInv /\ NumbersInv /\ StoreInv)
<1>1. Init => TypeInv /\ NumbersInv /\ StoreInv
  BY TypeInit, NumbersInit, StoreInit
<1>2. TypeInv /\ NumbersInv /\ StoreInv /\ [Next]_vars => (TypeInv /\ NumbersInv /\ StoreInv)'
  BY TypeNext, NumbersNext, StoreNext
<1> QED
  BY <1>1, <1>2, PTL DEF Spec

\* maxPendingAttempts bounds how many codes are tried on one pending login: by any
\* number of requests at once, whichever fail, and however often the process
\* restarts, with this master key or another or none.
THEOREM BoundedTries == Spec => []TriesAreBounded
<1>1. TriesInv => TriesAreBounded
  BY DEF TriesInv, TriesAreBounded
<1>2. Init => TriesInv
  BY TriesInit
<1>3. TypeInv /\ NumbersInv /\ StoreInv /\ TriesInv /\ [Next]_vars => TriesInv'
  BY TriesNext
<1> QED
  BY <1>1, <1>2, <1>3, Foundations, PTL DEF Spec

-----------------------------------------------------------------------------
(* Logging out.                                                            *)

\* No session that a logout deleted is in either store; and without a table a
\* logout is of a session that is not in the table either.
OutInv ==
  /\ \A t \in out : rows[t].kind # "session" /\ memory[t].kind # "session"
  /\ \A w \in Workers : At(w, "logout") /\ ~ Durable => rows[req[w].token].kind # "session"

\* What has a number of its own is not made.
LEMMA NamedStays ==
  ASSUME TypeInv, NumbersInv, [Next]_vars, NEW t \in Numbers, ~ Untouched(t)
  PROVE  Stays(rows[t], rows'[t]) /\ Stays(memory[t], memory'[t])
<1>1. ~ Made(t)
  BY DEF Made, NumbersInv, Unborn
<1> QED
  BY <1>1, StoresGoOn DEF StoresGo

LEMMA OutNext == TypeInv /\ NumbersInv /\ StoreInv /\ OutInv /\ [Next]_vars => OutInv'
<1> SUFFICES ASSUME TypeInv, NumbersInv, StoreInv, OutInv, [Next]_vars PROVE OutInv'
  OBVIOUS
<1>1. ASSUME NEW t \in out' PROVE rows'[t].kind # "session" /\ memory'[t].kind # "session"
  <2>1. CASE t \in out
    <3>1. t \in Numbers /\ ~ Untouched(t)
      BY <2>1 DEF Untouched, TypeInv, TypeOK
    <3> QED
      BY <2>1, <3>1, NamedStays DEF OutInv, Stays
  <2>2. CASE t \notin out
    <3>1. PICK w \in Workers : At(w, "logout") /\ Delete(t) /\ t = req[w].token
      BY <1>1, <2>2, HistoryGoesOn DEF HistoryGoes, LogsOut
    <3>2. t \in Numbers
      BY <3>1 DEF At, TypeInv, TypeOK, Request, WellFormed
    <3>3. CASE Durable
      BY <3>1, <3>2, <3>3 DEF Delete, Gone, StoreInv, TypeInv, TypeOK
    <3>4. CASE ~ Durable
      BY <3>1, <3>2, <3>4 DEF Delete, Gone, OutInv, TypeInv, TypeOK
    <3> QED
      BY <3>3, <3>4
  <2> QED
    BY <2>1, <2>2
<1>2. ASSUME NEW w \in Workers, At(w, "logout")', ~ Durable'
      PROVE  rows'[req'[w].token].kind # "session"
  <2>1. ~ Restart
    BY <1>2 DEF Restart, Idle, At
  <2>2. ~ Durable
    BY <1>2, <2>1, KeyOrRestart DEF Durable
  <2>3. CASE At(w, "logout")
    <3> DEFINE t == req[w].token
    <3>1. t \in Numbers /\ ~ Untouched(t) /\ rows[t].kind # "session"
      BY <2>2, <2>3 DEF At, TypeInv, TypeOK, Request, WellFormed, Untouched, OutInv
    <3>2. req'[w].token = t
      BY <1>2, <2>3, RequestsGoOn DEF RequestsGo, Continues, Begins, Ends, Idle, At
    <3> QED
      BY <3>1, <3>2, NamedStays DEF Stays
  <2>4. CASE ~ At(w, "logout")
    <3>1. PICK t \in Numbers : Logout(w, t)
      BY <1>2, <2>4, RequestsArrive DEF Arrives, At
    <3>2. req'[w].token = t /\ rows' = rows
      BY <3>1 DEF Logout, Start, Idle, tables, TypeInv, TypeOK
    <3>3. memory[t].kind = "session"
      BY <2>2, <3>1 DEF Logout, Served
    <3> QED
      BY <3>2, <3>3 DEF StoreInv
  <2> QED
    BY <2>3, <2>4
<1> QED
  BY <1>1, <1>2 DEF OutInv

-----------------------------------------------------------------------------
(* Passwords alone.                                                        *)

\* Who may not have been asked for a code: the second factor was off.
OffInv ==
  /\ \A w \in Workers :
       req[w].step = "admit" \/ (req[w].step = "account" /\ ~ account.enabled) => req[w].off
  /\ \A s \in minted : s.pending = 0 => s.off

\* A second factor is turned off for the logins under way too.
LEMMA AccountGoes ==
  ASSUME TypeInv, [Next]_vars, account.enabled, ~ account'.enabled
  PROVE  \A v \in Workers : req'[v].step = "account" => req'[v].off
<1>0. ~ UNCHANGED account
  OBVIOUS
<1>1. PICK w \in Workers : TOTPEnroll(w) \/ Enable(w) \/ TurnOff(w)
  <2>1. ASSUME NEW w \in Workers,
               \/ WebmailLogin(w) \/ CheckAccount(w) \/ Pend(w) \/ Admit(w)
               \/ \E t \in PendingTokens, c \in CodesOfTheUser : TOTPVerify(w, t, c)
               \/ IncrementAttempts(w) \/ DropPending(w) \/ GetPending(w) \/ PeekMemory(w)
               \/ CheckCode(w) \/ ConsumeRecoveryCode(w) \/ FinishPending(w) \/ Mint(w)
        PROVE  FALSE
    BY <1>0, <2>1, Zenon DEF WebmailLogin, CheckAccount, Pend, Admit, TOTPVerify, IncrementAttempts,
              DropPending, GetPending, PeekMemory, CheckCode, ConsumeRecoveryCode, FinishPending, Mint,
              tables
  <2>2. ASSUME NEW w \in Workers,
               \/ \E t \in Numbers : Logout(w, t)
               \/ EndSession(w) \/ TOTPConfirm(w) \/ TOTPDisable(w)
               \/ TOTPRecoveryRegenerate(w) \/ DeleteCodes(w) \/ InsertCode(w)
               \/ StatementFails(w)
        PROVE  FALSE
    BY <1>0, <2>2, Zenon DEF Logout, EndSession, TOTPConfirm, TOTPDisable,
              TOTPRecoveryRegenerate, DeleteCodes, InsertCode, StatementFails, tables
  <2>3. ASSUME GC \/ Restart \/ (\E t \in Numbers : Expire(t)) \/ UNCHANGED vars
        PROVE  FALSE
    BY <1>0, <2>3, Zenon DEF GC, Expire, Restart, vars, tables
  <2> QED
    BY <2>1, <2>2, <2>3 DEF Next
<1>2. \A q : q \in [Workers -> Request] =>
        \A v \in Workers : Off(q)[v].step = "account" => Off(q)[v].off
  <2> SUFFICES ASSUME NEW q \in [Workers -> Request], NEW v \in Workers,
                      Off(q)[v].step = "account"
               PROVE  Off(q)[v].off
    OBVIOUS
  <2> QED
    BY DEF Off, Request
<1>3. CASE TOTPEnroll(w)
  BY <1>2, <1>3 DEF TOTPEnroll, TypeInv, TypeOK
<1>4. CASE TurnOff(w)
  <2> DEFINE q == [req EXCEPT ![w].step = "delete_codes"]
  <2>1. req' = Off(q)
    BY <1>4 DEF TurnOff
  <2>2. q \in [Workers -> Request]
    BY DEF TypeInv, TypeOK, Request, Steps
  <2> QED
    BY <1>2, <2>1, <2>2
<1>5. CASE Enable(w)
  BY <1>5 DEF Enable
<1> QED
  BY <1>1, <1>3, <1>4, <1>5

LEMMA OffNext == TypeInv /\ OffInv /\ [Next]_vars => OffInv'
<1> SUFFICES ASSUME TypeInv, OffInv, [Next]_vars PROVE OffInv'
  OBVIOUS
<1>1. ASSUME NEW v \in Workers,
             req'[v].step = "admit" \/ (req'[v].step = "account" /\ ~ account'.enabled)
      PROVE  req'[v].off
  <2>1. ~ Ends(v)
    BY <1>1 DEF Ends, Idle
  <2>2. CASE req'[v].step = req[v].step
    <3>1. Continues(v)
      BY <1>1, <2>1, <2>2, RequestsGoOn DEF RequestsGo, Begins, At
    <3>2. CASE req[v].off
      BY <3>1, <3>2 DEF Continues
    <3>3. CASE ~ req[v].off
      BY <1>1, <2>2, <3>3, AccountGoes DEF OffInv
    <3> QED
      BY <3>2, <3>3
  <2>3. CASE req'[v].step = "account" /\ WebmailLogin(v)
    <3> DEFINE r == [Idle EXCEPT !.step = "account", !.off = ~ account.enabled]
    <3>1. req' = [req EXCEPT ![v] = [r EXCEPT !.id = requests']] /\ account' = account
      BY <2>3 DEF WebmailLogin, Start, tables
    <3>2. req'[v] = [r EXCEPT !.id = requests']
      BY <3>1 DEF TypeInv, TypeOK
    <3> QED
      BY <1>1, <2>3, <3>1, <3>2 DEF Idle
  <2>4. CASE req'[v].step = "admit" /\ CheckAccount(v)
    <3>1. CASE Goto(v, IF NeedsSecondFactor THEN "pend" ELSE "admit")
      <4>1. ~ account.enabled /\ req'[v].off = req[v].off
        BY <2>4, <3>1 DEF Goto, NeedsSecondFactor, TypeInv, TypeOK, Request
      <4> QED
        BY <2>4, <4>1 DEF CheckAccount, At, OffInv
    <3>2. CASE req' = [req EXCEPT ![v].step = "admit", ![v].off = TRUE]
      BY <3>2 DEF TypeInv, TypeOK, Request
    <3> QED
      BY <2>4, <3>1, <3>2 DEF CheckAccount
  <2> QED
    BY <1>1, <2>2, <2>3, <2>4, RequestsArrive DEF Arrives
<1>2. ASSUME NEW s \in minted', s.pending = 0
      PROVE  s.off
  <2>1. ASSUME NEW w \in Workers, Mints(w), s = Entry(w)
        PROVE  s.off
    <3>1. ~ At(w, "mint")
      BY <1>2, <2>1 DEF Entry, At, TypeInv, WellFormed, VerifySteps
    <3>2. req[w].step = "admit" /\ s.off = req[w].off
      BY <2>1, <3>1 DEF Mints, Entry, At
    <3> QED
      BY <3>2 DEF OffInv
  <2> QED
    BY <1>2, <2>1, HistoryGoesOn DEF HistoryGoes, OffInv, Mints
<1> QED
  BY <1>1, <1>2 DEF OffInv

-----------------------------------------------------------------------------
(* A pending token is spent.                                               *)

\* No code can be tried on t from now on, but by who is at it already.
Dead(t) == rows[t].kind # "pending" /\ memory[t].kind # "pending"

\* A verify that has been alone with its token is so still; when it comes to mint,
\* or has minted, the token is dead.
AloneInv ==
  /\ \A w \in Workers :
       req[w].step \in VerifySteps /\ req[w].alone => Verifying(req[w].token) = {w}
  /\ \A w \in Workers : req[w].step = "mint" /\ req[w].alone => Dead(req[w].token)
  /\ \A s \in minted :
       s.pending # 0 /\ s.alone => Dead(s.pending) /\ Verifying(s.pending) = {}
  /\ \A s, u \in minted :
       s # u /\ s.pending # 0 /\ s.alone /\ u.alone => s.pending # u.pending

\* A token that somebody has the name of is not made again.
LEMMA DeadStay ==
  ASSUME TypeInv, NumbersInv, [Next]_vars, NEW t \in Numbers, ~ Unborn(t), Dead(t)
  PROVE  Dead(t)'
<1>1. ~ Made(t)
  BY DEF Made, Unborn
<1>2. Stays(rows[t], rows'[t]) /\ Stays(memory[t], memory'[t])
  BY <1>1, StoresGoOn DEF StoresGo
<1> QED
  BY <1>2 DEF Stays, Dead

\* A verify is under way since it was begun, with the same token.
LEMMA VerifiersStay ==
  ASSUME TypeInv, [Next]_vars, NEW t \in Numbers, NEW v \in Verifying(t)'
  PROVE  \/ v \in Verifying(t) /\ Continues(v)
         \/ t \in PendingTokens /\ \E c \in CodesOfTheUser : TOTPVerify(v, t, c)
<1>1. v \in Workers /\ req'[v].step \in VerifySteps /\ req'[v].token = t
  BY DEF Verifying
<1>2. ASSUME NEW u \in PendingTokens, NEW c \in CodesOfTheUser, TOTPVerify(v, u, c)
      PROVE  u = t
  BY <1>1, <1>2 DEF TOTPVerify, Idle
<1>3. CASE req[v].step \in VerifySteps
  <2>1. Continues(v)
    BY <1>1, <1>3, RequestsGoOn DEF RequestsGo, Begins, Ends, Idle, At, VerifySteps
  <2> QED
    BY <1>1, <1>3, <2>1 DEF Continues, Verifying
<1>4. CASE req[v].step \notin VerifySteps
  <2>1. \E u \in PendingTokens, c \in CodesOfTheUser : TOTPVerify(v, u, c)
    <3>1. Arrives(v)
      BY <1>1, RequestsArrive
    <3>2. ~ IncrementAttempts(v) /\ ~ GetPending(v) /\ ~ PeekMemory(v) /\ ~ CheckCode(v)
          /\ ~ ConsumeRecoveryCode(v) /\ ~ FinishPending(v)
      BY <1>4 DEF IncrementAttempts, GetPending, PeekMemory, CheckCode, ConsumeRecoveryCode,
                  FinishPending, At, VerifySteps
    <3> QED
      BY <1>1, <1>4, <3>1, <3>2 DEF Arrives, VerifySteps
  <2> QED
    BY <1>2, <2>1
<1> QED
  BY <1>3, <1>4

\* What a verify that begins does to the others.
LEMMA VerifyBegins ==
  ASSUME TypeInv, NEW w \in Workers, NEW t \in Numbers, NEW c, TOTPVerify(w, t, c)
  PROVE  /\ req'[w].alone <=> Verifying(t) = {}
         /\ w \notin Verifying(t)
         /\ \A v \in Verifying(t) : ~ req'[v].alone
         /\ \A v \in Workers \ {w} : req'[v].step = req[v].step /\ req'[v].token = req[v].token
<1>1. req'[w].alone <=> Verifying(t) = {}
  BY DEF TOTPVerify, Idle
<1>2. w \notin Verifying(t)
  BY DEF TOTPVerify, At, Verifying, VerifySteps
<1>3. \A v \in Workers \ {w} :
        req'[v] = IF v \in Verifying(t) THEN [req[v] EXCEPT !.alone = FALSE] ELSE req[v]
  BY DEF TOTPVerify
<1>4. \A v \in Verifying(t) : v \in Workers
  BY DEF Verifying
<1>5. \A v \in Workers : req[v] \in Request
  BY DEF TypeInv, TypeOK
<1>6. \A v \in Verifying(t) : ~ req'[v].alone
  BY <1>2, <1>3, <1>4, <1>5 DEF Request
<1>7. \A v \in Workers \ {w} : req'[v].step = req[v].step /\ req'[v].token = req[v].token
  BY <1>3, <1>5 DEF Request
<1> QED
  BY <1>1, <1>2, <1>6, <1>7

LEMMA AloneNext == TypeInv /\ NumbersInv /\ StoreInv /\ AloneInv /\ [Next]_vars => AloneInv'
<1> SUFFICES ASSUME TypeInv, NumbersInv, StoreInv, AloneInv, [Next]_vars PROVE AloneInv'
  OBVIOUS
<1>0. PendingTokens \subseteq Numbers /\ \A t \in PendingTokens : ~ Dead(t)
  BY DEF PendingTokens, Dead
<1>1. ASSUME NEW w \in Workers, req'[w].step \in VerifySteps, req'[w].alone,
             NEW t \in Numbers, req'[w].token = t
      PROVE  Verifying(t)' = {w}
  <2>1. w \in Verifying(t)'
    BY <1>1 DEF Verifying
  <2>2. ASSUME NEW u \in Workers, NEW c \in CodesOfTheUser, TOTPVerify(u, t, c)
        PROVE  Verifying(t)' \subseteq {w}
    <3>1. w = u
      <4>1. CASE w \in Verifying(t)
        BY <1>1, <2>2, <4>1, VerifyBegins
      <4>2. CASE w \notin Verifying(t)
        BY <1>1, <2>2, <4>2, VerifyBegins DEF Verifying
      <4> QED
        BY <4>1, <4>2
    <3>2. Verifying(t) = {}
      BY <1>1, <2>2, <3>1, VerifyBegins
    <3>3. \A v \in Workers \ {w} : req'[v].step = req[v].step /\ req'[v].token = req[v].token
      BY <2>2, <3>1, VerifyBegins
    <3>4. SUFFICES ASSUME NEW v \in Workers \ {w}, req'[v].step \in VerifySteps, req'[v].token = t
                   PROVE  FALSE
      BY DEF Verifying
    <3>5. v \in Verifying(t)
      BY <3>3, <3>4 DEF Verifying
    <3> QED
      BY <3>2, <3>5
  <2>3. CASE ~ \E u \in Workers, c \in CodesOfTheUser : TOTPVerify(u, t, c)
    <3>1. \A v \in Verifying(t)' : v \in Verifying(t) /\ Continues(v)
      <4> SUFFICES ASSUME NEW v \in Verifying(t)' PROVE v \in Verifying(t) /\ Continues(v)
        OBVIOUS
      <4>1. v \in Workers
        BY DEF Verifying
      <4> QED
        BY <2>3, <4>1, VerifiersStay
    <3>2. w \in Verifying(t) /\ req[w].alone
      BY <1>1, <2>1, <3>1 DEF Continues
    <3>3. Verifying(t) = {w}
      BY <3>2 DEF AloneInv, Verifying
    <3> QED
      BY <2>1, <3>1, <3>3
  <2> QED
    BY <2>1, <2>2, <2>3
<1>2. ASSUME NEW w \in Workers, req'[w].step = "mint", req'[w].alone,
             NEW t \in Numbers, req'[w].token = t
      PROVE  Dead(t)'
  <2>1. req[w].step \in {"finish", "mint"}
        /\ (req[w].step = "finish" => FinishPending(w))
    BY <1>2, RequestsArrive DEF Arrives, FinishPending, At
  <2>2. Continues(w)
    BY <1>2, <2>1, RequestsGoOn DEF RequestsGo, Begins, Ends, Idle, At
  <2>3. req[w].token = t /\ req[w].alone
    BY <1>2, <2>2 DEF Continues
  <2>4. ~ Unborn(t)
    BY <2>3 DEF NumbersInv, Untouched
  <2>5. CASE req[w].step = "mint"
    <3>1. Dead(t)
      BY <2>3, <2>5 DEF AloneInv
    <3> QED
      BY <2>4, <3>1, DeadStay
  <2>6. CASE FinishPending(w)
    <3>1. ~ (req' = [req EXCEPT ![w].step = "mint", ![w].alone = FALSE])
      BY <1>2 DEF TypeInv, TypeOK, Request
    <3>2. Delete(t)
      BY <2>3, <2>6, <3>1 DEF FinishPending
    <3>3. Durable
      BY <2>6 DEF FinishPending, At, TypeInv, WellFormed
    <3>4. rows'[t].kind = "gone" /\ memory'[t].kind = "gone"
      BY <3>2, <3>3 DEF Delete, Gone, StoreInv, TypeInv, TypeOK
    <3> QED
      BY <3>4 DEF Dead
  <2> QED
    BY <2>1, <2>5, <2>6
\* What is dead stays so, and no verify of it begins.
<1>3. ASSUME NEW t \in Numbers, ~ Unborn(t), Dead(t)
      PROVE  Dead(t)' /\ \A v \in Verifying(t)' : v \in Verifying(t) /\ Continues(v)
  BY <1>0, <1>3, DeadStay, VerifiersStay
<1>4. ASSUME NEW s \in minted, s.pending # 0, s.alone, NEW t, t = s.pending
      PROVE  Dead(t)' /\ Verifying(t)' = {}
  <2>1. t \in Numbers
    BY <1>4 DEF TypeInv, TypeOK
  <2>2. ~ Unborn(t)
    BY <1>4, <2>1 DEF NumbersInv, Untouched
  <2>3. Dead(t) /\ Verifying(t) = {}
    BY <1>4 DEF AloneInv
  <2> QED
    BY <1>3, <2>1, <2>2, <2>3
<1>5. ASSUME NEW w \in Workers, Mints(w), NEW e, e = Entry(w), e.pending # 0, e.alone,
             NEW t, t = e.pending
      PROVE  /\ Dead(t)' /\ Verifying(t)' = {}
             /\ \A s \in minted : s.alone => s.pending # t
  <2>1. At(w, "mint") /\ req[w].token = t /\ req[w].alone
    BY <1>5 DEF Entry
  <2>2. t \in Numbers
    BY <1>5, <2>1 DEF TypeInv, TypeOK, Request
  <2>3. ~ Unborn(t)
    BY <2>1, <2>2 DEF NumbersInv, Untouched
  <2>4. Dead(t) /\ Verifying(t) = {w}
    BY <2>1 DEF AloneInv, At, VerifySteps
  <2>5. w \notin Verifying(t)'
    BY <1>5 DEF Mints, Done, Verifying, VerifySteps, Idle, TypeInv, TypeOK
  <2>6. Dead(t)' /\ Verifying(t)' = {}
    BY <1>3, <2>2, <2>3, <2>4, <2>5
  <2>7. \A s \in minted : s.alone => s.pending # t
    <3> SUFFICES ASSUME NEW s \in minted, s.alone, s.pending = t PROVE FALSE
      OBVIOUS
    <3>1. Verifying(t) = {}
      BY <1>5 DEF AloneInv
    <3> QED
      BY <2>4, <3>1
  <2> QED
    BY <2>6, <2>7
<1>6. ASSUME NEW s \in minted', s.pending # 0, s.alone, NEW t, t = s.pending
      PROVE  Dead(t)' /\ Verifying(t)' = {}
  <2>1. s \in minted \/ \E w \in Workers : Mints(w) /\ s = Entry(w)
    BY <1>6, HistoryGoesOn DEF HistoryGoes, Mints
  <2> QED
    BY <1>4, <1>5, <1>6, <2>1
<1>7. \A s, u \in minted' : s # u /\ s.pending # 0 /\ s.alone /\ u.alone => s.pending # u.pending
  <2>1. \A s, u \in minted : s # u /\ s.pending # 0 /\ s.alone /\ u.alone => s.pending # u.pending
    BY DEF AloneInv
  <2>2. ASSUME NEW w \in Workers, Mints(w), NEW e, e = Entry(w)
        PROVE  \A s, u \in minted' : s # u /\ s.pending # 0 /\ s.alone /\ u.alone
                                       => s.pending # u.pending
    <3>1. \A s \in minted : e.pending # 0 /\ e.alone /\ s.alone => s.pending # e.pending
      BY <1>5, <2>2
    <3>2. minted' = minted \cup {e}
      BY <2>2 DEF Mints
    <3> QED
      BY <2>1, <3>1, <3>2
  <2> QED
    BY <2>1, <2>2, HistoryGoesOn DEF HistoryGoes
<1>8. \A w \in Workers : req'[w].step \in VerifySteps => req'[w].token \in Numbers
  BY TypeNext DEF TypeInv, TypeOK, Request, WellFormed
<1>9. (\A w \in Workers : req[w].step \in VerifySteps /\ req[w].alone
                            => Verifying(req[w].token) = {w})'
  <2> SUFFICES ASSUME NEW w \in Workers, req'[w].step \in VerifySteps, req'[w].alone
               PROVE  (Verifying(req[w].token) = {w})'
    OBVIOUS
  <2>1. PICK t \in Numbers : req'[w].token = t
    BY <1>8
  <2>2. Verifying(t)' = {w}
    BY <1>1, <2>1
  <2> QED
    BY <2>1, <2>2 DEF Verifying
<1>10. (\A w \in Workers : req[w].step = "mint" /\ req[w].alone => Dead(req[w].token))'
  <2> SUFFICES ASSUME NEW w \in Workers, req'[w].step = "mint", req'[w].alone
               PROVE  Dead(req[w].token)'
    OBVIOUS
  <2>1. PICK t \in Numbers : req'[w].token = t
    BY <1>8 DEF VerifySteps
  <2>2. Dead(t)'
    BY <1>2, <2>1
  <2> QED
    BY <2>1, <2>2 DEF Dead
<1>11. (\A s \in minted :
          s.pending # 0 /\ s.alone => Dead(s.pending) /\ Verifying(s.pending) = {})'
  BY <1>6
<1> QED
  BY <1>7, <1>9, <1>10, <1>11 DEF AloneInv

-----------------------------------------------------------------------------
(* A recovery code buys one session.                                       *)

\* A request whose code was right and that has not made its session yet.
Holds(w) == req[w].step \in {"finish", "mint"}

\* Code n of the set was taken for a session, made or about to be.
Bought(set, n) ==
  \/ \E s \in minted : s.code.set = set /\ s.code.n = n
  \/ \E w \in Workers : Holds(w) /\ req[w].code.set = set /\ req[w].code.n = n

\* The codes of a set are numbered in the order they are inserted, by one request.
CodesAreInserted ==
  /\ \A c \in codes : c.set <= requests
  /\ \A w \in Workers : req[w].code.set <= requests
  /\ \A s \in minted : s.code.set <= requests /\ (s.code.set # 0 => s.code.secret = 0)
  /\ \A v \in Workers, c \in codes : req[v].id = c.set => c.n <= req[v].n
  /\ \A v, w \in Workers :
       req[w].code.set # 0 /\ req[w].code.set = req[v].id => req[w].code.n <= req[v].n
  /\ \A v \in Workers, s \in minted :
       s.code.set # 0 /\ s.code.set = req[v].id => s.code.n <= req[v].n

CodesAreTakenOnce ==
  /\ \A c \in codes : ~ c.used => ~ Bought(c.set, c.n)
  /\ \A w \in Workers, s \in minted : Holds(w) /\ req[w].code.set # 0 => s.code # req[w].code
  /\ \A v, w \in Workers :
       Holds(v) /\ Holds(w) /\ req[w].code.set # 0 /\ req[v].code = req[w].code => v = w
  /\ \A s, u \in minted : s # u /\ s.code.set # 0 => s.code # u.code

CodesInv == CodesAreInserted /\ CodesAreTakenOnce

LEMMA CodesInit == Init => CodesInv
<1> SUFFICES ASSUME Init PROVE CodesInv
  OBVIOUS
<1>1. /\ minted = {} /\ requests = 1
      /\ \A w \in Workers : req[w] = Idle
      /\ \A c \in codes : c.set = 1
  BY DEF Init, OldSet
<1>2. \A w \in Workers : ~ Holds(w) /\ req[w].code.set = 0 /\ req[w].id = 0
  BY <1>1 DEF Holds, Idle, WrongCode
<1> QED
  BY <1>1, <1>2 DEF CodesInv, CodesAreInserted, CodesAreTakenOnce, Bought

\* The codes change by a statement of a request.
CodesGo ==
  \/ codes' = codes \/ codes' = {}
  \/ \E w \in Workers : ConsumeRecoveryCode(w)
  \/ \E w \in Workers : InsertCode(w)

LEMMA CodesGoOn ==
  ASSUME [Next]_vars
  PROVE  CodesGo
<1>1. ASSUME NEW w \in Workers,
             \/ WebmailLogin(w) \/ CheckAccount(w) \/ Pend(w) \/ Admit(w)
             \/ \E t \in PendingTokens, c \in CodesOfTheUser : TOTPVerify(w, t, c)
             \/ IncrementAttempts(w) \/ DropPending(w) \/ GetPending(w) \/ PeekMemory(w)
             \/ CheckCode(w) \/ FinishPending(w) \/ Mint(w)
      PROVE  codes' = codes
  BY <1>1, Zenon DEF WebmailLogin, CheckAccount, Pend, Admit, TOTPVerify, IncrementAttempts,
              DropPending, GetPending, PeekMemory, CheckCode, FinishPending, Mint, tables
<1>2. ASSUME NEW w \in Workers,
             \/ \E t \in Numbers : Logout(w, t)
             \/ EndSession(w) \/ TOTPEnroll(w) \/ TOTPConfirm(w) \/ Enable(w) \/ TOTPDisable(w)
             \/ TurnOff(w) \/ TOTPRecoveryRegenerate(w) \/ StatementFails(w)
      PROVE  codes' = codes
  BY <1>2, Zenon DEF Logout, EndSession, TOTPEnroll, TOTPConfirm, Enable, TOTPDisable, TurnOff,
              TOTPRecoveryRegenerate, StatementFails, tables
<1>3. ASSUME GC \/ Restart \/ (\E t \in Numbers : Expire(t)) \/ UNCHANGED vars
      PROVE  codes' = codes
  BY <1>3, Zenon DEF GC, Expire, Restart, vars, tables
<1>4. ASSUME NEW w \in Workers, DeleteCodes(w) PROVE codes' = {}
  BY <1>4 DEF DeleteCodes
<1> QED
  BY <1>1, <1>2, <1>3, <1>4 DEF Next, CodesGo

\* What InsertCode does, in numbers.
LEMMA InsertGoes ==
  ASSUME TypeInv, NEW w \in Workers, InsertCode(w)
  PROVE  /\ codes' = codes \cup {[set |-> req[w].id, n |-> req[w].n + 1, used |-> FALSE]}
         /\ minted' = minted /\ requests' = requests
         /\ \A v \in Workers \ {w} : req'[v] = req[v]
         /\ Ends(w) \/ (Continues(w) /\ req'[w].n = req[w].n + 1)
         /\ req'[w].step \in {"idle", "insert_code"}
<1>1. codes' = codes \cup {[set |-> req[w].id, n |-> req[w].n + 1, used |-> FALSE]}
      /\ minted' = minted /\ requests' = requests
  BY DEF InsertCode, history
<1>2. Done(w) \/ req' = [req EXCEPT ![w].n = req[w].n + 1]
  BY DEF InsertCode
<1>3. req[w] \in Request /\ req[w].step = "insert_code" /\ req[w].n \in Nat
  BY WebmailSessionAssumption DEF TypeInv, TypeOK, InsertCode, At, Request
<1>4. CASE Done(w)
  BY <1>1, <1>4 DEF Done, Ends, Idle, TypeInv, TypeOK
<1>5. CASE req' = [req EXCEPT ![w].n = req[w].n + 1]
  BY <1>1, <1>3, <1>5 DEF Continues, TypeInv, TypeOK, Request
<1> QED
  BY <1>2, <1>4, <1>5

\* A code that is there was there, or is inserted by the request that makes its set.
LEMMA CodesWereThere ==
  ASSUME TypeInv, [Next]_vars, NEW c \in codes'
  PROVE  \/ \E d \in codes : d.set = c.set /\ d.n = c.n
         \/ \E w \in Workers : InsertCode(w) /\ c.set = req[w].id /\ c.n = req[w].n + 1
<1>1. ASSUME NEW w \in Workers, ConsumeRecoveryCode(w)
      PROVE  \E d \in codes : d.set = c.set /\ d.n = c.n
  <2>1. c \in codes \/ \E d \in codes : c = [d EXCEPT !.used = TRUE]
    BY <1>1 DEF ConsumeRecoveryCode
  <2>2. \A d \in codes : [d EXCEPT !.used = TRUE].set = d.set /\ [d EXCEPT !.used = TRUE].n = d.n
    BY DEF TypeInv, TypeOK
  <2> QED
    BY <2>1, <2>2
<1>2. ASSUME NEW w \in Workers, InsertCode(w), c \notin codes
      PROVE  c.set = req[w].id /\ c.n = req[w].n + 1
  BY <1>2, InsertGoes
<1> QED
  BY <1>1, <1>2, CodesGoOn DEF CodesGo

\* What is compared are numbers.
Numbered ==
  /\ requests \in Nat
  /\ \A w \in Workers : /\ req[w].id \in Nat /\ req[w].n \in Nat
                        /\ req[w].code.set \in Nat /\ req[w].code.n \in Nat
  /\ \A c \in codes : c.set \in Nat /\ c.n \in Nat /\ c.set # 0
  /\ \A s \in minted : s.code.set \in Nat /\ s.code.n \in Nat

LEMMA CodesAreNumbers == TypeInv => Numbered
<1> SUFFICES ASSUME TypeInv PROVE Numbered
  OBVIOUS
<1>1. \A c \in Codes : c.set \in Nat /\ c.n \in Nat
  BY WebmailSessionAssumption DEF Codes, Numbers
<1>2. \A w \in Workers : req[w].code \in Codes
  BY DEF TypeInv, TypeOK, Request
<1>3. \A s \in minted : s.code \in Codes
  BY DEF TypeInv, TypeOK
<1>4. \A w \in Workers : req[w].id \in Nat /\ req[w].n \in Nat
  BY WebmailSessionAssumption DEF TypeInv, TypeOK, Request, Numbers
<1>5. requests \in Nat /\ \A c \in codes : c.set \in Nat /\ c.n \in Nat /\ c.set # 0
  BY WebmailSessionAssumption DEF TypeInv, TypeOK, Numbers
<1> QED
  BY <1>1, <1>2, <1>3, <1>4, <1>5 DEF Numbered

\* The session that is made has the code of the request.
LEMMA MintedCodes ==
  ASSUME TypeInv, [Next]_vars, NEW s \in minted', s.code.set # 0
  PROVE  s \in minted \/ \E w \in Workers : At(w, "mint") /\ Ends(w) /\ s = Entry(w)
                                            /\ s.code = req[w].code
                                            /\ minted' = minted \cup {s}
<1>1. ASSUME NEW w \in Workers, Mints(w), s \notin minted
      PROVE  At(w, "mint") /\ Ends(w) /\ s = Entry(w) /\ s.code = req[w].code
             /\ minted' = minted \cup {s}
  <2>1. s = Entry(w) /\ minted' = minted \cup {s}
    BY <1>1 DEF Mints
  <2>2. At(w, "mint")
    BY <2>1 DEF Entry, WrongCode
  <2>3. s.code = req[w].code
    BY <2>1, <2>2 DEF Entry
  <2> QED
    BY <1>1, <2>1, <2>2, <2>3 DEF Mints, Done, Ends, TypeInv, TypeOK
<1> QED
  BY <1>1, HistoryGoesOn DEF HistoryGoes

LEMMA InsertedNext == TypeInv /\ NumbersInv /\ CodesAreInserted /\ [Next]_vars => CodesAreInserted'
<1> SUFFICES ASSUME TypeInv, NumbersInv, CodesAreInserted, [Next]_vars PROVE CodesAreInserted'
  OBVIOUS
<1>0. Numbered /\ Numbered'
  BY TypeNext, CodesAreNumbers, PTL
<1>1. RequestsGo
  BY RequestsGoOn
<1>2. requests' \in Nat /\ requests \in Nat /\ requests' >= requests
  BY <1>0, <1>1 DEF Numbered, RequestsGo
<1>3. \A v \in Workers : Continues(v) \/ Ends(v) \/ (Begins(v) /\ requests' = requests + 1)
  BY <1>1 DEF RequestsGo
<1>4. \A c \in codes : c.set <= requests /\ c.set \in Nat /\ c.n \in Nat /\ c.set # 0
  BY <1>0 DEF Numbered, CodesAreInserted
<1>5. \A v \in Workers : /\ req[v].id \in Nat /\ req[v].n \in Nat /\ req[v].id <= requests
                         /\ req[v].code.set \in Nat /\ req[v].code.n \in Nat
                         /\ req[v].code.set <= requests
  BY <1>0 DEF Numbered, CodesAreInserted, NumbersInv
<1>6. \A v \in Workers : req'[v].n \in Nat /\ req'[v].id \in Nat /\ req'[v].code.set \in Nat
  BY <1>0 DEF Numbered
<1>7. \A w \in Workers : Ends(w) => req'[w].id = 0 /\ req'[w].code.set = 0
  BY DEF Ends, Idle, WrongCode
<1>8. \A w \in Workers : req'[w].code.set <= requests
  BY <1>2, <1>3, <1>4, <1>5, <1>7 DEF Continues, Begins
<1>9. \A s \in minted' : s.code.set \in Nat /\ s.code.n \in Nat
  BY <1>0 DEF Numbered
\* The number of a request that begins is the name of no set yet.
<1>10. ASSUME NEW v \in Workers, NEW set \in Nat, set # 0, set <= requests, req'[v].id = set
       PROVE  Continues(v) /\ req[v].id = set /\ req[v].n <= req'[v].n
  BY <1>2, <1>3, <1>5, <1>6, <1>7, <1>10 DEF Continues, Begins
<1>11. \A c \in codes' : c.set <= requests
  BY <1>4, <1>5, CodesWereThere
<1>12. ASSUME NEW v \in Workers, NEW c \in codes', req'[v].id = c.set
       PROVE  c.n <= req'[v].n
  <2>1. c.set \in Nat /\ c.n \in Nat /\ c.set # 0
    BY <1>0 DEF Numbered
  <2>2. Continues(v) /\ req[v].id = c.set /\ req[v].n <= req'[v].n
    BY <1>10, <1>11, <1>12, <2>1
  <2>3. ASSUME NEW d \in codes, d.set = c.set, d.n = c.n
        PROVE  c.n <= req'[v].n
    BY <1>4, <1>5, <1>6, <2>2, <2>3 DEF CodesAreInserted
  <2>4. ASSUME NEW w \in Workers, InsertCode(w), c.set = req[w].id, c.n = req[w].n + 1
        PROVE  c.n <= req'[v].n
    <3>1. v = w
      BY <2>1, <2>2, <2>4 DEF NumbersInv
    <3>2. ~ Ends(v)
      BY <1>7, <1>12, <2>1
    <3> QED
      BY <1>6, <2>1, <2>4, <3>1, <3>2, InsertGoes
  <2> QED
    BY <2>3, <2>4, CodesWereThere
<1>13. ASSUME NEW v \in Workers, NEW w \in Workers, req'[w].code.set # 0,
              req'[w].code.set = req'[v].id
       PROVE  req'[w].code.n <= req'[v].n
  <2>1. Continues(v) /\ req[v].id = req'[w].code.set /\ req[v].n <= req'[v].n
    BY <1>6, <1>8, <1>10, <1>13
  <2>2. CASE Continues(w)
    <3>1. req[w].code = req'[w].code
      BY <2>2 DEF Continues
    <3>2. req[w].code.n <= req[v].n
      BY <1>13, <2>1, <3>1 DEF CodesAreInserted
    <3>3. req'[w].code.n <= req[v].n
      BY <3>1, <3>2
    <3>4. req[v].n \in Nat /\ req'[v].n \in Nat /\ req'[w].code.n \in Nat
      BY <1>0 DEF Numbered
    <3> QED
      BY <2>1, <3>3, <3>4
  <2>3. ASSUME NEW c \in codes, c.set = req'[w].code.set, c.n = req'[w].code.n
        PROVE  req'[w].code.n <= req'[v].n
    BY <1>4, <1>5, <1>6, <2>1, <2>3 DEF CodesAreInserted
  <2> QED
    BY <1>3, <1>7, <1>13, <2>2, <2>3 DEF Begins
<1>14. \A s \in minted' : s.code.set <= requests /\ (s.code.set # 0 => s.code.secret = 0)
  <2> SUFFICES ASSUME NEW s \in minted', s.code.set # 0
               PROVE  s.code.set <= requests /\ s.code.secret = 0
    BY <1>2
  <2>1. ASSUME NEW w \in Workers, s.code = req[w].code
        PROVE  s.code.set <= requests /\ s.code.secret = 0
    BY <1>5, <2>1 DEF TypeInv, WellFormed
  <2> QED
    BY <2>1, MintedCodes DEF CodesAreInserted
<1>15. ASSUME NEW v \in Workers, NEW s \in minted', s.code.set # 0, s.code.set = req'[v].id
       PROVE  s.code.n <= req'[v].n
  <2>1. Continues(v) /\ req[v].id = s.code.set /\ req[v].n <= req'[v].n
    BY <1>9, <1>10, <1>14, <1>15
  <2>2. s.code.n <= req[v].n
    BY <1>15, <2>1, MintedCodes DEF CodesAreInserted
  <2> QED
    BY <1>5, <1>6, <1>9, <2>1, <2>2
<1>16. /\ \A c \in codes' : c.set <= requests'
       /\ \A w \in Workers : req'[w].code.set <= requests'
       /\ \A s \in minted' : s.code.set <= requests'
  <2>1. \A c \in codes' : c.set \in Nat
    BY <1>0 DEF Numbered
  <2> QED
    BY <1>2, <1>6, <1>8, <1>9, <1>11, <1>14, <2>1
<1> QED
  BY <1>12, <1>13, <1>14, <1>15, <1>16 DEF CodesAreInserted

\* A recovery code is right if it is there, unused; then it is not any more.
LEMMA ConsumeGoes ==
  ASSUME TypeInv, NEW w \in Workers, ConsumeRecoveryCode(w), Holds(w)'
  PROVE  /\ \E d \in codes : Unused(d, req[w].code)
         /\ \A c \in codes' : ~ c.used => c \in codes /\ ~ Unused(c, req[w].code)
         /\ ~ Holds(w) /\ \A v \in Workers \ {w} : req'[v] = req[v]
         /\ req'[w].code = req[w].code
<1> DEFINE found == {c \in codes : Unused(c, req[w].code)}
<1>1. codes' = (codes \ found) \cup {[c EXCEPT !.used = TRUE] : c \in found}
      /\ (IF found = {} THEN Done(w) ELSE Goto(w, "finish")) /\ At(w, "consume")
  BY DEF ConsumeRecoveryCode
<1>2. ~ Done(w)
  BY DEF Holds, Done, Idle, TypeInv, TypeOK
<1>3. found # {} /\ Goto(w, "finish")
  BY <1>1, <1>2
<1>4. \A c \in codes : [c EXCEPT !.used = TRUE].used
  BY DEF TypeInv, TypeOK
<1>5. \A c \in codes' : ~ c.used => c \in codes \ found
  BY <1>1, <1>4
<1>6. ~ Holds(w) /\ req'[w].code = req[w].code /\ \A v \in Workers \ {w} : req'[v] = req[v]
  BY <1>1, <1>3 DEF Holds, At, Goto, TypeInv, TypeOK, Request
<1> QED
  BY <1>3, <1>5, <1>6

\* With a recovery code, that is the only way to a session.
LEMMA HoldersArrive ==
  ASSUME TypeInv, [Next]_vars, NEW v \in Workers, Holds(v)', req'[v].code.set # 0
  PROVE  (Holds(v) /\ Continues(v)) \/ ConsumeRecoveryCode(v)
<1>1. req'[v].step \in {"finish", "mint"}
  BY DEF Holds
<1>2. \/ req'[v].step = req[v].step \/ CheckCode(v) \/ ConsumeRecoveryCode(v) \/ FinishPending(v)
  BY <1>1, RequestsArrive DEF Arrives
<1>3. ~ At(v, "idle") => Continues(v)
  BY <1>1, RequestsGoOn DEF RequestsGo, Begins, Ends, Idle
<1>4. CASE req'[v].step = req[v].step \/ FinishPending(v)
  BY <1>1, <1>3, <1>4 DEF FinishPending, Holds, At
<1>5. CASE CheckCode(v)
  <2>1. ~ Done(v) /\ ~ Goto(v, "consume")
    BY <1>1 DEF Done, Goto, Idle, TypeInv, TypeOK, Request
  <2>2. account.enabled /\ req[v].code.secret = account.secret
    BY <1>5, <2>1 DEF CheckCode
  <2>3. req[v].code.set = 0
    BY <2>2 DEF TypeInv, WellFormed, None
  <2>4. Continues(v)
    BY <1>3, <1>5 DEF CheckCode, At
  <2> QED
    BY <2>3, <2>4 DEF Continues
<1> QED
  BY <1>2, <1>4, <1>5

LEMMA TakenOnceNext == TypeInv /\ NumbersInv /\ CodesInv /\ [Next]_vars => CodesAreTakenOnce'
<1> SUFFICES ASSUME TypeInv, NumbersInv, CodesInv, [Next]_vars PROVE CodesAreTakenOnce'
  OBVIOUS
<1> USE DEF CodesInv
<1>1. Numbered /\ Numbered'
  BY TypeNext, CodesAreNumbers, PTL
\* A code that was used up is nobody's, and nobody's becomes somebody's by that.
<1>2. ASSUME NEW w \in Workers, ConsumeRecoveryCode(w), Holds(w)'
      PROVE  ~ Bought(req[w].code.set, req[w].code.n)
  BY <1>2, ConsumeGoes DEF CodesAreTakenOnce, Unused
<1>3. ASSUME NEW s \in minted', s.code.set # 0
      PROVE  Bought(s.code.set, s.code.n)
  BY <1>3, MintedCodes DEF Bought, Holds, At
<1>4. ASSUME NEW v \in Workers, Holds(v)', req'[v].code.set # 0, ~ ConsumeRecoveryCode(v)
      PROVE  Bought(req'[v].code.set, req'[v].code.n)
  BY <1>4, HoldersArrive DEF Bought, Continues
<1>5. ASSUME NEW c \in codes', ~ c.used
      PROVE  ~ Bought(c.set, c.n)'
  <2>1. c.set # 0
    BY <1>1 DEF Numbered
  <2>2. ASSUME NEW w \in Workers, ConsumeRecoveryCode(w), Holds(w)'
        PROVE  c.set # req'[w].code.set \/ c.n # req'[w].code.n
    BY <1>5, <2>2, ConsumeGoes DEF Unused
  <2>3. Bought(c.set, c.n)' => Bought(c.set, c.n)
    <3>1. ASSUME NEW s \in minted', s.code.set = c.set, s.code.n = c.n
          PROVE  Bought(c.set, c.n)
      BY <1>3, <2>1, <3>1
    <3>2. ASSUME NEW v \in Workers, Holds(v)', req'[v].code.set = c.set, req'[v].code.n = c.n
          PROVE  Bought(c.set, c.n)
      <4>1. ~ ConsumeRecoveryCode(v)
        BY <2>2, <3>2
      <4>2. Bought(req'[v].code.set, req'[v].code.n)
        BY <1>4, <2>1, <3>2, <4>1
      <4> QED
        BY <3>2, <4>2
    <3> QED
      BY <3>1, <3>2 DEF Bought
  <2>4. CASE c \in codes
    BY <1>5, <2>3, <2>4 DEF CodesAreTakenOnce
  <2>5. CASE c \notin codes
    <3>1. PICK w \in Workers : InsertCode(w)
      <4>1. ASSUME NEW w \in Workers, ConsumeRecoveryCode(w) PROVE FALSE
        <5>1. \A d \in codes : [d EXCEPT !.used = TRUE].used
          BY DEF TypeInv, TypeOK
        <5> QED
          BY <1>5, <2>5, <4>1, <5>1 DEF ConsumeRecoveryCode
      <4> QED
        BY <2>5, <4>1, CodesGoOn DEF CodesGo
    <3>2. c.set = req[w].id /\ c.n = req[w].n + 1 /\ req[w].n \in Nat
      BY <1>1, <2>5, <3>1, InsertGoes DEF Numbered
    <3>3. ASSUME Bought(c.set, c.n) PROVE c.n <= req[w].n
      BY <2>1, <3>2, <3>3 DEF Bought, CodesAreInserted
    <3> QED
      BY <2>3, <3>2, <3>3
  <2> QED
    BY <2>4, <2>5
<1>6. ASSUME NEW w \in Workers, NEW s \in minted', Holds(w)', req'[w].code.set # 0,
             s.code = req'[w].code
      PROVE  FALSE
  <2>1. CASE ConsumeRecoveryCode(w)
    BY <1>2, <1>3, <1>6, <2>1, ConsumeGoes
  <2>2. CASE Holds(w) /\ Continues(w)
    <3>1. req[w].code = s.code
      BY <1>6, <2>2 DEF Continues
    <3>2. s \notin minted
      BY <1>6, <2>2, <3>1 DEF CodesAreTakenOnce
    <3>3. PICK u \in Workers : At(u, "mint") /\ Ends(u) /\ s.code = req[u].code
      BY <1>6, <3>2, MintedCodes
    <3>4. u # w
      BY <1>6, <3>3 DEF Ends, Idle, Holds
    <3> QED
      BY <1>6, <2>2, <3>1, <3>3, <3>4 DEF CodesAreTakenOnce, Holds, At
  <2> QED
    BY <1>6, <2>1, <2>2, HoldersArrive
<1>7. ASSUME NEW v \in Workers, NEW w \in Workers, Holds(v)', Holds(w)', req'[w].code.set # 0,
             req'[v].code = req'[w].code, v # w
      PROVE  FALSE
  <2>1. ASSUME NEW x \in Workers, NEW y \in Workers, x # y, Holds(x)', Holds(y)',
               req'[x].code.set # 0, req'[x].code = req'[y].code, ConsumeRecoveryCode(y)
        PROVE  FALSE
    <3>1. req'[x] = req[x]
      BY <2>1, ConsumeGoes
    <3>2. ~ ConsumeRecoveryCode(x)
      BY <2>1, <3>1 DEF ConsumeRecoveryCode, At, Holds
    <3> QED
      BY <1>2, <1>4, <2>1, <3>2, ConsumeGoes
  <2>2. ~ ConsumeRecoveryCode(v) /\ ~ ConsumeRecoveryCode(w)
    BY <1>7, <2>1
  <2>3. Holds(v) /\ Holds(w) /\ req[v].code = req[w].code /\ req[w].code.set # 0
    BY <1>7, <2>2, HoldersArrive DEF Continues
  <2> QED
    BY <1>7, <2>3 DEF CodesAreTakenOnce
<1>8. ASSUME NEW s \in minted', NEW u \in minted', s # u, s.code.set # 0, s.code = u.code
      PROVE  FALSE
  <2>1. ASSUME NEW x \in minted', NEW y \in minted', x # y, x.code.set # 0, x.code = y.code,
               x \notin minted
        PROVE  FALSE
    <3>1. PICK w \in Workers : /\ At(w, "mint") /\ x.code = req[w].code
                               /\ minted' = minted \cup {x}
      BY <2>1, MintedCodes
    <3>2. y \in minted
      BY <2>1, <3>1
    <3> QED
      BY <2>1, <3>1, <3>2 DEF CodesAreTakenOnce, Holds, At
  <2>2. s \in minted /\ u \in minted
    BY <1>8, <2>1
  <2> QED
    BY <1>8, <2>2 DEF CodesAreTakenOnce
<1>9. (\A c \in codes : ~ c.used => ~ Bought(c.set, c.n))'
  BY <1>5
<1>10. \A w \in Workers, s \in minted' :
         Holds(w)' /\ req'[w].code.set # 0 => s.code # req'[w].code
  BY <1>6
<1>11. \A v, w \in Workers :
         Holds(v)' /\ Holds(w)' /\ req'[w].code.set # 0 /\ req'[v].code = req'[w].code => v = w
  BY <1>7
<1>12. \A s, u \in minted' : s # u /\ s.code.set # 0 => s.code # u.code
  BY <1>8
<1> QED
  BY <1>9, <1>10, <1>11, <1>12 DEF CodesAreTakenOnce

-----------------------------------------------------------------------------
(* Sessions.                                                               *)

EarnedInv == OutInv /\ OffInv /\ AloneInv /\ CodesInv

LEMMA EarnedInit == Init => EarnedInv
<1> SUFFICES ASSUME Init PROVE EarnedInv
  OBVIOUS
<1>1. minted = {} /\ out = {} /\ \A w \in Workers : req[w] = Idle
  BY DEF Init
<1>2. OutInv /\ OffInv /\ AloneInv
  BY <1>1 DEF OutInv, OffInv, AloneInv, At, Idle, VerifySteps
<1> QED
  BY <1>2, CodesInit DEF EarnedInv

\* A password alone makes a session only if the second factor was off, or could not
\* be read; a recovery code buys one session; one pending token gives one, unless
\* two verifies of it ran at once or its delete failed; and a session that a logout
\* deleted is never served again, whatever fails, and whichever keys the process
\* is restarted with.
THEOREM EarnedSessions == Spec => []SessionsAreEarned
<1>1. EarnedInv => SessionsAreEarned
  <2> SUFFICES ASSUME EarnedInv PROVE SessionsAreEarned
    OBVIOUS
  <2>1. \A s \in minted : s.pending = 0 => s.off
    BY DEF EarnedInv, OffInv
  <2>2. \A s, u \in minted : s # u /\ s.code.set # 0 => s.code # u.code
    BY DEF EarnedInv, CodesInv, CodesAreTakenOnce
  <2>3. \A s, u \in minted :
          s # u /\ s.pending # 0 /\ s.alone /\ u.alone => s.pending # u.pending
    BY DEF EarnedInv, AloneInv
  <2>4. \A t \in out : ~ Served(t)
    BY DEF EarnedInv, OutInv, Served
  <2> QED
    BY <2>1, <2>2, <2>3, <2>4 DEF SessionsAreEarned
<1>2. TypeInv /\ NumbersInv /\ StoreInv /\ EarnedInv /\ [Next]_vars => EarnedInv'
  BY OutNext, OffNext, AloneNext, InsertedNext, TakenOnceNext DEF EarnedInv, CodesInv
<1> QED
  BY <1>1, <1>2, EarnedInit, Foundations, PTL DEF Spec
=============================================================================
