------------------------- MODULE SecondFactorProofs -------------------------
(***************************************************************************)
(* What the administrator's second factor keeps to for any number of       *)
(* requests at once, of authenticators, pending tokens and codes in a set, *)
(* whichever statements fail and however often the process restarts: the   *)
(* secret that is enabled was proven, a challenge is answered once, and    *)
(* the recovery codes are those that were shown.                           *)
(***************************************************************************)
EXTENDS SecondFactor, TLAPS

-----------------------------------------------------------------------------
(* Types.                                                                  *)

\* The steps at which a request carries a challenge a client has answered.
Bearing == {"insert_passkey", "take", "load", "sign_count", "consume", "mint"}

\* What the step a request is at says of the rest of it.
Sound(q) ==
  /\ q.step # "idle" => q.id \in Numbers
  /\ q.step \in {"enable", "turn_off", "delete_codes"} => q.n = 0
  /\ q.step = "turn_off" => q.secret = None
  /\ q.step = "insert_code" => q.n < CodesPerSet /\ q.secret \in Numbers
  /\ q.step = "insert_passkey" => q.key \in Authenticators
  /\ q.step \in Bearing => q.challenge \in Numbers
  /\ q.step \in {"begin_login", "take"} => q.token \in Pendings

TypeInv == TypeOK /\ \A w \in Workers : Sound(req[w])

LEMMA ConstantTypes ==
  /\ MaxRequests \in Nat /\ CodesPerSet \in Nat /\ CodesPerSet >= 1 /\ MaxFaults \in Nat
  /\ Numbers \subseteq Nat /\ None \notin Numbers /\ None = 0
  /\ "none" \notin Pendings /\ "register" \notin Pendings
  BY SecondFactorAssumption, PendingsAssumption DEF Numbers, None

LEMMA IdleTyped == Idle \in Request /\ Sound(Idle) /\ Idle.step = "idle"
  BY ConstantTypes DEF Idle, Request, Sound, Bearing, None

\* A request that arrives gets the next number.
LEMMA NextNumber ==
  ASSUME TypeOK, Arrive
  PROVE  /\ requests' = requests + 1 /\ requests \in Nat
         /\ requests' \in Numbers /\ requests' \in 0..MaxRequests
  BY ConstantTypes DEF TypeOK, Arrive, Numbers

\* A worker that takes on request r serves it under the next number.
LEMMA Started ==
  ASSUME TypeInv, NEW w \in Workers, NEW r \in Request, Start(w, r),
         \A i \in Numbers : Sound([r EXCEPT !.id = i])
  PROVE  /\ req' \in [Workers -> Request] /\ \A v \in Workers : Sound(req'[v])
         /\ \A v \in Workers : v # w => req'[v] = req[v]
         /\ req'[w] = [r EXCEPT !.id = requests']
         /\ requests' = requests + 1 /\ requests' \in Numbers /\ requests' \in 0..MaxRequests
         /\ req[w].step = "idle"
<1>1. requests' = requests + 1 /\ requests' \in Numbers /\ requests' \in 0..MaxRequests
  BY NextNumber DEF Start, TypeInv
<1> DEFINE q == [r EXCEPT !.id = requests']
<1>2. q \in Request
  BY <1>1 DEF Request
<1>3. Sound(q)
  BY <1>1, <1>2
<1>4. req \in [Workers -> Request] /\ req' = [req EXCEPT ![w] = q]
  BY DEF Start, TypeInv, TypeOK
<1>5. req'[w] = q /\ \A v \in Workers : v # w => req'[v] = req[v]
  BY <1>4
<1> HIDE DEF q
<1>6. req' \in [Workers -> Request] /\ \A v \in Workers : Sound(req'[v])
  BY <1>2, <1>3, <1>4, <1>5 DEF TypeInv
<1> QED
  BY <1>1, <1>5, <1>6 DEF q, Start, At

\* A request that goes on to another step keeps what it carries.
LEMMA Moved ==
  ASSUME TypeInv, NEW w \in Workers, NEW step \in EnrolmentSteps \cup PasskeySteps,
         Goto(w, step), Sound([req[w] EXCEPT !.step = step])
  PROVE  /\ req' \in [Workers -> Request] /\ \A v \in Workers : Sound(req'[v])
         /\ \A v \in Workers : v # w => req'[v] = req[v]
         /\ req'[w] = [req[w] EXCEPT !.step = step]
<1> DEFINE q == [req[w] EXCEPT !.step = step]
<1>1. q \in Request
  BY DEF TypeInv, TypeOK, Request
<1>2. req \in [Workers -> Request] /\ req' = [req EXCEPT ![w] = q]
  BY DEF Goto, TypeInv, TypeOK
<1>3. req'[w] = q /\ \A v \in Workers : v # w => req'[v] = req[v]
  BY <1>2
<1> HIDE DEF q
<1>4. req' \in [Workers -> Request]
  BY <1>1, <1>2
<1>5. Sound(q)
  BY DEF q
<1>6. \A v \in Workers : Sound(req'[v])
  BY <1>3, <1>5 DEF TypeInv
<1> QED
  BY <1>3, <1>4, <1>6 DEF q

\* A request that ends leaves its worker idle.
LEMMA Ended ==
  ASSUME TypeInv, NEW w \in Workers, Done(w)
  PROVE  /\ req' \in [Workers -> Request] /\ \A v \in Workers : Sound(req'[v])
         /\ \A v \in Workers : v # w => req'[v] = req[v]
         /\ req'[w] = Idle
  BY IdleTyped DEF Done, TypeInv, TypeOK

\* The requests as they begin.
EnrolmentRequest(step, s) == [Idle EXCEPT !.step = step, !.secret = s]
BeginRequest(t) == [Idle EXCEPT !.step = "begin_login", !.token = t]
Answer(q, c, k, m) == [q EXCEPT !.challenge = c, !.key = k, !.count = m]
TakeRequest(t, c, k, m) ==
  [Idle EXCEPT !.step = "take", !.token = t, !.challenge = c, !.key = k, !.count = m]
PasskeyRequest(c, k, m) ==
  [Idle EXCEPT !.step = "insert_passkey", !.challenge = c, !.key = k, !.count = m]

LEMMA IdleFields == Idle \in Request /\ Idle.n = 0 /\ Idle.secret = None
  BY IdleTyped DEF Idle, None

LEMMA StepNames ==
  {"enable", "turn_off", "delete_codes", "begin_login", "take", "insert_passkey"}
    \subseteq EnrolmentSteps \cup PasskeySteps
  BY DEF EnrolmentSteps, PasskeySteps

LEMMA EnrolmentRequestIs ==
  ASSUME NEW step \in {"enable", "turn_off", "delete_codes"}, NEW s \in Numbers \cup {None}
  PROVE  /\ EnrolmentRequest(step, s) \in Request
         /\ EnrolmentRequest(step, s).step = step
         /\ EnrolmentRequest(step, s).secret = s
         /\ EnrolmentRequest(step, s).n = 0
         /\ s = None => EnrolmentRequest(step, s) = [Idle EXCEPT !.step = step]
<1> DEFINE q == [Idle EXCEPT !.step = step]
<1>1. q \in Request /\ q.step = step /\ q.n = 0 /\ q.secret = None
  BY IdleFields, StepNames DEF Request
<1>2. EnrolmentRequest(step, s) = [q EXCEPT !.secret = s]
  BY DEF EnrolmentRequest
<1> HIDE DEF q
<1>3. /\ EnrolmentRequest(step, s) \in Request
      /\ EnrolmentRequest(step, s).step = step
      /\ EnrolmentRequest(step, s).secret = s
      /\ EnrolmentRequest(step, s).n = 0
      /\ s = None => EnrolmentRequest(step, s) = q
  BY <1>1, <1>2 DEF Request
<1> QED
  BY <1>3 DEF q

LEMMA BeginRequestIs ==
  ASSUME NEW t \in Pendings
  PROVE  BeginRequest(t) \in Request /\ BeginRequest(t).step = "begin_login" /\ BeginRequest(t).token = t
<1> DEFINE q == [Idle EXCEPT !.step = "begin_login"]
<1>1. q \in Request /\ q.step = "begin_login"
  BY IdleFields, StepNames DEF Request
<1>2. BeginRequest(t) = [q EXCEPT !.token = t]
  BY DEF BeginRequest
<1> HIDE DEF q
<1> QED
  BY <1>1, <1>2 DEF Request

LEMMA AnswerIs ==
  ASSUME NEW q \in Request, NEW c \in Numbers, NEW k \in Authenticators, NEW m \in Nat
  PROVE  /\ Answer(q, c, k, m) \in Request
         /\ Answer(q, c, k, m).step = q.step /\ Answer(q, c, k, m).token = q.token
         /\ Answer(q, c, k, m).key = k /\ Answer(q, c, k, m).challenge = c
<1> DEFINE p == [q EXCEPT !.challenge = c]
           o == [p EXCEPT !.key = k]
<1>1. p \in Request /\ p.step = q.step /\ p.token = q.token /\ p.challenge = c
  BY DEF Request
<1>2. Answer(q, c, k, m) = [o EXCEPT !.count = m]
  BY DEF Answer
<1> HIDE DEF p
<1>3. o \in Request /\ o.step = q.step /\ o.token = q.token /\ o.challenge = c /\ o.key = k
  BY <1>1 DEF Request
<1> HIDE DEF o
<1> QED
  BY <1>2, <1>3 DEF Request

LEMMA TakeRequestIs ==
  ASSUME NEW t \in Pendings, NEW c \in Numbers, NEW k \in Authenticators, NEW m \in Nat
  PROVE  /\ TakeRequest(t, c, k, m) \in Request /\ TakeRequest(t, c, k, m).step = "take"
         /\ TakeRequest(t, c, k, m).token = t /\ TakeRequest(t, c, k, m).challenge = c
<1> DEFINE p == [Idle EXCEPT !.step = "take"]
           q == [p EXCEPT !.token = t]
<1>1. p \in Request /\ p.step = "take"
  BY IdleFields, StepNames DEF Request
<1>2. TakeRequest(t, c, k, m) = Answer(q, c, k, m)
  BY DEF TakeRequest, Answer
<1> HIDE DEF p
<1>3. q \in Request /\ q.step = "take" /\ q.token = t
  BY <1>1 DEF Request
<1> HIDE DEF q
<1> QED
  BY <1>2, <1>3, AnswerIs

LEMMA PasskeyRequestIs ==
  ASSUME NEW c \in Numbers, NEW k \in Authenticators, NEW m \in Nat
  PROVE  /\ PasskeyRequest(c, k, m) \in Request /\ PasskeyRequest(c, k, m).step = "insert_passkey"
         /\ PasskeyRequest(c, k, m).key = k /\ PasskeyRequest(c, k, m).challenge = c
<1> DEFINE p == [Idle EXCEPT !.step = "insert_passkey"]
<1>1. p \in Request /\ p.step = "insert_passkey"
  BY IdleFields, StepNames DEF Request
<1>2. PasskeyRequest(c, k, m) = Answer(p, c, k, m)
  BY DEF PasskeyRequest, Answer
<1> HIDE DEF p
<1> QED
  BY <1>1, <1>2, AnswerIs

-----------------------------------------------------------------------------
(* What each step does to the requests.                                    *)

\* A new request of worker w, which other requests do not notice.
Opens(w) ==
  /\ req[w].step = "idle"
  /\ requests' = requests + 1
  /\ req'[w].id = requests'

\* The request of worker w goes on, or ends.
GoesOn(w) ==
  /\ req[w].step # "idle"
  /\ requests' = requests
  /\ \/ req'[w] = Idle
     \/ /\ req'[w].id = req[w].id /\ req'[w].step \notin {"idle", "begin_login", "take"}
        /\ req'[w].secret = req[w].secret
        /\ req'[w].challenge = req[w].challenge /\ req'[w].token = req[w].token
        /\ req'[w].step \in EnrolmentSteps => req[w].step \in EnrolmentSteps
        /\ req'[w].step \in Bearing => req[w].step \in Bearing

WellServed ==
  req' \in [Workers -> Request] /\ \A v \in Workers : Sound(req'[v])

OthersRest(w) == \A v \in Workers : v # w => req'[v] = req[v]

LEMMA EnrolmentOpens ==
  ASSUME TypeInv, NEW w \in Workers, NEW step \in {"enable", "turn_off", "delete_codes"},
         NEW s \in Numbers \cup {None}, step = "turn_off" => s = None,
         StartEnrolment(w, EnrolmentRequest(step, s))
  PROVE  /\ WellServed /\ OthersRest(w) /\ Opens(w) /\ requests' \in 0..MaxRequests
         /\ req'[w].step = step /\ req'[w].secret = s
         /\ overlapped' = (overlapped \/ \E v \in Workers : req[v].step \in EnrolmentSteps)
<1> DEFINE r == EnrolmentRequest(step, s)
<1>1. r \in Request /\ r.step = step /\ r.secret = s /\ r.n = 0 /\ Start(w, r)
  BY EnrolmentRequestIs DEF StartEnrolment
<1> HIDE DEF r
<1>2. \A i \in Numbers : Sound([r EXCEPT !.id = i])
  BY <1>1 DEF Sound, Bearing, Request
<1>3. /\ WellServed /\ OthersRest(w)
      /\ req'[w] = [r EXCEPT !.id = requests']
      /\ requests' = requests + 1 /\ requests' \in 0..MaxRequests /\ req[w].step = "idle"
  BY <1>1, <1>2, Started DEF WellServed, OthersRest
<1> QED
  BY <1>1, <1>3 DEF Opens, Request, StartEnrolment

\* A confirm goes on with the secret that its code was of, a regenerate with
\* the one that is enabled, a disable with none.
LEMMA ConfirmOpens ==
  ASSUME TypeInv, NEW w \in Workers, TOTPConfirm(w)
  PROVE  /\ WellServed /\ OthersRest(w) /\ Opens(w) /\ requests' \in 0..MaxRequests
         /\ req'[w].step = "enable" /\ req'[w].secret = account.secret
         /\ overlapped' = (overlapped \/ \E v \in Workers : req[v].step \in EnrolmentSteps)
<1>1. account.secret \in Numbers \cup {None}
  BY DEF TypeInv, TypeOK
<1>2. StartEnrolment(w, EnrolmentRequest("enable", account.secret))
  BY Zenon DEF TOTPConfirm, EnrolmentRequest
<1> QED
  BY <1>1, <1>2, EnrolmentOpens

LEMMA RegenerateOpens ==
  ASSUME TypeInv, NEW w \in Workers, TOTPRecoveryRegenerate(w)
  PROVE  /\ WellServed /\ OthersRest(w) /\ Opens(w) /\ requests' \in 0..MaxRequests
         /\ req'[w].step = "delete_codes" /\ req'[w].secret = account.secret
         /\ overlapped' = (overlapped \/ \E v \in Workers : req[v].step \in EnrolmentSteps)
<1>1. account.secret \in Numbers \cup {None}
  BY DEF TypeInv, TypeOK
<1>2. StartEnrolment(w, EnrolmentRequest("delete_codes", account.secret))
  BY Zenon DEF TOTPRecoveryRegenerate, EnrolmentRequest
<1> QED
  BY <1>1, <1>2, EnrolmentOpens

LEMMA DisableOpens ==
  ASSUME TypeInv, NEW w \in Workers, TOTPDisable(w)
  PROVE  /\ WellServed /\ OthersRest(w) /\ Opens(w) /\ requests' \in 0..MaxRequests
         /\ req'[w].step = "turn_off" /\ req'[w].secret = None
         /\ overlapped' = (overlapped \/ \E v \in Workers : req[v].step \in EnrolmentSteps)
<1>1. EnrolmentRequest("turn_off", None) = [Idle EXCEPT !.step = "turn_off"]
  BY EnrolmentRequestIs
<1>2. StartEnrolment(w, EnrolmentRequest("turn_off", None))
  BY Zenon, <1>1 DEF TOTPDisable
<1> QED
  BY <1>2, EnrolmentOpens

LEMMA RegisterFinishOpens ==
  ASSUME TypeInv, NEW w \in Workers, NEW r \in responses, WebAuthnRegisterFinish(w, r)
  PROVE  /\ WellServed /\ OthersRest(w) /\ Opens(w) /\ requests' \in 0..MaxRequests
         /\ \/ req'[w].step = "idle"
            \/ /\ req'[w].step = "insert_passkey" /\ req'[w].challenge = r.challenge
               /\ registering = r.challenge
<1>1. r.challenge \in Numbers /\ r.key \in Authenticators /\ r.count \in Nat
  BY DEF TypeInv, TypeOK
<1>2. CASE registering = r.challenge
  <2> DEFINE q == PasskeyRequest(r.challenge, r.key, r.count)
  <2>0. Start(w, q)
    BY Zenon, <1>2 DEF WebAuthnRegisterFinish, PasskeyRequest
  <2>1. /\ q \in Request /\ q.step = "insert_passkey" /\ q.challenge = r.challenge
        /\ q.key \in Authenticators /\ Start(w, q)
    BY <1>1, <2>0, PasskeyRequestIs
  <2> HIDE DEF q
  <2>2. \A i \in Numbers : Sound([q EXCEPT !.id = i])
    BY <1>1, <2>1 DEF Sound, Bearing, Request
  <2>3. /\ WellServed /\ OthersRest(w)
        /\ req'[w] = [q EXCEPT !.id = requests']
        /\ requests' = requests + 1 /\ requests' \in 0..MaxRequests /\ req[w].step = "idle"
    BY <2>1, <2>2, Started DEF WellServed, OthersRest
  <2> QED
    BY <1>2, <2>1, <2>3 DEF Opens, Request
<1>3. CASE registering # r.challenge
  <2>1. Idle \in Request /\ Idle.step = "idle" /\ Start(w, Idle)
    BY <1>3, IdleTyped DEF WebAuthnRegisterFinish
  <2>2. \A i \in Numbers : Sound([Idle EXCEPT !.id = i])
    BY DEF Sound, Bearing, Idle
  <2>3. /\ WellServed /\ OthersRest(w)
        /\ req'[w] = [Idle EXCEPT !.id = requests']
        /\ requests' = requests + 1 /\ requests' \in 0..MaxRequests /\ req[w].step = "idle"
    BY <2>1, <2>2, Started DEF WellServed, OthersRest
  <2> QED
    BY <2>1, <2>3 DEF Opens, Request
<1> QED
  BY <1>2, <1>3

LEMMA LoginBeginOpens ==
  ASSUME TypeInv, NEW w \in Workers, NEW t \in Pendings, WebAuthnLoginBegin(w, t)
  PROVE  /\ WellServed /\ OthersRest(w) /\ Opens(w) /\ requests' \in 0..MaxRequests
         /\ req'[w].step = "begin_login"
<1> DEFINE q == BeginRequest(t)
<1>0. Start(w, q)
  BY Zenon DEF WebAuthnLoginBegin, BeginRequest
<1>1. q \in Request /\ q.step = "begin_login" /\ q.token = t /\ Start(w, q)
  BY <1>0, BeginRequestIs
<1> HIDE DEF q
<1>2. \A i \in Numbers : Sound([q EXCEPT !.id = i])
  BY <1>1 DEF Sound, Bearing, Request
<1>3. /\ WellServed /\ OthersRest(w)
      /\ req'[w] = [q EXCEPT !.id = requests']
      /\ requests' = requests + 1 /\ requests' \in 0..MaxRequests /\ req[w].step = "idle"
  BY <1>1, <1>2, Started DEF WellServed, OthersRest
<1> QED
  BY <1>1, <1>3 DEF Opens, Request

LEMMA LoginFinishOpens ==
  ASSUME TypeInv, NEW w \in Workers, NEW t \in Pendings, NEW r \in responses,
         WebAuthnLoginFinish(w, t, r)
  PROVE  /\ WellServed /\ OthersRest(w) /\ Opens(w) /\ requests' \in 0..MaxRequests
         /\ req'[w].step = "take" /\ req'[w].challenge = r.challenge
<1>1. r.challenge \in Numbers /\ r.key \in Authenticators /\ r.count \in Nat
  BY DEF TypeInv, TypeOK
<1> DEFINE q == TakeRequest(t, r.challenge, r.key, r.count)
<1>0. Start(w, q)
  BY Zenon DEF WebAuthnLoginFinish, TakeRequest
<1>2. /\ q \in Request /\ q.step = "take" /\ q.token = t /\ q.challenge = r.challenge
      /\ Start(w, q)
  BY <1>0, <1>1, TakeRequestIs
<1> HIDE DEF q
<1>3. \A i \in Numbers : Sound([q EXCEPT !.id = i])
  BY <1>1, <1>2 DEF Sound, Bearing, Request
<1>4. /\ WellServed /\ OthersRest(w)
      /\ req'[w] = [q EXCEPT !.id = requests']
      /\ requests' = requests + 1 /\ requests' \in 0..MaxRequests /\ req[w].step = "idle"
  BY <1>2, <1>3, Started DEF WellServed, OthersRest
<1> QED
  BY <1>2, <1>4 DEF Opens, Request

\* A request that goes on to another step, or ends.
LEMMA StepsOn ==
  ASSUME TypeInv, NEW w \in Workers, NEW step \in EnrolmentSteps \cup PasskeySteps,
         Goto(w, step), requests' = requests, req[w].step # "idle",
         step \notin {"begin_login", "take"},
         step \in EnrolmentSteps => req[w].step \in EnrolmentSteps,
         step \in Bearing => req[w].step \in Bearing,
         Sound([req[w] EXCEPT !.step = step])
  PROVE  /\ WellServed /\ OthersRest(w) /\ GoesOn(w)
         /\ req'[w] = [req[w] EXCEPT !.step = step]
<1>1. req[w] \in Request
  BY DEF TypeInv, TypeOK
<1>2. WellServed /\ OthersRest(w) /\ req'[w] = [req[w] EXCEPT !.step = step]
  BY Moved DEF WellServed, OthersRest
<1>3. step # "idle"
  BY DEF EnrolmentSteps, PasskeySteps
<1>4. /\ req'[w].step = step /\ req'[w].id = req[w].id /\ req'[w].secret = req[w].secret
      /\ req'[w].challenge = req[w].challenge /\ req'[w].token = req[w].token
  BY <1>1, <1>2 DEF Request
<1> QED
  BY <1>2, <1>3, <1>4 DEF GoesOn

LEMMA Ends ==
  ASSUME TypeInv, NEW w \in Workers, Done(w), requests' = requests, req[w].step # "idle"
  PROVE  WellServed /\ OthersRest(w) /\ GoesOn(w) /\ req'[w] = Idle
  BY Ended DEF WellServed, OthersRest, GoesOn

LEMMA SecretSteps ==
  ASSUME TypeInv, NEW w \in Workers, Enable(w) \/ TurnOff(w)
  PROVE  /\ WellServed /\ OthersRest(w) /\ GoesOn(w)
         /\ req'[w].step = "delete_codes" /\ req'[w].secret = req[w].secret
<1>1. req[w] \in Request /\ Sound(req[w]) /\ req[w].step \in {"enable", "turn_off"}
  BY DEF TypeInv, TypeOK, Enable, TurnOff, At
<1>2. Sound([req[w] EXCEPT !.step = "delete_codes"])
  BY <1>1 DEF Sound, Bearing, Request
<1>3. Goto(w, "delete_codes") /\ requests' = requests
  BY DEF Enable, TurnOff
<1>4. WellServed /\ OthersRest(w) /\ GoesOn(w) /\ req'[w] = [req[w] EXCEPT !.step = "delete_codes"]
  BY <1>1, <1>2, <1>3, StepsOn DEF EnrolmentSteps, PasskeySteps, Bearing
<1> QED
  BY <1>1, <1>4 DEF Request

LEMMA DeleteCodesStep ==
  ASSUME TypeInv, NEW w \in Workers, DeleteCodes(w)
  PROVE  /\ WellServed /\ OthersRest(w) /\ GoesOn(w) /\ req[w].step = "delete_codes"
         /\ req[w].secret = None => req'[w] = Idle
         /\ req[w].secret # None => /\ req'[w].step = "insert_code" /\ req'[w].n = 0
                                    /\ req'[w].secret = req[w].secret
<1>1. /\ req[w] \in Request /\ Sound(req[w]) /\ req[w].step = "delete_codes"
      /\ requests' = requests
  BY DEF TypeInv, TypeOK, DeleteCodes, At
<1>2. CASE req[w].secret = None
  BY <1>1, <1>2, Ends DEF DeleteCodes
<1>3. CASE req[w].secret # None
  <2>1. Sound([req[w] EXCEPT !.step = "insert_code"])
    BY <1>1, <1>3, ConstantTypes DEF Sound, Bearing, Request
  <2>2. Goto(w, "insert_code")
    BY <1>3 DEF DeleteCodes
  <2>3. WellServed /\ OthersRest(w) /\ GoesOn(w) /\ req'[w] = [req[w] EXCEPT !.step = "insert_code"]
    BY <1>1, <2>1, <2>2, StepsOn DEF EnrolmentSteps, PasskeySteps, Bearing
  <2>4. /\ req'[w].step = "insert_code" /\ req'[w].n = req[w].n
        /\ req'[w].secret = req[w].secret
    BY <1>1, <2>3 DEF Request
  <2>5. req[w].n = 0
    BY <1>1 DEF Sound
  <2> QED
    BY <1>1, <1>3, <2>3, <2>4, <2>5
<1> QED
  BY <1>2, <1>3

LEMMA InsertCodeStep ==
  ASSUME TypeInv, NEW w \in Workers, InsertCode(w)
  PROVE  /\ WellServed /\ OthersRest(w) /\ GoesOn(w) /\ req[w].step = "insert_code"
         /\ req[w].id \in Numbers /\ req[w].secret \in Numbers
         /\ req[w].n + 1 \in 1..CodesPerSet
         /\ codes' = codes \cup {[set |-> req[w].id, n |-> req[w].n + 1, secret |-> req[w].secret]}
         /\ \/ /\ req'[w].step = "insert_code" /\ req'[w].n = req[w].n + 1
               /\ req'[w].id = req[w].id /\ req'[w].secret = req[w].secret
               /\ shown' = shown
            \/ /\ req'[w] = Idle /\ shown' = req[w].id /\ req[w].n + 1 = CodesPerSet
<1>1. /\ req[w] \in Request /\ Sound(req[w]) /\ req[w].step = "insert_code"
      /\ requests' = requests
  BY DEF TypeInv, TypeOK, InsertCode, At
<1>2. /\ req[w].id \in Numbers /\ req[w].secret \in Numbers /\ req[w].n \in Nat
      /\ req[w].n < CodesPerSet /\ req[w].n + 1 \in 1..CodesPerSet
  BY <1>1, ConstantTypes DEF Sound, Request
<1>3. codes' = codes \cup {[set |-> req[w].id, n |-> req[w].n + 1, secret |-> req[w].secret]}
  BY DEF InsertCode
<1>4. CASE req[w].n + 1 < CodesPerSet
  <2> DEFINE q == [req[w] EXCEPT !.n = req[w].n + 1]
  <2>1. /\ q \in Request /\ q.step = "insert_code" /\ q.n = req[w].n + 1
        /\ q.id = req[w].id /\ q.secret = req[w].secret
        /\ q.challenge = req[w].challenge /\ q.token = req[w].token
    BY <1>1, <1>2 DEF Request
  <2>2. req' = [req EXCEPT ![w] = q] /\ shown' = shown
    BY <1>4 DEF InsertCode
  <2> HIDE DEF q
  <2>3. req'[w] = q /\ \A v \in Workers : v # w => req'[v] = req[v]
    BY <2>2 DEF TypeInv, TypeOK
  <2>4. req' \in [Workers -> Request]
    BY <2>1, <2>2 DEF TypeInv, TypeOK
  <2>5. Sound(q)
    BY <1>2, <1>4, <2>1 DEF Sound, Bearing
  <2>6. WellServed /\ OthersRest(w)
    BY <2>3, <2>4, <2>5 DEF WellServed, OthersRest, TypeInv
  <2>7. GoesOn(w)
    BY <1>1, <2>1, <2>3 DEF GoesOn, Bearing, EnrolmentSteps
  <2> QED
    BY <1>1, <1>2, <1>3, <2>1, <2>2, <2>3, <2>6, <2>7
<1>5. CASE ~ (req[w].n + 1 < CodesPerSet)
  <2>1. Done(w) /\ shown' = req[w].id
    BY <1>5 DEF InsertCode
  <2>2. WellServed /\ OthersRest(w) /\ GoesOn(w) /\ req'[w] = Idle
    BY <1>1, <2>1, Ends
  <2>3. req[w].n + 1 = CodesPerSet
    BY <1>2, <1>5, ConstantTypes
  <2> QED
    BY <1>1, <1>2, <1>3, <2>1, <2>2, <2>3
<1> QED
  BY <1>4, <1>5

LEMMA EndingSteps ==
  ASSUME TypeInv, NEW w \in Workers,
         AddWebAuthnCredential(w) \/ BeginLogin(w) \/ MintSession(w) \/ StatementFails(w)
  PROVE  WellServed /\ OthersRest(w) /\ GoesOn(w) /\ req'[w] = Idle
<1>1. Done(w) /\ requests' = requests /\ req[w].step # "idle"
  BY DEF AddWebAuthnCredential, BeginLogin, MintSession, StatementFails, At
<1> QED
  BY <1>1, Ends

LEMMA TakeStep ==
  ASSUME TypeInv, NEW w \in Workers, Take(w)
  PROVE  /\ WellServed /\ OthersRest(w) /\ GoesOn(w)
         /\ req[w].step = "take" /\ req[w].token \in Pendings /\ req[w].challenge \in Numbers
         /\ asserting' = [asserting EXCEPT ![req[w].token] = None]
         /\ \/ req'[w] = Idle
            \/ /\ req'[w].step = "load" /\ req'[w].challenge = req[w].challenge
               /\ asserting[req[w].token] = req[w].challenge
<1>1. req[w] \in Request /\ Sound(req[w]) /\ req[w].step = "take" /\ requests' = requests
  BY DEF TypeInv, TypeOK, Take, At
<1>2. req[w].token \in Pendings /\ req[w].challenge \in Numbers
  BY <1>1 DEF Sound, Bearing
<1>3. asserting' = [asserting EXCEPT ![req[w].token] = None]
  BY DEF Take
<1>4. CASE asserting[req[w].token] = req[w].challenge
  <2>1. Sound([req[w] EXCEPT !.step = "load"])
    BY <1>1, <1>2 DEF Sound, Bearing, Request
  <2>2. Goto(w, "load")
    BY <1>4 DEF Take
  <2>3. WellServed /\ OthersRest(w) /\ GoesOn(w) /\ req'[w] = [req[w] EXCEPT !.step = "load"]
    BY <1>1, <2>1, <2>2, StepsOn DEF EnrolmentSteps, PasskeySteps, Bearing
  <2>4. req'[w].step = "load" /\ req'[w].challenge = req[w].challenge
    BY <1>1, <2>3 DEF Request
  <2> QED
    BY <1>1, <1>2, <1>3, <1>4, <2>3, <2>4
<1>5. CASE asserting[req[w].token] # req[w].challenge
  <2>1. Done(w)
    BY <1>5 DEF Take
  <2>2. WellServed /\ OthersRest(w) /\ GoesOn(w) /\ req'[w] = Idle
    BY <1>1, <2>1, Ends
  <2> QED
    BY <1>1, <1>2, <1>3, <2>2
<1> QED
  BY <1>4, <1>5

LEMMA FinishLoginStep ==
  ASSUME TypeInv, NEW w \in Workers, FinishLogin(w)
  PROVE  /\ WellServed /\ OthersRest(w) /\ GoesOn(w)
         /\ req[w].step = "load"
         /\ \/ req'[w] = Idle
            \/ req'[w].step = "sign_count" /\ req'[w].challenge = req[w].challenge
<1>1. req[w] \in Request /\ Sound(req[w]) /\ req[w].step = "load" /\ requests' = requests
  BY DEF TypeInv, TypeOK, FinishLogin, At
<1>2. CASE Done(w)
  BY <1>1, <1>2, Ends
<1>3. ASSUME NEW p \in passkeys,
             req' = [req EXCEPT ![w].step = "sign_count", ![w].count = Counter(p.count, @)]
      PROVE  /\ WellServed /\ OthersRest(w) /\ GoesOn(w)
             /\ req'[w].step = "sign_count" /\ req'[w].challenge = req[w].challenge
  <2> DEFINE o == [req[w] EXCEPT !.step = "sign_count"]
             m == Counter(p.count, o.count)
             q == [o EXCEPT !.count = m]
  <2>1. o \in Request /\ o.step = "sign_count" /\ o.id = req[w].id /\ o.secret = req[w].secret
        /\ o.challenge = req[w].challenge /\ o.token = req[w].token
    BY <1>1 DEF Request, PasskeySteps
  <2>2. req' = [req EXCEPT ![w] = q]
    <3>1. req \in [Workers -> Request]
      BY DEF TypeInv, TypeOK
    <3>2. [req EXCEPT ![w].step = "sign_count"] = [req EXCEPT ![w] = o]
      BY <3>1
    <3> DEFINE f == [req EXCEPT ![w] = o]
    <3>3. req' = [f EXCEPT ![w].count = Counter(p.count, @)]
      BY <1>3, <3>2
    <3>4. f[w] = o /\ DOMAIN f = Workers /\ \A v \in Workers : v # w => f[v] = req[v]
      BY <3>1
    <3> HIDE DEF o
    <3>5. req' = [f EXCEPT ![w] = q]
      BY <3>3, <3>4
    <3> QED
      BY <3>1, <3>5
  <2> HIDE DEF o
  <2>3. m \in Nat
    BY <2>1 DEF Counter, TypeInv, TypeOK, Request
  <2> HIDE DEF m
  <2>4. q \in Request /\ q.step = "sign_count" /\ q.id = req[w].id /\ q.secret = req[w].secret
        /\ q.challenge = req[w].challenge /\ q.token = req[w].token
    BY <2>1, <2>3 DEF Request
  <2> HIDE DEF q
  <2>5. req'[w] = q /\ \A v \in Workers : v # w => req'[v] = req[v]
    BY <2>2 DEF TypeInv, TypeOK
  <2>6. req' \in [Workers -> Request]
    BY <2>2, <2>4 DEF TypeInv, TypeOK
  <2>7. Sound(q)
    BY <1>1, <2>4 DEF Sound, Bearing
  <2>8. WellServed /\ OthersRest(w)
    BY <2>5, <2>6, <2>7 DEF WellServed, OthersRest, TypeInv
  <2>9. GoesOn(w)
    BY <1>1, <2>4, <2>5 DEF GoesOn, Bearing, EnrolmentSteps
  <2> QED
    BY <2>4, <2>5, <2>8, <2>9
<1> QED
  BY <1>1, <1>2, <1>3 DEF FinishLogin

LEMMA LoginSteps ==
  ASSUME TypeInv, NEW w \in Workers, UpdateSignCount(w) \/ ConsumePending(w)
  PROVE  /\ WellServed /\ OthersRest(w) /\ GoesOn(w)
         /\ req[w].step \in {"sign_count", "consume"} /\ req'[w].step \in {"consume", "mint"}
         /\ req'[w].challenge = req[w].challenge
<1> DEFINE step == IF UpdateSignCount(w) THEN "consume" ELSE "mint"
<1>1. /\ req[w] \in Request /\ Sound(req[w]) /\ req[w].step \in {"sign_count", "consume"}
      /\ requests' = requests /\ Goto(w, step)
  BY DEF TypeInv, TypeOK, UpdateSignCount, ConsumePending, At
<1>2. step \in {"consume", "mint"}
  OBVIOUS
<1> HIDE DEF step
<1>3. Sound([req[w] EXCEPT !.step = step])
  BY <1>1, <1>2 DEF Sound, Bearing, Request
<1>4. WellServed /\ OthersRest(w) /\ GoesOn(w) /\ req'[w] = [req[w] EXCEPT !.step = step]
  BY <1>1, <1>2, <1>3, StepsOn DEF EnrolmentSteps, PasskeySteps, Bearing
<1> QED
  BY <1>1, <1>2, <1>4 DEF Request

LEMMA CrashStep ==
  ASSUME TypeInv, Crash
  PROVE  WellServed /\ \A v \in Workers : req'[v] = Idle
  BY IdleTyped DEF Crash, WellServed

\* Some request goes on, opens or ends, or none does.
LEMMA WellServedAlways == TypeInv /\ [Next]_vars => WellServed
<1> SUFFICES ASSUME TypeInv, [Next]_vars PROVE WellServed
  OBVIOUS
<1>1. ASSUME NEW w \in Workers, Enrolment(w) PROVE WellServed
  BY <1>1, ConfirmOpens, RegenerateOpens, DisableOpens, SecretSteps, DeleteCodesStep,
     InsertCodeStep
  DEF Enrolment
<1>2. ASSUME NEW w \in Workers, Passkeys(w) PROVE WellServed
  BY <1>2, RegisterFinishOpens, LoginBeginOpens, LoginFinishOpens, EndingSteps, TakeStep,
     FinishLoginStep, LoginSteps
  DEF Passkeys
<1>3. ASSUME NEW w \in Workers, StatementFails(w) PROVE WellServed
  BY <1>3, EndingSteps
<1>4. CASE UNCHANGED req
  BY <1>4 DEF WellServed, TypeInv, TypeOK
<1>5. \/ \E w \in Workers : Enrolment(w) \/ Passkeys(w) \/ StatementFails(w)
      \/ Crash \/ UNCHANGED req
  BY Zenon DEF Next, TOTPEnroll, WebAuthnRegisterBegin, WebAuthnDelete, Sign, ExpireCeremony,
    DropPending, vars
<1> QED
  BY <1>1, <1>2, <1>3, <1>4, <1>5, CrashStep

LEMMA TypeInit == Init => TypeInv
<1> SUFFICES ASSUME Init PROVE TypeInv
  OBVIOUS
<1>1. req \in [Workers -> Request] /\ \A w \in Workers : Sound(req[w])
  BY IdleTyped DEF Init
<1>2. /\ account \in [enabled : BOOLEAN, secret : Numbers \cup {None}]
      /\ codes \subseteq [set : Numbers, n : 1..CodesPerSet, secret : Numbers]
      /\ passkeys \subseteq [key : Authenticators, count : Nat]
  BY DEF Init
<1>3. /\ registering \in Numbers \cup {None}
      /\ asserting \in [Pendings -> Numbers \cup {None}]
      /\ pending \subseteq Pendings
      /\ responses \subseteq [challenge : Numbers, key : Authenticators, count : Nat]
      /\ issued \in [Numbers -> Pendings \cup {"none", "register"}]
      /\ device \in [Authenticators -> Nat]
  BY DEF Init
<1>4. /\ requests \in 0..MaxRequests /\ faults \in 0..MaxFaults
      /\ proven \subseteq Numbers /\ shown \in Numbers \cup {None}
  <2>1. requests = 0 /\ faults = 0 /\ proven = {} /\ shown = None
    BY DEF Init
  <2> QED
    BY <2>1, ConstantTypes
<1>5. overlapped \in BOOLEAN
  BY Zenon DEF Init
<1>6. redeemed \in [Numbers -> Nat]
  <2>1. redeemed = [c \in Numbers |-> 0]
    BY DEF Init
  <2> QED
    BY <2>1
<1> QED
  BY <1>1, <1>2, <1>3, <1>4, <1>5, <1>6 DEF TypeInv, TypeOK

\* What a failed statement counts.
LEMMA FaultTyped == ASSUME TypeInv, Fault PROVE faults' \in 0..MaxFaults
  BY ConstantTypes DEF Fault, TypeInv, TypeOK

LEMMA TypeStep == TypeInv /\ [Next]_vars => TypeInv'
<1> SUFFICES ASSUME TypeInv, [Next]_vars PROVE TypeInv'
  OBVIOUS
<1> USE DEF TypeInv
<1>0. req' \in [Workers -> Request] /\ \A w \in Workers : Sound(req'[w])
  BY WellServedAlways DEF WellServed
<1>1. CASE TOTPEnroll
  <2>1. requests' \in Numbers /\ requests' \in 0..MaxRequests
    BY <1>1, NextNumber DEF TOTPEnroll
  <2>2. account' \in [enabled : BOOLEAN, secret : Numbers \cup {None}]
    BY <1>1, <2>1 DEF TOTPEnroll
  <2> QED
    BY <1>0, <1>1, <2>1, <2>2 DEF TOTPEnroll, TypeOK, ceremonies, clients
<1>2. ASSUME NEW w \in Workers, TOTPConfirm(w) PROVE TypeInv'
  <2>1. requests' \in 0..MaxRequests /\ overlapped' \in BOOLEAN
    BY <1>2, ConfirmOpens DEF TypeOK
  <2>2. proven' \subseteq Numbers
    BY <1>2 DEF TOTPConfirm, TypeOK
  <2> QED
    BY <1>0, <1>2, <2>1, <2>2 DEF TOTPConfirm, TypeOK, totp, ceremonies, clients
<1>3. ASSUME NEW w \in Workers, TOTPDisable(w) PROVE TypeInv'
  <2>1. requests' \in 0..MaxRequests /\ overlapped' \in BOOLEAN
    BY <1>3, DisableOpens DEF TypeOK
  <2> QED
    BY <1>0, <1>3, <2>1 DEF TOTPDisable, TypeOK, totp, ceremonies, clients
<1>4. ASSUME NEW w \in Workers, TOTPRecoveryRegenerate(w) PROVE TypeInv'
  <2>1. requests' \in 0..MaxRequests /\ overlapped' \in BOOLEAN
    BY <1>4, RegenerateOpens DEF TypeOK
  <2> QED
    BY <1>0, <1>4, <2>1 DEF TOTPRecoveryRegenerate, TypeOK, totp, ceremonies, clients
<1>5. ASSUME NEW w \in Workers, Enable(w) \/ TurnOff(w) PROVE TypeInv'
  <2>1. req[w].secret \in Numbers \cup {None}
    BY DEF TypeOK, Request
  <2>2. account' \in [enabled : BOOLEAN, secret : Numbers \cup {None}]
    <3>1. [enabled |-> TRUE, secret |-> req[w].secret] \in [enabled : BOOLEAN, secret : Numbers \cup {None}]
      BY <2>1
    <3>2. [enabled |-> FALSE, secret |-> None] \in [enabled : BOOLEAN, secret : Numbers \cup {None}]
      OBVIOUS
    <3>3. \/ account' = [enabled |-> TRUE, secret |-> req[w].secret]
          \/ account' = [enabled |-> FALSE, secret |-> None]
      BY Zenon, <1>5 DEF Enable, TurnOff
    <3> QED
      BY Zenon, <3>1, <3>2, <3>3
  <2> QED
    BY <1>0, <1>5, <2>2 DEF Enable, TurnOff, TypeOK, ceremonies, clients, totpHistory
<1>6. ASSUME NEW w \in Workers, DeleteCodes(w) PROVE TypeInv'
  BY <1>0, <1>6 DEF DeleteCodes, TypeOK, ceremonies, clients
<1>7. ASSUME NEW w \in Workers, InsertCode(w) PROVE TypeInv'
  <2>1. /\ codes' \subseteq [set : Numbers, n : 1..CodesPerSet, secret : Numbers]
        /\ shown' \in Numbers \cup {None}
    BY <1>7, InsertCodeStep DEF TypeOK
  <2> QED
    BY <1>0, <1>7, <2>1 DEF InsertCode, TypeOK, ceremonies, clients
<1>8. ASSUME NEW c \in Numbers, NEW k \in Authenticators, Sign(c, k) PROVE TypeInv'
  <2>1. device' \in [Authenticators -> Nat]
    BY <1>8 DEF Sign, TypeOK
  <2>2. responses' \subseteq [challenge : Numbers, key : Authenticators, count : Nat]
    BY <1>8, <2>1 DEF Sign, TypeOK
  <2> QED
    BY <1>0, <1>8, <2>1, <2>2 DEF Sign, TypeOK, totp, ceremonies, totpHistory
<1>9. CASE WebAuthnRegisterBegin
  <2>1. requests' \in Numbers /\ requests' \in 0..MaxRequests
    BY <1>9, NextNumber DEF WebAuthnRegisterBegin
  <2>2. issued' \in [Numbers -> Pendings \cup {"none", "register"}]
    BY <1>9 DEF WebAuthnRegisterBegin, TypeOK
  <2> QED
    BY <1>0, <1>9, <2>1, <2>2 DEF WebAuthnRegisterBegin, TypeOK, totp, totpHistory
<1>10. ASSUME NEW w \in Workers, NEW r \in responses, WebAuthnRegisterFinish(w, r) PROVE TypeInv'
  <2>1. requests' \in 0..MaxRequests
    BY <1>10, RegisterFinishOpens
  <2> QED
    BY <1>0, <1>10, <2>1 DEF WebAuthnRegisterFinish, TypeOK, totp, clients, totpHistory
<1>11. ASSUME NEW w \in Workers, AddWebAuthnCredential(w) PROVE TypeInv'
  <2>1. req[w].key \in Authenticators /\ req[w].challenge \in Numbers /\ req[w].count \in Nat
    BY <1>11 DEF AddWebAuthnCredential, At, Sound, Bearing, TypeOK, Request
  <2>2. passkeys' \subseteq [key : Authenticators, count : Nat] /\ redeemed' \in [Numbers -> Nat]
    BY <1>11, <2>1 DEF AddWebAuthnCredential, TypeOK
  <2> QED
    BY <1>0, <1>11, <2>2 DEF AddWebAuthnCredential, TypeOK, totp, ceremonies, clients, totpHistory
<1>12. ASSUME NEW p \in passkeys, WebAuthnDelete(p) PROVE TypeInv'
  BY <1>0, <1>12 DEF WebAuthnDelete, TypeOK, totp, ceremonies, clients, totpHistory
<1>13. ASSUME NEW w \in Workers, NEW t \in Pendings, WebAuthnLoginBegin(w, t) PROVE TypeInv'
  <2>1. requests' \in 0..MaxRequests
    BY <1>13, LoginBeginOpens
  <2> QED
    BY <1>0, <1>13, <2>1 DEF WebAuthnLoginBegin, TypeOK, totp, ceremonies, clients, totpHistory
<1>14. ASSUME NEW w \in Workers, BeginLogin(w) PROVE TypeInv'
  <2>1. req[w].token \in Pendings /\ req[w].id \in Numbers
    BY <1>14 DEF BeginLogin, At, Sound
  <2>2. /\ asserting' \in [Pendings -> Numbers \cup {None}]
        /\ issued' \in [Numbers -> Pendings \cup {"none", "register"}]
    BY <1>14, <2>1 DEF BeginLogin, TypeOK
  <2> QED
    BY <1>0, <1>14, <2>2 DEF BeginLogin, TypeOK, totp, totpHistory
<1>15. ASSUME NEW w \in Workers, NEW t \in Pendings, NEW r \in responses,
              WebAuthnLoginFinish(w, t, r)
       PROVE  TypeInv'
  <2>1. requests' \in 0..MaxRequests
    BY <1>15, LoginFinishOpens
  <2> QED
    BY <1>0, <1>15, <2>1 DEF WebAuthnLoginFinish, TypeOK, totp, ceremonies, clients, totpHistory
<1>16. ASSUME NEW w \in Workers, Take(w) PROVE TypeInv'
  <2>1. asserting' \in [Pendings -> Numbers \cup {None}]
    BY <1>16, TakeStep DEF TypeOK
  <2> QED
    BY <1>0, <1>16, <2>1 DEF Take, TypeOK, totp, clients, totpHistory
<1>17. ASSUME NEW w \in Workers, FinishLogin(w) PROVE TypeInv'
  BY <1>0, <1>17 DEF FinishLogin, TypeOK, totp, ceremonies, clients, totpHistory
<1>18. ASSUME NEW w \in Workers, UpdateSignCount(w) PROVE TypeInv'
  <2>1. req[w].count \in Nat
    BY DEF TypeOK, Request
  <2>2. \A p \in passkeys : [p EXCEPT !.count = req[w].count] \in [key : Authenticators, count : Nat]
    BY <2>1 DEF TypeOK
  <2>3. passkeys' \subseteq [key : Authenticators, count : Nat]
    BY <1>18, <2>2 DEF UpdateSignCount, TypeOK
  <2>4. faults' \in 0..MaxFaults
    BY <1>18, FaultTyped DEF UpdateSignCount, TypeOK
  <2> QED
    BY <1>0, <1>18, <2>3, <2>4 DEF UpdateSignCount, TypeOK, totp, ceremonies, clients, totpHistory
<1>19. ASSUME NEW w \in Workers, ConsumePending(w) PROVE TypeInv'
  <2>1. faults' \in 0..MaxFaults /\ pending' \subseteq Pendings
    BY <1>19, FaultTyped DEF ConsumePending, TypeOK
  <2> QED
    BY <1>0, <1>19, <2>1 DEF ConsumePending, TypeOK, totp, ceremonies, clients, totpHistory
<1>20. ASSUME NEW w \in Workers, MintSession(w) PROVE TypeInv'
  <2>1. redeemed' \in [Numbers -> Nat]
    <3>1. redeemed \in [Numbers -> Nat]
      BY DEF TypeOK
    <3>2. redeemed' = [redeemed EXCEPT ![req[w].challenge] = @ + 1]
      BY <1>20 DEF MintSession
    <3>3. req[w].challenge \in Numbers
      BY <1>20 DEF MintSession, At, Sound, Bearing
    <3> QED
      BY <3>1, <3>2, <3>3
  <2> QED
    BY <1>0, <1>20, <2>1 DEF MintSession, TypeOK, totp, ceremonies, clients, totpHistory
<1>21. CASE ExpireCeremony
  <2>1. registering' \in Numbers \cup {None} /\ asserting' \in [Pendings -> Numbers \cup {None}]
    BY <1>21 DEF ExpireCeremony, TypeOK
  <2> QED
    BY <1>0, <1>21, <2>1 DEF ExpireCeremony, TypeOK, totp, clients, totpHistory
<1>22. ASSUME NEW t \in Pendings, DropPending(t) PROVE TypeInv'
  BY <1>0, <1>22 DEF DropPending, TypeOK, totp, ceremonies, clients, totpHistory
<1>23. ASSUME NEW w \in Workers, StatementFails(w) PROVE TypeInv'
  <2>1. faults' \in 0..MaxFaults
    BY <1>23, FaultTyped DEF StatementFails
  <2> QED
    BY <1>0, <1>23, <2>1 DEF StatementFails, TypeOK, totp, ceremonies, clients, totpHistory
<1>24. CASE Crash
  <2>1. faults' \in 0..MaxFaults
    BY <1>24, FaultTyped DEF Crash
  <2> QED
    BY <1>0, <1>24, <2>1 DEF Crash, TypeOK, totp, clients, totpHistory
<1>25. CASE UNCHANGED vars
  BY <1>0, <1>25 DEF vars, TypeOK, totp, ceremonies, clients, totpHistory
<1> QED
  BY Zenon, <1>1, <1>2, <1>3, <1>4, <1>5, <1>6, <1>7, <1>8, <1>9, <1>10, <1>11, <1>12, <1>13, <1>14,
     <1>15, <1>16, <1>17, <1>18, <1>19, <1>20, <1>21, <1>22, <1>23, <1>24, <1>25
  DEF Next, Enrolment, Passkeys

\* Every variable always has its type, whichever requests run at the same time.
THEOREM Typing == Spec => []TypeOK
<1>1. TypeInv => TypeOK
  BY DEF TypeInv
<1> QED
  BY <1>1, TypeInit, TypeStep, PTL DEF Spec

-----------------------------------------------------------------------------
(* The secret that is enabled.                                             *)

\* Why the enabled secret is proven: a confirm enables the very secret that a
\* code was verified for, whatever is stored by then.
ProvenInv ==
  /\ EnabledSecretIsProven
  /\ \A w \in Workers : req[w].step = "enable" => req[w].secret \in proven

LEMMA ProvenInit == Init => ProvenInv
  BY IdleTyped DEF Init, ProvenInv, EnabledSecretIsProven

\* A step is one of the enrolment, or it takes no request to "enable" and
\* leaves the account's secret alone.
LEMMA EnrolmentOrNot ==
  ASSUME TypeInv, [Next]_vars
  PROVE  \/ TOTPEnroll
         \/ \E w \in Workers : Enrolment(w)
         \/ /\ UNCHANGED <<account, codes, shown, proven, overlapped>>
            /\ \A v \in Workers : req'[v].step \in EnrolmentSteps => req'[v] = req[v]
            /\ \/ faults' # 0
               \/ \A v \in Workers : req[v].step \in EnrolmentSteps => req'[v] = req[v]
<1> DEFINE Quiet ==
      /\ \A v \in Workers : req'[v].step \in EnrolmentSteps => req'[v] = req[v]
      /\ \/ faults' # 0
         \/ \A v \in Workers : req[v].step \in EnrolmentSteps => req'[v] = req[v]
<1>1. ASSUME NEW w \in Workers, Passkeys(w) PROVE Quiet
  <2>1. OthersRest(w) /\ req[w].step \notin EnrolmentSteps /\ req'[w].step \notin EnrolmentSteps
    <3>1. ASSUME NEW r \in responses, WebAuthnRegisterFinish(w, r)
          PROVE  OthersRest(w) /\ req[w].step \notin EnrolmentSteps /\ req'[w].step \notin EnrolmentSteps
      BY <3>1, RegisterFinishOpens DEF Opens, EnrolmentSteps
    <3>2. ASSUME NEW t \in Pendings, WebAuthnLoginBegin(w, t)
          PROVE  OthersRest(w) /\ req[w].step \notin EnrolmentSteps /\ req'[w].step \notin EnrolmentSteps
      BY <3>2, LoginBeginOpens DEF Opens, EnrolmentSteps
    <3>3. ASSUME NEW t \in Pendings, NEW r \in responses, WebAuthnLoginFinish(w, t, r)
          PROVE  OthersRest(w) /\ req[w].step \notin EnrolmentSteps /\ req'[w].step \notin EnrolmentSteps
      BY <3>3, LoginFinishOpens DEF Opens, EnrolmentSteps
    <3>4. CASE AddWebAuthnCredential(w) \/ BeginLogin(w) \/ MintSession(w)
      BY <3>4, EndingSteps, IdleTyped
      DEF AddWebAuthnCredential, BeginLogin, MintSession, At, EnrolmentSteps
    <3>5. CASE Take(w)
      BY <3>5, TakeStep, IdleTyped DEF EnrolmentSteps
    <3>6. CASE FinishLogin(w)
      BY <3>6, FinishLoginStep, IdleTyped DEF EnrolmentSteps
    <3>7. CASE UpdateSignCount(w) \/ ConsumePending(w)
      BY <3>7, LoginSteps DEF EnrolmentSteps
    <3> QED
      BY <1>1, <3>1, <3>2, <3>3, <3>4, <3>5, <3>6, <3>7 DEF Passkeys
  <2> QED
    BY <2>1 DEF OthersRest
<1>2. ASSUME NEW w \in Workers, Passkeys(w)
      PROVE  UNCHANGED <<account, codes, shown, proven, overlapped>>
  BY <1>2 DEF Passkeys, WebAuthnRegisterFinish, AddWebAuthnCredential, WebAuthnLoginBegin,
    BeginLogin, WebAuthnLoginFinish, Take, FinishLogin, UpdateSignCount, ConsumePending,
    MintSession, totp, totpHistory
<1>3. ASSUME NEW w \in Workers, StatementFails(w)
      PROVE  Quiet /\ UNCHANGED <<account, codes, shown, proven, overlapped>>
  <2>1. faults' # 0 /\ UNCHANGED <<account, codes, shown, proven, overlapped>>
    BY <1>3 DEF StatementFails, Fault, totp, totpHistory, TypeInv, TypeOK
  <2>2. OthersRest(w) /\ req'[w] = Idle
    BY <1>3, EndingSteps
  <2> QED
    BY <2>1, <2>2, IdleTyped DEF OthersRest, EnrolmentSteps
<1>4. ASSUME Crash
      PROVE  Quiet /\ UNCHANGED <<account, codes, shown, proven, overlapped>>
  <2>1. faults' # 0 /\ UNCHANGED <<account, codes, shown, proven, overlapped>>
    BY <1>4 DEF Crash, Fault, totp, totpHistory, TypeInv, TypeOK
  <2> QED
    BY <1>4, <2>1, CrashStep, IdleTyped DEF EnrolmentSteps
<1>5. ASSUME UNCHANGED req PROVE Quiet
  BY <1>5
<1>6. \/ TOTPEnroll
      \/ \E w \in Workers : Enrolment(w) \/ Passkeys(w) \/ StatementFails(w)
      \/ Crash
      \/ UNCHANGED <<req, account, codes, shown, proven, overlapped>>
  BY Zenon DEF Next, WebAuthnRegisterBegin, WebAuthnDelete, Sign, ExpireCeremony, DropPending,
    vars, totp, totpHistory
<1> QED
  BY <1>1, <1>2, <1>3, <1>4, <1>5, <1>6

LEMMA ProvenStep == TypeInv /\ ProvenInv /\ [Next]_vars => ProvenInv'
<1> SUFFICES ASSUME TypeInv, ProvenInv, [Next]_vars PROVE ProvenInv'
  OBVIOUS
<1>1. CASE TOTPEnroll
  BY <1>1 DEF TOTPEnroll, ProvenInv, EnabledSecretIsProven
<1>2. ASSUME NEW w \in Workers, TOTPConfirm(w) PROVE ProvenInv'
  <2>1. /\ account' = account /\ proven' = proven \cup {account.secret}
        /\ req'[w].secret = account.secret /\ OthersRest(w)
    BY <1>2, ConfirmOpens DEF TOTPConfirm, totp
  <2> QED
    BY <2>1 DEF ProvenInv, EnabledSecretIsProven, OthersRest
<1>3. ASSUME NEW w \in Workers, TOTPDisable(w) \/ TOTPRecoveryRegenerate(w) PROVE ProvenInv'
  <2>1. req'[w].step # "enable" /\ OthersRest(w)
    BY <1>3, DisableOpens, RegenerateOpens
  <2>2. account' = account /\ proven' = proven
    BY <1>3 DEF TOTPDisable, TOTPRecoveryRegenerate, totp
  <2> QED
    BY <2>1, <2>2 DEF ProvenInv, EnabledSecretIsProven, OthersRest
<1>4. ASSUME NEW w \in Workers, Enable(w) PROVE ProvenInv'
  <2>1. req'[w].step # "enable" /\ OthersRest(w)
    BY <1>4, SecretSteps
  <2>2. account'.secret = req[w].secret /\ proven' = proven /\ req[w].secret \in proven
    BY <1>4 DEF Enable, At, totpHistory, ProvenInv
  <2> QED
    BY <2>1, <2>2 DEF ProvenInv, EnabledSecretIsProven, OthersRest
<1>5. ASSUME NEW w \in Workers, TurnOff(w) PROVE ProvenInv'
  <2>1. req'[w].step # "enable" /\ OthersRest(w)
    BY <1>5, SecretSteps
  <2>2. ~ account'.enabled /\ proven' = proven
    BY <1>5 DEF TurnOff, totpHistory
  <2> QED
    BY <2>1, <2>2 DEF ProvenInv, EnabledSecretIsProven, OthersRest
<1>6. ASSUME NEW w \in Workers, DeleteCodes(w) \/ InsertCode(w) PROVE ProvenInv'
  <2>1. req'[w].step # "enable" /\ OthersRest(w)
    BY <1>6, DeleteCodesStep, InsertCodeStep, IdleTyped
  <2>2. account' = account /\ proven' = proven
    BY <1>6 DEF DeleteCodes, InsertCode
  <2> QED
    BY <2>1, <2>2 DEF ProvenInv, EnabledSecretIsProven, OthersRest
<1>7. CASE /\ UNCHANGED <<account, codes, shown, proven, overlapped>>
           /\ \A v \in Workers : req'[v].step \in EnrolmentSteps => req'[v] = req[v]
  BY <1>7 DEF ProvenInv, EnabledSecretIsProven, EnrolmentSteps
<1> QED
  BY <1>1, <1>2, <1>3, <1>4, <1>5, <1>6, <1>7, EnrolmentOrNot DEF Enrolment

\* The secret that is enabled is one the administrator has proven to hold.
THEOREM OnlyProvenSecrets == Spec => []EnabledSecretIsProven
<1>1. Init => TypeInv /\ ProvenInv
  BY TypeInit, ProvenInit
<1>2. TypeInv /\ ProvenInv /\ [Next]_vars => (TypeInv /\ ProvenInv)'
  BY TypeStep, ProvenStep
<1>3. ProvenInv => EnabledSecretIsProven
  BY DEF ProvenInv
<1> QED
  BY <1>1, <1>2, <1>3, PTL DEF Spec

-----------------------------------------------------------------------------
(* Challenges.                                                             *)

\* A request that has taken challenge c out of the cache.
Holds(w, c) ==
  req[w].step \in {"insert_passkey", "load", "sign_count", "consume", "mint"} /\ req[w].challenge = c

\* Challenge c is in the cache.
Cached(c) == registering = c \/ \E t \in Pendings : asserting[t] = c

\* Requests have numbers of their own, and one that is to make a challenge has
\* not made it yet.
NumbersInv ==
  /\ \A w \in Workers : req[w].step # "idle" => req[w].id <= requests
  /\ \A w, v \in Workers :
       req[w].step # "idle" /\ req[v].step # "idle" /\ w # v => req[w].id # req[v].id
  /\ \A c \in Numbers : c > requests => issued[c] = "none"
  /\ \A w \in Workers : req[w].step = "begin_login" => issued[req[w].id] = "none"

\* A challenge is wherever it is because it was issued for that.
IssuedInv ==
  /\ registering # None => issued[registering] = "register"
  /\ \A t \in Pendings : asserting[t] # None => issued[asserting[t]] = t
  /\ \A w \in Workers : req[w].step \in Bearing => issued[req[w].challenge] # "none"
  /\ \A r \in responses : issued[r.challenge] # "none"
  /\ \A c \in Numbers : redeemed[c] > 0 => issued[c] # "none"

\* A challenge is in the cache, or with one request, or it was redeemed once.
SingleInv ==
  /\ \A c \in Numbers, w \in Workers : Holds(w, c) => ~ Cached(c)
  /\ \A c \in Numbers, w, v \in Workers : Holds(w, c) /\ Holds(v, c) => w = v
  /\ \A c \in Numbers : redeemed[c] > 0 => ~ Cached(c) /\ \A w \in Workers : ~ Holds(w, c)
  /\ ChallengeIsSingleUse

ChallengeInv == NumbersInv /\ IssuedInv /\ SingleInv

LEMMA ChallengeInit == Init => ChallengeInv
<1> SUFFICES ASSUME Init PROVE ChallengeInv
  OBVIOUS
<1>1. /\ \A w \in Workers : req[w] = Idle
      /\ \A c \in Numbers : issued[c] = "none" /\ redeemed[c] = 0
      /\ responses = {} /\ registering = None
      /\ \A t \in Pendings : asserting[t] = None
  BY DEF Init
<1>2. NumbersInv
  BY <1>1, IdleTyped DEF NumbersInv
<1>3. IssuedInv
  BY <1>1, IdleTyped, ConstantTypes DEF IssuedInv, Bearing
<1>4. SingleInv
  BY <1>1, IdleTyped, ConstantTypes DEF SingleInv, Holds, ChallengeIsSingleUse
<1> QED
  BY <1>2, <1>3, <1>4 DEF ChallengeInv

\* A step opens a request, takes one further, takes a number, or stops some.
LEMMA RequestSteps ==
  ASSUME TypeInv, [Next]_vars
  PROVE  \/ \E w \in Workers : OthersRest(w) /\ (Opens(w) \/ GoesOn(w))
         \/ req' = req /\ requests' \in {requests, requests + 1}
         \/ (\A v \in Workers : req'[v] = Idle) /\ requests' = requests
<1>1. ASSUME NEW w \in Workers, Enrolment(w) PROVE OthersRest(w) /\ (Opens(w) \/ GoesOn(w))
  BY <1>1, ConfirmOpens, RegenerateOpens, DisableOpens, SecretSteps, DeleteCodesStep,
     InsertCodeStep
  DEF Enrolment
<1>2. ASSUME NEW w \in Workers, Passkeys(w) PROVE OthersRest(w) /\ (Opens(w) \/ GoesOn(w))
  BY <1>2, RegisterFinishOpens, LoginBeginOpens, LoginFinishOpens, EndingSteps, TakeStep,
     FinishLoginStep, LoginSteps
  DEF Passkeys
<1>3. ASSUME NEW w \in Workers, StatementFails(w) PROVE OthersRest(w) /\ GoesOn(w)
  BY <1>3, EndingSteps
<1>4. CASE TOTPEnroll \/ WebAuthnRegisterBegin
  BY <1>4, NextNumber DEF TOTPEnroll, WebAuthnRegisterBegin, TypeInv
<1>5. CASE Crash
  BY <1>5, CrashStep DEF Crash
<1>6. \/ \E w \in Workers : Enrolment(w) \/ Passkeys(w) \/ StatementFails(w)
      \/ TOTPEnroll \/ WebAuthnRegisterBegin \/ Crash \/ UNCHANGED <<req, requests>>
  BY Zenon DEF Next, WebAuthnDelete, Sign, ExpireCeremony, DropPending, vars
<1> QED
  BY <1>1, <1>2, <1>3, <1>4, <1>5, <1>6

\* Who issues challenges.
LEMMA IssuingSteps ==
  ASSUME TypeInv, [Next]_vars
  PROVE  \/ WebAuthnRegisterBegin \/ (\E w \in Workers : BeginLogin(w)) \/ issued' = issued
  BY Zenon DEF Next, Enrolment, Passkeys, TOTPEnroll, TOTPConfirm, TOTPDisable,
    TOTPRecoveryRegenerate, Enable, TurnOff, DeleteCodes, InsertCode, WebAuthnRegisterFinish,
    AddWebAuthnCredential, WebAuthnLoginBegin, WebAuthnLoginFinish, Take, FinishLogin,
    UpdateSignCount, ConsumePending, MintSession, StatementFails, WebAuthnDelete, Sign,
    ExpireCeremony, DropPending, Crash, vars, clients

LEMMA NumbersStep == TypeInv /\ NumbersInv /\ [Next]_vars => NumbersInv'
<1> SUFFICES ASSUME TypeInv, NumbersInv, [Next]_vars PROVE NumbersInv'
  OBVIOUS
<1>0. /\ requests \in Nat /\ Numbers \subseteq Nat
      /\ \A w \in Workers : req[w].step # "idle" =>
           /\ req[w].id \in Numbers /\ req[w].id \in Nat
           /\ req[w].id <= requests /\ req[w].id <= requests + 1 /\ req[w].id # requests + 1
  <2>1. requests \in Nat /\ Numbers \subseteq Nat
    BY ConstantTypes DEF TypeInv, TypeOK
  <2>2. ASSUME NEW w \in Workers, req[w].step # "idle"
        PROVE  req[w].id \in Numbers /\ req[w].id <= requests
    BY <2>2 DEF TypeInv, Sound, NumbersInv
  <2>3. \A i \in Nat : i <= requests => i <= requests + 1 /\ i # requests + 1
    BY <2>1
  <2> QED
    BY <2>1, <2>2, <2>3
<1>1. /\ \A w \in Workers : req'[w].step # "idle" => req'[w].id <= requests'
      /\ \A w, v \in Workers :
           req'[w].step # "idle" /\ req'[v].step # "idle" /\ w # v => req'[w].id # req'[v].id
      /\ requests' \in {requests, requests + 1}
  <2>1. ASSUME NEW w \in Workers, OthersRest(w), Opens(w)
      PROVE  /\ \A v \in Workers : req'[v].step # "idle" => req'[v].id <= requests'
             /\ \A u, v \in Workers :
                  req'[u].step # "idle" /\ req'[v].step # "idle" /\ u # v => req'[u].id # req'[v].id
             /\ requests' \in {requests, requests + 1}
    <3>1. \A v \in Workers : v # w => req'[v] = req[v]
      BY <2>1 DEF OthersRest
    <3>2. requests' = requests + 1 /\ req'[w].id = requests' /\ requests' <= requests'
      BY <1>0, <2>1 DEF Opens
    <3>3. \A v \in Workers : v # w /\ req'[v].step # "idle" =>
            req'[v].id <= requests' /\ req'[v].id # requests'
      BY <1>0, <3>1, <3>2
    <3> QED
      BY <3>1, <3>2, <3>3 DEF NumbersInv
  <2>2. ASSUME NEW w \in Workers, OthersRest(w), GoesOn(w)
      PROVE  /\ \A v \in Workers : req'[v].step # "idle" => req'[v].id <= requests'
             /\ \A u, v \in Workers :
                  req'[u].step # "idle" /\ req'[v].step # "idle" /\ u # v => req'[u].id # req'[v].id
             /\ requests' \in {requests, requests + 1}
    BY <1>0, <2>2, IdleTyped DEF OthersRest, GoesOn, NumbersInv
  <2>3. ASSUME req' = req, requests' \in {requests, requests + 1}
      PROVE  /\ \A v \in Workers : req'[v].step # "idle" => req'[v].id <= requests'
             /\ \A u, v \in Workers :
                  req'[u].step # "idle" /\ req'[v].step # "idle" /\ u # v => req'[u].id # req'[v].id
             /\ requests' \in {requests, requests + 1}
    <3>1. \A v \in Workers : req[v].step # "idle" => req[v].id <= requests'
      BY <1>0, <2>3
    <3> QED
      BY <2>3, <3>1 DEF NumbersInv
  <2>4. ASSUME \A v \in Workers : req'[v] = Idle, requests' = requests
      PROVE  /\ \A v \in Workers : req'[v].step # "idle" => req'[v].id <= requests'
             /\ \A u, v \in Workers :
                  req'[u].step # "idle" /\ req'[v].step # "idle" /\ u # v => req'[u].id # req'[v].id
             /\ requests' \in {requests, requests + 1}
    BY <2>4, IdleTyped
  <2> QED
    BY <2>1, <2>2, <2>3, <2>4, RequestSteps
<1>2. ASSUME NEW w \in Workers, req'[w].step = "begin_login"
      PROVE  req'[w] = req[w] \/ (req'[w].id = requests' /\ requests' = requests + 1)
  <2>1. ASSUME NEW u \in Workers, OthersRest(u), Opens(u)
        PROVE  req'[w] = req[w] \/ (req'[w].id = requests' /\ requests' = requests + 1)
    BY <2>1 DEF OthersRest, Opens
  <2>2. ASSUME NEW u \in Workers, OthersRest(u), GoesOn(u) PROVE req'[w] = req[w]
    BY <1>2, <2>2, IdleTyped DEF OthersRest, GoesOn
  <2> QED
    BY <1>2, <2>1, <2>2, RequestSteps, IdleTyped
<1>3. /\ \A c \in Numbers : c > requests' => issued'[c] = "none"
      /\ \A w \in Workers : req'[w].step = "begin_login" => issued'[req'[w].id] = "none"
  <2>0. \A w \in Workers : req'[w].step # "idle" => req'[w].id \in Numbers
    BY WellServedAlways DEF WellServed, Sound
  <2>1. CASE issued' = issued
    BY <1>0, <1>1, <1>2, <2>0, <2>1 DEF NumbersInv
  <2>2. CASE WebAuthnRegisterBegin
    <3>1. /\ requests' = requests + 1 /\ requests' \in Numbers /\ req' = req
          /\ issued' = [issued EXCEPT ![requests'] = "register"]
      BY <2>2, NextNumber DEF WebAuthnRegisterBegin, TypeInv
    <3>2. \A c \in Numbers : c # requests' => issued'[c] = issued[c]
      BY <3>1 DEF TypeInv, TypeOK
    <3> QED
      BY <1>0, <3>1, <3>2 DEF NumbersInv
  <2>3. ASSUME NEW w \in Workers, BeginLogin(w)
        PROVE  /\ \A c \in Numbers : c > requests' => issued'[c] = "none"
               /\ \A v \in Workers : req'[v].step = "begin_login" => issued'[req'[v].id] = "none"
    <3>1. /\ req[w].id \in Numbers /\ req[w].id <= requests /\ req[w].step = "begin_login"
          /\ \A c \in Numbers : c # req[w].id => issued'[c] = issued[c]
      BY <1>0, <2>3 DEF BeginLogin, At, NumbersInv, TypeInv, TypeOK
    <3>2. OthersRest(w) /\ req'[w] = Idle /\ requests' = requests
      BY <2>3, EndingSteps DEF BeginLogin
    <3> QED
      BY <1>0, <3>1, <3>2, IdleTyped DEF OthersRest, NumbersInv
  <2> QED
    BY <2>1, <2>2, <2>3, IssuingSteps
<1> QED
  BY <1>1, <1>3 DEF NumbersInv

\* The steps at which a request has taken its challenge.
Holding == {"insert_passkey", "load", "sign_count", "consume", "mint"}

\* No challenge is issued, cached, taken or redeemed.
Still ==
  /\ UNCHANGED <<issued, redeemed, responses>>
  /\ registering' \in {registering, None}
  /\ \A t \in Pendings : asserting'[t] \in {asserting[t], None}
  /\ \A v \in Workers :
       /\ req'[v].step \in Bearing => req[v].step \in Bearing /\ req'[v].challenge = req[v].challenge
       /\ req'[v].step \in Holding => req[v].step \in Holding

LEMMA StillSteps ==
  ASSUME TypeInv, [Next]_vars
  PROVE  \/ WebAuthnRegisterBegin
         \/ \E c \in Numbers, k \in Authenticators : Sign(c, k)
         \/ \E w \in Workers :
              \/ BeginLogin(w) \/ Take(w) \/ AddWebAuthnCredential(w) \/ MintSession(w)
              \/ \E r \in responses : WebAuthnRegisterFinish(w, r)
              \/ \E t \in Pendings, r \in responses : WebAuthnLoginFinish(w, t, r)
         \/ Still
<1> DEFINE Kept ==
      \A v \in Workers :
       /\ req'[v].step \in Bearing => req[v].step \in Bearing /\ req'[v].challenge = req[v].challenge
       /\ req'[v].step \in Holding => req[v].step \in Holding
<1>1. ASSUME NEW w \in Workers, OthersRest(w), req'[w].step \notin Bearing PROVE Kept
  BY <1>1 DEF OthersRest, Bearing, Holding
<1>2. ASSUME NEW w \in Workers, Enrolment(w) PROVE Kept
  <2>1. OthersRest(w) /\ req'[w].step \notin Bearing
    BY <1>2, ConfirmOpens, RegenerateOpens, DisableOpens, SecretSteps, DeleteCodesStep,
       InsertCodeStep, IdleTyped
    DEF Enrolment, Bearing
  <2> QED
    BY <1>1, <2>1
<1>3. ASSUME NEW w \in Workers, NEW t \in Pendings, WebAuthnLoginBegin(w, t) PROVE Kept
  <2>1. OthersRest(w) /\ req'[w].step \notin Bearing
    BY <1>3, LoginBeginOpens DEF Bearing
  <2> QED
    BY <1>1, <2>1
<1>4. ASSUME NEW w \in Workers, FinishLogin(w) PROVE Kept
  BY <1>4, FinishLoginStep, IdleTyped DEF OthersRest, Bearing, Holding
<1>5. ASSUME NEW w \in Workers, UpdateSignCount(w) \/ ConsumePending(w) PROVE Kept
  BY <1>5, LoginSteps DEF OthersRest, Bearing, Holding
<1>6. ASSUME NEW w \in Workers, StatementFails(w) PROVE Kept
  <2>1. OthersRest(w) /\ req'[w].step \notin Bearing
    BY <1>6, EndingSteps, IdleTyped DEF Bearing
  <2> QED
    BY <1>1, <2>1
<1>7. CASE Crash
  BY <1>7, CrashStep, IdleTyped DEF Crash, Still, Bearing, Holding, clients, TypeInv, TypeOK
<1>8. CASE ExpireCeremony
  BY <1>8 DEF ExpireCeremony, Still, Holding, clients, TypeInv, TypeOK
<1> DEFINE Frame == UNCHANGED <<issued, redeemed, responses, registering, asserting>>
<1>9. Frame /\ Kept => Still
  BY DEF Still
<1>10. ASSUME NEW w \in Workers, Enrolment(w) \/ StatementFails(w) PROVE Frame
  BY <1>10 DEF Enrolment, TOTPConfirm, TOTPDisable, TOTPRecoveryRegenerate, Enable, TurnOff,
    DeleteCodes, InsertCode, StatementFails, ceremonies, clients
<1>11. ASSUME NEW w \in Workers,
              \/ \E t \in Pendings : WebAuthnLoginBegin(w, t)
              \/ FinishLogin(w) \/ UpdateSignCount(w) \/ ConsumePending(w)
       PROVE  Frame
  BY <1>11 DEF WebAuthnLoginBegin, FinishLogin, UpdateSignCount, ConsumePending, ceremonies, clients
<1>12. ASSUME TOTPEnroll \/ (\E p \in passkeys : WebAuthnDelete(p))
              \/ (\E t \in Pendings : DropPending(t)) \/ UNCHANGED vars
       PROVE  Frame /\ UNCHANGED req
  BY <1>12 DEF TOTPEnroll, WebAuthnDelete, DropPending, ceremonies, clients, vars
<1>13. UNCHANGED req => Kept
  OBVIOUS
<1> HIDE DEF Frame, Kept
<1> QED
  BY <1>2, <1>3, <1>4, <1>5, <1>6, <1>7, <1>8, <1>9, <1>10, <1>11, <1>12, <1>13 DEF Next, Passkeys

\* A challenge that was not issued is nowhere.
LEMMA Unissued ==
  ASSUME TypeInv, ChallengeInv, NEW c \in Numbers, issued[c] = "none"
  PROVE  /\ ~ Cached(c) /\ redeemed[c] = 0
         /\ \A w \in Workers : ~ Holds(w, c) /\ (req[w].step \in Bearing => req[w].challenge # c)
         /\ \A r \in responses : r.challenge # c
<1>1. registering # c
  BY ConstantTypes DEF ChallengeInv, IssuedInv
<1>2. \A t \in Pendings : asserting[t] # c
  BY ConstantTypes DEF ChallengeInv, IssuedInv
<1>3. redeemed[c] = 0
  BY DEF ChallengeInv, IssuedInv, TypeInv, TypeOK
<1>4. \A w \in Workers : req[w].step \in Bearing => req[w].challenge # c
  BY DEF ChallengeInv, IssuedInv
<1>5. \A r \in responses : r.challenge # c
  BY DEF ChallengeInv, IssuedInv
<1> QED
  BY <1>1, <1>2, <1>3, <1>4, <1>5 DEF Cached, Holds, Bearing

\* A new challenge is cached where it belongs and is nowhere else.
LEMMA ChallengeIssued ==
  ASSUME TypeInv, ChallengeInv, NEW c \in Numbers, issued[c] = "none",
         NEW i \in Pendings \cup {"register"}, issued' = [issued EXCEPT ![c] = i],
         i = "register" => registering' = c /\ asserting' = asserting,
         i # "register" => registering' = registering /\ asserting' = [asserting EXCEPT ![i] = c],
         UNCHANGED <<redeemed, responses>>,
         \A v \in Workers : req'[v] = req[v] \/ req'[v] = Idle
  PROVE  IssuedInv' /\ SingleInv'
<1>1. /\ ~ Cached(c) /\ redeemed[c] = 0
      /\ \A w \in Workers : ~ Holds(w, c) /\ (req[w].step \in Bearing => req[w].challenge # c)
      /\ \A r \in responses : r.challenge # c
  BY Unissued
<1>2. issued'[c] = i /\ \A d \in Numbers : d # c => issued'[d] = issued[d]
  BY DEF TypeInv, TypeOK
<1>3. i # "none" /\ None \notin Numbers
  BY ConstantTypes
<1>4. /\ registering' # None => issued'[registering'] = "register"
      /\ \A t \in Pendings : asserting'[t] # None => issued'[asserting'[t]] = t
  <2>1. CASE i = "register"
    <3>1. \A t \in Pendings : asserting[t] # c
      BY <1>1 DEF Cached
    <3> QED
      BY <1>2, <2>1, <3>1 DEF ChallengeInv, IssuedInv, TypeInv, TypeOK
  <2>2. CASE i # "register"
    <3>1. registering # c /\ \A t \in Pendings : asserting[t] # c
      BY <1>1 DEF Cached
    <3>2. asserting'[i] = c /\ \A t \in Pendings : t # i => asserting'[t] = asserting[t]
      BY <2>2 DEF TypeInv, TypeOK
    <3> QED
      BY <1>2, <2>2, <3>1, <3>2 DEF ChallengeInv, IssuedInv, TypeInv, TypeOK
  <2> QED
    BY <2>1, <2>2
<1>5. \A d \in Numbers : Cached(d)' => Cached(d) \/ d = c
  BY ConstantTypes DEF Cached, TypeInv, TypeOK
<1>6. \A w \in Workers, d \in Numbers : Holds(w, d)' => Holds(w, d)
  BY IdleTyped DEF Holds
<1>7. /\ \A w \in Workers : req'[w].step \in Bearing => issued'[req'[w].challenge] # "none"
      /\ \A r \in responses : issued'[r.challenge] # "none"
      /\ \A d \in Numbers : redeemed[d] > 0 => issued'[d] # "none"
  <2>1. \A w \in Workers : req'[w].step \in Bearing => req'[w] = req[w]
    BY IdleTyped DEF Bearing
  <2>2. \A w \in Workers : req[w].step \in Bearing =>
          req[w].challenge \in Numbers /\ issued[req[w].challenge] # "none"
    BY DEF TypeInv, Sound, ChallengeInv, IssuedInv
  <2>3. \A r \in responses : r.challenge \in Numbers /\ issued[r.challenge] # "none"
    BY DEF TypeInv, TypeOK, ChallengeInv, IssuedInv
  <2> QED
    BY <1>2, <1>3, <2>1, <2>2, <2>3 DEF ChallengeInv, IssuedInv
<1>8. IssuedInv'
  BY <1>4, <1>7 DEF IssuedInv
<1>9. SingleInv'
  BY <1>1, <1>5, <1>6 DEF ChallengeInv, SingleInv, ChallengeIsSingleUse, TypeInv, TypeOK
<1> QED
  BY <1>8, <1>9

\* A challenge that is taken by w is nowhere else.
LEMMA ChallengeTaken ==
  ASSUME TypeInv, ChallengeInv, NEW w \in Workers, NEW c \in Numbers, Cached(c), ~ Cached(c)',
         UNCHANGED <<issued, redeemed, responses>>,
         registering' \in {registering, None},
         \A t \in Pendings : asserting'[t] \in {asserting[t], None},
         OthersRest(w), req'[w].step \in Bearing => req'[w].challenge = c
  PROVE  IssuedInv' /\ SingleInv'
<1>1. issued[c] # "none"
  BY ConstantTypes DEF Cached, ChallengeInv, IssuedInv
<1>2. IssuedInv'
  <2>1. \A v \in Workers : req'[v].step \in Bearing => issued[req'[v].challenge] # "none"
    BY <1>1 DEF OthersRest, ChallengeInv, IssuedInv
  <2> QED
    BY <2>1 DEF ChallengeInv, IssuedInv
<1>3. /\ \A v \in Workers : ~ Holds(v, c)
      /\ ~ (redeemed[c] > 0)
  BY DEF ChallengeInv, SingleInv
<1>4. \A d \in Numbers : Cached(d)' => Cached(d) /\ d # c
  BY ConstantTypes DEF Cached
<1>5. \A v \in Workers, d \in Numbers : Holds(v, d)' => Holds(v, d) \/ (v = w /\ d = c)
  BY DEF Holds, OthersRest, Bearing
<1>6. /\ \A d \in Numbers, v \in Workers : Holds(v, d)' => ~ Cached(d)'
      /\ \A d \in Numbers, v, u \in Workers : Holds(v, d)' /\ Holds(u, d)' => v = u
      /\ \A d \in Numbers : redeemed[d] > 0 => ~ Cached(d)' /\ \A v \in Workers : ~ Holds(v, d)'
  BY <1>3, <1>4, <1>5 DEF ChallengeInv, SingleInv
<1>7. SingleInv'
  BY <1>6 DEF ChallengeInv, SingleInv, ChallengeIsSingleUse
<1> QED
  BY <1>2, <1>7

\* A challenge that w has taken is redeemed by it, once.
LEMMA ChallengeRedeemed ==
  ASSUME TypeInv, ChallengeInv, NEW w \in Workers, NEW c \in Numbers, Holds(w, c),
         \/ redeemed' = redeemed
         \/ redeemed' = [redeemed EXCEPT ![c] = @ + 1],
         UNCHANGED <<issued, responses, registering, asserting>>,
         OthersRest(w), req'[w] = Idle
  PROVE  IssuedInv' /\ SingleInv'
<1>1. issued[c] # "none"
  BY DEF Holds, Bearing, ChallengeInv, IssuedInv
<1>2. /\ ~ Cached(c) /\ ~ (redeemed[c] > 0) /\ redeemed[c] = 0
      /\ \A v \in Workers : Holds(v, c) => v = w
  BY DEF ChallengeInv, SingleInv, TypeInv, TypeOK
<1>3. \A d \in Numbers : d # c => redeemed'[d] = redeemed[d]
  BY DEF TypeInv, TypeOK
<1>4. redeemed'[c] <= 1
  BY <1>2 DEF TypeInv, TypeOK
<1>5. \A v \in Workers, d \in Numbers : Holds(v, d)' => Holds(v, d) /\ v # w
  BY IdleTyped DEF Holds, OthersRest
<1>6. \A d \in Numbers : Cached(d)' <=> Cached(d)
  BY DEF Cached
<1>7. IssuedInv'
  <2>1. \A v \in Workers : req'[v].step \in Bearing => issued[req'[v].challenge] # "none"
    BY IdleTyped DEF OthersRest, Bearing, ChallengeInv, IssuedInv
  <2>2. \A d \in Numbers : redeemed'[d] > 0 => issued[d] # "none"
    BY <1>1, <1>3 DEF ChallengeInv, IssuedInv
  <2> QED
    BY <2>1, <2>2 DEF ChallengeInv, IssuedInv
<1>8. /\ \A d \in Numbers, v \in Workers : Holds(v, d)' => ~ Cached(d)'
      /\ \A d \in Numbers, v, u \in Workers : Holds(v, d)' /\ Holds(u, d)' => v = u
      /\ \A d \in Numbers : redeemed'[d] > 0 => ~ Cached(d)' /\ \A v \in Workers : ~ Holds(v, d)'
  BY <1>2, <1>3, <1>5, <1>6 DEF ChallengeInv, SingleInv
<1>9. \A d \in Numbers : redeemed'[d] <= 1
  BY <1>3, <1>4 DEF ChallengeInv, SingleInv, ChallengeIsSingleUse
<1> QED
  BY <1>7, <1>8, <1>9 DEF SingleInv, ChallengeIsSingleUse

LEMMA ChallengeStep == TypeInv /\ ChallengeInv /\ [Next]_vars => ChallengeInv'
<1> SUFFICES ASSUME TypeInv, ChallengeInv, [Next]_vars PROVE ChallengeInv'
  OBVIOUS
<1>1. NumbersInv'
  BY NumbersStep DEF ChallengeInv
<1>2. CASE WebAuthnRegisterBegin
  <2>1. requests' = requests + 1 /\ requests' \in Numbers /\ requests \in Nat
    BY <1>2, NextNumber DEF WebAuthnRegisterBegin, TypeInv
  <2>2. issued[requests'] = "none"
    BY <2>1 DEF ChallengeInv, NumbersInv
  <2>3. /\ issued' = [issued EXCEPT ![requests'] = "register"] /\ registering' = requests'
        /\ UNCHANGED <<asserting, redeemed, responses, req>>
    BY <1>2 DEF WebAuthnRegisterBegin
  <2>4. IssuedInv' /\ SingleInv'
    BY <2>1, <2>2, <2>3, ChallengeIssued
  <2> QED
    BY <1>1, <2>4 DEF ChallengeInv
<1>3. ASSUME NEW w \in Workers, BeginLogin(w) PROVE ChallengeInv'
  <2> DEFINE c == req[w].id
             t == req[w].token
  <2>1. /\ c \in Numbers /\ t \in Pendings /\ issued[c] = "none" /\ t # "register"
    BY <1>3, ConstantTypes DEF BeginLogin, At, TypeInv, Sound, ChallengeInv, NumbersInv
  <2>2. OthersRest(w) /\ req'[w] = Idle
    BY <1>3, EndingSteps
  <2>3. UNCHANGED <<redeemed, responses, registering>>
    BY <1>3 DEF BeginLogin
  <2>4. CASE UNCHANGED <<asserting, issued>>
    <3>1. IssuedInv' /\ SingleInv'
      BY <2>2, <2>3, <2>4, IdleTyped
      DEF OthersRest, Bearing, ChallengeInv, IssuedInv, SingleInv, Holds, Cached,
        ChallengeIsSingleUse
    <3> QED
      BY <1>1, <3>1 DEF ChallengeInv
  <2>5. CASE /\ asserting' = [asserting EXCEPT ![t] = c]
             /\ issued' = [issued EXCEPT ![c] = t]
    <3> HIDE DEF c, t
    <3>1. IssuedInv' /\ SingleInv'
      BY <2>1, <2>2, <2>3, <2>5, ChallengeIssued DEF OthersRest
    <3> QED
      BY <1>1, <3>1 DEF ChallengeInv
  <2> QED
    BY <1>3, <2>4, <2>5 DEF BeginLogin
<1>4. ASSUME NEW w \in Workers, NEW r \in responses, WebAuthnRegisterFinish(w, r) PROVE ChallengeInv'
  <2>1. /\ UNCHANGED <<issued, redeemed, responses, asserting>> /\ registering' = None
        /\ issued[r.challenge] = "register" /\ r.challenge \in Numbers
    BY <1>4 DEF WebAuthnRegisterFinish, clients, TypeInv, TypeOK
  <2>2. /\ OthersRest(w)
        /\ \/ req'[w].step = "idle"
           \/ /\ req'[w].step = "insert_passkey" /\ req'[w].challenge = r.challenge
              /\ registering = r.challenge
    BY <1>4, RegisterFinishOpens
  <2>3. CASE req'[w].step = "idle"
    <3>1. /\ \A v \in Workers : req'[v].step \in Bearing => req'[v] = req[v]
          /\ \A v \in Workers, c \in Numbers : Holds(v, c)' => Holds(v, c)
          /\ \A c \in Numbers : Cached(c)' => Cached(c)
      BY <2>1, <2>2, <2>3, ConstantTypes DEF OthersRest, Bearing, Holds, Cached
    <3>2. IssuedInv'
      BY <2>1, <3>1 DEF ChallengeInv, IssuedInv
    <3>3. SingleInv'
      BY <2>1, <3>1 DEF ChallengeInv, SingleInv, ChallengeIsSingleUse
    <3> QED
      BY <1>1, <3>2, <3>3 DEF ChallengeInv
  <2>4. CASE req'[w].challenge = r.challenge /\ registering = r.challenge
    <3>1. Cached(r.challenge)
      BY <2>4 DEF Cached
    <3>2. ~ Cached(r.challenge)'
      BY <2>1, ConstantTypes DEF Cached, ChallengeInv, IssuedInv
    <3>3. IssuedInv' /\ SingleInv'
      BY <2>1, <2>2, <2>4, <3>1, <3>2, ChallengeTaken
    <3> QED
      BY <1>1, <3>3 DEF ChallengeInv
  <2> QED
    BY <2>2, <2>3, <2>4
<1>5. ASSUME NEW w \in Workers, NEW t \in Pendings, NEW r \in responses,
             WebAuthnLoginFinish(w, t, r)
      PROVE  ChallengeInv'
  <2>1. /\ UNCHANGED <<issued, redeemed, responses, asserting, registering>>
        /\ issued[r.challenge] # "none"
    BY <1>5, ConstantTypes DEF WebAuthnLoginFinish, ceremonies, clients
  <2>2. OthersRest(w) /\ req'[w].step = "take" /\ req'[w].challenge = r.challenge
    BY <1>5, LoginFinishOpens
  <2>3. /\ \A v \in Workers, c \in Numbers : Holds(v, c)' => Holds(v, c)
        /\ \A c \in Numbers : Cached(c)' => Cached(c)
    BY <2>1, <2>2 DEF OthersRest, Holds, Cached
  <2>4. IssuedInv'
    BY <2>1, <2>2 DEF ChallengeInv, IssuedInv, OthersRest
  <2>5. SingleInv'
    BY <2>1, <2>3 DEF ChallengeInv, SingleInv, ChallengeIsSingleUse
  <2> QED
    BY <1>1, <2>4, <2>5 DEF ChallengeInv
<1>6. ASSUME NEW w \in Workers, Take(w) PROVE ChallengeInv'
  <2>1. /\ OthersRest(w) /\ req[w].step = "take" /\ req[w].token \in Pendings
        /\ req[w].challenge \in Numbers
        /\ asserting' = [asserting EXCEPT ![req[w].token] = None]
        /\ \/ req'[w] = Idle
           \/ /\ req'[w].step = "load" /\ req'[w].challenge = req[w].challenge
              /\ asserting[req[w].token] = req[w].challenge
    BY <1>6, TakeStep
  <2>2. UNCHANGED <<issued, redeemed, responses, registering>>
    BY <1>6 DEF Take, clients
  <2>3. /\ asserting'[req[w].token] = None
        /\ \A t \in Pendings : asserting'[t] \in {asserting[t], None}
    BY <2>1 DEF TypeInv, TypeOK
  <2>4. CASE req'[w] = Idle
    <3>1. /\ \A v \in Workers : req'[v].step \in Bearing => req'[v] = req[v]
          /\ \A v \in Workers, c \in Numbers : Holds(v, c)' => Holds(v, c)
          /\ \A c \in Numbers : Cached(c)' => Cached(c)
      BY <2>1, <2>2, <2>3, <2>4, ConstantTypes, IdleTyped DEF OthersRest, Bearing, Holds, Cached
    <3>2. IssuedInv'
      BY <2>2, <2>3, <3>1 DEF ChallengeInv, IssuedInv
    <3>3. SingleInv'
      BY <2>2, <3>1 DEF ChallengeInv, SingleInv, ChallengeIsSingleUse
    <3> QED
      BY <1>1, <3>2, <3>3 DEF ChallengeInv
  <2>5. CASE /\ req'[w].challenge = req[w].challenge
             /\ asserting[req[w].token] = req[w].challenge
    <3>1. Cached(req[w].challenge)
      BY <2>1, <2>5 DEF Cached
    <3>2. PICK c \in Numbers : c = req[w].challenge
      BY <2>1
    <3>3. ~ Cached(c)'
      BY <2>1, <2>2, <2>3, <2>5, <3>2, ConstantTypes DEF Cached, ChallengeInv, IssuedInv
    <3>4. IssuedInv' /\ SingleInv'
      BY <2>1, <2>2, <2>3, <2>5, <3>1, <3>2, <3>3, ChallengeTaken
    <3> QED
      BY <1>1, <3>4 DEF ChallengeInv
  <2> QED
    BY <2>1, <2>4, <2>5
<1>7. ASSUME NEW w \in Workers, AddWebAuthnCredential(w) \/ MintSession(w) PROVE ChallengeInv'
  <2>1. OthersRest(w) /\ req'[w] = Idle
    BY <1>7, EndingSteps
  <2>2. PICK c \in Numbers : c = req[w].challenge
    BY <1>7 DEF AddWebAuthnCredential, MintSession, At, TypeInv, Sound, Bearing
  <2>3. /\ Holds(w, c) /\ UNCHANGED <<issued, responses, registering, asserting>>
        /\ \/ redeemed' = redeemed
           \/ redeemed' = [redeemed EXCEPT ![c] = @ + 1]
    BY <1>7, <2>2 DEF AddWebAuthnCredential, MintSession, At, Holds, ceremonies, clients
  <2>4. IssuedInv' /\ SingleInv'
    BY <2>1, <2>3, ChallengeRedeemed
  <2> QED
    BY <1>1, <2>4 DEF ChallengeInv
<1>8. ASSUME NEW c \in Numbers, NEW k \in Authenticators, Sign(c, k) PROVE ChallengeInv'
  <2>1. UNCHANGED <<issued, redeemed, req, registering, asserting>>
    BY <1>8 DEF Sign, ceremonies
  <2>2. \A r \in responses' : issued[r.challenge] # "none"
    BY <1>8 DEF Sign, Begun, ChallengeInv, IssuedInv
  <2>3. IssuedInv'
    BY <2>1, <2>2 DEF ChallengeInv, IssuedInv
  <2>4. SingleInv'
    BY <2>1 DEF ChallengeInv, SingleInv, Holds, Cached, ChallengeIsSingleUse
  <2> QED
    BY <1>1, <2>3, <2>4 DEF ChallengeInv
<1>9. CASE Still
  <2>1. IssuedInv'
    BY <1>9 DEF Still, ChallengeInv, IssuedInv
  <2>2. /\ \A v \in Workers, c \in Numbers : Holds(v, c)' => Holds(v, c)
        /\ \A c \in Numbers : Cached(c)' => Cached(c)
    BY <1>9, ConstantTypes DEF Still, Holds, Holding, Bearing, Cached
  <2>3. SingleInv'
    BY <1>9, <2>2 DEF Still, ChallengeInv, SingleInv, ChallengeIsSingleUse
  <2> QED
    BY <1>1, <2>1, <2>3 DEF ChallengeInv
<1> QED
  BY <1>2, <1>3, <1>4, <1>5, <1>6, <1>7, <1>8, <1>9, StillSteps

\* No challenge leads to two sessions, two passkeys or one of each.
THEOREM SingleUse == Spec => []ChallengeIsSingleUse
<1>1. Init => TypeInv /\ ChallengeInv
  BY TypeInit, ChallengeInit
<1>2. TypeInv /\ ChallengeInv /\ [Next]_vars => (TypeInv /\ ChallengeInv)'
  BY TypeStep, ChallengeStep
<1>3. ChallengeInv => ChallengeIsSingleUse
  BY DEF ChallengeInv, SingleInv
<1> QED
  BY <1>1, <1>2, <1>3, PTL DEF Spec

-----------------------------------------------------------------------------
(* Recovery codes.                                                         *)

Enrolling(w) == req[w].step \in EnrolmentSteps

\* One request at a time works on the enrolment.
AloneInv == \A w, v \in Workers : Enrolling(w) /\ Enrolling(v) => w = v

\* The codes are those of one set, and the set that is shown is all there; the
\* set a request is at work on is the only one.
SetInv ==
  /\ \A c, d \in codes : c.set = d.set
  /\ shown # None => \A n \in 1..CodesPerSet : \E c \in codes : c.set = shown /\ c.n = n
  /\ \A w \in Workers : req[w].step = "insert_code" =>
       /\ shown = None
       /\ \A c \in codes : c.set = req[w].id /\ c.secret = req[w].secret
       /\ \A n \in 1..req[w].n : \E c \in codes : c.n = n

\* The codes fit the account: when nobody works on the enrolment, or else once
\* the request that does is through.
FitInv ==
  /\ (\A w \in Workers : ~ Enrolling(w)) =>
       (account.enabled => shown # None /\ \A c \in codes : c.secret = account.secret)
  /\ (\A w \in Workers : ~ Enrolling(w) \/ req[w].step = "enable") =>
       (account.secret = None => codes = {})
  /\ \A w \in Workers : req[w].step \in {"delete_codes", "insert_code"} =>
       IF req[w].secret = None
         THEN ~ account.enabled
         ELSE account.secret # None /\ (account.enabled => account.secret = req[w].secret)

CodesInv == ~ overlapped => AloneInv /\ SetInv /\ (faults = 0 => FitInv)

LEMMA CodesInit == Init => CodesInv
<1> SUFFICES ASSUME Init PROVE CodesInv
  OBVIOUS
<1>1. /\ codes = {} /\ shown = None /\ account.enabled = FALSE
      /\ \A w \in Workers : req[w] = Idle
  BY DEF Init
<1>2. AloneInv /\ FitInv
  BY <1>1, IdleTyped DEF AloneInv, FitInv, Enrolling, EnrolmentSteps
<1>3. SetInv
  BY <1>1, IdleTyped DEF SetInv
<1> QED
  BY <1>2, <1>3 DEF CodesInv

\* Steps that leave the codes alone and leave requests on the enrolment as they
\* are, or stop them with a failure.
LEMMA CodesRest ==
  ASSUME CodesInv, UNCHANGED <<account, codes, shown, overlapped>>,
         faults' = 0 => faults = 0,
         \A v \in Workers : req'[v].step \in EnrolmentSteps => req'[v] = req[v],
         \/ faults' # 0
         \/ \A v \in Workers : req[v].step \in EnrolmentSteps => req'[v] = req[v]
  PROVE  CodesInv'
<1> SUFFICES ASSUME ~ overlapped PROVE AloneInv' /\ SetInv' /\ (faults' = 0 => FitInv')
  BY DEF CodesInv
<1>1. AloneInv'
  BY DEF CodesInv, AloneInv, Enrolling
<1>2. SetInv'
  BY DEF CodesInv, SetInv, EnrolmentSteps
<1>3. ASSUME faults' = 0 PROVE FitInv'
  <2>1. FitInv /\ \A v \in Workers : req[v].step \in EnrolmentSteps => req'[v] = req[v]
    BY <1>3 DEF CodesInv
  <2>2. \A v \in Workers : Enrolling(v)' => Enrolling(v) /\ req'[v] = req[v]
    BY DEF Enrolling
  <2>3. \A v \in Workers : Enrolling(v) => Enrolling(v)'
    BY <2>1 DEF Enrolling
  <2>4. \A v \in Workers : req[v].step = "enable" => req'[v].step = "enable"
    BY <2>1 DEF EnrolmentSteps
  <2>5. \A v \in Workers : req'[v].step \in {"delete_codes", "insert_code"} => req'[v] = req[v]
    BY DEF EnrolmentSteps
  <2> QED
    BY <2>1, <2>2, <2>3, <2>4, <2>5 DEF FitInv
<1> QED
  BY <1>1, <1>2, <1>3

\* A request on the enrolment that begins while no other is under way.
LEMMA AloneStarts ==
  ASSUME CodesInv, NEW w \in Workers, OthersRest(w), Opens(w),
         UNCHANGED <<account, codes, shown, faults>>,
         overlapped' = (overlapped \/ \E v \in Workers : req[v].step \in EnrolmentSteps),
         \/ req'[w].step = "turn_off"
         \/ req'[w].step = "enable"
         \/ /\ req'[w].step = "delete_codes"
            /\ req'[w].secret = account.secret /\ account.secret # None
  PROVE  CodesInv'
<1> SUFFICES ASSUME ~ overlapped' PROVE AloneInv' /\ SetInv' /\ (faults = 0 => FitInv')
  BY DEF CodesInv
<1>1. ~ overlapped /\ \A v \in Workers : ~ Enrolling(v)
  BY DEF Enrolling
<1>2. AloneInv'
  BY <1>1 DEF AloneInv, Enrolling, OthersRest
<1>3. SetInv'
  BY <1>1 DEF CodesInv, SetInv, OthersRest
<1>4. ASSUME faults = 0 PROVE FitInv'
  <2>1. FitInv
    BY <1>1, <1>4 DEF CodesInv
  <2>2. Enrolling(w)'
    BY DEF Enrolling, EnrolmentSteps
  <2>3. \A v \in Workers : v # w => req'[v].step \notin {"delete_codes", "insert_code"}
    BY <1>1 DEF OthersRest, Enrolling, EnrolmentSteps
  <2> QED
    BY <1>1, <2>1, <2>2, <2>3 DEF FitInv
<1> QED
  BY <1>2, <1>3, <1>4

LEMMA CodesStep == TypeInv /\ ProvenInv /\ CodesInv /\ [Next]_vars => CodesInv'
<1> SUFFICES ASSUME TypeInv, ProvenInv, CodesInv, [Next]_vars PROVE CodesInv'
  OBVIOUS
<1>0. account.enabled => account.secret \in Numbers /\ account.secret # None
  BY ConstantTypes DEF TypeInv, TypeOK, ProvenInv, EnabledSecretIsProven
<1>1. CASE TOTPEnroll
  <2>1. /\ UNCHANGED <<codes, shown, overlapped, faults, req>>
        /\ account'.enabled = FALSE /\ account'.secret = requests' /\ requests' \in Numbers
    BY <1>1, NextNumber DEF TOTPEnroll, TypeInv
  <2>2. account'.secret # None
    BY <2>1, ConstantTypes
  <2>3. FitInv'
    BY <2>1, <2>2 DEF FitInv
  <2> QED
    BY <2>1, <2>3 DEF CodesInv, AloneInv, SetInv, Enrolling
<1>2. ASSUME NEW w \in Workers, TOTPConfirm(w) PROVE CodesInv'
  <2>1. UNCHANGED <<account, codes, shown, faults>>
    BY <1>2 DEF TOTPConfirm, totp
  <2> QED
    BY <1>2, <2>1, ConfirmOpens, AloneStarts
<1>3. ASSUME NEW w \in Workers, TOTPDisable(w) PROVE CodesInv'
  <2>1. UNCHANGED <<account, codes, shown, faults>>
    BY <1>3 DEF TOTPDisable, totp
  <2> QED
    BY <1>3, <2>1, DisableOpens, AloneStarts
<1>4. ASSUME NEW w \in Workers, TOTPRecoveryRegenerate(w) PROVE CodesInv'
  <2>1. UNCHANGED <<account, codes, shown, faults>> /\ account.secret # None
    BY <1>0, <1>4 DEF TOTPRecoveryRegenerate, totp
  <2> QED
    BY <1>4, <2>1, RegenerateOpens, AloneStarts
<1> DEFINE Sole(w) == \A v \in Workers : v # w => ~ Enrolling(v) /\ ~ Enrolling(v)'
<1>5. ASSUME NEW w \in Workers, ~ overlapped, OthersRest(w), Enrolling(w) PROVE Sole(w)
  BY <1>5 DEF CodesInv, AloneInv, OthersRest, Enrolling
<1>6. ASSUME NEW w \in Workers, Enable(w) \/ TurnOff(w) PROVE CodesInv'
  <2>1. /\ UNCHANGED <<codes, shown, overlapped, faults>>
        /\ req[w].step \in {"enable", "turn_off"}
        /\ OthersRest(w) /\ req'[w].step = "delete_codes" /\ req'[w].secret = req[w].secret
    BY <1>6, SecretSteps DEF Enable, TurnOff, At, totpHistory
  <2> SUFFICES ASSUME ~ overlapped PROVE AloneInv' /\ SetInv' /\ (faults = 0 => FitInv')
    BY <2>1 DEF CodesInv
  <2>2. Sole(w)
    BY <1>5, <2>1 DEF Enrolling, EnrolmentSteps
  <2>3. AloneInv'
    BY <2>2 DEF AloneInv
  <2>4. SetInv'
    BY <2>1 DEF CodesInv, SetInv, OthersRest
  <2>5. IF req[w].secret = None THEN ~ account'.enabled
        ELSE account'.secret # None /\ (account'.enabled => account'.secret = req[w].secret)
    <3>1. CASE Enable(w)
      <4>1. account'.secret = req[w].secret /\ req[w].secret \in proven
        BY <3>1 DEF Enable, At, ProvenInv
      <4>2. req[w].secret # None
        BY <4>1, ConstantTypes DEF TypeInv, TypeOK
      <4> QED
        BY <4>1, <4>2
    <3>2. CASE TurnOff(w)
      <4>1. account'.enabled = FALSE
        BY <3>2 DEF TurnOff
      <4>2. req[w].secret = None
        BY <3>2 DEF TurnOff, At, TypeInv, Sound
      <4> QED
        BY <4>1, <4>2
    <3> QED
      BY <1>6, <3>1, <3>2
  <2>6. FitInv'
    <3>1. Enrolling(w)' /\ req'[w].step # "enable"
      BY <2>1 DEF Enrolling, EnrolmentSteps
    <3>2. \A v \in Workers : req'[v].step \in {"delete_codes", "insert_code"} => v = w
      BY <2>2 DEF Enrolling, EnrolmentSteps
    <3> QED
      BY <2>1, <2>5, <3>1, <3>2 DEF FitInv
  <2> QED
    BY <2>3, <2>4, <2>6
<1>7. ASSUME NEW w \in Workers, DeleteCodes(w) PROVE CodesInv'
  <2>1. /\ UNCHANGED <<account, overlapped, faults>> /\ codes' = {} /\ shown' = None
        /\ OthersRest(w) /\ req[w].step = "delete_codes"
        /\ req[w].secret = None => req'[w] = Idle
        /\ req[w].secret # None => /\ req'[w].step = "insert_code" /\ req'[w].n = 0
                                   /\ req'[w].secret = req[w].secret
    BY <1>7, DeleteCodesStep DEF DeleteCodes
  <2> SUFFICES ASSUME ~ overlapped PROVE AloneInv' /\ SetInv' /\ (faults = 0 => FitInv')
    BY <2>1 DEF CodesInv
  <2>2. Sole(w)
    BY <1>5, <2>1 DEF Enrolling, EnrolmentSteps
  <2>3. AloneInv'
    BY <2>2 DEF AloneInv
  <2>4. SetInv'
    <3>1. \A v \in Workers : req'[v].step = "insert_code" => req'[v].n = 0
      BY <2>1, <2>2, IdleTyped DEF Enrolling, EnrolmentSteps
    <3>2. \A v \in Workers : req'[v].step = "insert_code" =>
            \A m \in 1..req'[v].n : \E c \in codes' : c.n = m
      BY <3>1
    <3> QED
      BY <2>1, <3>2 DEF SetInv
  <2>5. ASSUME faults = 0 PROVE FitInv'
    <3>1. IF req[w].secret = None THEN ~ account.enabled
          ELSE account.secret # None /\ (account.enabled => account.secret = req[w].secret)
      BY <2>1, <2>5 DEF CodesInv, FitInv
    <3>2. \A v \in Workers : req'[v].step \in {"delete_codes", "insert_code"} => v = w
      BY <2>2 DEF Enrolling, EnrolmentSteps
    <3>3. CASE req[w].secret = None
      BY <2>1, <3>1, <3>2, <3>3, IdleTyped DEF FitInv
    <3>4. CASE req[w].secret # None
      <4>1. Enrolling(w)'
        BY <2>1, <3>4 DEF Enrolling, EnrolmentSteps
      <4> QED
        BY <2>1, <3>1, <3>2, <3>4, <4>1 DEF FitInv
    <3> QED
      BY <3>3, <3>4
  <2> QED
    BY <2>3, <2>4, <2>5
<1>8. ASSUME NEW w \in Workers, InsertCode(w) PROVE CodesInv'
  <2> DEFINE n == req[w].n + 1
             code == [set |-> req[w].id, n |-> n, secret |-> req[w].secret]
  <2>1. /\ OthersRest(w) /\ req[w].step = "insert_code"
        /\ req[w].id \in Numbers /\ req[w].secret \in Numbers
        /\ n \in 1..CodesPerSet
        /\ codes' = codes \cup {code}
        /\ \/ /\ req'[w].step = "insert_code" /\ req'[w].n = n
              /\ req'[w].id = req[w].id /\ req'[w].secret = req[w].secret
              /\ shown' = shown
           \/ /\ req'[w] = Idle /\ shown' = req[w].id /\ n = CodesPerSet
    BY <1>8, InsertCodeStep
  <2>2. UNCHANGED <<account, overlapped, faults>> /\ req[w].n \in Nat
    BY <1>8 DEF InsertCode, TypeInv, TypeOK, Request
  <2> SUFFICES ASSUME ~ overlapped PROVE AloneInv' /\ SetInv' /\ (faults = 0 => FitInv')
    BY <2>2 DEF CodesInv
  <2>3. Sole(w)
    BY <1>5, <2>1 DEF Enrolling, EnrolmentSteps
  <2>4. AloneInv'
    BY <2>3 DEF AloneInv
  <2>5. /\ shown = None
        /\ \A c \in codes : c.set = req[w].id /\ c.secret = req[w].secret
        /\ \A m \in 1..req[w].n : \E c \in codes : c.n = m
    BY <2>1 DEF CodesInv, SetInv
  <2>6. /\ \A c \in codes' : c.set = req[w].id /\ c.secret = req[w].secret
        /\ \A m \in 1..n : \E c \in codes' : c.set = req[w].id /\ c.n = m
    <3>1. code.set = req[w].id /\ code.n = n /\ code.secret = req[w].secret
      OBVIOUS
    <3> HIDE DEF code
    <3>2. \A c \in codes' : c.set = req[w].id /\ c.secret = req[w].secret
      BY <2>1, <2>5, <3>1
    <3>3. \A m \in 1..n : m \in 1..req[w].n \/ m = n
      BY <2>2
    <3> HIDE DEF n
    <3>4. code \in codes' /\ \A c \in codes : c \in codes'
      BY <2>1
    <3>5. \A m \in 1..req[w].n : \E c \in codes' : c.n = m
      BY <2>5, <3>4
    <3>6. \A m \in 1..n : \E c \in codes' : c.n = m
      BY <3>1, <3>3, <3>4, <3>5
    <3> QED
      BY <3>2, <3>6
  <2> HIDE DEF n, code
  <2>7. SetInv'
    <3>1. \A v \in Workers : req'[v].step = "insert_code" => v = w
      BY <2>3 DEF Enrolling, EnrolmentSteps
    <3>2. CASE /\ req'[w].step = "insert_code" /\ req'[w].n = n
               /\ req'[w].id = req[w].id /\ req'[w].secret = req[w].secret
               /\ shown' = shown
      BY <2>5, <2>6, <3>1, <3>2 DEF SetInv
    <3>3. CASE req'[w] = Idle /\ shown' = req[w].id /\ n = CodesPerSet
      BY <2>6, <3>1, <3>3, IdleTyped DEF SetInv
    <3> QED
      BY <2>1, <3>2, <3>3
  <2>8. ASSUME faults = 0 PROVE FitInv'
    <3>1. account.secret # None /\ (account.enabled => account.secret = req[w].secret)
      <4>1. req[w].secret # None
        BY <2>1, ConstantTypes
      <4> QED
        BY <2>1, <2>8, <4>1 DEF CodesInv, FitInv
    <3>2. \A v \in Workers : req'[v].step \in {"delete_codes", "insert_code"} => v = w
      BY <2>3 DEF Enrolling, EnrolmentSteps
    <3>3. CASE req'[w].step = "insert_code" /\ req'[w].secret = req[w].secret
      <4>1. Enrolling(w)'
        BY <3>3 DEF Enrolling, EnrolmentSteps
      <4>2. req'[w].secret # None
        BY <2>1, <3>3, ConstantTypes
      <4> QED
        BY <2>2, <3>1, <3>2, <3>3, <4>1, <4>2 DEF FitInv
    <3>4. CASE req'[w] = Idle /\ shown' = req[w].id
      <4>1. shown' # None
        BY <2>1, <3>4, ConstantTypes
      <4>2. account'.enabled => \A c \in codes' : c.secret = account'.secret
        BY <2>2, <2>6, <3>1
      <4> QED
        BY <2>2, <3>1, <3>2, <3>4, <4>1, <4>2, IdleTyped DEF FitInv
    <3> QED
      BY <2>1, <3>3, <3>4
  <2> QED
    BY <2>4, <2>7, <2>8
<1>9. CASE /\ UNCHANGED <<account, codes, shown, proven, overlapped>>
           /\ \A v \in Workers : req'[v].step \in EnrolmentSteps => req'[v] = req[v]
           /\ \/ faults' # 0
              \/ \A v \in Workers : req[v].step \in EnrolmentSteps => req'[v] = req[v]
  <2>1. faults' = 0 => faults = 0
    <3>1. faults' = faults \/ faults' = faults + 1
      BY Zenon DEF Next, Enrolment, Passkeys, TOTPEnroll, TOTPConfirm, TOTPDisable,
        TOTPRecoveryRegenerate, Enable, TurnOff, DeleteCodes, InsertCode, WebAuthnRegisterBegin,
        WebAuthnRegisterFinish, AddWebAuthnCredential, WebAuthnLoginBegin, BeginLogin,
        WebAuthnLoginFinish, Take, FinishLogin, UpdateSignCount, ConsumePending, MintSession,
        StatementFails, WebAuthnDelete, Sign, ExpireCeremony, DropPending, Crash, Fault, vars
    <3> QED
      BY <3>1 DEF TypeInv, TypeOK
  <2> QED
    BY <1>9, <2>1, CodesRest
<1> QED
  BY <1>1, <1>2, <1>3, <1>4, <1>6, <1>7, <1>8, <1>9, EnrolmentOrNot DEF Enrolment

\* Unless requests on the enrolment overlapped, the codes in the table are of
\* one set, those that were shown are all there, and when nothing failed or is
\* under way they fit the account.
THEOREM CodesAreShown == Spec => []CodesAreThoseShown
<1>1. Init => TypeInv /\ ProvenInv /\ CodesInv
  BY TypeInit, ProvenInit, CodesInit
<1>2. TypeInv /\ ProvenInv /\ CodesInv /\ [Next]_vars => (TypeInv /\ ProvenInv /\ CodesInv)'
  BY TypeStep, ProvenStep, CodesStep
<1>3. CodesInv => CodesAreThoseShown
  <2> SUFFICES ASSUME CodesInv, ~ overlapped PROVE CodesAreThoseShown
    BY DEF CodesAreThoseShown
  <2>1. SetInv /\ (faults = 0 => FitInv)
    BY DEF CodesInv
  <2>2. faults = 0 /\ (\A w \in Workers : req[w].step \notin EnrolmentSteps) =>
          /\ account.enabled => shown # None /\ \A c \in codes : c.secret = account.secret
          /\ account.secret = None => codes = {}
    BY <2>1 DEF FitInv, Enrolling
  <2> QED
    BY <2>1, <2>2 DEF SetInv, CodesAreThoseShown
<1> QED
  BY <1>1, <1>2, <1>3, PTL DEF Spec
=============================================================================
