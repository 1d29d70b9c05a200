--------------------------- MODULE SSOCredential ---------------------------
(***************************************************************************)
(* The webmail credential behind single sign-on and scheduled sends.       *)
(*   internal/api/auth_sso.go            ssoWebmailCredential              *)
(*   internal/api/apikeys.go             recoverAppPwID, listAppPwByName,  *)
(*                                       deleteAppPwByName                 *)
(*   internal/domainadmin/store.go       sso_mailbox_credential            *)
(*                                                                         *)
(* One mailbox: names, list calls and the cache row are all per mailbox.   *)
(* Callers are concurrent requests (SSO callbacks, the send dispatcher);   *)
(* each statement on the database and each call to mailcow is one step.    *)
(* mailcow itself is external: it is the set of app-passwords that exist   *)
(* under the name "mailfold-sso:<mailbox>".                                *)
(*                                                                         *)
(* The names of definitions are this module's own, so that SSOProofs can   *)
(* extend it beside SSOFlow.                                               *)
(***************************************************************************)
EXTENDS Naturals, FiniteSets

CONSTANTS
  Callers,     \* concurrent executions of ssoWebmailCredential
  Keys,        \* the values MAILFOLD_ADMIN_ENC_KEY is ever set to
  MaxMints,    \* bound on app-passwords ever created
  MaxFailures, \* bound on failed calls to mailcow or the database
  MaxRestarts, \* bound on process restarts
  MaxByHand    \* bound on app-passwords deleted in mailcow by somebody else

ASSUME BoundsAssumption ==
  MaxMints \in Nat /\ MaxFailures \in Nat /\ MaxRestarts \in Nat /\ MaxByHand \in Nat

VARIABLES
  upstream,   \* ids of the app-passwords mailcow holds under the SSO name
  minted,     \* history: how many were ever created; ids are 1..minted
  cache,      \* the sso_mailbox_credential row, or NoRow
  masterKey,  \* MAILFOLD_ADMIN_ENC_KEY of the running process
  pc,         \* where each caller is
  mine,       \* the app-password each caller created (its id stands for it)
  listed,     \* the ids each caller's last list call returned
  result,     \* what each caller's last call returned: 0 is an error
  compensated, \* history: <<id, key>>, deleted by name by a call under this key
  byHand,     \* history: ids somebody else deleted
  failures,   \* history: failed calls so far
  restarts    \* history: restarts so far

credVars == <<upstream, minted, cache, masterKey, pc, mine, listed, result, compensated,
              byHand, failures, restarts>>

-----------------------------------------------------------------------------
Passwords == 1..MaxMints
NoPassword == 0

\* app_passwd_id, the password under app_passwd_enc, the key it is sealed with.
NothingCached == [id |-> 0, pw |-> NoPassword, key |-> 0]

Steps == {"idle", "add", "recover", "store", "list_own", "delete_own"}

CredInit ==
  /\ upstream = {}
  /\ minted = 0
  /\ cache = NothingCached
  /\ masterKey \in Keys
  /\ pc = [c \in Callers |-> "idle"]
  /\ mine = [c \in Callers |-> NoPassword]
  /\ listed = [c \in Callers |-> {}]
  /\ result = [c \in Callers |-> NoPassword]
  /\ compensated = {}
  /\ byHand = {}
  /\ failures = 0
  /\ restarts = 0

\* The cached row exists and the master key still opens it.
Opens(row) == row # NothingCached /\ row.key = masterKey

goto(c, step) == pc' = [pc EXCEPT ![c] = step]

\* The call ends and returns password pw, or an error (NoPassword).
return(c, pw) ==
  /\ goto(c, "idle")
  /\ result' = [result EXCEPT ![c] = pw]

\* A call to mailcow or the database fails.
CallFails ==
  /\ failures < MaxFailures
  /\ failures' = failures + 1

-----------------------------------------------------------------------------
\* Mutant: a row that does not open is an error.
Lookup_FailsOnRotation(c) ==
  /\ pc[c] = "idle"
  /\ \/ /\ cache # NothingCached
        /\ return(c, IF Opens(cache) THEN cache.pw ELSE NoPassword)
        /\ UNCHANGED failures
     \/ /\ cache = NothingCached
        /\ minted < MaxMints
        /\ goto(c, "add")
        /\ UNCHANGED <<result, failures>>
     \/ CallFails /\ return(c, NoPassword)
  /\ UNCHANGED <<upstream, minted, cache, masterKey, mine, listed, compensated, byHand, restarts>>

\* GetMailboxCredential and Open: a usable row is returned; a missing row, or
\* one sealed with another master key, leads to minting; a failed query is an
\* error.
Lookup(c) ==
  /\ pc[c] = "idle"
  /\ \/ Opens(cache) /\ return(c, cache.pw) /\ UNCHANGED failures
     \/ /\ ~ Opens(cache)
        /\ minted < MaxMints
        /\ goto(c, "add")
        /\ UNCHANGED <<result, failures>>
     \/ CallFails /\ return(c, NoPassword)
  /\ UNCHANGED <<upstream, minted, cache, masterKey, mine, listed, compensated, byHand, restarts>>

\* AddAppPassword.  When it fails the caller gives up at once - also when
\* mailcow did create the password and only the answer was lost.
AddAppPassword(c) ==
  /\ pc[c] = "add"
  /\ minted < MaxMints
  /\ \/ /\ minted' = minted + 1
        /\ upstream' = upstream \cup {minted'}
        /\ mine' = [mine EXCEPT ![c] = minted']
        /\ goto(c, "recover")
        /\ UNCHANGED <<result, failures>>
     \/ /\ CallFails
        /\ return(c, NoPassword)
        /\ \/ UNCHANGED <<minted, upstream>>
           \/ minted' = minted + 1 /\ upstream' = upstream \cup {minted'}
        /\ UNCHANGED mine
  /\ UNCHANGED <<cache, masterKey, listed, compensated, byHand, restarts>>

\* Exactly one password has the name.
NameIsUnique == \E id \in upstream : upstream = {id}

\* Mutant: the row is written before the name is known to be unique.
recoverAppPwID_CachesFirst(c) ==
  /\ pc[c] = "recover"
  /\ listed' = [listed EXCEPT ![c] = upstream]
  /\ cache' = [id |-> mine[c], pw |-> mine[c], key |-> masterKey]
  /\ \/ NameIsUnique /\ goto(c, "store") /\ UNCHANGED failures
     \/ ~ NameIsUnique /\ goto(c, "list_own") /\ UNCHANGED failures
     \/ CallFails /\ goto(c, "list_own")
  /\ UNCHANGED <<upstream, minted, masterKey, mine, result, compensated, byHand, restarts>>

\* recoverAppPwID: the id is taken only if the name is there exactly once,
\* otherwise (or when the list call fails) the mint is compensated.
recoverAppPwID(c) ==
  /\ pc[c] = "recover"
  /\ listed' = [listed EXCEPT ![c] = upstream]
  /\ \/ NameIsUnique /\ goto(c, "store") /\ UNCHANGED failures
     \/ ~ NameIsUnique /\ goto(c, "list_own") /\ UNCHANGED failures
     \/ CallFails /\ goto(c, "list_own")
  /\ UNCHANGED <<upstream, minted, cache, masterKey, mine, result, compensated, byHand, restarts>>

\* Seal and SetMailboxCredential.  When sealing fails the mint is compensated;
\* when the statement fails the error is returned without compensation.
SetMailboxCredential(c) ==
  /\ pc[c] = "store"
  /\ \/ /\ cache' = [id |-> CHOOSE id \in listed[c] : TRUE, pw |-> mine[c], key |-> masterKey]
        /\ return(c, mine[c])
        /\ UNCHANGED failures
     \/ /\ CallFails
        /\ \/ return(c, NoPassword)
           \/ goto(c, "list_own") /\ UNCHANGED result
        /\ UNCHANGED cache
  /\ UNCHANGED <<upstream, minted, masterKey, mine, listed, compensated, byHand, restarts>>

\* deleteAppPwByName, first call: list the name.
ListOwn(c) ==
  /\ pc[c] = "list_own"
  /\ \/ /\ upstream # {}
        /\ listed' = [listed EXCEPT ![c] = upstream]
        /\ goto(c, "delete_own")
        /\ UNCHANGED <<result, failures>>
     \/ /\ upstream = {}
        /\ return(c, NoPassword)
        /\ UNCHANGED <<listed, failures>>
     \/ /\ CallFails
        /\ return(c, NoPassword)
        /\ UNCHANGED listed
  /\ UNCHANGED <<upstream, minted, cache, masterKey, mine, compensated, byHand, restarts>>

\* Mutant: only the password minted by this call is deleted.
DeleteListed_OnlyMine(c) ==
  /\ pc[c] = "delete_own"
  /\ return(c, NoPassword)
  /\ \/ upstream' = upstream \ {mine[c]} /\ UNCHANGED failures
     \/ CallFails /\ UNCHANGED upstream
  /\ compensated' = compensated \cup {<<mine[c], masterKey>>}
  /\ UNCHANGED <<minted, cache, masterKey, mine, listed, byHand, restarts>>

\* deleteAppPwByName, second call: delete everything that was listed.  The
\* call may fail, before mailcow did it or after.
DeleteListed(c) ==
  /\ pc[c] = "delete_own"
  /\ return(c, NoPassword)
  /\ \/ upstream' = upstream \ listed[c] /\ UNCHANGED failures
     \/ CallFails /\ upstream' \in {upstream, upstream \ listed[c]}
  /\ compensated' = compensated \cup (listed[c] \X {masterKey})
  /\ UNCHANGED <<minted, cache, masterKey, mine, listed, byHand, restarts>>

\* Somebody deletes one of the app-passwords in mailcow, or through the
\* panel's list of app-passwords.
DeleteAtMailcow ==
  /\ Cardinality(byHand) < MaxByHand
  /\ \E id \in upstream : /\ upstream' = upstream \ {id}
                          /\ byHand' = byHand \cup {id}
  /\ UNCHANGED <<minted, cache, masterKey, pc, mine, listed, result, compensated,
                 failures, restarts>>

\* The process restarts, with the key it had or with another one, which may
\* be an earlier one set back; calls under way die wherever they are.
Restart ==
  /\ restarts < MaxRestarts
  /\ restarts' = restarts + 1
  /\ masterKey' \in Keys
  /\ pc' = [c \in Callers |-> "idle"]
  /\ mine' = [c \in Callers |-> NoPassword]
  /\ listed' = [c \in Callers |-> {}]
  /\ result' = [c \in Callers |-> NoPassword]
  /\ UNCHANGED <<upstream, minted, cache, compensated, byHand, failures>>

-----------------------------------------------------------------------------
Call(c) ==
  \/ Lookup(c)
  \/ AddAppPassword(c)
  \/ recoverAppPwID(c)
  \/ SetMailboxCredential(c)
  \/ ListOwn(c)
  \/ DeleteListed(c)

CredNext == (\E c \in Callers : Call(c)) \/ DeleteAtMailcow \/ Restart

CredSpec == CredInit /\ [][CredNext]_credVars

\* Users keep signing in, and each call's HTTP requests and statements end
\* (the mailcow client has a timeout of 30 seconds).
CredFairSpec == CredSpec /\ \A c \in Callers : WF_credVars(Call(c))

-----------------------------------------------------------------------------
\* Every variable has its type.
CredTypeOK ==
  /\ upstream \subseteq 1..minted
  /\ minted \in 0..MaxMints
  /\ cache \in [id : 0..MaxMints, pw : 0..MaxMints, key : Keys \cup {0}]
  /\ masterKey \in Keys
  /\ pc \in [Callers -> Steps]
  /\ mine \in [Callers -> 0..MaxMints]
  /\ listed \in [Callers -> SUBSET Passwords]
  /\ result \in [Callers -> 0..MaxMints]
  /\ compensated \subseteq Passwords \X Keys
  /\ byHand \subseteq Passwords
  /\ failures \in 0..MaxFailures
  /\ restarts \in 0..MaxRestarts

\* "ssoWebmailCredential returns a working IMAP/SMTP credential": what later
\* calls are handed from the cache exists at mailcow, whatever calls failed
\* and processes died.  Nothing asks mailcow before handing it out and nothing
\* ever refreshes a row that opens, so two things take it away: somebody
\* deletes the password there, or a sign-in under another master key, which
\* could not open the row, deletes everything of the name, and the key is then
\* set back.  A sign-in never deletes what its own key opens.
CachedCredentialWorks ==
  Opens(cache) => \/ cache.pw \in upstream \cup byHand
                  \/ \E k \in Keys \ {cache.key} : <<cache.pw, k>> \in compensated

\* The id kept for the cached password is that password's, unless somebody
\* deleted that password while its id was looked up by name.
CachedIdIsItsOwn == cache.id = cache.pw \/ cache.pw \in byHand

\* A sign-in that ends in an error though nothing failed - the first one after
\* the master key was rotated, whose fresh password shares its name with the
\* old one - leaves nothing of the name at mailcow, so that the next mints.
FailedLoginClearsTheName ==
  [][\A c \in Callers :
       pc[c] # "idle" /\ pc'[c] = "idle" /\ result'[c] = NoPassword
         /\ restarts' = restarts /\ failures' = 0
       => upstream' = {}]_credVars

\* Whatever failed calls, lost answers, restarts and changes of the key left
\* behind at mailcow, the compensating deletes clear it and a mailbox that
\* keeps being signed in to ends up with a cached credential that opens.
EventuallyCached == <>[]Opens(cache)
=============================================================================
