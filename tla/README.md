# Mailfold: a TLA+ verification project

Mailfold is a Go backend (`src/backend`) with a React front end in front of a
mailcow mail server: an administration panel, a webmail client, single sign-on
for both, API keys for programs, scheduled sending, shared mailboxes, web push
and CalDAV/CardDAV. The backend is one process with a SQL database beside it
(SQLite here; a PostgreSQL driver can be registered). It keeps state in three places that fail
independently: its own memory, its tables, and mailcow. Nearly everything that
is hard to get right here comes from an operation that touches two of them, in
several statements or calls, while other requests, the background goroutines, or
the death of the process fall in between.

The modules in this directory model those operations statement by statement.
TLC checks them on small instances; TLAPS proves every invariant and action
property the runs check for every value of the constants.

## 1. The system

### Components

| Component | State it keeps | Operations | Interacts with |
| --- | --- | --- | --- |
| Scheduled send (`internal/scheduledsend`, `api/webmail_scheduled.go`) | table `scheduled_send`; the batch the dispatcher goroutine holds | create, list, cancel; claim, send, save, mark; sweep at startup | SSO credential (dispatcher calls `ssoWebmailCredential`), SMTP, IMAP |
| SSO webmail credential (`api/auth_sso.go`) | table `sso_mailbox_credential`; the app-passwords at mailcow | look up, mint, recover the id, store, compensate | mailcow; used by the SSO callback and by the dispatcher |
| API keys, device login (`api/apikeys.go`, `internal/apikey`) | table `api_key`; the app-password of each key at mailcow | create, list, revoke, authenticate, device login | mailcow; webmail sessions (a device login keeps the app-password) |
| Administrator sign-in (`internal/auth`, `internal/admin`, `api/auth.go`, `api/account*.go`) | password in memory and in `admin_account`; pending logins and sessions in memory or in `session_token`; `admin_recovery_code`; `admin_reset_token` | login, second step, logout, list and revoke sessions, change password, reset | rate limiter in front; session store shared with domain admins and webmail |
| Rate limiter (`internal/ratelimit`) | a map of windows | `Allow`, `GC` | in front of login, reset, API keys |
| Second factor (`api/account_totp.go`, `api/webauthn.go`) | `admin_account` columns, recovery codes, passkeys, the ceremony cache | enrol, confirm, disable, regenerate, register and use passkeys | administrator sign-in |
| Webmail sessions (`internal/webmail/session.go`, `api/webmail.go`, `api/webmail_totp.go`) | sessions and redemption tokens in memory or in `session_token`, sealed passwords | create, get, take, delete, collect; mailbox second factor | IMAP, API keys, SSO callback |
| Shared mailboxes (`internal/sharedmailbox`, `api/shared_mailboxes_admin.go`, `api/webmail_shared.go`) | four tables; an app-password per shared mailbox | create, delete, members, assignments, drafts | mailcow, webmail sessions |
| Web push (`internal/webpush`, `api/webmail_push.go`) | subscriptions with a UID baseline, VAPID keys | subscribe, unsubscribe, poll and notify | IMAP, push services |
| SSO flow and providers (`api/sso.go`, `api/sso_providers.go`) | pending states, the cache of provider runtimes, provider tables | start, callback, provider CRUD | identity providers, SSO credential |
| Domain admins (`internal/domainadmin`) | credentials; sessions in memory or table | login, logout, CRUD | session store |
| Calendar (`api/calendar.go`, `internal/dav`) | `calendar_objects`: one iCalendar object per row | list, create, edit, answer, delete by the web page; get, put, delete by CalDAV | the two write the same rows |
| Contacts, DAV sign-in (`internal/dav`, `api/dav.go`) | contact objects; cache of checked passwords | CardDAV | mailcow (password check) |
| mailcow proxy, audit, alerts, metrics, DNS, configuration, front end | none between two requests (audit is append-only) | forwarding, recording | |

### What is hard

* **Three stores, no transaction across them.** A create at mailcow, the id
  recovered from a list call, a row in a table; compensation by name when a
  later step fails. Answers get lost; the process dies in between.
* **Concurrent requests on shared rows.** Some statements are guarded
  (`WHERE status = 'pending'`, `WHERE used_at = 0`), some are not (`MarkSent` by id,
  the UPDATE of a reset token).
* **Memory and table hold the same thing twice.** The administrator's password
  is in both; sessions are in one or the other.
* **Background goroutines.** The dispatcher's ticker, the ten-minute collector,
  the push poll. A restart does not wait for them.
* **Time in whole seconds.** Tables store seconds, the code compares instants,
  and the clock is read before the lock.

The complete list, each at its source line and with the properties aimed at it,
is `hazards` in `PROJECT.json`.

## 2. The modules

| Module | Models | Abstracts |
| --- | --- | --- |
| `Outbox` | what send-later promises for each message (abstract specification) | table, dispatcher, clock, process |
| `ScheduledSend` | the table, the two handlers, the dispatcher loop, crash, restart and sweep | contents and validation of a message |
| `SSOCredential` | `ssoWebmailCredential` for one mailbox, a step per call and statement | contents of passwords: an app-password is its id |
| `ApiKeys` | create with compensation, revoke, authenticate, device login | token hashing, scopes, `last_used` |
| `AdminSession` | login in two steps, sessions, password change, reset links | bcrypt, TOTP arithmetic, client metadata, limiter and audit |
| `RateLimiter` | `Allow` and `GC`, the clock read before the mutex | retry-after |
| `SecondFactor` | the administrator's enrolment, recovery codes and passkeys | TOTP arithmetic, the cipher, what a pending token is worth (`AdminSession`) |
| `WebmailSession` | a mailbox user's login, second factor and sessions, in the table or in memory | IMAP, the contents of a session, signatures |
| `SharedMailbox` | sharing, un-sharing, members, activation, assignments, notes | listings, message contents |
| `SSOFlow` | providers, their runtime cache, the redirect flow | OIDC cryptography, the credential of the session (`SSOCredential`) |
| `WebPush` | subscriptions, the poller of several instances, the VAPID pair | encryption of the payload, IMAP but for `CheckSince` |
| `Calendar` | one calendar under web pages and a CalDAV client, with the edits of an iCalendar object | texts, dates, encoding of iCalendar |
| `MC...` | the sets TLC may permute, and records a `.cfg` cannot write | |
| `AdminSessionProofs`, `WebmailSessionProofs`, `WebPushProofs`, `SecondFactorProofs`, `SharedMailboxProofs` | theorems and proofs of the module they are named after | |
| `ApiAccessProofs` | theorems and proofs of `ApiKeys` and of `RateLimiter`, which it extends side by side: what a request with an API key passes | |
| `SSOProofs` | theorems and proofs of `SSOFlow` and of `SSOCredential`, side by side in the same way: the two halves of single sign-on | |
| `MailboxDataProofs` | theorems and proofs of `ScheduledSend` and of `Calendar`: what a mailbox leaves with the server, to be sent later or to be looked up | |

Conventions. An action is one SQL statement, one critical section, one
upstream call, or a run of code with none of these, named after the function it
belongs to; a handler with several is a program counter (`phase`, `pc`, `create`,
`revoker`, `worker`) that the handler's actions move on. A request the code
refuses changes nothing and is usually left out. Variables commented `history`
are not in the program: they record what properties need to speak of (what was
submitted, who was answered what, which failures happened). An operator whose
name has the form `Name_Variant` directly before `Name` and is commented
*Mutant* is a plausible bug used to test that a property notices it; no
specification uses it.

### ScheduledSend

`table` is the table; `now` is `time.Now()` in ticks, of which `TicksPerSecond` make a
stored second (`Unix`). `phase`, `batch` and `pos` are the local state of
`DispatchScheduledSends`: `ClaimDue` is one transaction, then for each row
`ResolveCredential`, `Send`, `SaveToSent` and `MarkSent` or `MarkFailed`. `Send` may fail,
succeed, or succeed and report failure (the error of QUIT). `Crash` stops the
process anywhere; `Restart` runs the one sweep (`ResetStale`). The same actions
describe a graceful stop, since `app.Run` does not wait for the dispatcher.

*Refinement.* `ImplementsOutbox` maps each row's `status` to an `Outbox` message's
state. A step of `Outbox` moves any number of independent messages at once,
because a claim and the sweep do.

### SSOCredential

One mailbox: names, list calls and the row are per mailbox, so mailboxes do not
interact. `upstream` is what mailcow holds under `mailfold-sso:<mailbox>`; an
answer may be lost after the creation. `Restart` kills calls and gives the process
any of the `Keys`, the one it had, a new one, after which a stored row does not open,
or an earlier one set back, after which it opens again. `DeleteAtMailcow` is somebody
who deletes an app-password in mailcow or in the panel's list, at most `MaxByHand`
times. Nothing tells the row. Its names are its own
(`CredSpec`, `CredTypeOK`, `failures`...), as those of `Calendar` and `RateLimiter` are,
so that one module of proofs can extend it beside another component.

### ApiKeys

A key `k` stands for its row, its name and the app-password created for it (names
carry the random key id, so keys never share one). `create[k]` walks through
`handleAPIKeyCreate`, `revoker[v]` through `handleAPIKeyRevoke`, `request[r]` is a request
between reading the record and using it. `gone` is the set of creates whose
client disconnected: its context cancels the upstream calls, the compensating
ones as well, but not the statements.

### AdminSession

`worker[w]` is where goroutine `w` is in its request. `stored` says whether the
session table could be opened at startup: with it each operation on tokens is a
statement that may fail, without it a critical section that cannot but whose
maps die with the process. `enrolled` says whether the account has a second
factor and is fixed in a behaviour; of the second factors only codes are
modelled, so the code step stands for TOTP and recovery codes. `memHash` and `dbHash`
are the two copies of the password. That the session table opens at one start
and fails to open at the next is not modelled.

### RateLimiter

Its names are its own (`LimiterSpec`, `LimiterTypeOK`, `clock`...), so that
`ApiAccessProofs` can extend it beside `ApiKeys`.

`waiting[g]` holds the clock value a goroutine has read and not yet used under the
mutex; `sweeper` the same for `GC`. `stall` bounds how far the clock moves between
the two; it is one of `0..MaxStall` and fixed in a behaviour, so that one run
covers goroutines that decide at once and goroutines that are overtaken. How far
matters. A goroutine that comes with the time of an earlier window puts that
window's start back into the map, and after the collector has dropped the entry
it opens one of its own. With stalls of nearly a window an interval as long as a
window can meet four windows and admit four budgets, although `GC` and `Allow` are both right
about the clock they read. `BudgetIsKept` therefore promises three
budgets for stalls up to a third of the window, and the proof shows that this
much is enough.
`unswept` is the map as it would be without the collector.

### SharedMailbox

`shared`, `members`, `assignments` and `notes` are the four tables, `upstream` the
app-passwords at mailcow. `req[w]` is where request `w` is. An id is the
largest one plus one, as SQLite gives them out, so a deleted id comes back: much
of the module's history (`late`, `grants`) tells rows of a mailbox from rows of the
one that had its id before. What the code does and the properties step around:

* Removing a member keeps the tasks assigned to it and the sessions it opened.
* A request that read a mailbox goes on by its id. An un-share that overlaps an
  un-share and a new share of the same id deletes the new one's rows.
* Two creates of one mailbox that overlap share an app-password name; the
  compensation of the one that fails deletes the password of the other.
* A note is checked by its author and deleted by its id; two deletes of one note,
  with a note added between them, delete somebody else's.

### SecondFactor

`account`, `codes` and `passkeys` are the tables, `registering` and `asserting` the
ceremony cache. `registering` is one slot for all registrations, since they share the key
`register`: the comment at `webauthn.go:192` says that this keeps concurrent enrolments
from clobbering each other's challenge, but a second begin replaces the
first one's, and the finish of the first takes away the second's. Nobody gains a
passkey by it; an enrolment fails and has to be repeated. A set of recovery codes
is replaced by a DELETE and one INSERT per code, so that overlapping requests mix
their sets (`overlapped`).

### WebmailSession

`rows` is `session_token` and `memory` the maps used when there is no master key.
Without a key there is no second factor to verify either: an account enrolled
under a key that is then taken away gets a pending token nobody can redeem. `Restart`
may come back with any key or none. `Sessions.Take`, which reads
and then deletes in two steps although its comment promises that two redemptions
cannot both succeed, has no caller outside the tests and is left out. A failed read
of the account counts as "no second factor", by a comment's choice.

### SSOFlow

An *issuer* stands for what a runtime is built from. `req[w]` is a change of a
provider or a callback, `pending` and `runtimes` are the manager's two maps; discovery,
exchange and scope check are steps of their own. What the code does and the
properties step around:

* `runtimeFor` reads the row, discovers and then fills the cache. When an update
  invalidates in between, the old configuration is cached after the
  invalidation and stays (`crossed`), against the comment at `sso_providers.go:160`.
* Two overlapping edits insert the same domain; the primary key makes one fail
  after it has changed the row and before it invalidates (`overlapped`).
* Ids come back after a deletion: ownership is checked on the row that was
  read, and the change is by id (`reused`).

### WebPush

`poller[i]` is the start-up and the sweep of instance `i`: `todo` is the snapshot of the
rows still to be polled. An inbox is the set of the UIDs in it, with the highest one
ever given out (`given`): mail comes (`Deliver`) and is deleted or moved away
(`Expunge`) at any time. `CheckSince` is two steps: `CheckOne` is its SELECT, which
tells UIDNEXT, whether or not that message still exists (`Highest`); `Fetch` is its
FETCH of `sinceUID+1:*`, where `*` is the last message there is (`Fetched`). What the
code does and the properties step around:

* When everything above the stored UID was deleted, `n:*` names the last message
  left, and that one is announced again (`LastAgain`), against the comment at
  `client.go:178`.
* A message that comes between SELECT and FETCH is announced, and is above the UID
  that is then stored: the next sweep announces it again (`early`).

* `last_uid` 0 means both "never swept" and "swept when the inbox was empty", so the
  first mail of an empty inbox is taken for the baseline and not announced.
* Any error of the IMAP check removes the subscription, a transient one too.
* A browser that subscribes again while a sweep holds its old row may be
  removed by that sweep, or get the UID of its old subscription, against
  the comment at `webpush/store.go:124`.
* Two instances that sweep at the same time may announce a message twice, and in a
  first sweep may lose one.

### Calendar

`objects` holds an event per name. An event is kept as far as an edit may get it wrong: who
wrote its text last, its categories in order, its rule (a frequency and whether there
is more to it), its alarms in order, its guests' answers, the owner's answer and
whether the owner's ATTENDEE is spelt `MAILTO:`, and its files. The edits
(`editEvent` and what it calls) are operators on such an event, and the run checks
them on everything that the form, other programs (`Authored`) and earlier edits
make. `tab[t]` is what a page shows, and the write its request is about to do:
get and put are two statements. The loops that keep some alarms or some files of an event
are `Pick`: the elements of a sequence at a set of places, in their order. An event
that comes from elsewhere may bring files of its own, of any size and with ids that
are no request's (`Elsewhere`). A form sends files that are empty or do not decode among the
others; `addAttachments` leaves these out (`Usable`), and answers as if it had not.
`CalendarTypeOK` says more than types: a rule without a
frequency has no other part either, and a file with a request's number fits the cap.
What the code does and the properties step
around:

* A write that was prepared from an event that another request has changed since
  takes that change away, or brings a deleted event back (`crossed`). The conditional
  headers of a CalDAV PUT are ignored.
* Files to keep are named by their place in the list (`stale`).
* A rule that repeats, say, hourly is shown as such, but counts as none when it comes
  back, and any edit deletes it. Of several categories the first is shown, and an edit
  leaves that one. `FormRoundTrips` promises the other events (`Draggable`) only what
  `calendar.go:209` says of all: "preserving everything the webmail form does not model".
* Two functions strip `mailto:` in lower case only, a third ignores the case. An
  owner whom another program wrote as `MAILTO:` is shown as a guest of their own
  event (`OwnerListed`), under an address that is nobody's (`Myself`). A form whose
  guests leave that out deletes the owner's entry, with the answer (`Unlisted`), against
  the comment at `calendar.go:326`; one that keeps it keeps the answer, and the next answer
  rewrites the entry as it was spelt.
* A reminder set in the form is not shown if another program's alarm comes
  first.
* `maxCalAttachTotal` "caps the combined decoded size of an event's attachments"
  (`calendar.go:31`), but an update counts only the files it brings and not
  those it keeps.
* An object stored under a name other than its UID cannot be edited on the page.

## 3. The runs

| Run | Instance | Shows |
| --- | --- | --- |
| `SchedSafety` | 2 rows, 2 owners, 2 ticks a second, 2 crashes, 1 failed UPDATE; rows permuted | at most one submission per life of the process (`DuplicatesNeedACrash`), nothing undone was sent without a crash (`UndoneMeansUnsent`), refinement of `Outbox` (`ImplementsOutbox`): a cancel is final, `sent` means submitted |
| `SchedLive` | 3 rows, batch of 2, 1 crash, 1 failed UPDATE, fair | no pending message waits forever although more are due than a batch holds; without a crash or a failed UPDATE every outstanding message is settled |
| `SSOSequential` | 1 caller, 3 failures, 2 restarts with one of 2 keys, so that a key may be changed and set back, 1 deletion by hand, fair | the cached credential exists at mailcow unless somebody deleted it or a sign-in under another key did (`CachedCredentialWorks`), in the end there is one, and a sign-in that fails without a fault leaves the name free for the next |
| `KeysSafety` | 1 key, 2 revokers, 1 request, 3 failures, 2 crashes, 1 disconnect, 1 outside delete, fair revokes | a key that lets requests in has its app-password and an orphan needs two failures of one create (`KeysMatchPasswords`); a revoke is final and the expiry is kept (`ClosedKeysStayClosed`); a repeated revoke deletes the password |
| `AdminSafety` | 2 workers, 2 tokens, 1 recovery code, 1 reset link, 2 passwords, 1 failure, 1 crash, 1 attempt; workers and tokens permuted | bounded tries, a code behind every session, the two copies of the password agree, a reset signs out everybody, a reset link is used more than once only by requests that overlap |
| `LimiterSafety` | 1 key, 2 goroutines, budget 2, window 4, stalls of 0 or 1 | `BudgetIsKept`: at most the budget per window and twice per interval while nobody stalls, three budgets while stalls are at most a third of the window; the collector changes no decision |
| `SharedSafety` | 1 mailbox, 1 person beside the administrator, 2 requests at a time, 2 app-passwords, 2 notes, 1 failure or death | the stored app-password exists, no row outlives its mailbox and no access is without a grant (`RowsBelongToTheirMailbox`), notes are deleted by their authors |
| `FactorSafety` | 2 requests at a time, 4 in all, from an account with or without a passkey, 1 authenticator, 2 pending tokens, 2 codes a set, 1 failure or death | the enabled secret was proven, codes are of one set and are those shown (`CodesAreThoseShown`), a challenge is used once |
| `WebmailSafety` | 2 requests at a time, 4 in all beside an old enrolment, 2 tries, 2 codes a set, 2 failures or restarts | bounded tries; no session without the factor, codes and tokens used once, a logout is final (`SessionsAreEarned`) |
| `SSOFlowSafety` | 2 requests at a time, 4 in all, 2 domains, 1 domain admin, 1 provider id, 1 failure or death | a state is used once, sessions are in scope, a retired provider signs nobody in (`SessionsAreVouchedFor`); the cache and the domains follow the last change (`ProvidersAreSettled`); only owners change providers |
| `PushSafety` | 2 instances, 1 browser, 1 mailbox, 3 messages and their deletion, 2 passwords, 2 subscriptions, 1 failure, 5 of these events in all, fair | no old mail announced, none twice, none left out (`EachMessageOnce`); no good row removed (`GoodRowsStay`), a bad one is, whoever else writes it (`OutdatedRowsGo`) |
| `CalendarSafety` | 2 pages and a CalDAV client, 1 event, 1 guest, 2 categories, an owner spelt either way, files that are empty, do not decode or have size 1 under a cap of 1, one of size 2 from elsewhere, 3 writes | types hold after every edit (`CalendarTypeOK`); an edit keeps what it does not ask to change and the form reads back what it wrote (`FormRoundTrips`); edits and answers survive each other, files are the ones kept, deleted stays deleted (`WritesSurvive`) |

Each property has a mutant of the modelled code that violates it, listed under
`mutants`. Where a theorem covers an invariant for every instance and the run would
only repeat it (the type invariants of `ScheduledSend`, `SSOCredential`, `ApiKeys`, `AdminSession` and
`RateLimiter`,
`CancelIsFinal`, `NotBeforeScheduled`, `RecoveryCodeOnce`, `NoPasswordInTheClear`,
`VapidKeysAgree` and a few more), the run leaves it to the proof.

### Where the code does less than it says

All runs pass. Where a comment or a document promises more than the code keeps, the
property checked is the part that holds, and names what it excludes. Besides
those listed with the modules above:

* `app.go:80` says that the start-up sweep resets rows orphaned by a crash. It
  matches rows claimed more than five minutes before the restart and never runs
  again; a row claimed later than that stays `sending`, neither sent nor
  cancelable. `OutstandingIsSettled` therefore excludes crashes.
* `auth_sso.go:156` says that `ssoWebmailCredential` returns a working credential. It stops
  working in three ways. Sign in under one master key, then under another: the second
  sign-in cannot open the row, finds its fresh password's name taken, and deletes
  everything of that name. Set the first key back, and the old row opens again; every
  sign-in is handed the deleted password from then on. Or somebody deletes the
  app-password at mailcow, where nothing asks before the row is used. Or two first
  sign-ins overlap: they mint under one name, and the compensation of one deletes
  the password that the other cached. `CachedCredentialWorks` is checked, and
  proved, for calls that do not overlap, and names the deletions.
* `auth_sso.go:169` says that after a rotation of the master key a fresh password is
  minted "rather than failing the login outright". The first login does fail, for the old
  password has the name; it cleans up, and the next succeeds
  (`FailedLoginClearsTheName`).
* `src/README.md:231` says that revoking a key deletes its app-password. When mailcow
  fails that call, the revoke is answered 200 all the same; a repeated revoke
  deletes it (`RepeatedRevokeSucceeds`).
* `admin/store.go:48` calls a reset token single-use. It is read and marked used by two
  statements, so that requests that overlap use it once each
  (`ResetLinkUsesOverlap`).

### Bounds

* *Two of everything that races.* The races here are pairwise: cancel against
  claim, two creates, two resets, two codes. `SchedLive` has three rows because a
  batch holds two: the third must come in a later one. The limiter's interval across
  three windows needs two goroutines, one of which is overtaken, and a window of four
  is the smallest of which a stall of one is less than a third.
* *Clocks* are long enough for the longest schedule that matters: scheduled,
  claimed, crashed, stale, reset and sent again in `SchedSafety`; issued, expired
  within a second of it, and used in `KeysSafety`; two windows and the interval
  across them in the limiter. Two ticks a second are the least that
  distinguish an instant from its stored second.
* *Failures and crashes.* One failure per flow and one more for its
  compensation; `KeysSafety` and `SSOSequential` allow a third. Two crashes, where
  state survives that a second one can meet.
* *`MaxPendingAttempts` is 1* in `AdminSafety` and 5 in the code. One attempt is
  where the first code is checked, and the second refused; the proof of
  `BoundedGuessing` covers every value.
* *Requests.* `MaxRequests` counts the requests of a behaviour. Three or four are the
  set-up of a situation (an enrolment, a provider, an event) and the two that race in
  it; initial states with an enrolment or a passkey save one. Ids are reused
  in the runs of `SharedMailbox` and `SSOFlow`, where an id that comes back is the
  hazard: one id is the smallest instance in which it must.
* *Mail.* Three messages in `PushSafety`: the one of the baseline, one that makes a
  sweep fetch, and one that comes or goes between its SELECT and its FETCH.
  `MaxEvents` bounds what happens outside the pollers taken together: every message, deletion,
  password, subscription, failure and lost browser counts. Five leave room for each
  situation named with the module, not for all of them at once.
* *Keys.* Two values of the master key and two restarts: changed, and set back.
* *`maxPendingAttempts` is 2* in `WebmailSafety`, one try and the last one.
* *Failures.* One failed statement, failed call or death of the process at any
  point of the new modules, two in `WebmailSafety` where a restart may meet a failure.
* *Deadlock* is only checked where the model cannot legitimately stop. Ids,
  tokens, clock and passwords are bounded, and once they are used up most models
  have nothing left to do: those runs say `CHECK_DEADLOCK FALSE`. The SSO and
  limiter runs and the send-later runs never stop, and check it.

### Fairness

* `ScheduledSend!FairSpec`: weak fairness of the clock, of the claim (the ticker
  fires every few seconds for the life of the process), of each dispatcher step
  (the mailcow client has a timeout of 30 seconds, the SMTP library times its
  commands out)
  and of the restart (a supervisor). One part is an assumption about the outside: the
  IMAP client sets no timeout, so an IMAP server that accepts and never answers
  would hold the dispatcher. Users need not act and the process need not die.
* `SSOCredential!CredFairSpec`: users keep signing in, and every call ends.
* `WebPush`: weak fairness of each instance's start-up and sweep. The ticker
  of `app.Run` calls `PollWebPush` for the life of the process, and a sweep removes or
  skips a row whose check fails. The assumption about IMAP is the same as above.
* `ApiKeys!FairSpec`: calls end, and the operator repeats the revoke: strong
  fairness, because a revoke can begin only while a revoker is free.

## 4. The proofs

TLAPS checks all of these for arbitrary constants, under the named assumptions
of the modules (finite sets where a cardinality is taken, positive sizes).

* **ScheduledSend** (`MailboxDataProofs`): the invariants of `SchedSafety`, the
  refinement of `Outbox`, and five invariants more: `TypeOK`, `HeldRowsAreSending`,
  `CancelIsFinal`, `NotBeforeScheduled` and `SentMeansSubmitted`. The invariants are not inductive:
  that a message is submitted at most `1 + crashes` times needs that an attempt
  submits at most once and that a row is attempted again only after the process
  that held it died, which needs that nobody touches a held row, which needs that
  cancel, sweep and claim are guarded by the status. `IInv` is the conjunction of
  these (`OneSubmissionPerAttempt`, `AttemptsNeedCrashes`, `HeldRowsAreSending`,
  `ClaimedWhenDue`, `SubmittedAtHand`, `StoppedIsIdle`, ...), with a lemma per action.
  Refinement then takes each step to the moves of each row.
* **SSOCredential** (`SSOProofs`): with calls that do not
  overlap (`OneCaller`) the cached credential exists and its id is its own, under
  any failures, restarts and changes of the key, with two exceptions: somebody
  deleted the password, or a call under another key did by its name. `CInv` adds
  that a call mints only while no usable row exists, that what a call creates and
  caches is there until it deletes by name or somebody does, and that a call deletes
  by name only while its own key opens no row. The assumption cannot be dropped: see the
  overlapping sign-ins above.
  `NameIsCleared`, under the same assumption, is `FailedLoginClearsTheName`: the only failure
  without a fault is the compensation, and what it is about to delete is the whole
  name (`AllIsListed`). `TypeCorrect` does without the assumption.
* **SSOFlow** (`SSOProofs`). `Typing` is inductive with `KindInv`, which says what a
  request at each step knows.
  - `VouchedFor`: a flow is in one place, with a request, among the pending or in a
    session (`FlowsInv`), so it ends in one session; the domain a callback goes on with was
    granted to it (`GrantInv`), since it was read from the provider after the callback
    came; and while no lookup crosses an invalidation, nobody holds, discovers or finds a
    runtime of a provider that is out of service (`LateInv`, where `Dead` is out of service
    since before the callback).
  - `Settled`: under no fault and no overlap, one worker at most changes a provider, the
    domains in the table and those it has still to insert are those asked for, a
    deletion leaves nothing, and the runtimes in the cache and on their way there are of
    the row (`AloneInv`, `ScopeInv`, `GoneInv`, `CacheInv`).
  - `OwnersOnly`: whoever is between the check and the statement is the row's owner,
    unless an id came back (`OwnerInv`).
* **AdminSession** (`AdminSessionProofs`), seven theorems, each with its own
  strengthening:
  - `OneLoginPerRecoveryCode`: a code is in the table or was spent once (`CodesInv`).
  - `BoundedGuessing`: the codes checked against a pending login and the workers
    about to check one together number at most the attempts counted and at
    most the maximum (`TriesInv`). This is a counting argument over the set of
    workers and rests on their finiteness.
  - `NoSessionWithoutACode`: the sessions of a pending login and the workers that are about
    to make one together number at most the codes that verified for it
    (`CodeInv`), again by counting.
  - `MemoryFollowsTable`: while one worker stands between the two writes its
    password is the stored one, unless two overlapped (`PasswordInv`).
  - `ResetRevokes`: sessions older than a reset survive only while a worker is
    between storing the password and revoking (`OldInv`).
  - `ResetLinkIsOverlapped`: a worker past the UPDATE has marked the link, so that only
    requests which had read it before can still use it (`LinkInv`).
  - `Typing`: the type invariant the other six rest on.
* **RateLimiter** (`ApiAccessProofs`): the collector never changes a decision, for
  every budget, window and set of keys, in behaviours where no time passes between
  reading the clock and the mutex (`SweepIsTransparent`; `LInv` says that an entry that was
  swept is one that had elapsed in the unswept map). `EntriesTyped` has no such
  condition: whoever is overtaken, every entry counts between one and the budget
  and starts within the range of the clock. `BudgetHolds` is
  `BudgetIsKept` for every budget, window, bound on stalls and number of goroutines.
  Two windows of a key begin at least a window less a stall apart (`WindowsInv`),
  a request is admitted at most a stall before the windows earlier than its own are over
  (`AdmittedInv`), and a window admits no more than its entry counts (`CountInv`).
  So an interval as long as a window meets two windows when nobody stalls
  and three when stalls are short, and the sets admitted in them are added up.
* **WebmailSession** (`WebmailSessionProofs`): `EncryptedAtRest`, that a row without a
  key is never written, whatever keys the process is restarted with;
  `NobodyLocksThemselvesOut`, that the secret which is on was proven, since a confirm
  stores the secret it verified (`EInv` carries that from the verification to the
  statement); and `Typing`, with what a request at each step knows (`WellFormed`).
  - `BoundedTries`: the counting argument of `BoundedGuessing`, in the table and in
    memory at once: a token is in one of them (`StoreInv`), and the tries counted and the
    requests that are about to try number at most the maximum (`TriesInv`).
  - `EarnedSessions`, in parts: requests and tokens are numbered, and a number that
    nobody has been given names nothing (`NumbersInv`); a session made by a password alone
    had the second factor off (`OffInv`); a verify that no other overlapped has deleted its
    pending token before it makes the session (`AloneInv`); a recovery code is in
    the table or was used once; and a token whose session a logout deleted is in neither
    store again, whatever fails and whichever keys come back (`OutInv`): no step writes
    a token that was given out before.
* **WebPush** (`WebPushProofs`): `OneSigningKey`, since the stored pair changes only while
  there is none, and then no instance runs. `OnceEach` and `NoGoodRowGoes` share
  `PushInv`: a sweep meets an endpoint once (`SweepInv`), a subscription has one mailbox
  and a password of its time (`NumbersInv`, `OriginInv`), nothing is sent before there is
  a baseline (`BaseInv`); what a check fetched is all new or all old, and leaves out
  nothing that is there up to the UID it will store (`MailInv`); while sweeps do not overlap and nothing fails, nothing above the
  stored UID was announced, but for what came too early, and what a sweep is about to
  announce is stored (`CalmInv`), and everything between the baseline and the stored UID was
  announced or is gone (`HeardInv`);
  a row is being removed only for a reason (`RemovalInv`). `Typing` is apart.
* **ApiKeys** (`ApiAccessProofs`): `Typing`; `RowsMatchPasswords`, by `KeysInv`, which says for
  each step of a create whether the app-password is there and the row is not, and
  that a create which gave up while the password is there has met a failure or lost
  its client; and the action property `ClosedForGood`, by `ClosedInv`: an answered revoke left its
  mark in the row, and the stored expiry is the promised one rounded down.
* **SecondFactor** (`SecondFactorProofs`): `Typing`; `OnlyProvenSecrets`, as in
  `WebmailSession`; `SingleUse`, since a challenge is in the cache, with one request or
  redeemed (`SingleInv`), under the name it was issued for (`IssuedInv`); and
  `CodesAreShown`: while requests do not overlap there is one at work on the enrolment
  (`AloneInv`), the codes are of one set (`SetInv`), and without a failure they fit the
  account once the request is through (`FitInv`).
* **SharedMailbox** (`SharedMailboxProofs`): the four invariants of `SharedSafety` from one
  inductive invariant, `IInv`. Ids come back, so what tells a mailbox from the one
  before it under the same id is its app-password: each is one mailbox's
  (`OwnerInv`), is stored under one id at most, and is what a request that has read
  the row still holds (`StoredInv`).
  - `CredentialLasts`: one create of a mailbox at a time finds its own app-password there
    (`AloneInv`), a compensation deletes only app-passwords of its own mailbox
    (`OwnerInv`), and a revoke only one that is not waiting to be stored (`StoredInv`).
  - `RowsBelong`: what a delete has emptied stays empty unless a row was written late
    (`EmptiedInv`), and who is about to be assigned a task or to get a session was made a
    member of the mailbox the request had read (`CheckedInv`).
  - `AuthorsDelete`: notes carry a number that is never given again, and a request
    that is to delete one remembers the number, id and author of the note it saw
    (`NotesInv`).
  Most of the thirty-odd actions leave most of this alone: a request ends, goes on, or
  reads a live mailbox (`Conduct`), mailboxes and rows go and none comes (`Shrinks`,
  `RowsShrink`). One lemma for each part of the invariant says that it survives such
  a step, and the lemma of an action is left with the parts that it disturbs.

* **Calendar** (`MailboxDataProofs`), in two halves.
  - What an edit does to one event: `RanksNumber` says that the places of a set are numbered
    without gaps by how many come no later, so that `Pick` returns each element it
    keeps once (`PickIs`); from it follow the types of alarms and files, that files stay
    distinct and are those kept and those uploaded that are usable (`FilesEdited`,
    `UploadIs`), and with one lemma per part of an event (`RuleEdited`, `AlarmsEdited`, `GuestsEdited`) that an edited
    event is an event (`EventEdited`), whose category is the form's (`Refiled`). What is uploaded passes a sum of sizes; that a sum over
    one file is its size is unfolded from the definition (`SumOne`). `FormAgrees` is then
    about operators only: `EchoChangesNothing` holds of every event the form can express, `FormIsShown` of every event, and the
    state matters only in that what is stored is one.
  - What pages and the CalDAV client do to one another: `WritesOutlast`, by `CalendarInv`.
    `WritesSurvive` speaks of rows, and a row is overwritten with something that was
    prepared earlier. So the invariant says of each request that is about to write
    (`PutWell`): the row is crossed, or was asked to be something later than
    what the request had read (and the write will cross it), or what it writes is what its
    owner will want (`Right`). This survives the steps of everybody else because whatever
    they do to a row crosses it, comes from a later request, or goes on from what was
    there (`Advances`). That nobody puts a deleted event back needs that it had been asked for
    something and that a new event takes a name for which nobody asked anything; that files stay
    told apart by their ids needs that no request to come has the number of one (`Sound`).
    A CalDAV client's own files have other ids by `AuthoredAssumption`.

A type invariant here is more than the list of types: it says what a request at
each step holds, and the other theorems of a module rest on it.

What the theorems assume is what the modules' named assumptions say: the sets of
workers are finite where requests are counted, sizes and bounds are natural
numbers, the values that stand for "none" are none of the set (in `Calendar` the empty
category, and the address under which an owner is listed as a guest), in `WebPush` there
are a message and a password at least, and in `Calendar` the events that come from elsewhere are
events whose files have ids of their own. No theorem assumes a bound on requests, failures or time
beyond its being a number.

Only model-checked: every liveness property (`PendingIsTakenUp`,
`OutstandingIsSettled`, `EventuallyCached`, `RepeatedRevokeSucceeds`,
`OutdatedRowsGo`), because liveness under fairness and ENABLED are out of the prover's
reach. Every invariant and every action property that a run checks is a theorem.

## 5. What is not modelled, and what could come next

Of the safety properties the runs check, none is left to prove. The next to model
would be two hazards that no property covers yet: SSO credentials minted by calls that overlap, and
the signature counter that overlapping passkey logins write back.

Not modelled, and why:

* *Domain admins.* Their sessions are a map behind one mutex, of which `AdminSession` and
  `WebmailSession` model more; accounts and domains are mailcow's. Their providers are
  in `SSOFlow`. The app-password a domain admin's edit of a mailbox captures is
  best effort: an edit of several mailboxes captures the first one's only.
* *Contacts and DAV sign-in.* Address books use the same store functions as
  calendars, with a single statement per operation and no read before a write. The verifier
  accepts a cached password until its lifetime ends, by design.
* *Further calendars* of a CalDAV client: the web page shows one.
* *Single mail operations* (IMAP, SMTP, rules, signatures): each opens a connection,
  does one thing and closes it; the state is the server's.

Left out for good: forwarding to mailcow, DNS checks, configuration, metrics,
audit records and alerts (no state another operation reads), single IMAP
operations (the state is the IMAP server's), the parsing of mail, iCalendar and
vCard, cryptography, and the front end.
