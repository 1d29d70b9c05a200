--------------------------- MODULE SharedMailbox ---------------------------
(***************************************************************************)
(* Shared (team) mailboxes.                                                *)
(*   internal/api/shared_mailboxes_admin.go   create, delete, members      *)
(*   internal/api/webmail_shared.go           activation, assignment, notes*)
(*   internal/sharedmailbox/store.go          the four tables              *)
(*   internal/api/apikeys.go                  recoverAppPwID,              *)
(*                                            deleteAppPwByName            *)
(*                                                                         *)
(* A request reads, calls mailcow and writes in separate steps, and other  *)
(* requests run in between.  Nothing is a transaction.  Ids are            *)
(* INTEGER PRIMARY KEY: the largest one plus one, so an id that was        *)
(* deleted comes back.  mailcow is external: the set of app-passwords that *)
(* exist under the name "mailfold-shared:<email>".  There is one message   *)
(* per mailbox; it stands for a folder and uid.                            *)
(***************************************************************************)
EXTENDS Integers

CONSTANTS
  Emails,     \* mailcow mailboxes that can be shared
  Persons,    \* webmail users that can be members
  Workers,    \* requests that run at the same time
  MaxMints,   \* bound on app-passwords ever created
  MaxNotes,   \* bound on notes ever written
  MaxFaults   \* bound on failed statements, failed calls and process deaths

ASSUME SharedAssumption ==
  MaxMints \in Nat /\ MaxNotes \in Nat /\ MaxFaults \in Nat

VARIABLES
  shared,       \* shared_mailbox: id -> [email, pw], or NoMailbox
  members,      \* shared_mailbox_member: pairs <<id, person>>
  assignments,  \* shared_mailbox_assignment: pairs <<id, assigned_to>>
  notes,        \* shared_mailbox_note: [id, mailbox, author, serial]
  upstream,     \* mailcow: the app-passwords that exist, [email, pw]
  sessions,     \* webmail sessions of shared mailboxes, [email, pw, actingAs];
                \* one that ended enables less and is kept
  req,          \* worker -> the request it serves
  minted,       \* history: app-passwords created; each is its number
  written,      \* history: notes created; each carries its number
  grants,       \* history: <<pw, person>>, pw being the mailbox shown to the admin
  late,         \* history: ids a request wrote to or deleted from when their
                \* mailbox was being deleted, gone or another one
  raced,        \* history: emails two creates of which overlapped
  condemned,    \* history: app-passwords a delete asked mailcow to revoke
  faults        \* history: failures so far

tables == <<shared, members, assignments, notes>>
history == <<grants, late, raced, condemned>>
counters == <<minted, written>>
vars == <<tables, upstream, sessions, req, counters, history, faults>>

-----------------------------------------------------------------------------
Mints == 1..MaxMints
Ids == Mints      \* every row has an app-password of its own
NoteIds == 1..MaxNotes
NoMailbox == [email |-> "none", pw |-> 0]
Nobody == "nobody"
People == Persons \cup Emails

Steps == {"idle", "mint", "recover", "insert", "undo_list", "undo_delete",
          "revoke", "del_members", "del_assignments", "del_notes", "del_row",
          "add_member", "is_member", "create_session",
          "assign_check", "assign", "clear", "add_note", "get_note", "del_note"}

\* What a request remembers between its steps: the mailbox id, the row it
\* read, a person (the member, or the one it acts as), a second person (the
\* assignee), a note id and number, and the last list of app-passwords.
Idle == [step |-> "idle", id |-> 0, email |-> "none", pw |-> 0, who |-> Nobody,
         to |-> Nobody, note |-> 0, serial |-> 0, listed |-> {}]

Init ==
  /\ shared = [id \in Ids |-> NoMailbox]
  /\ members = {} /\ assignments = {} /\ notes = {}
  /\ upstream = {} /\ sessions = {}
  /\ req = [w \in Workers |-> Idle]
  /\ minted = 0 /\ written = 0
  /\ grants = {} /\ late = {} /\ raced = {} /\ condemned = {}
  /\ faults = 0

Live == {id \in Ids : shared[id] # NoMailbox}

\* LastInsertId of an INTEGER PRIMARY KEY: one more than the largest id.
NextId(id, used) == (\A i \in used : i < id) /\ (id = 1 \/ id - 1 \in used)

At(w, step) == req[w].step = step
Goto(w, step) == req' = [req EXCEPT ![w].step = step]
Done(w) == req' = [req EXCEPT ![w] = Idle]
Start(w, r) == At(w, "idle") /\ req' = [req EXCEPT ![w] = r]

Fault == faults < MaxFaults /\ faults' = faults + 1
NoFault == UNCHANGED faults

\* The app-passwords listAppPwByName finds.
Named(email) == {p.pw : p \in {q \in upstream : q.email = email}}
NameIsUnique(email) == \E pw \in Named(email) : Named(email) = {pw}

\* A create of email is under way.
Creating(w, email) ==
  /\ req[w].email = email
  /\ req[w].step \in {"mint", "recover", "insert", "undo_list", "undo_delete"}

\* DeleteMailbox is under way for id, or has happened.
BeingDeleted(id) ==
  \/ id \notin Live
  \/ \E w \in Workers : req[w].id = id /\ req[w].step \in
                          {"del_assignments", "del_notes", "del_row"}

\* The mailbox under the id of the request is not the one it was shown.
Replaced(w) == shared[req[w].id].pw # req[w].pw

\* Notes that w writes a row for a mailbox that is being deleted or replaced.
NoteLate(w) ==
  late' = IF BeingDeleted(req[w].id) \/ Replaced(w) THEN late \cup {req[w].id} ELSE late

-----------------------------------------------------------------------------
(* POST /api/shared-mailboxes.                                             *)

\* Mutant: a mailbox that is shared already is not refused.
CreateCheck_NotAsked(w, email) ==
  /\ Start(w, [Idle EXCEPT !.step = "mint", !.email = email])
  /\ raced' = IF \E v \in Workers : Creating(v, email) THEN raced \cup {email} ELSE raced
  /\ UNCHANGED <<tables, upstream, sessions, counters, grants, late,
                 condemned, faults>>

\* GetMailboxByEmail: the mailbox is not shared yet.
CreateCheck(w, email) ==
  /\ \A id \in Live : shared[id].email # email
  /\ Start(w, [Idle EXCEPT !.step = "mint", !.email = email])
  /\ raced' = IF \E v \in Workers : Creating(v, email) THEN raced \cup {email} ELSE raced
  /\ UNCHANGED <<tables, upstream, sessions, counters, grants, late,
                 condemned, faults>>

\* mc.Mailboxes and AddAppPassword.  A failed call ends the request, also when
\* mailcow did create the password and only the answer was lost.
MintAppPassword(w) ==
  /\ At(w, "mint")
  /\ \/ /\ minted < MaxMints
        /\ minted' = minted + 1
        /\ upstream' = upstream \cup {[email |-> req[w].email, pw |-> minted']}
        /\ \/ /\ req' = [req EXCEPT ![w].step = "recover", ![w].pw = minted']
              /\ NoFault
           \/ Fault /\ Done(w)
     \/ Fault /\ Done(w) /\ UNCHANGED <<minted, upstream>>
  /\ UNCHANGED <<tables, sessions, written, history>>

\* recoverAppPwID: only a name that is there exactly once is taken.
RecoverAppPwID(w) ==
  /\ At(w, "recover")
  /\ \/ NameIsUnique(req[w].email) /\ Goto(w, "insert") /\ NoFault
     \/ ~ NameIsUnique(req[w].email) /\ Goto(w, "undo_list") /\ NoFault
     \/ Fault /\ Goto(w, "undo_list")
  /\ UNCHANGED <<tables, upstream, sessions, counters, history>>

\* Seal and CreateMailbox.  email is UNIQUE; any error compensates the mint.
CreateMailbox(w) ==
  /\ At(w, "insert")
  /\ \/ /\ \A id \in Live : shared[id].email # req[w].email
        /\ \E id \in Ids : /\ NextId(id, Live)
                          /\ shared' = [shared EXCEPT ![id] =
                                          [email |-> req[w].email, pw |-> req[w].pw]]
        /\ Done(w)
        /\ NoFault
     \/ /\ \E id \in Live : shared[id].email = req[w].email
        /\ Goto(w, "undo_list")
        /\ NoFault
        /\ UNCHANGED shared
     \/ Fault /\ Goto(w, "undo_list") /\ UNCHANGED shared
  /\ UNCHANGED <<members, assignments, notes, upstream, sessions, counters,
                 history>>

\* deleteAppPwByName, first call: list the name.
UndoList(w) ==
  /\ At(w, "undo_list")
  /\ \/ /\ req' = [req EXCEPT ![w].step = "undo_delete",
                              ![w].listed = Named(req[w].email)]
        /\ NoFault
     \/ Fault /\ Done(w)
  /\ UNCHANGED <<tables, upstream, sessions, counters, history>>

\* deleteAppPwByName, second call: delete what was listed.
UndoDelete(w) ==
  /\ At(w, "undo_delete")
  /\ \/ upstream' = {p \in upstream : p.pw \notin req[w].listed} /\ NoFault
     \/ Fault /\ UNCHANGED upstream
  /\ Done(w)
  /\ UNCHANGED <<tables, sessions, counters, history>>

-----------------------------------------------------------------------------
(* DELETE /api/shared-mailboxes.                                           *)

\* GetMailbox.
DeleteRead(w, id) ==
  /\ id \in Live
  /\ Start(w, [Idle EXCEPT !.step = "revoke", !.id = id, !.pw = shared[id].pw])
  /\ UNCHANGED <<tables, upstream, sessions, counters, history, faults>>

\* DeleteAppPassword by id, best effort.
DeleteRevoke(w) ==
  /\ At(w, "revoke")
  /\ \/ upstream' = {p \in upstream : p.pw # req[w].pw} /\ NoFault
     \/ Fault /\ UNCHANGED upstream
  /\ condemned' = condemned \cup {req[w].pw}
  /\ Goto(w, "del_members")
  /\ UNCHANGED <<tables, sessions, counters, grants, late, raced>>

\* One statement of store.DeleteMailbox; when it fails the rest is not run.
DeleteStatement(w, step, next, delete) ==
  /\ At(w, step)
  /\ \/ delete /\ NoFault /\ (IF next = "idle" THEN Done(w) ELSE Goto(w, next))
     \/ Fault /\ Done(w) /\ UNCHANGED tables
  /\ late' = IF Replaced(w) THEN late \cup {req[w].id} ELSE late
  /\ UNCHANGED <<upstream, sessions, counters, grants, raced, condemned>>

\* Mutant: the members of the mailbox stay.
DeleteMembers_Forgotten(w) ==
  DeleteStatement(w, "del_members", "del_assignments", UNCHANGED tables)

DeleteMembers(w) ==
  DeleteStatement(w, "del_members", "del_assignments",
    /\ members' = {m \in members : m[1] # req[w].id}
    /\ UNCHANGED <<shared, assignments, notes>>)

DeleteAssignments(w) ==
  DeleteStatement(w, "del_assignments", "del_notes",
    /\ assignments' = {a \in assignments : a[1] # req[w].id}
    /\ UNCHANGED <<shared, members, notes>>)

DeleteNotes(w) ==
  DeleteStatement(w, "del_notes", "del_row",
    /\ notes' = {n \in notes : n.mailbox # req[w].id}
    /\ UNCHANGED <<shared, members, assignments>>)

DeleteRow(w) ==
  DeleteStatement(w, "del_row", "idle",
    /\ shared' = [shared EXCEPT ![req[w].id] = NoMailbox]
    /\ UNCHANGED <<members, assignments, notes>>)

-----------------------------------------------------------------------------
(* POST and DELETE /api/shared-mailboxes/members.                          *)

\* GetMailbox.
AddMemberCheck(w, id, person) ==
  /\ id \in Live
  /\ Start(w, [Idle EXCEPT !.step = "add_member", !.id = id,
                           !.pw = shared[id].pw, !.who = person])
  /\ UNCHANGED <<tables, upstream, sessions, counters, history, faults>>

\* AddMember: an upsert.
AddMember(w) ==
  /\ At(w, "add_member")
  /\ members' = members \cup {<<req[w].id, req[w].who>>}
  /\ grants' = grants \cup {<<req[w].pw, req[w].who>>}
  /\ NoteLate(w)
  /\ Done(w)
  /\ UNCHANGED <<shared, assignments, notes, upstream, sessions, counters,
                 raced, condemned, faults>>

\* RemoveMember: one statement; sessions and assignments stay.
RemoveMember(id, person) ==
  /\ <<id, person>> \in members
  /\ members' = members \ {<<id, person>>}
  /\ UNCHANGED <<shared, assignments, notes, upstream, sessions, req, counters,
                 grants, late, raced, condemned, faults>>

-----------------------------------------------------------------------------
(* POST /api/webmail/shared/{id}/session.                                  *)

\* GetMailbox.
ActivateRead(w, id, person) ==
  /\ id \in Live
  /\ Start(w, [Idle EXCEPT !.step = "is_member", !.id = id, !.email = shared[id].email,
                           !.pw = shared[id].pw, !.who = person])
  /\ UNCHANGED <<tables, upstream, sessions, counters, history, faults>>

\* IsMember: others are answered 403.
IsMember(w) ==
  /\ At(w, "is_member")
  /\ IF <<req[w].id, req[w].who>> \in members THEN Goto(w, "create_session") ELSE Done(w)
  /\ UNCHANGED <<tables, upstream, sessions, counters, history, faults>>

\* Open and CreateActingAs.
CreateSession(w) ==
  /\ At(w, "create_session")
  /\ sessions' = sessions \cup {[email |-> req[w].email, pw |-> req[w].pw,
                                 actingAs |-> req[w].who]}
  /\ Done(w)
  /\ UNCHANGED <<tables, upstream, counters, history, faults>>

-----------------------------------------------------------------------------
(* Inside a shared mailbox.                                                *)

\* resolveSharedSession: the mailbox of the session's own address, and whom
\* it acts for - the member that activated it, or the address itself when its
\* owner signed in with the mailbox's own password.
Resolve(w, r, id, person) ==
  /\ id \in Live
  /\ \/ person = shared[id].email
     \/ \E s \in sessions : s.email = shared[id].email /\ s.actingAs = person
  /\ Start(w, [r EXCEPT !.id = id, !.pw = shared[id].pw])
  /\ UNCHANGED <<tables, upstream, sessions, counters, history, faults>>

\* POST /api/webmail/shared/assignment with and without an assignee.
SetAssignmentResolve(w, id, person, to) ==
  Resolve(w, [Idle EXCEPT !.step = "assign_check", !.to = to], id, person)
ClearAssignmentResolve(w, id, person) ==
  Resolve(w, [Idle EXCEPT !.step = "clear"], id, person)

\* IsMember(assigned_to): others are answered 400.
AssigneeCheck(w) ==
  /\ At(w, "assign_check")
  /\ IF <<req[w].id, req[w].to>> \in members THEN Goto(w, "assign") ELSE Done(w)
  /\ UNCHANGED <<tables, upstream, sessions, counters, history, faults>>

\* SetAssignment: an upsert on the message.
SetAssignment(w) ==
  /\ At(w, "assign")
  /\ assignments' = {a \in assignments : a[1] # req[w].id} \cup {<<req[w].id, req[w].to>>}
  /\ NoteLate(w)
  /\ Done(w)
  /\ UNCHANGED <<shared, members, notes, upstream, sessions, counters, grants,
                 raced, condemned, faults>>

\* ClearAssignment.
ClearAssignment(w) ==
  /\ At(w, "clear")
  /\ assignments' = {a \in assignments : a[1] # req[w].id}
  /\ Done(w)
  /\ UNCHANGED <<shared, members, notes, upstream, sessions, counters, history,
                 faults>>

\* Mutant: a session that was not activated acts for nobody.
AddNoteResolve_NoFallback(w, id, person) ==
  Resolve(w, [Idle EXCEPT !.step = "add_note",
                          !.who = IF person \in Persons THEN person ELSE Nobody], id, person)

\* POST /api/webmail/shared/notes.
AddNoteResolve(w, id, person) ==
  Resolve(w, [Idle EXCEPT !.step = "add_note", !.who = person], id, person)

\* AddNote.
AddNote(w) ==
  /\ At(w, "add_note")
  /\ written < MaxNotes
  /\ written' = written + 1
  /\ \E id \in NoteIds :
       /\ NextId(id, {n.id : n \in notes})
       /\ notes' = notes \cup {[id |-> id, mailbox |-> req[w].id, author |-> req[w].who,
                                serial |-> written']}
  /\ NoteLate(w)
  /\ Done(w)
  /\ UNCHANGED <<shared, members, assignments, upstream, sessions, minted, grants,
                 raced, condemned, faults>>

\* DELETE /api/webmail/shared/notes.
DeleteNoteResolve(w, id, person, note) ==
  Resolve(w, [Idle EXCEPT !.step = "get_note", !.who = person, !.note = note], id, person)

\* Mutant: any member deletes any note of the mailbox.
GetNote_AnyAuthor(w) ==
  /\ At(w, "get_note")
  /\ \/ \E n \in notes :
          /\ n.id = req[w].note /\ n.mailbox = req[w].id
          /\ req' = [req EXCEPT ![w].step = "del_note", ![w].serial = n.serial]
     \/ Done(w)
  /\ UNCHANGED <<tables, upstream, sessions, counters, history, faults>>

\* GetNote: a note of this mailbox, written by the caller.
GetNote(w) ==
  /\ At(w, "get_note")
  /\ LET found == {n \in notes : /\ n.id = req[w].note /\ n.mailbox = req[w].id
                                   /\ n.author = req[w].who}
     IN  IF found = {} THEN Done(w)
         ELSE req' = [req EXCEPT ![w].step = "del_note",
                                 ![w].serial = (CHOOSE n \in found : TRUE).serial]
  /\ UNCHANGED <<tables, upstream, sessions, counters, history, faults>>

\* DeleteNote by id alone.
DeleteNote(w) ==
  /\ At(w, "del_note")
  /\ notes' = {n \in notes : n.id # req[w].note}
  /\ Done(w)
  /\ UNCHANGED <<shared, members, assignments, upstream, sessions, counters, history,
                 faults>>

-----------------------------------------------------------------------------
\* A read, or a write that is the only one of its request, fails: the request
\* is answered 500 and has changed nothing.
StatementFails(w) ==
  /\ req[w].step \in {"add_member", "is_member", "create_session", "assign_check",
                      "assign", "clear", "add_note", "get_note", "del_note"}
  /\ Fault
  /\ Done(w)
  /\ UNCHANGED <<tables, upstream, sessions, counters, history>>

\* The process dies: requests under way end wherever they are.
Crash ==
  /\ Fault
  /\ \E w \in Workers : req[w] # Idle
  /\ req' = [w \in Workers |-> Idle]
  /\ UNCHANGED <<tables, upstream, sessions, counters, history>>

AdminRequest(w) ==
  \/ \E email \in Emails : CreateCheck(w, email)
  \/ MintAppPassword(w) \/ RecoverAppPwID(w) \/ CreateMailbox(w)
  \/ UndoList(w) \/ UndoDelete(w)
  \/ \E id \in Ids : DeleteRead(w, id)
  \/ DeleteRevoke(w)
  \/ DeleteMembers(w) \/ DeleteAssignments(w) \/ DeleteNotes(w) \/ DeleteRow(w)
  \/ \E id \in Ids, person \in Persons : AddMemberCheck(w, id, person)
  \/ AddMember(w)

WebmailRequest(w) ==
  \/ \E id \in Ids, person \in Persons : ActivateRead(w, id, person)
  \/ IsMember(w) \/ CreateSession(w)
  \/ \E id \in Ids, person \in People, to \in Persons :
       SetAssignmentResolve(w, id, person, to)
  \/ \E id \in Ids, person \in People : ClearAssignmentResolve(w, id, person)
  \/ AssigneeCheck(w) \/ SetAssignment(w) \/ ClearAssignment(w)
  \/ \E id \in Ids, person \in People : AddNoteResolve(w, id, person)
  \/ AddNote(w)
  \/ \E id \in Ids, person \in People, note \in NoteIds :
       DeleteNoteResolve(w, id, person, note)
  \/ GetNote(w) \/ DeleteNote(w)

Next ==
  \/ \E w \in Workers : AdminRequest(w) \/ WebmailRequest(w) \/ StatementFails(w)
  \/ \E id \in Ids, person \in Persons : RemoveMember(id, person)
  \/ Crash

Spec == Init /\ [][Next]_vars

-----------------------------------------------------------------------------
\* Every variable has its type.
TypeOK ==
  /\ shared \in [Ids -> [email : Emails, pw : Mints] \cup {NoMailbox}]
  /\ members \subseteq Ids \X Persons
  /\ assignments \subseteq Ids \X Persons
  /\ notes \subseteq [id : NoteIds, mailbox : Ids, author : People, serial : NoteIds]
  /\ upstream \subseteq [email : Emails, pw : Mints]
  /\ sessions \subseteq [email : Emails, pw : Mints, actingAs : Persons]
  /\ req \in [Workers -> [step : Steps, id : Ids \cup {0}, email : Emails \cup {"none"},
                          pw : 0..MaxMints, who : People \cup {Nobody},
                          to : Persons \cup {Nobody}, note : 0..MaxNotes,
                          serial : 0..MaxNotes, listed : SUBSET Mints]]
  /\ minted \in 0..MaxMints /\ written \in 0..MaxNotes
  /\ grants \subseteq Mints \X Persons
  /\ late \subseteq Ids /\ raced \subseteq Emails /\ condemned \subseteq Mints
  /\ faults \in 0..MaxFaults

\* Members sign in with the stored app-password, so it exists at mailcow:
\* failed calls, lost answers, crashes and the compensations that follow them
\* never take it away.  Only two things do - a second create of the same
\* mailbox while the first is under way, whose compensation deletes by name,
\* and a delete of the mailbox, which revokes first and may then fail.
SharedCredentialWorks ==
  \A id \in Live : \/ shared[id] \in upstream
                   \/ shared[id].email \in raced
                   \/ shared[id].pw \in condemned

\* store.DeleteMailbox is four statements and no transaction, and may stop
\* after any of them, but it strands no member, assignment or note; and ids come
\* back, but nothing of a former mailbox does: members, assignees ("assigning to
\* someone with no access to the mailbox would silently create a task no one
\* can act on") and whoever holds the mailbox's password in a session were made
\* members by the administrator for this very mailbox.  Only rows that were
\* written while their mailbox was being deleted are another matter.
RowsBelongToTheirMailbox ==
  LET granted(id, person) == <<shared[id].pw, person>> \in grants
  IN  /\ \A id \in {m[1] : m \in members} \cup {a[1] : a \in assignments}
                   \cup {n.mailbox : n \in notes} : id \in Live \cup late
      /\ \A row \in members \cup assignments :
           row[1] \in Live \ late => granted(row[1], row[2])
      /\ \A s \in sessions, id \in Live \ late :
           shared[id].pw = s.pw => granted(id, s.actingAs)

\* "Only its own author may delete it": the id about to be deleted is the
\* caller's own note, as long as the note that was checked still exists.  When
\* it does not, its id may by now be another author's note.
OnlyTheAuthorDeletes ==
  \A w \in Workers, n \in notes :
    At(w, "del_note") /\ n.id = req[w].note =>
      \/ n.author = req[w].who
      \/ \A k \in notes : k.serial # req[w].serial
=============================================================================
