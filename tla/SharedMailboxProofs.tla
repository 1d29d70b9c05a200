------------------------ MODULE SharedMailboxProofs ------------------------
(***************************************************************************)
(* Shared mailboxes, for any number of mailboxes, members and requests at  *)
(* once, whichever statements and calls fail and whenever the process      *)
(* dies: the stored app-password exists unless two creates overlapped or a *)
(* delete began; rows and sessions belong to the mailbox of their id; and  *)
(* only the author of a note deletes it.                                   *)
(*                                                                         *)
(* The invariant comes first, then the shape of each action, then what     *)
(* most steps have in common (requests end, go on or read a live mailbox)  *)
(* and the parts of the invariant that survive it; at last one lemma for   *)
(* each action.                                                            *)
(***************************************************************************)
EXTENDS SharedMailbox, TLAPS

-----------------------------------------------------------------------------
(* The inductive invariant.                                                *)

CreateSteps == {"mint", "recover", "insert", "undo_list", "undo_delete"}
DeleteSteps == {"revoke", "del_members", "del_assignments", "del_notes", "del_row"}
OtherSteps == {"add_member", "is_member", "create_session", "assign_check", "assign",
               "clear", "add_note", "get_note", "del_note"}

\* A request that has read a mailbox, one that has made an app-password, and one
\* whose app-password is still to be stored.
Knows(r) == r.step \in DeleteSteps \cup OtherSteps
Minting(r) == r.step \in {"recover", "insert", "undo_list", "undo_delete"}
Unstored(r) == r.step \in {"recover", "insert"}

Request == [step : Steps, id : Ids \cup {0}, email : Emails \cup {"none"}, pw : 0..MaxMints,
            who : People \cup {Nobody}, to : Persons \cup {Nobody}, note : 0..MaxNotes,
            serial : 0..MaxNotes, listed : SUBSET Mints]

\* What a request knows at its step.
Kind(r) ==
  /\ r.step = "idle" => r = Idle
  /\ r.step \in CreateSteps => r.email \in Emails
  /\ Minting(r) \/ Knows(r) => r.pw \in Mints
  /\ Knows(r) => r.id \in Ids
  /\ r.step \in {"is_member", "create_session"} => r.email \in Emails
  /\ r.step \in {"add_member", "is_member", "create_session"} => r.who \in Persons
  /\ r.step \in {"assign_check", "assign"} => r.to \in Persons
  /\ r.step \in {"add_note", "get_note", "del_note"} => r.who \in People
  /\ r.step \in {"get_note", "del_note"} => r.note \in NoteIds
  /\ r.step = "del_note" => r.serial \in NoteIds

TypeInv == TypeOK /\ \A w \in Workers : Kind(req[w])

\* Every app-password is one mailbox's, and what bears it says so.
Agrees(owner) ==
  /\ \A p \in upstream : owner[p.pw] = p.email
  /\ \A id \in Live : owner[shared[id].pw] = shared[id].email
  /\ \A w \in Workers : Minting(req[w]) => owner[req[w].pw] = req[w].email
  /\ \A w \in Workers : At(w, "undo_delete") =>
       \A pw \in req[w].listed : owner[pw] = req[w].email
OwnerInv == \E owner \in [Mints -> Emails \cup {"none"}] : Agrees(owner)

\* App-passwords are numbered, and one is stored under one id, once.
NumbersInv ==
  /\ \A p \in upstream : p.pw <= minted
  /\ \A id \in Live : shared[id].pw <= minted
  /\ \A s \in sessions : s.pw <= minted
  /\ \A w \in Workers : req[w].pw <= minted /\ \A pw \in req[w].listed : pw <= minted
StoredInv ==
  /\ \A i, j \in Live : shared[i].pw = shared[j].pw => i = j
  /\ \A w \in Workers, i \in Live : Knows(req[w]) /\ shared[i].pw = req[w].pw => i = req[w].id
  /\ \A w \in Workers : Unstored(req[w]) =>
       /\ \A i \in Live : shared[i].pw # req[w].pw
       /\ \A s \in sessions : s.pw # req[w].pw
       /\ \A v \in Workers : Knows(req[v]) \/ Unstored(req[v]) => v = w \/ req[v].pw # req[w].pw

\* One create of a mailbox at a time, and its app-password is there.
AloneInv ==
  \A w \in Workers, e \in Emails \ raced : Creating(w, e) =>
    /\ \A v \in Workers : Creating(v, e) => v = w
    /\ \A id \in Live : shared[id].email # e
    /\ Unstored(req[w]) => [email |-> e, pw |-> req[w].pw] \in upstream

\* What a delete has emptied stays empty.
EmptiedInv ==
  \A w \in Workers : req[w].id \notin late =>
    /\ req[w].step \in {"del_assignments", "del_notes", "del_row"} =>
         \A m \in members : m[1] # req[w].id
    /\ req[w].step \in {"del_notes", "del_row"} => \A a \in assignments : a[1] # req[w].id
    /\ req[w].step = "del_row" => \A n \in notes : n.mailbox # req[w].id

\* Who is about to be assigned a task or to get a session was made a member.
CheckedInv ==
  /\ \A w \in Workers : /\ At(w, "assign") /\ req[w].id \notin late
                        /\ shared[req[w].id].pw = req[w].pw
                        => <<req[w].pw, req[w].to>> \in grants
  /\ \A w \in Workers, id \in Live \ late :
       At(w, "create_session") /\ shared[id].pw = req[w].pw => <<req[w].pw, req[w].who>> \in grants

\* Notes have ids and numbers of their own; what a request is to delete is the
\* note it has seen.
NotesInv ==
  /\ \A n \in notes : n.serial <= written
  /\ \A m, n \in notes : m.id = n.id \/ m.serial = n.serial => m = n
  /\ \A w \in Workers : At(w, "del_note") =>
       /\ req[w].serial <= written
       /\ \A n \in notes : n.serial = req[w].serial => n.id = req[w].note /\ n.author = req[w].who

IInv ==
  /\ TypeInv /\ OwnerInv /\ NumbersInv /\ StoredInv /\ AloneInv /\ SharedCredentialWorks
  /\ EmptiedInv /\ CheckedInv /\ RowsBelongToTheirMailbox /\ NotesInv
-----------------------------------------------------------------------------
(* Types, and what each step does to the requests.                         *)

Others(w) == \A v \in Workers : v # w => req'[v] = req[v]
Ends(w) == Others(w) /\ req'[w] = Idle
Goes(w, step) ==
  /\ Others(w)
  /\ req'[w].step = step /\ req'[w].id = req[w].id /\ req'[w].email = req[w].email
  /\ req'[w].pw = req[w].pw /\ req'[w].who = req[w].who /\ req'[w].to = req[w].to
  /\ req'[w].note = req[w].note /\ req'[w].serial = req[w].serial
  /\ req'[w].listed = req[w].listed

Requests == req \in [Workers -> Request] /\ \A w \in Workers : Kind(req[w])
Tables ==
  /\ shared \in [Ids -> [email : Emails, pw : Mints] \cup {NoMailbox}]
  /\ members \subseteq Ids \X Persons
  /\ assignments \subseteq Ids \X Persons
  /\ notes \subseteq [id : NoteIds, mailbox : Ids, author : People, serial : NoteIds]
  /\ upstream \subseteq [email : Emails, pw : Mints]
  /\ sessions \subseteq [email : Emails, pw : Mints, actingAs : Persons]
  /\ minted \in 0..MaxMints /\ written \in 0..MaxNotes
  /\ grants \subseteq Mints \X Persons
  /\ late \subseteq Ids /\ raced \subseteq Emails /\ condemned \subseteq Mints
  /\ faults \in 0..MaxFaults

LEMMA TypeParts ==
  /\ TypeInv <=> Tables /\ Requests
  /\ TypeInv' <=> Tables' /\ Requests'
  BY DEF TypeInv, TypeOK, Tables, Requests, Request

LEMMA IdleIs ==
  /\ Idle \in Request /\ Kind(Idle)
  /\ Idle.step = "idle" /\ Idle.id = 0 /\ Idle.pw = 0 /\ Idle.email = "none" /\ Idle.listed = {}
  /\ Idle.who = Nobody /\ Idle.to = Nobody /\ Idle.note = 0 /\ Idle.serial = 0
<1>1. MaxMints \in Nat /\ MaxNotes \in Nat
  BY SharedAssumption
<1>2. Idle \in Request
  BY <1>1 DEF Idle, Request, Steps
<1> QED
  BY <1>2 DEF Idle, Kind, CreateSteps, Minting, Knows, DeleteSteps, OtherSteps

LEMMA Taken ==
  ASSUME Requests, NEW w \in Workers, NEW R \in Request, Kind(R), req' = [req EXCEPT ![w] = R]
  PROVE  Requests' /\ Others(w) /\ req'[w] = R
  BY DEF Requests, Others

\* A request that starts was idle.
LEMMA Starting ==
  ASSUME Requests, NEW w \in Workers, NEW R \in Request, Kind(R), Start(w, R)
  PROVE  Requests' /\ Others(w) /\ req'[w] = R /\ req[w] = Idle
<1>1. Requests' /\ Others(w) /\ req'[w] = R
  BY Taken DEF Start
<1> QED
  BY <1>1 DEF Start, At, Requests, Kind

LEMMA Ending ==
  ASSUME Requests, NEW w \in Workers, Done(w)
  PROVE  Requests' /\ Ends(w)
  BY Taken, IdleIs DEF Done, Ends

LEMMA Going ==
  ASSUME Requests, NEW w \in Workers, NEW step \in Steps, Goto(w, step),
         Kind([req[w] EXCEPT !.step = step])
  PROVE  Requests' /\ Goes(w, step)
<1> DEFINE R == [req[w] EXCEPT !.step = step]
<1>1. req[w] \in Request
  BY DEF Requests
<1>2. R \in Request
  BY <1>1 DEF Request
<1>3. req' = [req EXCEPT ![w] = R]
  BY <1>1 DEF Goto, Requests
<1>4. Requests' /\ Others(w) /\ req'[w] = R
  BY <1>2, <1>3, Taken
<1> QED
  BY <1>1, <1>4 DEF Goes, Request

\* The parts of an action that leave the tables' types alone.
LEMMA Counting ==
  ASSUME Tables, Fault \/ NoFault
  PROVE  faults' \in 0..MaxFaults
  BY SharedAssumption DEF Tables, Fault, NoFault

LEMMA CreateCheckShape ==
  ASSUME TypeInv, NEW w \in Workers, NEW email \in Emails, CreateCheck(w, email)
  PROVE  /\ TypeInv' /\ Others(w) /\ req[w] = Idle
         /\ req'[w] = [Idle EXCEPT !.step = "mint", !.email = email]
<1> DEFINE R == [Idle EXCEPT !.step = "mint", !.email = email]
<1>1. R \in Request /\ Kind(R)
  <2>1. R \in Request
    BY IdleIs DEF Request, Steps
  <2> QED
    BY <2>1 DEF Kind, Idle, Minting, Knows, DeleteSteps, OtherSteps
<1>2. Start(w, R)
  BY DEF CreateCheck
<1> HIDE DEF R
<1>3. Requests' /\ Others(w) /\ req'[w] = R /\ req[w] = Idle
  BY <1>1, <1>2, Starting, TypeParts
<1>4. Tables'
  BY TypeParts DEF CreateCheck, Tables, tables, counters
<1> QED
  BY <1>3, <1>4, TypeParts DEF R

LEMMA MintShape ==
  ASSUME TypeInv, NEW w \in Workers, MintAppPassword(w)
  PROVE  /\ TypeInv' /\ req[w].step = "mint" /\ req[w].email \in Emails
         /\ \/ /\ Others(w) /\ minted' = minted + 1 /\ minted' \in Mints
               /\ upstream' = upstream \cup {[email |-> req[w].email, pw |-> minted']}
               /\ req'[w].step = "recover" /\ req'[w].pw = minted' /\ req'[w].id = req[w].id
               /\ req'[w].email = req[w].email /\ req'[w].listed = req[w].listed
            \/ /\ Ends(w) /\ minted' = minted + 1 /\ minted' \in Mints
               /\ upstream' = upstream \cup {[email |-> req[w].email, pw |-> minted']}
            \/ Ends(w) /\ minted' = minted /\ upstream' = upstream
<1>1. Tables /\ Requests /\ req[w].step = "mint"
  BY TypeParts DEF MintAppPassword, At
<1>2. req[w] \in Request /\ req[w].email \in Emails
  BY <1>1 DEF Requests, Kind, CreateSteps
<1>3. CASE Fault /\ Done(w) /\ UNCHANGED <<minted, upstream>>
  <2>1. Requests' /\ Ends(w)
    BY <1>1, <1>3, Ending
  <2>2. Tables'
    BY <1>1, <1>3, Counting DEF MintAppPassword, Tables, tables, history
  <2> QED
    BY <1>1, <1>2, <1>3, <2>1, <2>2, TypeParts
<1>4. CASE /\ minted < MaxMints
           /\ minted' = minted + 1
           /\ upstream' = upstream \cup {[email |-> req[w].email, pw |-> minted']}
           /\ \/ req' = [req EXCEPT ![w].step = "recover", ![w].pw = minted'] /\ NoFault
              \/ Fault /\ Done(w)
  <2>1. minted' \in Mints /\ minted' \in 0..MaxMints
    BY <1>1, <1>4, SharedAssumption DEF Tables, Mints
  <2>2. Tables'
    BY <1>1, <1>2, <1>4, <2>1, Counting DEF MintAppPassword, Tables, tables, history
  <2>3. CASE Done(w)
    <3>1. Requests' /\ Ends(w)
      BY <1>1, <2>3, Ending
    <3> QED
      BY <1>1, <1>2, <1>4, <2>1, <2>2, <3>1, TypeParts
  <2>4. CASE req' = [req EXCEPT ![w].step = "recover", ![w].pw = minted']
    <3> DEFINE R == [req[w] EXCEPT !.step = "recover", !.pw = minted']
    <3>1. R \in Request
      BY <1>2, <2>1 DEF Request, Steps
    <3>2. Kind(R)
      BY <1>2, <2>1 DEF Kind, Request, Minting, Knows, DeleteSteps, OtherSteps
    <3>3. req' = [req EXCEPT ![w] = R]
      BY <1>1, <2>4 DEF Requests
    <3>4. Requests' /\ Others(w) /\ req'[w] = R
      BY <1>1, <3>1, <3>2, <3>3, Taken
    <3> QED
      BY <1>1, <1>2, <1>4, <2>1, <2>2, <3>4, TypeParts DEF Request
  <2> QED
    BY <1>4, <2>3, <2>4
<1> QED
  BY <1>3, <1>4 DEF MintAppPassword

LEMMA RecoverShape ==
  ASSUME TypeInv, NEW w \in Workers, RecoverAppPwID(w)
  PROVE  /\ TypeInv' /\ req[w].step = "recover" /\ req[w] \in Request
         /\ Goes(w, "insert") \/ Goes(w, "undo_list")
<1>1. Tables /\ Requests /\ req[w].step = "recover"
  BY TypeParts DEF RecoverAppPwID, At
<1>2. req[w] \in Request /\ Kind(req[w])
  BY <1>1 DEF Requests
<1>3. \A step \in {"insert", "undo_list"} : step \in Steps /\ Kind([req[w] EXCEPT !.step = step])
  BY <1>1, <1>2 DEF Request, Kind, Steps, CreateSteps, Minting, Knows, DeleteSteps, OtherSteps
<1>4. Goto(w, "insert") \/ Goto(w, "undo_list")
  BY DEF RecoverAppPwID
<1>5. Requests' /\ (Goes(w, "insert") \/ Goes(w, "undo_list"))
  BY <1>1, <1>3, <1>4, Going
<1>6. Tables'
  <2>1. Fault \/ NoFault
    BY DEF RecoverAppPwID
  <2> QED
    BY <1>1, <2>1, Counting DEF RecoverAppPwID, Tables, tables, counters, history
<1> QED
  BY <1>1, <1>2, <1>5, <1>6, TypeParts

LEMMA CreateMailboxShape ==
  ASSUME TypeInv, NEW w \in Workers, CreateMailbox(w)
  PROVE  /\ TypeInv' /\ req[w].step = "insert"
         /\ req[w] \in Request /\ req[w].email \in Emails /\ req[w].pw \in Mints
         /\ \/ /\ \A id \in Live : shared[id].email # req[w].email
               /\ Ends(w)
               /\ \E id \in Ids : /\ id \notin Live /\ Live' = Live \cup {id}
                                  /\ shared'[id] = [email |-> req[w].email, pw |-> req[w].pw]
                                  /\ \A i \in Ids : i # id => shared'[i] = shared[i]
            \/ Goes(w, "undo_list") /\ shared' = shared
<1>1. Tables /\ Requests /\ req[w].step = "insert"
  BY TypeParts DEF CreateMailbox, At
<1>2. req[w] \in Request /\ req[w].email \in Emails /\ req[w].pw \in Mints /\ Kind(req[w])
  BY <1>1 DEF Requests, Kind, CreateSteps, Minting
<1>3. Fault \/ NoFault
  BY DEF CreateMailbox
<1>4. faults' \in 0..MaxFaults
  BY <1>1, <1>3, Counting
<1>5. CASE Goto(w, "undo_list") /\ shared' = shared
  <2>1. "undo_list" \in Steps /\ Kind([req[w] EXCEPT !.step = "undo_list"])
    BY <1>1, <1>2 DEF Request, Kind, Steps, CreateSteps, Minting, Knows, DeleteSteps, OtherSteps
  <2>2. Requests' /\ Goes(w, "undo_list")
    BY <1>1, <1>5, <2>1, Going
  <2>3. Tables'
    BY <1>1, <1>4, <1>5 DEF CreateMailbox, Tables, counters, history
  <2> QED
    BY <1>1, <1>2, <1>5, <2>2, <2>3, TypeParts
<1>6. ASSUME NEW id \in Ids, NextId(id, Live), Done(w),
             \A i \in Live : shared[i].email # req[w].email,
             shared' = [shared EXCEPT ![id] = [email |-> req[w].email, pw |-> req[w].pw]]
      PROVE  /\ TypeInv' /\ Ends(w) /\ id \notin Live /\ Live' = Live \cup {id}
             /\ shared'[id] = [email |-> req[w].email, pw |-> req[w].pw]
             /\ \A i \in Ids : i # id => shared'[i] = shared[i]
  <2> DEFINE row == [email |-> req[w].email, pw |-> req[w].pw]
  <2>1. row \in [email : Emails, pw : Mints] /\ row # NoMailbox
    BY <1>2, SharedAssumption DEF Mints, NoMailbox
  <2> HIDE DEF row
  <2>2. shared' \in [Ids -> [email : Emails, pw : Mints] \cup {NoMailbox}]
        /\ shared'[id] = row /\ \A i \in Ids : i # id => shared'[i] = shared[i]
    BY <1>1, <1>6, <2>1 DEF Tables, row
  <2>3. id \notin Live
    BY <1>6, SharedAssumption DEF NextId, Ids, Mints
  <2>4. Live' = Live \cup {id}
    BY <2>1, <2>2 DEF Live
  <2>5. Tables'
    BY <1>1, <1>4, <2>2 DEF CreateMailbox, Tables, counters, history
  <2>6. Requests' /\ Ends(w)
    BY <1>1, <1>6, Ending
  <2> QED
    BY <2>2, <2>3, <2>4, <2>5, <2>6, TypeParts DEF row
<1>7. \/ Goto(w, "undo_list") /\ shared' = shared
      \/ /\ \A i \in Live : shared[i].email # req[w].email
         /\ Done(w)
         /\ \E id \in Ids : /\ NextId(id, Live)
                            /\ shared' = [shared EXCEPT ![id] =
                                            [email |-> req[w].email, pw |-> req[w].pw]]
  BY DEF CreateMailbox
<1> QED
  BY <1>1, <1>2, <1>5, <1>6, <1>7

LEMMA UndoListShape ==
  ASSUME TypeInv, NEW w \in Workers, UndoList(w)
  PROVE  /\ TypeInv' /\ req[w].step = "undo_list" /\ req[w] \in Request
         /\ UNCHANGED <<tables, upstream, sessions, counters, history>>
         /\ \/ /\ Others(w)
               /\ req'[w].step = "undo_delete" /\ req'[w].listed = Named(req[w].email)
               /\ req'[w].email = req[w].email /\ req'[w].pw = req[w].pw /\ req'[w].id = req[w].id
            \/ Ends(w)
<1>1. Tables /\ Requests /\ req[w].step = "undo_list"
  BY TypeParts DEF UndoList, At
<1>2. req[w] \in Request /\ Kind(req[w])
  BY <1>1 DEF Requests
<1>3. Fault \/ NoFault
  BY DEF UndoList
<1>4. UNCHANGED <<tables, upstream, sessions, counters, history>>
  BY DEF UndoList
<1>5. Tables'
  BY <1>1, <1>3, <1>4, Counting DEF Tables, tables, counters, history
<1>6. CASE Done(w)
  BY <1>1, <1>2, <1>4, <1>5, <1>6, Ending, TypeParts
<1>7. CASE req' = [req EXCEPT ![w].step = "undo_delete", ![w].listed = Named(req[w].email)]
  <2> DEFINE R == [req[w] EXCEPT !.step = "undo_delete", !.listed = Named(req[w].email)]
  <2>1. Named(req[w].email) \in SUBSET Mints
    BY <1>1 DEF Named, Tables
  <2>2. R \in Request
    BY <1>2, <2>1 DEF Request, Steps
  <2>3. Kind(R)
    BY <1>1, <1>2 DEF Kind, Request, Minting, Knows, CreateSteps, DeleteSteps, OtherSteps
  <2>4. req' = [req EXCEPT ![w] = R]
    BY <1>1, <1>7 DEF Requests
  <2>5. Requests' /\ Others(w) /\ req'[w] = R
    BY <1>1, <2>2, <2>3, <2>4, Taken
  <2> QED
    BY <1>1, <1>2, <1>4, <1>5, <2>5, TypeParts DEF Request
<1> QED
  BY <1>6, <1>7 DEF UndoList

LEMMA UndoDeleteShape ==
  ASSUME TypeInv, NEW w \in Workers, UndoDelete(w)
  PROVE  TypeInv' /\ req[w].step = "undo_delete" /\ req[w] \in Request /\ Ends(w)
<1>1. Tables /\ Requests /\ req[w].step = "undo_delete" /\ Done(w)
  BY TypeParts DEF UndoDelete, At
<1>2. Fault \/ NoFault
  BY DEF UndoDelete
<1>3. Tables'
  BY <1>1, <1>2, Counting DEF UndoDelete, Tables, tables, counters, history
<1> QED
  BY <1>1, <1>3, Ending, TypeParts DEF Requests

\* A request reads a live mailbox and remembers its id and its app-password.
Reads(w, step, id, person, to, note) ==
  /\ Others(w) /\ req[w] = Idle
  /\ req'[w].step = step /\ req'[w].id = id /\ req'[w].pw = shared[id].pw
  /\ req'[w].who = person /\ req'[w].to = to /\ req'[w].note = note
  /\ req'[w].listed = {}

LEMMA ReadShape ==
  ASSUME TypeInv, NEW w \in Workers, NEW id \in Live, NEW R \in Request, Start(w, R),
         R.step \in DeleteSteps \cup OtherSteps, R.step # "del_note",
         R.id = id, R.pw = shared[id].pw, R.listed = {},
         R.step \in {"is_member", "create_session"} => R.email \in Emails,
         R.step \in {"add_member", "is_member", "create_session"} => R.who \in Persons,
         R.step \in {"assign_check", "assign"} => R.to \in Persons,
         R.step \in {"add_note", "get_note"} => R.who \in People,
         R.step = "get_note" => R.note \in NoteIds,
         UNCHANGED <<tables, upstream, sessions, counters, history, faults>>
  PROVE  /\ TypeInv' /\ Reads(w, R.step, id, R.who, R.to, R.note)
         /\ req'[w] = R /\ id \in Ids /\ shared[id].pw \in Mints
<1>1. Tables /\ Requests
  BY TypeParts
<1>2. id \in Ids /\ shared[id].pw \in Mints
  BY <1>1 DEF Live, Tables
<1>3. Kind(R)
  BY <1>2 DEF Kind, CreateSteps, DeleteSteps, OtherSteps, Minting, Knows
<1>4. Requests' /\ Others(w) /\ req'[w] = R /\ req[w] = Idle
  BY <1>1, <1>3, Starting
<1>5. Tables'
  BY <1>1 DEF Tables, tables, counters, history
<1> QED
  BY <1>2, <1>4, <1>5, TypeParts DEF Reads


LEMMA DeleteReadShape ==
  ASSUME TypeInv, NEW w \in Workers, NEW id \in Ids, DeleteRead(w, id)
  PROVE  /\ TypeInv' /\ Others(w) /\ req[w] = Idle /\ id \in Live
         /\ req'[w].step = "revoke" /\ req'[w].id = id /\ req'[w].pw = shared[id].pw
         /\ req'[w].listed = {}
<1> DEFINE R == [Idle EXCEPT !.step = "revoke", !.id = id, !.pw = shared[id].pw]
<1>1. id \in Live /\ Start(w, R) /\ UNCHANGED <<tables, upstream, sessions, counters, history, faults>>
  BY DEF DeleteRead
<1>2. shared[id].pw \in 0..MaxMints
  BY <1>1, TypeParts, SharedAssumption DEF Tables, Live, Mints
<1>3. /\ R \in Request /\ R.step = "revoke" /\ R.id = id /\ R.pw = shared[id].pw /\ R.listed = {}
      /\ R.step \in DeleteSteps
  BY <1>2, IdleIs DEF Request, Steps, DeleteSteps
<1> HIDE DEF R
<1> QED
  BY <1>1, <1>3, ReadShape DEF Reads

LEMMA AddMemberCheckShape ==
  ASSUME TypeInv, NEW w \in Workers, NEW id \in Ids, NEW person \in Persons,
         AddMemberCheck(w, id, person)
  PROVE  /\ TypeInv' /\ Others(w) /\ req[w] = Idle /\ id \in Live
         /\ req'[w].step = "add_member" /\ req'[w].id = id /\ req'[w].pw = shared[id].pw
         /\ req'[w].listed = {}
<1> DEFINE R == [Idle EXCEPT !.step = "add_member", !.id = id, !.pw = shared[id].pw, !.who = person]
<1>1. id \in Live /\ Start(w, R) /\ UNCHANGED <<tables, upstream, sessions, counters, history, faults>>
  BY DEF AddMemberCheck
<1>2. shared[id].pw \in 0..MaxMints
  BY <1>1, TypeParts, SharedAssumption DEF Tables, Live, Mints
<1>3. /\ R \in Request /\ R.step = "add_member" /\ R.id = id /\ R.pw = shared[id].pw /\ R.listed = {}
      /\ R.step \in OtherSteps /\ R.who = person
  BY <1>2, IdleIs DEF Request, Steps, OtherSteps, People
<1> HIDE DEF R
<1> QED
  BY <1>1, <1>3, ReadShape DEF Reads

LEMMA ActivateReadShape ==
  ASSUME TypeInv, NEW w \in Workers, NEW id \in Ids, NEW person \in Persons,
         ActivateRead(w, id, person)
  PROVE  /\ TypeInv' /\ Others(w) /\ req[w] = Idle /\ id \in Live
         /\ req'[w].step = "is_member" /\ req'[w].id = id /\ req'[w].pw = shared[id].pw
         /\ req'[w].listed = {}
<1> DEFINE R == [Idle EXCEPT !.step = "is_member", !.id = id, !.email = shared[id].email,
                             !.pw = shared[id].pw, !.who = person]
<1>1. id \in Live /\ Start(w, R) /\ UNCHANGED <<tables, upstream, sessions, counters, history, faults>>
  BY DEF ActivateRead
<1>2. shared[id].pw \in 0..MaxMints /\ shared[id].email \in Emails
  BY <1>1, TypeParts, SharedAssumption DEF Tables, Live, Mints
<1>3. /\ R \in Request /\ R.step = "is_member" /\ R.id = id /\ R.pw = shared[id].pw /\ R.listed = {}
      /\ R.step \in OtherSteps /\ R.who = person /\ R.email \in Emails
  BY <1>2, IdleIs DEF Request, Steps, OtherSteps, People
<1> HIDE DEF R
<1> QED
  BY <1>1, <1>3, ReadShape DEF Reads

\* resolveSharedSession, for the four steps that follow it.
LEMMA ResolveShape ==
  ASSUME TypeInv, NEW w \in Workers, NEW id \in Ids, NEW person, NEW r \in Request,
         Resolve(w, r, id, person),
         r.step \in {"assign_check", "clear", "add_note", "get_note"}, r.listed = {},
         r.step = "assign_check" => r.to \in Persons,
         r.step \in {"add_note", "get_note"} => r.who \in People,
         r.step = "get_note" => r.note \in NoteIds
  PROVE  /\ TypeInv' /\ Others(w) /\ req[w] = Idle /\ id \in Live
         /\ req'[w].step = r.step /\ req'[w].id = id /\ req'[w].pw = shared[id].pw
         /\ req'[w].listed = {}
<1> DEFINE R == [r EXCEPT !.id = id, !.pw = shared[id].pw]
<1>1. id \in Live /\ Start(w, R) /\ UNCHANGED <<tables, upstream, sessions, counters, history, faults>>
  BY DEF Resolve
<1>2. shared[id].pw \in 0..MaxMints
  BY <1>1, TypeParts, SharedAssumption DEF Tables, Live, Mints
<1>3. /\ R \in Request /\ R.step = r.step /\ R.id = id /\ R.pw = shared[id].pw /\ R.listed = {}
      /\ R.who = r.who /\ R.to = r.to /\ R.note = r.note
  BY <1>2 DEF Request
<1>4. R.step \in OtherSteps /\ R.step \notin {"is_member", "create_session", "add_member", "assign", "del_note"}
  BY <1>3 DEF OtherSteps
<1> HIDE DEF R
<1> QED
  BY <1>1, <1>3, <1>4, ReadShape DEF Reads

ResolveSteps == {"assign_check", "clear", "add_note", "get_note"}

\* The four requests inside a shared mailbox that start by resolving it.
Resolves(w, id) ==
  \/ \E person \in People, to \in Persons : SetAssignmentResolve(w, id, person, to)
  \/ \E person \in People : ClearAssignmentResolve(w, id, person) \/ AddNoteResolve(w, id, person)
  \/ \E person \in People, note \in NoteIds : DeleteNoteResolve(w, id, person, note)

LEMMA ResolvesShape ==
  ASSUME TypeInv, NEW w \in Workers, NEW id \in Ids, Resolves(w, id)
  PROVE  /\ TypeInv' /\ Others(w) /\ req[w] = Idle /\ id \in Live
         /\ req'[w].step \in ResolveSteps /\ req'[w].id = id /\ req'[w].pw = shared[id].pw
         /\ req'[w].listed = {}
<1>1. ASSUME NEW person \in People, NEW to \in Persons, SetAssignmentResolve(w, id, person, to)
      PROVE  \E r \in Request : /\ Resolve(w, r, id, person) /\ r.step = "assign_check"
                                /\ r.listed = {} /\ r.to \in Persons
  <2> DEFINE r == [Idle EXCEPT !.step = "assign_check", !.to = to]
  <2>1. r \in Request /\ r.step = "assign_check" /\ r.listed = {} /\ r.to \in Persons
    BY IdleIs DEF Request, Steps
  <2> QED
    BY <1>1, <2>1 DEF SetAssignmentResolve
<1>2. ASSUME NEW person \in People, ClearAssignmentResolve(w, id, person)
      PROVE  \E r \in Request : Resolve(w, r, id, person) /\ r.step = "clear" /\ r.listed = {}
  <2> DEFINE r == [Idle EXCEPT !.step = "clear"]
  <2>1. r \in Request /\ r.step = "clear" /\ r.listed = {}
    BY IdleIs DEF Request, Steps
  <2> QED
    BY <1>2, <2>1 DEF ClearAssignmentResolve
<1>3. ASSUME NEW person \in People, AddNoteResolve(w, id, person)
      PROVE  \E r \in Request : /\ Resolve(w, r, id, person) /\ r.step = "add_note"
                                /\ r.listed = {} /\ r.who \in People
  <2> DEFINE r == [Idle EXCEPT !.step = "add_note", !.who = person]
  <2>1. r \in Request /\ r.step = "add_note" /\ r.listed = {} /\ r.who \in People
    BY IdleIs DEF Request, Steps
  <2> QED
    BY <1>3, <2>1 DEF AddNoteResolve
<1>4. ASSUME NEW person \in People, NEW note \in NoteIds, DeleteNoteResolve(w, id, person, note)
      PROVE  \E r \in Request : /\ Resolve(w, r, id, person) /\ r.step = "get_note"
                                /\ r.listed = {} /\ r.who \in People /\ r.note \in NoteIds
  <2> DEFINE r == [Idle EXCEPT !.step = "get_note", !.who = person, !.note = note]
  <2>1. note \in 0..MaxNotes
    BY SharedAssumption DEF NoteIds
  <2>2. r \in Request /\ r.step = "get_note" /\ r.listed = {} /\ r.who \in People /\ r.note \in NoteIds
    BY <2>1, IdleIs DEF Request, Steps
  <2> QED
    BY <1>4, <2>2 DEF DeleteNoteResolve
<1>5. PICK person \in People, r \in Request :
        /\ Resolve(w, r, id, person) /\ r.step \in ResolveSteps /\ r.listed = {}
        /\ r.step = "assign_check" => r.to \in Persons
        /\ r.step \in {"add_note", "get_note"} => r.who \in People
        /\ r.step = "get_note" => r.note \in NoteIds
  BY <1>1, <1>2, <1>3, <1>4 DEF Resolves, ResolveSteps
<1> QED
  BY <1>5, ResolveShape DEF ResolveSteps
-----------------------------------------------------------------------------
(* What most steps have in common, and the parts of the invariant that      *)
(* survive it.                                                              *)

Blank(v) ==
  /\ req'[v].step \in {"idle", "mint"} /\ req'[v].pw = 0 /\ req'[v].listed = {}
Continues(v) ==
  /\ req'[v].id = req[v].id /\ req'[v].pw = req[v].pw /\ req'[v].email = req[v].email
  /\ Knows(req'[v]) => Knows(req[v])
  /\ Minting(req'[v]) => Minting(req[v])
  /\ Unstored(req'[v]) => Unstored(req[v])
  /\ \/ req'[v].listed = req[v].listed /\ (req'[v].step = "undo_delete" => req[v].step = "undo_delete")
     \/ req'[v].listed = Named(req[v].email)
ReadsRow(v) ==
  /\ Knows(req'[v]) /\ req'[v].listed = {}
  /\ req'[v].id \in Live /\ req'[v].pw = shared[req'[v].id].pw

\* Mailboxes go and none comes.
Shrinks ==
  \A id \in Ids : shared'[id] = shared[id] \/ shared'[id] = NoMailbox

\* Requests end, go on, or read a mailbox; sessions get the app-password of one
\* that read it; none is made.
Steady ==
  /\ Shrinks /\ minted' = minted /\ upstream' \subseteq upstream
  /\ \A s \in sessions' : s \in sessions \/ \E w \in Workers : Knows(req[w]) /\ s.pw = req[w].pw
  /\ \A v \in Workers : Blank(v) \/ Continues(v) \/ ReadsRow(v)

NoNewCreator ==
  \A v \in Workers : req'[v].step \in CreateSteps =>
    /\ req[v].step \in CreateSteps /\ req'[v].email = req[v].email
    /\ Unstored(req'[v]) => Unstored(req[v]) /\ req'[v].pw = req[v].pw

\* No request comes to one of the steps.
Keeps(steps) == \A v \in Workers : req'[v].step \in steps => req'[v] = req[v]
Emptying == {"del_assignments", "del_notes", "del_row"}

RowsShrink ==
  members' \subseteq members /\ assignments' \subseteq assignments /\ notes' \subseteq notes
Grows == grants \subseteq grants' /\ late \subseteq late'
Remembers == raced \subseteq raced' /\ condemned \subseteq condemned'

LEMMA Shrinking ==
  ASSUME Tables, Shrinks
  PROVE  \A id \in Live' : id \in Live /\ shared'[id] = shared[id]
  BY DEF Live, Shrinks

LEMMA SameStep ==
  ASSUME NEW v, req'[v] = req[v]
  PROVE  Continues(v)
  BY DEF Continues

LEMMA IdleIsBlank ==
  ASSUME NEW v, req'[v] = Idle
  PROVE  Blank(v)
  BY IdleIs DEF Blank

LEMMA OwnerStays ==
  ASSUME TypeInv, OwnerInv, Steady
  PROVE  OwnerInv'
<1>1. PICK owner \in [Mints -> Emails \cup {"none"}] : Agrees(owner)
  BY DEF OwnerInv
<1>2. Tables
  BY TypeParts
<1>3. \A p \in upstream' : owner[p.pw] = p.email
  BY <1>1 DEF Steady, Agrees
<1>4. \A id \in Live' : owner[shared'[id].pw] = shared'[id].email
  BY <1>1, <1>2, Shrinking DEF Steady, Agrees
<1>5. ASSUME NEW v \in Workers, Minting(req'[v])
      PROVE  owner[req'[v].pw] = req'[v].email
  <2>1. Continues(v)
    BY <1>5 DEF Steady, Blank, ReadsRow, Knows, Minting, DeleteSteps, OtherSteps
  <2> QED
    BY <1>1, <1>5, <2>1 DEF Continues, Agrees
<1>6. ASSUME NEW v \in Workers, req'[v].step = "undo_delete", NEW pw \in req'[v].listed
      PROVE  owner[pw] = req'[v].email
  <2>1. Continues(v)
    BY <1>6 DEF Steady, Blank, ReadsRow
  <2>2. CASE req'[v].listed = req[v].listed /\ req[v].step = "undo_delete"
    BY <1>1, <1>6, <2>1, <2>2 DEF Continues, Agrees, At
  <2>3. CASE req'[v].listed = Named(req[v].email)
    BY <1>1, <1>6, <2>1, <2>3 DEF Continues, Agrees, Named
  <2> QED
    BY <1>6, <2>1, <2>2, <2>3 DEF Continues
<1>7. Agrees(owner)'
  BY <1>3, <1>4, <1>5, <1>6 DEF Agrees, At
<1> QED
  BY <1>7 DEF OwnerInv

LEMMA NumbersStay ==
  ASSUME TypeInv, NumbersInv, Steady
  PROVE  NumbersInv'
<1>1. Tables
  BY TypeParts
<1>2. minted' = minted /\ minted \in Nat
  BY <1>1, SharedAssumption DEF Tables, Steady
<1>3. \A p \in upstream' : p.pw <= minted
  BY DEF NumbersInv, Steady
<1>4. \A id \in Live' : shared'[id].pw <= minted
  BY <1>1, Shrinking DEF NumbersInv, Steady
<1>5. \A s \in sessions' : s.pw <= minted
  BY DEF NumbersInv, Steady
<1>6. ASSUME NEW v \in Workers
      PROVE  req'[v].pw <= minted /\ \A pw \in req'[v].listed : pw <= minted
  <2>1. CASE Blank(v)
    BY <1>2, <2>1 DEF Blank
  <2>2. CASE Continues(v)
    BY <2>2 DEF Continues, NumbersInv, Named
  <2>3. CASE ReadsRow(v)
    BY <2>3 DEF ReadsRow, NumbersInv
  <2> QED
    BY <2>1, <2>2, <2>3 DEF Steady
<1> QED
  BY <1>2, <1>3, <1>4, <1>5, <1>6 DEF NumbersInv

LEMMA StoredStays ==
  ASSUME TypeInv, StoredInv, Steady
  PROVE  StoredInv'
<1>1. Tables
  BY TypeParts
<1>2. \A id \in Live' : id \in Live /\ shared'[id] = shared[id]
  BY <1>1, Shrinking DEF Steady
<1>3. \A i, j \in Live' : shared'[i].pw = shared'[j].pw => i = j
  BY <1>2 DEF StoredInv
<1>4. ASSUME NEW v \in Workers, NEW i \in Live', Knows(req'[v]), shared'[i].pw = req'[v].pw
      PROVE  i = req'[v].id
  <2>1. CASE Continues(v)
    BY <1>2, <1>4, <2>1 DEF Continues, StoredInv
  <2>2. CASE ReadsRow(v)
    BY <1>2, <1>4, <2>2 DEF ReadsRow, StoredInv
  <2> QED
    BY <1>4, <2>1, <2>2 DEF Steady, Blank, Knows, DeleteSteps, OtherSteps
<1>5. ASSUME NEW w \in Workers, Unstored(req'[w])
      PROVE  /\ \A i \in Live' : shared'[i].pw # req'[w].pw
             /\ \A s \in sessions' : s.pw # req'[w].pw
             /\ \A v \in Workers : Knows(req'[v]) \/ Unstored(req'[v]) => v = w \/ req'[v].pw # req'[w].pw
  <2>1. Continues(w)
    BY <1>5 DEF Steady, Blank, ReadsRow, Knows, Unstored, DeleteSteps, OtherSteps
  <2>2. Unstored(req[w]) /\ req'[w].pw = req[w].pw
    BY <1>5, <2>1 DEF Continues
  <2>3. \A i \in Live : shared[i].pw # req[w].pw
    BY <2>2 DEF StoredInv
  <2>4. ASSUME NEW s \in sessions'
        PROVE  s.pw # req[w].pw
    <3>1. CASE s \in sessions
      BY <2>2, <3>1 DEF StoredInv
    <3>2. ASSUME NEW u \in Workers, Knows(req[u]), s.pw = req[u].pw
          PROVE  s.pw # req[w].pw
      <4>1. u # w
        BY <2>2, <3>2 DEF Knows, Unstored, DeleteSteps, OtherSteps
      <4> QED
        BY <2>2, <3>2, <4>1 DEF StoredInv
    <3> QED
      BY <3>1, <3>2 DEF Steady
  <2>5. ASSUME NEW v \in Workers, Knows(req'[v]) \/ Unstored(req'[v]), v # w
        PROVE  req'[v].pw # req[w].pw
    <3>1. CASE Continues(v)
      BY <2>2, <2>5, <3>1 DEF Continues, StoredInv
    <3>2. CASE ReadsRow(v)
      BY <2>3, <3>2 DEF ReadsRow
    <3> QED
      BY <2>5, <3>1, <3>2 DEF Steady, Blank, Knows, Unstored, DeleteSteps, OtherSteps
  <2> QED
    BY <1>2, <2>2, <2>3, <2>4, <2>5
<1> QED
  BY <1>3, <1>4, <1>5 DEF StoredInv

LEMMA AloneStays ==
  ASSUME TypeInv, AloneInv, Shrinks, NoNewCreator, raced \subseteq raced',
         upstream \subseteq upstream'
  PROVE  AloneInv'
<1>1. \A id \in Live' : id \in Live /\ shared'[id] = shared[id]
  BY TypeParts, Shrinking
<1>2. ASSUME NEW w \in Workers, NEW e \in Emails \ raced', Creating(w, e)'
      PROVE  /\ \A v \in Workers : Creating(v, e)' => v = w
             /\ \A id \in Live' : shared'[id].email # e
             /\ Unstored(req'[w]) => [email |-> e, pw |-> req'[w].pw] \in upstream'
  <2>1. \A v \in Workers : Creating(v, e)' => Creating(v, e)
    BY DEF Creating, NoNewCreator, CreateSteps
  <2>2. e \in Emails \ raced /\ Creating(w, e)
    BY <1>2, <2>1
  <2>3. Unstored(req'[w]) => Unstored(req[w]) /\ req'[w].pw = req[w].pw
    BY <1>2 DEF NoNewCreator, Creating, CreateSteps
  <2> QED
    BY <1>1, <2>1, <2>2, <2>3 DEF AloneInv
<1> QED
  BY <1>2 DEF AloneInv

LEMMA WorksStays ==
  ASSUME TypeInv, SharedCredentialWorks, Shrinks, Remembers, upstream \subseteq upstream'
  PROVE  SharedCredentialWorks'
<1>1. \A id \in Live' : id \in Live /\ shared'[id] = shared[id]
  BY TypeParts, Shrinking
<1> QED
  BY <1>1 DEF SharedCredentialWorks, Remembers

LEMMA EmptiedStays ==
  ASSUME EmptiedInv, RowsShrink, Grows, Keeps(Emptying)
  PROVE  EmptiedInv'
<1>1. ASSUME NEW v \in Workers, req'[v].id \notin late', req'[v].step \in Emptying
      PROVE  /\ \A m \in members' : m[1] # req'[v].id
             /\ req'[v].step \in {"del_notes", "del_row"} => \A a \in assignments' : a[1] # req'[v].id
             /\ req'[v].step = "del_row" => \A n \in notes' : n.mailbox # req'[v].id
  <2>1. req'[v] = req[v] /\ req[v].id \notin late
    BY <1>1 DEF Keeps, Grows
  <2> QED
    BY <1>1, <2>1 DEF EmptiedInv, RowsShrink, Emptying
<1> QED
  BY <1>1 DEF EmptiedInv, Emptying

LEMMA CheckedStays ==
  ASSUME TypeInv, CheckedInv, Shrinks, Grows, Keeps({"assign", "create_session"})
  PROVE  CheckedInv'
<1>1. \A id \in Live' : id \in Live /\ shared'[id] = shared[id]
  BY TypeParts, Shrinking
<1>2. ASSUME NEW w \in Workers, At(w, "assign")', req'[w].id \notin late',
             shared'[req'[w].id].pw = req'[w].pw
      PROVE  <<req'[w].pw, req'[w].to>> \in grants'
  <2>1. req'[w] = req[w] /\ req[w].id \notin late /\ At(w, "assign")
    BY <1>2 DEF Keeps, Grows, At
  <2>2. req[w].pw \in Mints /\ req[w].id \in Ids
    BY <2>1, TypeParts DEF Requests, Kind, Knows, OtherSteps, At
  <2>3. req[w].id \in Live'
    BY <1>2, <2>1, <2>2, SharedAssumption DEF Live, NoMailbox, Mints
  <2> QED
    BY <1>1, <1>2, <2>1, <2>3 DEF CheckedInv, Grows
<1>3. ASSUME NEW w \in Workers, NEW id \in Live' \ late', At(w, "create_session")',
             shared'[id].pw = req'[w].pw
      PROVE  <<req'[w].pw, req'[w].who>> \in grants'
  <2>1. req'[w] = req[w] /\ At(w, "create_session")
    BY <1>3 DEF Keeps, At
  <2> QED
    BY <1>1, <1>3, <2>1 DEF CheckedInv, Grows
<1> QED
  BY <1>2, <1>3 DEF CheckedInv

LEMMA RowsStay ==
  ASSUME RowsBelongToTheirMailbox, RowsShrink, Grows, shared' = shared, sessions' = sessions
  PROVE  RowsBelongToTheirMailbox'
<1>1. Live' = Live
  BY DEF Live
<1>2. \A id \in {m[1] : m \in members'} \cup {a[1] : a \in assignments'}
                   \cup {n.mailbox : n \in notes'} : id \in Live \cup late'
  BY DEF RowsBelongToTheirMailbox, RowsShrink, Grows
<1>3. \A row \in members' \cup assignments' :
         row[1] \in Live \ late' => <<shared[row[1]].pw, row[2]>> \in grants'
  BY DEF RowsBelongToTheirMailbox, RowsShrink, Grows
<1>4. \A s \in sessions, id \in Live \ late' :
         shared[id].pw = s.pw => <<shared[id].pw, s.actingAs>> \in grants'
  BY DEF RowsBelongToTheirMailbox, Grows
<1> QED
  BY <1>1, <1>2, <1>3, <1>4 DEF RowsBelongToTheirMailbox

LEMMA NotesStay ==
  ASSUME NotesInv, notes' \subseteq notes, written' = written, Keeps({"del_note"})
  PROVE  NotesInv'
<1>1. \A w \in Workers : At(w, "del_note")' => req'[w] = req[w] /\ At(w, "del_note")
  BY DEF Keeps, At
<1> QED
  BY <1>1 DEF NotesInv

Conduct == \A v \in Workers : Blank(v) \/ Continues(v) \/ ReadsRow(v)
Phases == Emptying \cup {"assign", "create_session", "del_note"}

LEMMA Quiet ==
  ASSUME IInv, TypeInv', Conduct, NoNewCreator, Keeps(Phases), RowsShrink, Grows, Remembers,
         UNCHANGED <<shared, sessions, minted, written, upstream>>
  PROVE  IInv'
<1>1. Shrinks
  BY DEF Shrinks
<1>2. Steady
  BY <1>1 DEF Steady, Conduct
<1>3. Keeps(Emptying) /\ Keeps({"assign", "create_session"}) /\ Keeps({"del_note"})
  BY DEF Keeps, Phases
<1>4. OwnerInv' /\ NumbersInv' /\ StoredInv'
  BY <1>2, OwnerStays, NumbersStay, StoredStays DEF IInv
<1>5. AloneInv' /\ SharedCredentialWorks'
  BY <1>1, AloneStays, WorksStays DEF IInv, Remembers
<1>6. EmptiedInv' /\ CheckedInv'
  BY <1>1, <1>3, EmptiedStays, CheckedStays DEF IInv
<1>7. RowsBelongToTheirMailbox' /\ NotesInv'
  BY <1>3, RowsStay, NotesStay DEF IInv, RowsShrink
<1> QED
  BY <1>4, <1>5, <1>6, <1>7 DEF IInv

\* A request that ends, one that goes to another step, one that reads a mailbox.
LEMMA EndsConduct ==
  ASSUME NEW w \in Workers, Ends(w)
  PROVE  Conduct /\ NoNewCreator /\ Keeps(Phases)
<1>1. \A v \in Workers : v # w => req'[v] = req[v]
  BY DEF Ends, Others
<1>2. req'[w] = Idle /\ Idle.step = "idle"
  BY IdleIs DEF Ends
<1>3. Conduct
  BY <1>1, <1>2, SameStep, IdleIsBlank DEF Conduct
<1>4. NoNewCreator
  BY <1>1, <1>2 DEF NoNewCreator, CreateSteps
<1> QED
  BY <1>1, <1>2, <1>3, <1>4 DEF Keeps, Phases, Emptying

LEMMA GoesConduct ==
  ASSUME NEW w \in Workers, NEW step, Goes(w, step), step # "undo_delete",
         step \in DeleteSteps \cup OtherSteps => Knows(req[w]),
         step \in {"recover", "insert"} => Unstored(req[w]),
         step \in CreateSteps => req[w].step \in CreateSteps \ {"mint"}
  PROVE  Conduct /\ NoNewCreator /\ \A steps : step \notin steps => Keeps(steps)
<1>1. \A v \in Workers : v # w => req'[v] = req[v]
  BY DEF Goes, Others
<1>2. Continues(w)
  BY DEF Goes, Continues, Knows, Minting, Unstored, CreateSteps
<1>3. Conduct
  BY <1>1, <1>2, SameStep DEF Conduct
<1>4. NoNewCreator
  BY <1>1 DEF NoNewCreator, CreateSteps, Goes, Unstored
<1>5. ASSUME NEW steps, step \notin steps
      PROVE  Keeps(steps)
  BY <1>1, <1>5 DEF Keeps, Goes
<1> QED
  BY <1>3, <1>4, <1>5

LEMMA ReadsConduct ==
  ASSUME NEW w \in Workers, NEW id \in Live, Others(w),
         req'[w].step \in {"revoke", "add_member", "is_member"} \cup ResolveSteps,
         req'[w].id = id, req'[w].pw = shared[id].pw, req'[w].listed = {}
  PROVE  Conduct /\ NoNewCreator /\ Keeps(Phases)
<1>1. \A v \in Workers : v # w => req'[v] = req[v]
  BY DEF Others
<1>2. ReadsRow(w)
  BY DEF ReadsRow, ResolveSteps, Knows, DeleteSteps, OtherSteps
<1>3. Conduct
  BY <1>1, <1>2, SameStep DEF Conduct
<1>4. NoNewCreator
  BY <1>1 DEF NoNewCreator, CreateSteps, ResolveSteps
<1> QED
  BY <1>1, <1>3, <1>4 DEF Keeps, Phases, Emptying, ResolveSteps

\* The requests that have only read.
LEMMA ReadsKeep ==
  ASSUME IInv, NEW w \in Workers, NEW id \in Ids,
         \/ DeleteRead(w, id)
         \/ \E person \in Persons : AddMemberCheck(w, id, person) \/ ActivateRead(w, id, person)
         \/ Resolves(w, id)
  PROVE  IInv'
<1> DEFINE Goal == /\ TypeInv' /\ Others(w) /\ id \in Live
                   /\ req'[w].step \in {"revoke", "add_member", "is_member"} \cup ResolveSteps
                   /\ req'[w].id = id /\ req'[w].pw = shared[id].pw /\ req'[w].listed = {}
<1>1. Goal
  <2>1. CASE DeleteRead(w, id)
    BY <2>1, DeleteReadShape DEF IInv
  <2>2. ASSUME NEW person \in Persons, AddMemberCheck(w, id, person)
        PROVE  Goal
    BY <2>2, AddMemberCheckShape DEF IInv
  <2>3. ASSUME NEW person \in Persons, ActivateRead(w, id, person)
        PROVE  Goal
    BY <2>3, ActivateReadShape DEF IInv
  <2>4. CASE Resolves(w, id)
    BY <2>4, ResolvesShape DEF IInv
  <2> QED
    BY <2>1, <2>2, <2>3, <2>4
<1>2. UNCHANGED <<tables, upstream, sessions, counters, history>>
  BY DEF DeleteRead, AddMemberCheck, ActivateRead, Resolves, Resolve, SetAssignmentResolve,
         ClearAssignmentResolve, AddNoteResolve, DeleteNoteResolve
<1>3. RowsShrink /\ Grows /\ Remembers /\ UNCHANGED <<shared, sessions, minted, written, upstream>>
  BY <1>2 DEF tables, counters, history, RowsShrink, Grows, Remembers
<1> QED
  BY <1>1, <1>3, ReadsConduct, Quiet

\* Requests that end and leave no more than they found.
LEMMA EndsKeep ==
  ASSUME IInv, NEW w \in Workers, Ends(w), TypeInv', RowsShrink, Grows, Remembers,
         UNCHANGED <<shared, sessions, minted, written, upstream>>
  PROVE  IInv'
  BY EndsConduct, Quiet

LEMMA RecoverKeeps ==
  ASSUME IInv, NEW w \in Workers, RecoverAppPwID(w)
  PROVE  IInv'
<1>1. TypeInv' /\ req[w].step = "recover" /\ (Goes(w, "insert") \/ Goes(w, "undo_list"))
  BY RecoverShape DEF IInv
<1>2. RowsShrink /\ Grows /\ Remembers /\ UNCHANGED <<shared, sessions, minted, written, upstream>>
  BY DEF RecoverAppPwID, tables, counters, history, RowsShrink, Grows, Remembers
<1>3. ASSUME NEW step \in {"insert", "undo_list"}, Goes(w, step)
      PROVE  Conduct /\ NoNewCreator /\ Keeps(Phases)
  <2>1. Unstored(req[w]) /\ req[w].step \in CreateSteps \ {"mint"}
    BY <1>1 DEF Unstored, CreateSteps
  <2>2. step # "undo_delete" /\ step \notin DeleteSteps \cup OtherSteps /\ step \notin Phases
    BY DEF DeleteSteps, OtherSteps, Phases, Emptying
  <2> QED
    BY <1>3, <2>1, <2>2, GoesConduct
<1> QED
  BY <1>1, <1>2, <1>3, Quiet

LEMMA UndoListKeeps ==
  ASSUME IInv, NEW w \in Workers, UndoList(w)
  PROVE  IInv'
<1>1. /\ TypeInv' /\ req[w].step = "undo_list"
      /\ UNCHANGED <<tables, upstream, sessions, counters, history>>
      /\ \/ /\ Others(w)
            /\ req'[w].step = "undo_delete" /\ req'[w].listed = Named(req[w].email)
            /\ req'[w].email = req[w].email /\ req'[w].pw = req[w].pw /\ req'[w].id = req[w].id
         \/ Ends(w)
  BY UndoListShape DEF IInv
<1>2. RowsShrink /\ Grows /\ Remembers /\ UNCHANGED <<shared, sessions, minted, written, upstream>>
  BY <1>1 DEF tables, counters, history, RowsShrink, Grows, Remembers
<1>3. CASE ~ Ends(w)
  <2>1. \A v \in Workers : v # w => req'[v] = req[v]
    BY <1>1, <1>3 DEF Others
  <2>2. Continues(w)
    BY <1>1, <1>3 DEF Continues, Knows, Minting, Unstored, DeleteSteps, OtherSteps
  <2>3. Conduct
    BY <2>1, <2>2, SameStep DEF Conduct
  <2>4. NoNewCreator
    BY <1>1, <1>3, <2>1 DEF NoNewCreator, CreateSteps, Unstored
  <2>5. Keeps(Phases)
    BY <1>1, <1>3, <2>1 DEF Keeps, Phases, Emptying
  <2> QED
    BY <1>1, <1>2, <2>3, <2>4, <2>5, Quiet
<1> QED
  BY <1>1, <1>2, <1>3, EndsKeep

LEMMA StatementFailsKeeps ==
  ASSUME IInv, NEW w \in Workers, StatementFails(w)
  PROVE  IInv'
<1>1. Tables /\ Requests
  BY TypeParts DEF IInv
<1>2. Requests' /\ Ends(w)
  BY <1>1, Ending DEF StatementFails
<1>3. Tables'
  BY <1>1, Counting DEF StatementFails, Tables, tables, counters, history
<1>4. RowsShrink /\ Grows /\ Remembers /\ UNCHANGED <<shared, sessions, minted, written, upstream>>
  BY DEF StatementFails, tables, counters, history, RowsShrink, Grows, Remembers
<1> QED
  BY <1>2, <1>3, <1>4, EndsKeep, TypeParts

LEMMA CrashKeeps ==
  ASSUME IInv, Crash
  PROVE  IInv'
<1>1. Tables /\ Requests
  BY TypeParts DEF IInv
<1>2. \A v \in Workers : req'[v] = Idle
  BY DEF Crash
<1>3. Requests'
  BY <1>2, IdleIs DEF Crash, Requests
<1>4. Tables'
  BY <1>1, Counting DEF Crash, Tables, tables, counters, history
<1>5. RowsShrink /\ Grows /\ Remembers /\ UNCHANGED <<shared, sessions, minted, written, upstream>>
  BY DEF Crash, tables, counters, history, RowsShrink, Grows, Remembers
<1>6. Conduct
  BY <1>2, IdleIsBlank DEF Conduct
<1>7. NoNewCreator /\ Keeps(Phases)
  BY <1>2, IdleIs DEF NoNewCreator, CreateSteps, Keeps, Phases, Emptying
<1> QED
  BY <1>3, <1>4, <1>5, <1>6, <1>7, TypeParts, Quiet

LEMMA RemoveMemberKeeps ==
  ASSUME IInv, NEW id \in Ids, NEW person \in Persons, RemoveMember(id, person)
  PROVE  IInv'
<1>1. Tables /\ Requests
  BY TypeParts DEF IInv
<1>2. req' = req
  BY DEF RemoveMember
<1>3. Requests'
  BY <1>1, <1>2 DEF Requests
<1>4. Tables'
  BY <1>1 DEF RemoveMember, Tables, counters
<1>5. RowsShrink /\ Grows /\ Remembers /\ UNCHANGED <<shared, sessions, minted, written, upstream>>
  BY DEF RemoveMember, counters, RowsShrink, Grows, Remembers
<1>6. Conduct
  BY <1>2, SameStep DEF Conduct
<1>7. NoNewCreator /\ Keeps(Phases)
  BY <1>2 DEF NoNewCreator, Keeps
<1> QED
  BY <1>3, <1>4, <1>5, <1>6, <1>7, TypeParts, Quiet

LEMMA ClearAssignmentKeeps ==
  ASSUME IInv, NEW w \in Workers, ClearAssignment(w)
  PROVE  IInv'
<1>1. Tables /\ Requests
  BY TypeParts DEF IInv
<1>2. Requests' /\ Ends(w)
  BY <1>1, Ending DEF ClearAssignment
<1>3. Tables'
  BY <1>1 DEF ClearAssignment, Tables, counters, history
<1>4. RowsShrink /\ Grows /\ Remembers /\ UNCHANGED <<shared, sessions, minted, written, upstream>>
  BY DEF ClearAssignment, counters, history, RowsShrink, Grows, Remembers
<1> QED
  BY <1>2, <1>3, <1>4, EndsKeep, TypeParts

LEMMA DeleteNoteKeeps ==
  ASSUME IInv, NEW w \in Workers, DeleteNote(w)
  PROVE  IInv'
<1>1. Tables /\ Requests
  BY TypeParts DEF IInv
<1>2. Requests' /\ Ends(w)
  BY <1>1, Ending DEF DeleteNote
<1>3. Tables'
  BY <1>1 DEF DeleteNote, Tables, counters, history
<1>4. RowsShrink /\ Grows /\ Remembers /\ UNCHANGED <<shared, sessions, minted, written, upstream>>
  BY DEF DeleteNote, counters, history, RowsShrink, Grows, Remembers
<1> QED
  BY <1>2, <1>3, <1>4, EndsKeep, TypeParts
-----------------------------------------------------------------------------
(* Creating a shared mailbox.                                               *)

LEMMA CreateCheckKeeps ==
  ASSUME IInv, NEW w \in Workers, NEW email \in Emails, CreateCheck(w, email)
  PROVE  IInv'
<1>1. /\ TypeInv' /\ Others(w) /\ req[w] = Idle
      /\ req'[w] = [Idle EXCEPT !.step = "mint", !.email = email]
  BY CreateCheckShape DEF IInv
<1>2. /\ req'[w].step = "mint" /\ req'[w].email = email /\ req'[w].pw = 0 /\ req'[w].listed = {}
      /\ req'[w].id = 0
  BY <1>1 DEF Idle
<1>3. \A v \in Workers : v # w => req'[v] = req[v]
  BY <1>1 DEF Others
<1>4. /\ UNCHANGED <<tables, upstream, sessions, counters, grants, late, condemned>>
      /\ raced \subseteq raced'
      /\ email \notin raced' => \A v \in Workers : ~ Creating(v, email)
      /\ \A id \in Live : shared[id].email # email
  BY DEF CreateCheck
<1>5. Steady
  <2>1. Conduct
    BY <1>2, <1>3, SameStep DEF Conduct, Blank
  <2> QED
    BY <1>4, <2>1 DEF Steady, Conduct, Shrinks, tables, counters
<1>6. Shrinks /\ RowsShrink /\ Grows /\ Remembers
  BY <1>4 DEF Shrinks, RowsShrink, Grows, Remembers, tables
<1>7. Keeps(Emptying) /\ Keeps({"assign", "create_session"}) /\ Keeps({"del_note"})
  BY <1>2, <1>3 DEF Keeps, Emptying
<1>8. AloneInv'
  <2>1. ASSUME NEW u \in Workers, NEW e \in Emails \ raced', Creating(u, e)'
        PROVE  /\ \A v \in Workers : Creating(v, e)' => v = u
               /\ \A id \in Live' : shared'[id].email # e
               /\ Unstored(req'[u]) => [email |-> e, pw |-> req'[u].pw] \in upstream'
    <3>1. \A v \in Workers : v # w => (Creating(v, e)' <=> Creating(v, e))
      BY <1>3 DEF Creating
    <3>2. Creating(w, e)' => e = email
      BY <1>2 DEF Creating
    <3>3. Live' = Live /\ shared' = shared /\ upstream' = upstream
      BY <1>4 DEF Live, tables
    <3>4. CASE u = w
      BY <1>2, <1>4, <2>1, <3>1, <3>2, <3>3, <3>4 DEF Unstored
    <3>5. CASE u # w
      <4>1. Creating(u, e) /\ e \notin raced /\ req'[u] = req[u]
        BY <1>3, <1>4, <2>1, <3>1, <3>5
      <4>2. ~ Creating(w, e)'
        BY <1>4, <2>1, <3>2, <4>1
      <4> QED
        BY <2>1, <3>1, <3>3, <4>1, <4>2 DEF AloneInv, IInv
    <3> QED
      BY <3>4, <3>5
  <2> QED
    BY <2>1 DEF AloneInv
<1>9. SharedCredentialWorks'
  BY <1>4, <1>6, WorksStays DEF IInv
<1>10. OwnerInv' /\ NumbersInv' /\ StoredInv'
  BY <1>5, OwnerStays, NumbersStay, StoredStays DEF IInv
<1>11. EmptiedInv' /\ CheckedInv' /\ RowsBelongToTheirMailbox' /\ NotesInv'
  BY <1>4, <1>6, <1>7, EmptiedStays, CheckedStays, RowsStay, NotesStay DEF IInv, tables, counters
<1> QED
  BY <1>1, <1>8, <1>9, <1>10, <1>11 DEF IInv

\* mailcow has made an app-password; the request knows it, or has ended.
LEMMA MintMakes ==
  ASSUME IInv, TypeInv', NEW w \in Workers, MintAppPassword(w),
         req[w].step = "mint", req[w].email \in Emails,
         minted' = minted + 1, minted' \in Mints,
         upstream' = upstream \cup {[email |-> req[w].email, pw |-> minted']},
         Others(w),
         \/ req'[w] = Idle
         \/ /\ req'[w].step = "recover" /\ req'[w].pw = minted' /\ req'[w].id = req[w].id
            /\ req'[w].email = req[w].email /\ req'[w].listed = req[w].listed
  PROVE  IInv'
<1>1. \A v \in Workers : v # w => req'[v] = req[v]
  BY DEF Others
<1>2. /\ UNCHANGED <<tables, sessions, written, history>> /\ Live' = Live
      /\ shared' = shared /\ sessions' = sessions /\ written' = written
  BY DEF MintAppPassword, Live, tables
<1>3. Shrinks /\ RowsShrink /\ Grows /\ Remembers /\ upstream \subseteq upstream'
  BY <1>2 DEF Shrinks, RowsShrink, Grows, Remembers, tables, history
<1>4. req'[w].step \in {"idle", "recover"}
  BY IdleIs
<1>5. Keeps(Emptying) /\ Keeps({"assign", "create_session"}) /\ Keeps({"del_note"})
  BY <1>1, <1>4 DEF Keeps, Emptying
<1>6. minted \in Nat /\ ~ (minted' <= minted)
  BY TypeParts, SharedAssumption DEF Tables, IInv
<1>7. OwnerInv'
  <2>1. PICK owner \in [Mints -> Emails \cup {"none"}] : Agrees(owner)
    BY DEF IInv, OwnerInv
  <2>2. PICK new \in [Mints -> Emails \cup {"none"}] :
          new[minted'] = req[w].email /\ \A pw \in Mints : pw # minted' => new[pw] = owner[pw]
    <3>1. [owner EXCEPT ![minted'] = req[w].email] \in [Mints -> Emails \cup {"none"}]
      BY <2>1
    <3> QED
      BY <2>1, <3>1
  <2>3. /\ \A p \in upstream : p.pw \in Mints
        /\ \A id \in Live : shared[id].pw \in Mints
        /\ \A v \in Workers : Minting(req[v]) => req[v].pw \in Mints
        /\ \A v \in Workers : req[v].listed \subseteq Mints
    BY TypeParts DEF IInv, Tables, Live, Requests, Request, Kind
  <2>4. \A pw \in Mints : pw <= minted => new[pw] = owner[pw]
    BY <1>6, <2>2
  <2>5. \A p \in upstream' : new[p.pw] = p.email
    <3>1. ASSUME NEW p \in upstream
          PROVE  new[p.pw] = p.email
      <4>1. p.pw \in Mints /\ p.pw <= minted /\ owner[p.pw] = p.email
        BY <2>1, <2>3 DEF Agrees, IInv, NumbersInv
      <4> QED
        BY <2>4, <4>1
    <3> QED
      BY <2>2, <3>1
  <2>6. \A id \in Live' : new[shared'[id].pw] = shared'[id].email
    BY <1>2, <2>1, <2>3, <2>4 DEF Agrees, IInv, NumbersInv
  <2>7. ASSUME NEW v \in Workers, Minting(req'[v])
        PROVE  new[req'[v].pw] = req'[v].email
    <3>1. CASE v = w
      BY <2>2, <2>7, <3>1, IdleIs DEF Minting
    <3>2. CASE v # w
      <4>1. req'[v] = req[v] /\ Minting(req[v])
        BY <1>1, <2>7, <3>2
      <4>2. req[v].pw \in Mints /\ req[v].pw <= minted /\ owner[req[v].pw] = req[v].email
        BY <2>1, <2>3, <4>1 DEF Agrees, IInv, NumbersInv
      <4> QED
        BY <2>4, <4>1, <4>2
    <3> QED
      BY <3>1, <3>2
  <2>8. ASSUME NEW v \in Workers, req'[v].step = "undo_delete", NEW pw \in req'[v].listed
        PROVE  new[pw] = req'[v].email
    <3>1. v # w /\ req'[v] = req[v]
      BY <1>1, <1>4, <2>8
    <3>2. pw \in Mints /\ pw <= minted /\ owner[pw] = req[v].email
      BY <2>1, <2>3, <2>8, <3>1 DEF Agrees, IInv, NumbersInv, At
    <3> QED
      BY <2>4, <3>1, <3>2
  <2>9. Agrees(new)'
    BY <2>5, <2>6, <2>7, <2>8 DEF Agrees, At
  <2> QED
    BY <2>2, <2>9 DEF OwnerInv
<1>8. NumbersInv'
  <2>1. \A v \in Workers : req'[v].pw <= minted' /\ \A pw \in req'[v].listed : pw <= minted'
    <3>1. \A v \in Workers : req[v].pw \in Int /\ req[v].listed \subseteq Int
      BY TypeParts, SharedAssumption DEF Requests, Request, Mints, IInv
    <3>2. ASSUME NEW v \in Workers
          PROVE  req[v].pw <= minted' /\ \A pw \in req[v].listed : pw <= minted'
      BY <1>6, <3>1 DEF IInv, NumbersInv
    <3>3. req'[w].pw <= minted' /\ \A pw \in req'[w].listed : pw <= minted'
      BY <1>6, <3>2, IdleIs
    <3> QED
      BY <1>1, <3>2, <3>3
  <2>2. \A p \in upstream : p.pw \in Int
    BY TypeParts DEF Tables, Mints, IInv
  <2>3. \A p \in upstream' : p.pw <= minted'
    BY <1>6, <2>2 DEF IInv, NumbersInv
  <2>4. \A id \in Live : shared[id].pw \in Int
    BY TypeParts DEF Tables, Mints, IInv, Live
  <2>5. \A id \in Live' : shared'[id].pw <= minted'
    BY <1>2, <1>6, <2>4 DEF IInv, NumbersInv
  <2>6. \A s \in sessions : s.pw \in Int
    BY TypeParts DEF Tables, Mints, IInv
  <2>7. \A s \in sessions' : s.pw <= minted'
    BY <1>2, <1>6, <2>6 DEF IInv, NumbersInv
  <2> QED
    BY <2>1, <2>3, <2>5, <2>7 DEF NumbersInv
<1>9. StoredInv'
  <2>1. \A i, j \in Live' : shared'[i].pw = shared'[j].pw => i = j
    BY <1>2 DEF StoredInv, IInv
  <2>2. ~ Knows(req'[w])
    BY <1>4 DEF Knows, DeleteSteps, OtherSteps
  <2>3. \A v \in Workers, i \in Live' : Knows(req'[v]) /\ shared'[i].pw = req'[v].pw => i = req'[v].id
    BY <1>1, <1>2, <2>2 DEF StoredInv, IInv
  <2>4. ASSUME NEW u \in Workers, Unstored(req'[u])
        PROVE  /\ \A i \in Live' : shared'[i].pw # req'[u].pw
               /\ \A s \in sessions' : s.pw # req'[u].pw
               /\ \A v \in Workers : Knows(req'[v]) \/ Unstored(req'[v]) =>
                    v = u \/ req'[v].pw # req'[u].pw
    <3>1. CASE u = w
      <4>1. req'[u].pw = minted'
        BY <2>4, <3>1, IdleIs DEF Unstored
      <4>2. \A v \in Workers : v = u \/ req'[v].pw # minted'
        BY <1>1, <1>6, <3>1 DEF IInv, NumbersInv
      <4> QED
        BY <1>2, <1>6, <4>1, <4>2 DEF IInv, NumbersInv
    <3>2. CASE u # w
      <4>1. req'[u] = req[u] /\ Unstored(req[u])
        BY <1>1, <2>4, <3>2
      <4>2. Unstored(req'[w]) => req'[w].pw # req[u].pw
        BY <1>6, IdleIs DEF IInv, NumbersInv, Unstored
      <4> QED
        BY <1>1, <1>2, <2>2, <4>1, <4>2 DEF IInv, StoredInv
    <3> QED
      BY <3>1, <3>2
  <2> QED
    BY <2>1, <2>3, <2>4 DEF StoredInv
<1>10. AloneInv'
  <2>1. \A v \in Workers : \A e : Creating(v, e)' => Creating(v, e)
    BY <1>1, IdleIs DEF Creating
  <2>2. raced' = raced
    BY <1>2 DEF history
  <2>3. ASSUME NEW u \in Workers, NEW e \in Emails \ raced, Creating(u, e)', Unstored(req'[u])
        PROVE  [email |-> e, pw |-> req'[u].pw] \in upstream'
    <3>1. CASE u = w
      <4>1. req'[w].pw = minted' /\ req'[w].email = req[w].email
        BY <2>3, <3>1, IdleIs DEF Unstored
      <4> QED
        BY <2>3, <3>1, <4>1 DEF Creating
    <3>2. CASE u # w
      BY <1>1, <1>3, <2>1, <2>3, <3>2 DEF AloneInv, IInv
    <3> QED
      BY <3>1, <3>2
  <2> QED
    BY <1>2, <2>1, <2>2, <2>3 DEF AloneInv, IInv
<1>11. SharedCredentialWorks' /\ EmptiedInv' /\ CheckedInv' /\ RowsBelongToTheirMailbox' /\ NotesInv'
  BY <1>2, <1>3, <1>5, WorksStays, EmptiedStays, CheckedStays, RowsStay, NotesStay DEF IInv, RowsShrink
<1> QED
  BY <1>7, <1>8, <1>9, <1>10, <1>11 DEF IInv

LEMMA MintKeeps ==
  ASSUME IInv, NEW w \in Workers, MintAppPassword(w)
  PROVE  IInv'
<1>1. CASE minted' = minted
  <2>1. TypeInv' /\ Ends(w) /\ upstream' = upstream
    <3>1. minted \in Nat
      BY TypeParts, SharedAssumption DEF Tables, IInv
    <3> QED
      BY <1>1, <3>1, MintShape DEF IInv
  <2>2. RowsShrink /\ Grows /\ Remembers /\ UNCHANGED <<shared, sessions, written>>
    BY DEF MintAppPassword, tables, history, RowsShrink, Grows, Remembers
  <2> QED
    BY <1>1, <2>1, <2>2, EndsKeep
<1>2. CASE minted' # minted
  BY <1>2, MintShape, MintMakes DEF IInv, Ends
<1> QED
  BY <1>1, <1>2

\* The row that CreateMailbox inserts.
LEMMA Inserting ==
  ASSUME IInv, TypeInv', NEW w \in Workers, CreateMailbox(w), req[w].step = "insert",
         req[w] \in Request, req[w].email \in Emails, req[w].pw \in Mints,
         Ends(w), NEW id \in Ids, id \notin Live, Live' = Live \cup {id},
         shared'[id] = [email |-> req[w].email, pw |-> req[w].pw],
         \A i \in Ids : i # id => shared'[i] = shared[i]
  PROVE  IInv'
<1>1. \A v \in Workers : v # w => req'[v] = req[v]
  BY DEF Ends, Others
<1>2. req'[w] = Idle /\ Idle.step = "idle" /\ Idle.pw = 0 /\ Idle.listed = {}
  BY IdleIs DEF Ends
<1>3. UNCHANGED <<members, assignments, notes, upstream, sessions, counters, history>>
  BY DEF CreateMailbox
<1>4. /\ members' = members /\ assignments' = assignments /\ notes' = notes /\ upstream' = upstream
      /\ sessions' = sessions /\ minted' = minted /\ written' = written
      /\ grants' = grants /\ late' = late /\ raced' = raced /\ condemned' = condemned
  BY <1>3 DEF counters, history
<1>5. shared'[id].email = req[w].email /\ shared'[id].pw = req[w].pw
  OBVIOUS
<1>6. Unstored(req[w]) /\ Minting(req[w]) /\ Creating(w, req[w].email)
  BY DEF Unstored, Minting, Creating
<1>7. \A i \in Live : i \in Ids /\ i # id /\ shared'[i] = shared[i]
  BY DEF Live
<1>8. /\ \A i \in Live : shared[i].pw # req[w].pw
      /\ \A s \in sessions : s.pw # req[w].pw
      /\ \A v \in Workers : Knows(req[v]) \/ Unstored(req[v]) => v = w \/ req[v].pw # req[w].pw
  BY <1>6 DEF IInv, StoredInv
<1>9. ~ Knows(req'[w]) /\ ~ Unstored(req'[w]) /\ ~ Minting(req'[w])
  BY <1>2 DEF Knows, Unstored, Minting, DeleteSteps, OtherSteps
<1>10. OwnerInv'
  <2>1. PICK owner \in [Mints -> Emails \cup {"none"}] : Agrees(owner)
    BY DEF IInv, OwnerInv
  <2>2. \A i \in Live' : owner[shared'[i].pw] = shared'[i].email
    BY <1>5, <1>6, <1>7, <2>1 DEF Agrees
  <2>3. \A v \in Workers : Minting(req'[v]) => owner[req'[v].pw] = req'[v].email
    BY <1>1, <1>9, <2>1 DEF Agrees
  <2>4. \A v \in Workers : At(v, "undo_delete")' =>
          \A pw \in req'[v].listed : owner[pw] = req'[v].email
    BY <1>1, <1>2, <2>1 DEF Agrees, At
  <2>5. Agrees(owner)'
    BY <1>4, <2>1, <2>2, <2>3, <2>4 DEF Agrees
  <2> QED
    BY <2>5 DEF OwnerInv
<1>11. NumbersInv'
  <2>1. minted \in Nat
    BY TypeParts, SharedAssumption DEF Tables, IInv
  <2>2. \A i \in Live' : shared'[i].pw <= minted
    BY <1>5, <1>7 DEF IInv, NumbersInv
  <2>3. \A v \in Workers : req'[v].pw <= minted /\ \A pw \in req'[v].listed : pw <= minted
    BY <1>1, <1>2, <2>1 DEF IInv, NumbersInv
  <2> QED
    BY <1>4, <2>2, <2>3 DEF IInv, NumbersInv
<1>12. StoredInv'
  <2>1. \A i, j \in Live' : shared'[i].pw = shared'[j].pw => i = j
    BY <1>5, <1>7, <1>8 DEF IInv, StoredInv
  <2>2. ASSUME NEW v \in Workers, NEW i \in Live', Knows(req'[v]), shared'[i].pw = req'[v].pw
        PROVE  i = req'[v].id
    <3>1. v # w /\ req'[v] = req[v]
      BY <1>1, <1>9, <2>2
    <3>2. i # id
      BY <1>5, <1>8, <2>2, <3>1
    <3> QED
      BY <1>7, <2>2, <3>1, <3>2 DEF IInv, StoredInv
  <2>3. ASSUME NEW u \in Workers, Unstored(req'[u])
        PROVE  /\ \A i \in Live' : shared'[i].pw # req'[u].pw
               /\ \A s \in sessions' : s.pw # req'[u].pw
               /\ \A v \in Workers : Knows(req'[v]) \/ Unstored(req'[v]) =>
                    v = u \/ req'[v].pw # req'[u].pw
    <3>1. u # w /\ req'[u] = req[u] /\ Unstored(req[u])
      BY <1>1, <1>9, <2>3
    <3>2. \A i \in Live' : shared'[i].pw # req[u].pw
      BY <1>5, <1>7, <1>8, <3>1 DEF IInv, StoredInv
    <3>3. \A v \in Workers : Knows(req'[v]) \/ Unstored(req'[v]) => v = u \/ req'[v].pw # req[u].pw
      BY <1>1, <1>9, <3>1 DEF IInv, StoredInv
    <3> QED
      BY <1>4, <3>1, <3>2, <3>3 DEF IInv, StoredInv
  <2> QED
    BY <2>1, <2>2, <2>3 DEF StoredInv
<1>13. AloneInv'
  <2>1. ASSUME NEW u \in Workers, NEW e \in Emails \ raced, Creating(u, e)'
        PROVE  /\ \A v \in Workers : Creating(v, e)' => v = u
               /\ \A i \in Live' : shared'[i].email # e
               /\ Unstored(req'[u]) => [email |-> e, pw |-> req'[u].pw] \in upstream
    <3>1. \A v \in Workers : Creating(v, e)' => v # w /\ req'[v] = req[v] /\ Creating(v, e)
      BY <1>1, <1>2 DEF Creating
    <3>2. u # w /\ req'[u] = req[u] /\ Creating(u, e)
      BY <2>1, <3>1
    <3>3. ~ Creating(w, e)
      BY <3>2 DEF IInv, AloneInv
    <3>4. req[w].email # e
      BY <1>6, <3>3
    <3> QED
      BY <1>5, <1>7, <3>1, <3>2, <3>4 DEF IInv, AloneInv
  <2> QED
    BY <1>4, <2>1 DEF AloneInv
<1>14. SharedCredentialWorks'
  <2>1. req[w].email \in raced \/ [email |-> req[w].email, pw |-> req[w].pw] \in upstream
    BY <1>6 DEF IInv, AloneInv
  <2> QED
    BY <1>4, <1>5, <1>7, <2>1 DEF IInv, SharedCredentialWorks
<1>15. EmptiedInv' /\ NotesInv'
  <2>1. Keeps(Emptying) /\ Keeps({"del_note"})
    BY <1>1, <1>2 DEF Keeps, Emptying
  <2>2. RowsShrink /\ Grows
    BY <1>4 DEF RowsShrink, Grows
  <2> QED
    BY <1>4, <2>1, <2>2, EmptiedStays, NotesStay DEF IInv
<1>16. CheckedInv'
  <2>1. ASSUME NEW v \in Workers, At(v, "assign")', req'[v].id \notin late',
               shared'[req'[v].id].pw = req'[v].pw
        PROVE  <<req'[v].pw, req'[v].to>> \in grants'
    <3>1. v # w /\ req'[v] = req[v] /\ At(v, "assign") /\ Knows(req[v])
      BY <1>1, <1>2, <2>1 DEF At, Knows, OtherSteps
    <3>2. req[v].id \in Ids
      BY <3>1, TypeParts DEF IInv, Requests, Kind
    <3>3. req[v].id # id
      BY <1>5, <1>8, <2>1, <3>1
    <3> QED
      BY <1>4, <2>1, <3>1, <3>2, <3>3 DEF IInv, CheckedInv
  <2>2. ASSUME NEW v \in Workers, NEW i \in Live' \ late', At(v, "create_session")',
               shared'[i].pw = req'[v].pw
        PROVE  <<req'[v].pw, req'[v].who>> \in grants'
    <3>1. v # w /\ req'[v] = req[v] /\ At(v, "create_session") /\ Knows(req[v])
      BY <1>1, <1>2, <2>2 DEF At, Knows, OtherSteps
    <3>2. i # id
      BY <1>5, <1>8, <2>2, <3>1
    <3> QED
      BY <1>4, <1>7, <2>2, <3>1, <3>2 DEF IInv, CheckedInv
  <2> QED
    BY <2>1, <2>2 DEF CheckedInv
<1>17. RowsBelongToTheirMailbox'
  <2>1. /\ \A m \in members : m[1] \in Live \cup late
        /\ \A a \in assignments : a[1] \in Live \cup late
        /\ \A n \in notes : n.mailbox \in Live \cup late
    BY DEF IInv, RowsBelongToTheirMailbox
  <2>2. \A row \in members \cup assignments :
           row[1] \in Live' \ late => <<shared'[row[1]].pw, row[2]>> \in grants
    BY <1>7, <2>1 DEF IInv, RowsBelongToTheirMailbox
  <2>3. \A s \in sessions, i \in Live' \ late :
          shared'[i].pw = s.pw => <<shared'[i].pw, s.actingAs>> \in grants
    BY <1>5, <1>7, <1>8 DEF IInv, RowsBelongToTheirMailbox
  <2> QED
    BY <1>4, <2>1, <2>2, <2>3 DEF RowsBelongToTheirMailbox
<1> QED
  BY <1>10, <1>11, <1>12, <1>13, <1>14, <1>15, <1>16, <1>17 DEF IInv

LEMMA CreateMailboxKeeps ==
  ASSUME IInv, NEW w \in Workers, CreateMailbox(w)
  PROVE  IInv'
<1>1. CASE Goes(w, "undo_list") /\ shared' = shared
  <2>1. TypeInv' /\ req[w].step = "insert"
    BY CreateMailboxShape DEF IInv
  <2>2. RowsShrink /\ Grows /\ Remembers /\ UNCHANGED <<shared, sessions, minted, written, upstream>>
    BY <1>1 DEF CreateMailbox, counters, history, RowsShrink, Grows, Remembers
  <2>3. req[w].step \in CreateSteps \ {"mint"} /\ "undo_list" \notin DeleteSteps \cup OtherSteps
        /\ "undo_list" \notin Phases
    BY <2>1 DEF CreateSteps, DeleteSteps, OtherSteps, Phases, Emptying
  <2>4. Conduct /\ NoNewCreator /\ Keeps(Phases)
    BY <1>1, <2>3, GoesConduct
  <2> QED
    BY <2>1, <2>2, <2>4, Quiet
<1>2. CASE ~ (Goes(w, "undo_list") /\ shared' = shared)
  BY <1>2, CreateMailboxShape, Inserting DEF IInv
<1> QED
  BY <1>1, <1>2

\* What UndoDelete deletes bears the request's own mailbox name.
LEMMA UndoDeleteKeeps ==
  ASSUME IInv, NEW w \in Workers, UndoDelete(w)
  PROVE  IInv'
<1>1. TypeInv' /\ req[w].step = "undo_delete" /\ req[w] \in Request /\ Ends(w)
  BY UndoDeleteShape DEF IInv
<1>2. /\ UNCHANGED <<tables, sessions, counters, history>>
      /\ shared' = shared /\ Live' = Live /\ raced' = raced
  BY DEF UndoDelete, tables, history, Live
<1>3. Shrinks /\ RowsShrink /\ Grows /\ Remembers
  BY <1>2 DEF Shrinks, RowsShrink, Grows, Remembers, tables, history
<1>4. Conduct /\ NoNewCreator /\ Keeps(Phases)
  BY <1>1, EndsConduct
<1>5. upstream' \subseteq upstream
  BY DEF UndoDelete
<1>6. \A p \in upstream : p \in upstream' \/ p.pw \in req[w].listed
  BY DEF UndoDelete
<1>7. Creating(w, req[w].email)
  BY <1>1 DEF Creating
<1>8. PICK owner \in [Mints -> Emails \cup {"none"}] : Agrees(owner)
  BY DEF IInv, OwnerInv
<1>9. \A p \in upstream : p.pw \in req[w].listed => p.email = req[w].email
  BY <1>1, <1>8 DEF Agrees, At
<1>10. OwnerInv' /\ NumbersInv' /\ StoredInv'
  <2>1. Steady
    BY <1>2, <1>3, <1>4, <1>5 DEF Steady, Conduct, counters
  <2> QED
    BY <2>1, OwnerStays, NumbersStay, StoredStays DEF IInv
<1>11. AloneInv'
  <2>1. ASSUME NEW u \in Workers, NEW e \in Emails \ raced, Creating(u, e)'
        PROVE  /\ \A v \in Workers : Creating(v, e)' => v = u
               /\ \A i \in Live : shared[i].email # e
               /\ Unstored(req'[u]) => [email |-> e, pw |-> req'[u].pw] \in upstream'
    <3>1. \A v \in Workers : Creating(v, e)' => v # w /\ req'[v] = req[v] /\ Creating(v, e)
      BY <1>1, IdleIs DEF Creating, Ends, Others
    <3>2. u # w /\ req'[u] = req[u] /\ Creating(u, e)
      BY <2>1, <3>1
    <3>3. req[w].email # e
      BY <1>7, <3>2 DEF IInv, AloneInv
    <3> QED
      BY <1>6, <1>9, <3>1, <3>2, <3>3 DEF IInv, AloneInv
  <2> QED
    BY <1>2, <2>1 DEF AloneInv
<1>12. SharedCredentialWorks'
  <2>1. ASSUME NEW id \in Live, shared[id] \in upstream, shared[id] \notin upstream'
        PROVE  shared[id].email \in raced
    <3>1. shared[id].email = req[w].email
      BY <1>6, <1>9, <2>1
    <3>2. req[w].email \in Emails
      BY <1>1, TypeParts DEF IInv, Requests, Kind, CreateSteps
    <3> QED
      BY <1>7, <3>1, <3>2 DEF IInv, AloneInv
  <2> QED
    BY <1>2, <2>1 DEF IInv, SharedCredentialWorks, history
<1>13. EmptiedInv' /\ CheckedInv' /\ RowsBelongToTheirMailbox' /\ NotesInv'
  <2>1. Keeps(Emptying) /\ Keeps({"assign", "create_session"}) /\ Keeps({"del_note"})
    BY <1>4 DEF Keeps, Phases
  <2> QED
    BY <1>2, <1>3, <2>1, EmptiedStays, CheckedStays, RowsStay, NotesStay DEF IInv, tables, counters
<1> QED
  BY <1>1, <1>10, <1>11, <1>12, <1>13 DEF IInv
-----------------------------------------------------------------------------
(* Deleting a shared mailbox.                                               *)

LEMMA DeleteRevokeKeeps ==
  ASSUME IInv, NEW w \in Workers, DeleteRevoke(w)
  PROVE  IInv'
<1>1. Tables /\ Requests /\ req[w].step = "revoke"
  BY TypeParts DEF IInv, DeleteRevoke, At
<1>2. req[w] \in Request /\ Kind(req[w]) /\ Knows(req[w]) /\ req[w].pw \in Mints
  BY <1>1 DEF Requests, Kind, Knows, DeleteSteps
<1>3. "del_members" \in Steps /\ Kind([req[w] EXCEPT !.step = "del_members"])
  BY <1>1, <1>2 DEF Request, Kind, Steps, CreateSteps, Minting, Knows, DeleteSteps, OtherSteps
<1>4. Requests' /\ Goes(w, "del_members")
  BY <1>1, <1>3, Going DEF DeleteRevoke
<1>5. Fault \/ NoFault
  BY DEF DeleteRevoke
<1>6. Tables'
  BY <1>1, <1>2, <1>5, Counting DEF DeleteRevoke, Tables, tables, counters
<1>7. Conduct /\ NoNewCreator /\ Keeps(Phases)
  <2>1. "del_members" \notin Phases /\ "del_members" \notin CreateSteps
    BY DEF Phases, Emptying, CreateSteps
  <2> QED
    BY <1>2, <1>4, <2>1, GoesConduct
<1>8. /\ UNCHANGED <<tables, sessions, counters, grants, late, raced>>
      /\ shared' = shared /\ Live' = Live /\ raced' = raced
  BY DEF DeleteRevoke, tables, Live
<1>9. Shrinks /\ RowsShrink /\ Grows /\ Remembers
  BY <1>8 DEF DeleteRevoke, Shrinks, RowsShrink, Grows, Remembers, tables
<1>10. /\ upstream' \subseteq upstream /\ condemned' = condemned \cup {req[w].pw}
       /\ \A p \in upstream : p \in upstream' \/ p.pw = req[w].pw
  BY DEF DeleteRevoke
<1>11. OwnerInv' /\ NumbersInv' /\ StoredInv'
  <2>1. Steady
    BY <1>7, <1>8, <1>9, <1>10 DEF Steady, Conduct, counters
  <2> QED
    BY <2>1, OwnerStays, NumbersStay, StoredStays DEF IInv
<1>12. AloneInv'
  <2>1. ASSUME NEW u \in Workers, NEW e \in Emails \ raced, Creating(u, e)'
        PROVE  /\ \A v \in Workers : Creating(v, e)' => v = u
               /\ \A i \in Live : shared[i].email # e
               /\ Unstored(req'[u]) => [email |-> e, pw |-> req'[u].pw] \in upstream'
    <3>1. \A v \in Workers : Creating(v, e)' => v # w /\ req'[v] = req[v] /\ Creating(v, e)
      BY <1>4 DEF Creating, Goes, Others
    <3>2. u # w /\ req'[u] = req[u] /\ Creating(u, e)
      BY <2>1, <3>1
    <3>3. Unstored(req[u]) => req[u].pw # req[w].pw
      BY <1>2, <3>2 DEF IInv, StoredInv
    <3> QED
      BY <1>10, <3>1, <3>2, <3>3 DEF IInv, AloneInv
  <2> QED
    BY <1>8, <2>1 DEF AloneInv
<1>13. SharedCredentialWorks'
  BY <1>8, <1>10 DEF IInv, SharedCredentialWorks
<1>14. EmptiedInv' /\ CheckedInv' /\ RowsBelongToTheirMailbox' /\ NotesInv'
  <2>1. Keeps(Emptying) /\ Keeps({"assign", "create_session"}) /\ Keeps({"del_note"})
    BY <1>7 DEF Keeps, Phases
  <2> QED
    BY <1>8, <1>9, <2>1, EmptiedStays, CheckedStays, RowsStay, NotesStay DEF IInv, tables, counters
<1> QED
  BY <1>4, <1>6, <1>11, <1>12, <1>13, <1>14, TypeParts DEF IInv

\* What the four statements share.
DeleteSituation(w) ==
  /\ Tables /\ Requests /\ req[w] \in Request /\ Kind(req[w]) /\ Knows(req[w])
  /\ req[w].id \in Ids /\ late' \subseteq Ids
  /\ Grows /\ Remembers
  /\ UNCHANGED <<upstream, sessions, minted, written, grants, raced, condemned>>
  /\ faults' \in 0..MaxFaults

LEMMA DeleteSituationHolds ==
  ASSUME IInv, NEW w \in Workers,
         DeleteMembers(w) \/ DeleteAssignments(w) \/ DeleteNotes(w) \/ DeleteRow(w)
  PROVE  DeleteSituation(w)
<1>1. Tables /\ Requests /\ req[w].step \in DeleteSteps
  BY TypeParts DEF IInv, DeleteMembers, DeleteAssignments, DeleteNotes, DeleteRow,
                   DeleteStatement, At, DeleteSteps
<1>2. req[w] \in Request /\ Kind(req[w]) /\ Knows(req[w]) /\ req[w].id \in Ids
  BY <1>1 DEF Requests, Kind, Knows
<1>3. late' = IF Replaced(w) THEN late \cup {req[w].id} ELSE late
  BY DEF DeleteMembers, DeleteAssignments, DeleteNotes, DeleteRow, DeleteStatement
<1>4. late' \subseteq Ids /\ late \subseteq late'
  BY <1>1, <1>2, <1>3 DEF Tables
<1>5. UNCHANGED <<upstream, sessions, counters, grants, raced, condemned>>
  BY DEF DeleteMembers, DeleteAssignments, DeleteNotes, DeleteRow, DeleteStatement
<1>6. Fault \/ NoFault
  BY DEF DeleteMembers, DeleteAssignments, DeleteNotes, DeleteRow, DeleteStatement
<1> QED
  BY <1>1, <1>2, <1>4, <1>5, <1>6, Counting DEF DeleteSituation, Grows, Remembers, counters

LEMMA DeleteFails ==
  ASSUME IInv, NEW w \in Workers, DeleteSituation(w), Done(w), UNCHANGED tables
  PROVE  IInv'
<1>1. Requests' /\ Ends(w)
  BY Ending DEF DeleteSituation
<1>2. Tables'
  BY DEF DeleteSituation, Tables, tables
<1> QED
  BY <1>1, <1>2, EndsKeep, TypeParts DEF DeleteSituation, RowsShrink, tables

\* A statement that has run and is not the last.
LEMMA DeleteGoesOn ==
  ASSUME IInv, NEW w \in Workers, DeleteSituation(w), NEW step \in Emptying, Goto(w, step),
         RowsShrink, shared' = shared, EmptiedInv'
  PROVE  IInv'
<1>1. step \in Steps /\ Kind([req[w] EXCEPT !.step = step])
  BY DEF DeleteSituation, Request, Kind, Steps, CreateSteps, Minting, Knows, DeleteSteps,
         OtherSteps, Emptying
<1>2. Requests' /\ Goes(w, step)
  BY <1>1, Going DEF DeleteSituation
<1>3. Tables'
  BY DEF DeleteSituation, Tables, RowsShrink
<1>4. Conduct /\ NoNewCreator /\ \A steps : step \notin steps => Keeps(steps)
  <2>1. step # "undo_delete" /\ step \notin CreateSteps
    BY DEF Emptying, CreateSteps
  <2> QED
    BY <1>2, <2>1, GoesConduct DEF DeleteSituation, CreateSteps
<1>5. Keeps({"assign", "create_session"}) /\ Keeps({"del_note"})
  BY <1>4 DEF Emptying
<1>6. Shrinks
  BY DEF Shrinks
<1>7. Steady
  BY <1>4, <1>6 DEF Steady, Conduct, DeleteSituation
<1>8. OwnerInv' /\ NumbersInv' /\ StoredInv'
  BY <1>7, OwnerStays, NumbersStay, StoredStays DEF IInv
<1>9. AloneInv' /\ SharedCredentialWorks'
  BY <1>4, <1>6, AloneStays, WorksStays DEF IInv, DeleteSituation, Remembers
<1>10. CheckedInv' /\ RowsBelongToTheirMailbox' /\ NotesInv'
  BY <1>5, <1>6, CheckedStays, RowsStay, NotesStay DEF IInv, DeleteSituation, RowsShrink
<1> QED
  BY <1>2, <1>3, <1>8, <1>9, <1>10, TypeParts DEF IInv

LEMMA DeleteMembersKeeps ==
  ASSUME IInv, NEW w \in Workers, DeleteMembers(w)
  PROVE  IInv'
<1>1. DeleteSituation(w)
  BY DeleteSituationHolds
<1>2. CASE Done(w) /\ UNCHANGED tables
  BY <1>1, <1>2, DeleteFails
<1>3. CASE /\ Goto(w, "del_assignments")
           /\ members' = {m \in members : m[1] # req[w].id}
           /\ UNCHANGED <<shared, assignments, notes>>
  <2>1. \A v \in Workers : req'[v].step \in Emptying => req'[v] = req[v] \/ v = w
    BY <1>1, <1>3 DEF Goto, DeleteSituation, Requests
  <2>2. req'[w].step = "del_assignments" /\ req'[w].id = req[w].id
    BY <1>1, <1>3 DEF Goto, DeleteSituation, Requests, Request
  <2>3. EmptiedInv'
    <3>1. ASSUME NEW v \in Workers, req'[v].id \notin late', req'[v].step \in Emptying
          PROVE  /\ \A m \in members' : m[1] # req'[v].id
                 /\ req'[v].step \in {"del_notes", "del_row"} => \A a \in assignments' : a[1] # req'[v].id
                 /\ req'[v].step = "del_row" => \A n \in notes' : n.mailbox # req'[v].id
      <4>1. CASE v = w
        BY <1>3, <2>2, <4>1
      <4>2. CASE req'[v] = req[v]
        BY <1>1, <1>3, <3>1, <4>2 DEF IInv, EmptiedInv, Emptying, DeleteSituation, Grows
      <4> QED
        BY <2>1, <3>1, <4>1, <4>2
    <3> QED
      BY <3>1 DEF EmptiedInv, Emptying
  <2>4. RowsShrink /\ shared' = shared
    BY <1>3 DEF RowsShrink
  <2> QED
    BY <1>1, <1>3, <2>3, <2>4, DeleteGoesOn DEF Emptying
<1> QED
  BY <1>2, <1>3 DEF DeleteMembers, DeleteStatement

LEMMA DeleteAssignmentsKeeps ==
  ASSUME IInv, NEW w \in Workers, DeleteAssignments(w)
  PROVE  IInv'
<1>1. DeleteSituation(w) /\ At(w, "del_assignments")
  BY DeleteSituationHolds DEF DeleteAssignments, DeleteStatement
<1>2. CASE Done(w) /\ UNCHANGED tables
  BY <1>1, <1>2, DeleteFails
<1>3. CASE /\ Goto(w, "del_notes")
           /\ assignments' = {a \in assignments : a[1] # req[w].id}
           /\ UNCHANGED <<shared, members, notes>>
  <2>1. \A v \in Workers : req'[v].step \in Emptying => req'[v] = req[v] \/ v = w
    BY <1>1, <1>3 DEF Goto, DeleteSituation, Requests
  <2>2. req'[w].step = "del_notes" /\ req'[w].id = req[w].id
    BY <1>1, <1>3 DEF Goto, DeleteSituation, Requests, Request
  <2>3. EmptiedInv'
    <3>1. ASSUME NEW v \in Workers, req'[v].id \notin late', req'[v].step \in Emptying
          PROVE  /\ \A m \in members' : m[1] # req'[v].id
                 /\ req'[v].step \in {"del_notes", "del_row"} => \A a \in assignments' : a[1] # req'[v].id
                 /\ req'[v].step = "del_row" => \A n \in notes' : n.mailbox # req'[v].id
      <4>1. CASE v = w
        BY <1>1, <1>3, <2>2, <3>1, <4>1 DEF IInv, EmptiedInv, DeleteSituation, Grows, At
      <4>2. CASE req'[v] = req[v]
        BY <1>1, <1>3, <3>1, <4>2 DEF IInv, EmptiedInv, Emptying, DeleteSituation, Grows
      <4> QED
        BY <2>1, <3>1, <4>1, <4>2
    <3> QED
      BY <3>1 DEF EmptiedInv, Emptying
  <2>4. RowsShrink /\ shared' = shared
    BY <1>3 DEF RowsShrink
  <2> QED
    BY <1>1, <1>3, <2>3, <2>4, DeleteGoesOn DEF Emptying
<1> QED
  BY <1>2, <1>3 DEF DeleteAssignments, DeleteStatement

LEMMA DeleteNotesKeeps ==
  ASSUME IInv, NEW w \in Workers, DeleteNotes(w)
  PROVE  IInv'
<1>1. DeleteSituation(w) /\ At(w, "del_notes")
  BY DeleteSituationHolds DEF DeleteNotes, DeleteStatement
<1>2. CASE Done(w) /\ UNCHANGED tables
  BY <1>1, <1>2, DeleteFails
<1>3. CASE /\ Goto(w, "del_row")
           /\ notes' = {n \in notes : n.mailbox # req[w].id}
           /\ UNCHANGED <<shared, members, assignments>>
  <2>1. \A v \in Workers : req'[v].step \in Emptying => req'[v] = req[v] \/ v = w
    BY <1>1, <1>3 DEF Goto, DeleteSituation, Requests
  <2>2. req'[w].step = "del_row" /\ req'[w].id = req[w].id
    BY <1>1, <1>3 DEF Goto, DeleteSituation, Requests, Request
  <2>3. EmptiedInv'
    <3>1. ASSUME NEW v \in Workers, req'[v].id \notin late', req'[v].step \in Emptying
          PROVE  /\ \A m \in members' : m[1] # req'[v].id
                 /\ req'[v].step \in {"del_notes", "del_row"} => \A a \in assignments' : a[1] # req'[v].id
                 /\ req'[v].step = "del_row" => \A n \in notes' : n.mailbox # req'[v].id
      <4>1. CASE v = w
        BY <1>1, <1>3, <2>2, <3>1, <4>1 DEF IInv, EmptiedInv, DeleteSituation, Grows, At
      <4>2. CASE req'[v] = req[v]
        BY <1>1, <1>3, <3>1, <4>2 DEF IInv, EmptiedInv, Emptying, DeleteSituation, Grows
      <4> QED
        BY <2>1, <3>1, <4>1, <4>2
    <3> QED
      BY <3>1 DEF EmptiedInv, Emptying
  <2>4. RowsShrink /\ shared' = shared
    BY <1>3 DEF RowsShrink
  <2> QED
    BY <1>1, <1>3, <2>3, <2>4, DeleteGoesOn DEF Emptying
<1> QED
  BY <1>2, <1>3 DEF DeleteNotes, DeleteStatement

LEMMA DeleteRowKeeps ==
  ASSUME IInv, NEW w \in Workers, DeleteRow(w)
  PROVE  IInv'
<1>1. DeleteSituation(w) /\ At(w, "del_row")
  BY DeleteSituationHolds DEF DeleteRow, DeleteStatement
<1>2. CASE Done(w) /\ UNCHANGED tables
  BY <1>1, <1>2, DeleteFails
<1>3. CASE /\ Done(w)
           /\ shared' = [shared EXCEPT ![req[w].id] = NoMailbox]
           /\ UNCHANGED <<members, assignments, notes>>
  <2>1. Requests' /\ Ends(w)
    BY <1>1, <1>3, Ending DEF DeleteSituation
  <2>2. Conduct /\ NoNewCreator /\ Keeps(Phases)
    BY <2>1, EndsConduct
  <2>3. /\ shared'[req[w].id] = NoMailbox
        /\ \A i \in Ids : i # req[w].id => shared'[i] = shared[i]
        /\ shared' \in [Ids -> [email : Emails, pw : Mints] \cup {NoMailbox}]
    BY <1>1, <1>3 DEF DeleteSituation, Tables
  <2>4. Tables'
    BY <1>1, <1>3, <2>3 DEF DeleteSituation, Tables
  <2>5. Shrinks
    BY <2>3 DEF Shrinks
  <2>6. Live' = Live \ {req[w].id}
    BY <1>1, <2>3 DEF Live
  <2>7. Steady
    BY <1>1, <2>2, <2>5 DEF Steady, Conduct, DeleteSituation
  <2>8. OwnerInv' /\ NumbersInv' /\ StoredInv'
    BY <2>7, OwnerStays, NumbersStay, StoredStays DEF IInv
  <2>9. AloneInv' /\ SharedCredentialWorks'
    BY <1>1, <2>2, <2>5, AloneStays, WorksStays DEF IInv, DeleteSituation, Remembers
  <2>10. Keeps(Emptying) /\ Keeps({"assign", "create_session"}) /\ Keeps({"del_note"})
    BY <2>2 DEF Keeps, Phases
  <2>11. RowsShrink
    BY <1>3 DEF RowsShrink
  <2>12. EmptiedInv' /\ CheckedInv' /\ NotesInv'
    BY <1>1, <2>5, <2>10, <2>11, EmptiedStays, CheckedStays, NotesStay DEF IInv, DeleteSituation, RowsShrink
  <2>13. RowsBelongToTheirMailbox'
    <3>1. late \subseteq late' /\ grants' = grants /\ sessions' = sessions
      BY <1>1 DEF DeleteSituation, Grows
    <3>2. req[w].id \notin late' => /\ \A m \in members : m[1] # req[w].id
                                    /\ \A a \in assignments : a[1] # req[w].id
                                    /\ \A n \in notes : n.mailbox # req[w].id
      BY <1>1, <3>1 DEF IInv, EmptiedInv, At
    <3>3. /\ \A m \in members : m[1] \in Live \cup late
          /\ \A a \in assignments : a[1] \in Live \cup late
          /\ \A n \in notes : n.mailbox \in Live \cup late
      BY DEF IInv, RowsBelongToTheirMailbox
    <3>4. /\ \A m \in members : m[1] \in Live' \cup late'
          /\ \A a \in assignments : a[1] \in Live' \cup late'
          /\ \A n \in notes : n.mailbox \in Live' \cup late'
      BY <2>6, <3>1, <3>2, <3>3
    <3>5. \A i \in Live' : i \in Live /\ shared'[i] = shared[i]
      BY <2>3, <2>6 DEF Live
    <3>6. \A row \in members \cup assignments :
             row[1] \in Live' \ late' => <<shared'[row[1]].pw, row[2]>> \in grants
      BY <3>1, <3>5 DEF IInv, RowsBelongToTheirMailbox
    <3>7. \A s \in sessions, i \in Live' \ late' :
             shared'[i].pw = s.pw => <<shared'[i].pw, s.actingAs>> \in grants
      BY <3>1, <3>5 DEF IInv, RowsBelongToTheirMailbox
    <3> QED
      BY <1>3, <3>1, <3>4, <3>6, <3>7 DEF RowsBelongToTheirMailbox
  <2> QED
    BY <2>1, <2>4, <2>8, <2>9, <2>12, <2>13, TypeParts DEF IInv
<1> QED
  BY <1>2, <1>3 DEF DeleteRow, DeleteStatement
-----------------------------------------------------------------------------
(* Members, sessions, assignments and notes.                                *)

\* The parts that a step leaves alone when its request ends.
LEMMA EndsKeepMost ==
  ASSUME IInv, NEW w \in Workers, Ends(w), Grows, Remembers,
         UNCHANGED <<shared, minted, upstream>>,
         \A s \in sessions' : s \in sessions \/ \E u \in Workers : Knows(req[u]) /\ s.pw = req[u].pw
  PROVE  OwnerInv' /\ NumbersInv' /\ StoredInv' /\ AloneInv' /\ SharedCredentialWorks' /\ CheckedInv'
<1>1. Conduct /\ NoNewCreator /\ Keeps(Phases)
  BY EndsConduct
<1>2. Shrinks
  BY DEF Shrinks
<1>3. Steady
  BY <1>1, <1>2 DEF Steady, Conduct
<1>4. Keeps({"assign", "create_session"})
  BY <1>1 DEF Keeps, Phases
<1> QED
  BY <1>1, <1>2, <1>3, <1>4, OwnerStays, NumbersStay, StoredStays, AloneStays, WorksStays, CheckedStays
     DEF IInv, Remembers

\* Rows that are written for a mailbox being deleted are noted as such.
LEMMA NotedLate ==
  ASSUME IInv, NEW w \in Workers, Knows(req[w]), NoteLate(w)
  PROVE  /\ req[w].id \in Ids /\ req[w].pw \in Mints /\ late' \subseteq Ids /\ late \subseteq late'
         /\ req[w].id \notin late' =>
              /\ req[w].id \in Live /\ shared[req[w].id].pw = req[w].pw
              /\ \A v \in Workers : req[v].id = req[w].id => req[v].step \notin Emptying
<1>1. Tables /\ req[w].id \in Ids /\ req[w].pw \in Mints
  BY TypeParts DEF IInv, Requests, Kind
<1>2. late' = IF BeingDeleted(req[w].id) \/ Replaced(w) THEN late \cup {req[w].id} ELSE late
  BY DEF NoteLate
<1>3. late' \subseteq Ids /\ late \subseteq late'
  BY <1>1, <1>2 DEF Tables
<1>4. req[w].id \notin late' => ~ BeingDeleted(req[w].id) /\ ~ Replaced(w)
  BY <1>2
<1> QED
  BY <1>1, <1>3, <1>4 DEF BeingDeleted, Replaced, Emptying

LEMMA AddMemberKeeps ==
  ASSUME IInv, NEW w \in Workers, AddMember(w)
  PROVE  IInv'
<1>1. Tables /\ Requests /\ req[w].step = "add_member"
  BY TypeParts DEF IInv, AddMember, At
<1>2. Knows(req[w]) /\ req[w].id \in Ids /\ req[w].pw \in Mints /\ req[w].who \in Persons
  BY <1>1 DEF Requests, Kind, Knows, OtherSteps
<1>3. Requests' /\ Ends(w)
  BY <1>1, Ending DEF AddMember
<1>4. /\ late' \subseteq Ids /\ late \subseteq late'
      /\ req[w].id \notin late' =>
           /\ req[w].id \in Live /\ shared[req[w].id].pw = req[w].pw
           /\ \A v \in Workers : req[v].id = req[w].id => req[v].step \notin Emptying
  BY <1>2, NotedLate DEF AddMember
<1>5. /\ members' = members \cup {<<req[w].id, req[w].who>>}
      /\ grants' = grants \cup {<<req[w].pw, req[w].who>>}
      /\ UNCHANGED <<shared, assignments, notes, upstream, sessions, counters, raced, condemned, faults>>
  BY DEF AddMember
<1>6. Tables'
  BY <1>1, <1>2, <1>4, <1>5 DEF Tables, counters
<1>7. Grows /\ Remembers
  BY <1>4, <1>5 DEF Grows, Remembers
<1>8. /\ OwnerInv' /\ NumbersInv' /\ StoredInv' /\ AloneInv' /\ SharedCredentialWorks' /\ CheckedInv'
  BY <1>3, <1>5, <1>7, EndsKeepMost DEF counters
<1>9. Keeps(Emptying) /\ Keeps({"del_note"})
  BY <1>3, EndsConduct DEF Keeps, Phases
<1>10. NotesInv'
  BY <1>5, <1>9, NotesStay DEF IInv, counters
<1>11. EmptiedInv'
  <2>1. ASSUME NEW v \in Workers, req'[v].id \notin late', req'[v].step \in Emptying
        PROVE  /\ \A m \in members' : m[1] # req'[v].id
               /\ req'[v].step \in {"del_notes", "del_row"} => \A a \in assignments' : a[1] # req'[v].id
               /\ req'[v].step = "del_row" => \A n \in notes' : n.mailbox # req'[v].id
    <3>1. req'[v] = req[v]
      BY <1>9, <2>1 DEF Keeps
    <3>2. req[v].id # req[w].id
      BY <1>4, <2>1, <3>1
    <3> QED
      BY <1>4, <1>5, <2>1, <3>1, <3>2 DEF IInv, EmptiedInv, Emptying
  <2> QED
    BY <2>1 DEF EmptiedInv, Emptying
<1>12. RowsBelongToTheirMailbox'
  <2>1. Live' = Live /\ shared' = shared /\ sessions' = sessions
    BY <1>5 DEF Live
  <2>2. /\ \A m \in members' : m[1] \in Live \cup late'
        /\ \A a \in assignments : a[1] \in Live \cup late'
        /\ \A n \in notes : n.mailbox \in Live \cup late'
    BY <1>4, <1>5 DEF IInv, RowsBelongToTheirMailbox
  <2>3. \A row \in members' \cup assignments :
           row[1] \in Live \ late' => <<shared[row[1]].pw, row[2]>> \in grants'
    BY <1>4, <1>5 DEF IInv, RowsBelongToTheirMailbox
  <2>4. \A s \in sessions, i \in Live \ late' :
           shared[i].pw = s.pw => <<shared[i].pw, s.actingAs>> \in grants'
    BY <1>4, <1>5 DEF IInv, RowsBelongToTheirMailbox
  <2> QED
    BY <1>5, <2>1, <2>2, <2>3, <2>4 DEF RowsBelongToTheirMailbox
<1> QED
  BY <1>3, <1>6, <1>8, <1>10, <1>11, <1>12, TypeParts DEF IInv

\* The requests that go on once a membership has been seen.
LEMMA MemberSeen ==
  ASSUME IInv, NEW w \in Workers, NEW step \in {"create_session", "assign"}, Goto(w, step),
         UNCHANGED <<tables, upstream, sessions, counters, history, faults>>,
         step = "create_session" => /\ req[w].step = "is_member"
                                    /\ <<req[w].id, req[w].who>> \in members,
         step = "assign" => /\ req[w].step = "assign_check"
                            /\ <<req[w].id, req[w].to>> \in members
  PROVE  IInv'
<1>1. Tables /\ Requests /\ req[w] \in Request /\ Kind(req[w]) /\ Knows(req[w])
  BY TypeParts DEF IInv, Requests, Knows, OtherSteps
<1>2. step \in Steps /\ Kind([req[w] EXCEPT !.step = step])
  BY <1>1 DEF Request, Kind, Steps, CreateSteps, Minting, Knows, DeleteSteps, OtherSteps
<1>3. Requests' /\ Goes(w, step)
  BY <1>1, <1>2, Going
<1>4. Tables'
  BY <1>1 DEF Tables, tables, counters, history
<1>5. /\ shared' = shared /\ Live' = Live /\ members' = members /\ sessions' = sessions
      /\ grants' = grants /\ late' = late /\ minted' = minted /\ written' = written
      /\ upstream' = upstream /\ notes' = notes
  BY DEF tables, counters, history, Live
<1>6. Shrinks /\ RowsShrink /\ Grows /\ Remembers
  BY DEF Shrinks, RowsShrink, Grows, Remembers, tables, history
<1>7. Conduct /\ NoNewCreator /\ Keeps(Emptying) /\ Keeps({"del_note"})
  <2>1. step # "undo_delete" /\ step \notin CreateSteps /\ step \notin Emptying
        /\ step \notin {"del_note"} /\ step \notin {"recover", "insert"}
    BY DEF CreateSteps, Emptying
  <2> QED
    BY <1>1, <1>3, <2>1, GoesConduct
<1>8. Steady
  BY <1>5, <1>6, <1>7 DEF Steady, Conduct
<1>9. OwnerInv' /\ NumbersInv' /\ StoredInv' /\ AloneInv' /\ SharedCredentialWorks'
  BY <1>5, <1>6, <1>7, <1>8, OwnerStays, NumbersStay, StoredStays, AloneStays, WorksStays
     DEF IInv, Remembers
<1>10. EmptiedInv' /\ RowsBelongToTheirMailbox' /\ NotesInv'
  BY <1>5, <1>6, <1>7, EmptiedStays, RowsStay, NotesStay DEF IInv
<1>11. \A v \in Workers : v # w => req'[v] = req[v]
  BY <1>3 DEF Goes, Others
<1>12. ASSUME NEW u \in Workers, At(u, "assign")', req'[u].id \notin late, shared[req'[u].id].pw = req'[u].pw
       PROVE  <<req'[u].pw, req'[u].to>> \in grants
  <2>1. CASE u # w
    BY <1>11, <1>12, <2>1 DEF IInv, CheckedInv, At
  <2>2. CASE u = w
    <3>1. /\ req[w].step = "assign_check" /\ <<req[w].id, req[w].to>> \in members
          /\ req'[w].id = req[w].id /\ req'[w].pw = req[w].pw /\ req'[w].to = req[w].to
      BY <1>3, <1>12, <2>2 DEF Goes, At
    <3>2. req[w].id \in Ids /\ req[w].pw \in Mints
      BY <1>1 DEF Kind
    <3>3. req[w].id \in Live \ late
      BY <1>12, <2>2, <3>1, <3>2, SharedAssumption DEF Live, NoMailbox, Mints
    <3>4. \A row \in members : row[1] \in Live \ late => <<shared[row[1]].pw, row[2]>> \in grants
      BY DEF IInv, RowsBelongToTheirMailbox
    <3> QED
      BY <1>12, <2>2, <3>1, <3>3, <3>4
  <2> QED
    BY <2>1, <2>2
<1>13. ASSUME NEW u \in Workers, NEW i \in Live \ late, At(u, "create_session")', shared[i].pw = req'[u].pw
       PROVE  <<req'[u].pw, req'[u].who>> \in grants
  <2>1. CASE u # w
    BY <1>11, <1>13, <2>1 DEF IInv, CheckedInv, At
  <2>2. CASE u = w
    <3>1. /\ <<req[w].id, req[w].who>> \in members
          /\ req'[w].id = req[w].id /\ req'[w].pw = req[w].pw /\ req'[w].who = req[w].who
      BY <1>3, <1>13, <2>2 DEF Goes, At
    <3>2. i = req[w].id
      BY <1>1, <1>13, <2>2, <3>1 DEF IInv, StoredInv
    <3>3. \A row \in members : row[1] \in Live \ late => <<shared[row[1]].pw, row[2]>> \in grants
      BY DEF IInv, RowsBelongToTheirMailbox
    <3> QED
      BY <1>13, <2>2, <3>1, <3>2, <3>3
  <2> QED
    BY <2>1, <2>2
<1>14. CheckedInv'
  BY <1>5, <1>12, <1>13 DEF CheckedInv
<1> QED
  BY <1>3, <1>4, <1>9, <1>10, <1>14, TypeParts DEF IInv

LEMMA CheckKeeps ==
  ASSUME IInv, NEW w \in Workers, IsMember(w) \/ AssigneeCheck(w)
  PROVE  IInv'
<1>1. UNCHANGED <<tables, upstream, sessions, counters, history, faults>>
  BY DEF IsMember, AssigneeCheck
<1>2. CASE Done(w)
  <2>1. Requests' /\ Ends(w)
    BY <1>2, Ending, TypeParts DEF IInv
  <2>2. Tables'
    BY <1>1, TypeParts DEF IInv, Tables, tables, counters, history
  <2>3. RowsShrink /\ Grows /\ Remembers /\ UNCHANGED <<shared, sessions, minted, written, upstream>>
    BY <1>1 DEF tables, counters, history, RowsShrink, Grows, Remembers
  <2> QED
    BY <2>1, <2>2, <2>3, EndsKeep, TypeParts
<1>3. CASE IsMember(w) /\ ~ Done(w)
  <2>1. Goto(w, "create_session") /\ req[w].step = "is_member" /\ <<req[w].id, req[w].who>> \in members
    BY <1>3 DEF IsMember, At
  <2> QED
    BY <1>1, <2>1, MemberSeen
<1>4. CASE AssigneeCheck(w) /\ ~ Done(w)
  <2>1. Goto(w, "assign") /\ req[w].step = "assign_check" /\ <<req[w].id, req[w].to>> \in members
    BY <1>4 DEF AssigneeCheck, At
  <2> QED
    BY <1>1, <2>1, MemberSeen
<1> QED
  BY <1>2, <1>3, <1>4

LEMMA CreateSessionKeeps ==
  ASSUME IInv, NEW w \in Workers, CreateSession(w)
  PROVE  IInv'
<1>1. Tables /\ Requests /\ req[w].step = "create_session"
  BY TypeParts DEF IInv, CreateSession, At
<1>2. Knows(req[w]) /\ req[w].email \in Emails /\ req[w].pw \in Mints /\ req[w].who \in Persons
  BY <1>1 DEF Requests, Kind, Knows, OtherSteps
<1>3. Requests' /\ Ends(w)
  BY <1>1, Ending DEF CreateSession
<1> DEFINE session == [email |-> req[w].email, pw |-> req[w].pw, actingAs |-> req[w].who]
<1>4. sessions' = sessions \cup {session} /\ UNCHANGED <<tables, upstream, counters, history, faults>>
  BY DEF CreateSession
<1>5. session \in [email : Emails, pw : Mints, actingAs : Persons] /\ session.pw = req[w].pw
      /\ session.actingAs = req[w].who
  BY <1>2
<1> HIDE DEF session
<1>6. Tables'
  BY <1>1, <1>4, <1>5 DEF Tables, tables, counters, history
<1>7. Grows /\ Remembers /\ RowsShrink /\ UNCHANGED <<shared, minted, upstream, written>>
  BY <1>4 DEF Grows, Remembers, RowsShrink, tables, counters, history
<1>8. \A s \in sessions' : s \in sessions \/ \E u \in Workers : Knows(req[u]) /\ s.pw = req[u].pw
  BY <1>2, <1>4, <1>5
<1>9. /\ OwnerInv' /\ NumbersInv' /\ StoredInv' /\ AloneInv' /\ SharedCredentialWorks' /\ CheckedInv'
  BY <1>3, <1>7, <1>8, EndsKeepMost
<1>10. Keeps(Emptying) /\ Keeps({"del_note"})
  BY <1>3, EndsConduct DEF Keeps, Phases
<1>11. EmptiedInv' /\ NotesInv'
  BY <1>7, <1>10, EmptiedStays, NotesStay DEF IInv, RowsShrink
<1>12. RowsBelongToTheirMailbox'
  <2>1. /\ Live' = Live /\ shared' = shared /\ members' = members /\ assignments' = assignments
        /\ notes' = notes /\ grants' = grants /\ late' = late
    BY <1>4 DEF Live, tables, history
  <2>2. \A s \in sessions', i \in Live \ late :
           shared[i].pw = s.pw => <<shared[i].pw, s.actingAs>> \in grants
    BY <1>1, <1>4, <1>5 DEF IInv, RowsBelongToTheirMailbox, CheckedInv, At
  <2>3. /\ \A m \in members : m[1] \in Live \cup late
        /\ \A a \in assignments : a[1] \in Live \cup late
        /\ \A n \in notes : n.mailbox \in Live \cup late
        /\ \A row \in members \cup assignments :
             row[1] \in Live \ late => <<shared[row[1]].pw, row[2]>> \in grants
    BY DEF IInv, RowsBelongToTheirMailbox
  <2> QED
    BY <2>1, <2>2, <2>3 DEF RowsBelongToTheirMailbox
<1> QED
  BY <1>3, <1>6, <1>9, <1>11, <1>12, TypeParts DEF IInv

LEMMA SetAssignmentKeeps ==
  ASSUME IInv, NEW w \in Workers, SetAssignment(w)
  PROVE  IInv'
<1>1. Tables /\ Requests /\ req[w].step = "assign"
  BY TypeParts DEF IInv, SetAssignment, At
<1>2. Knows(req[w]) /\ req[w].id \in Ids /\ req[w].to \in Persons
  BY <1>1 DEF Requests, Kind, Knows, OtherSteps
<1>3. Requests' /\ Ends(w)
  BY <1>1, Ending DEF SetAssignment
<1>4. /\ late' \subseteq Ids /\ late \subseteq late'
      /\ req[w].id \notin late' =>
           /\ req[w].id \in Live /\ shared[req[w].id].pw = req[w].pw
           /\ \A v \in Workers : req[v].id = req[w].id => req[v].step \notin Emptying
  BY <1>2, NotedLate DEF SetAssignment
<1>5. /\ assignments' = {a \in assignments : a[1] # req[w].id} \cup {<<req[w].id, req[w].to>>}
      /\ UNCHANGED <<shared, members, notes, upstream, sessions, counters, grants, raced, condemned, faults>>
  BY DEF SetAssignment
<1>6. Tables'
  BY <1>1, <1>2, <1>4, <1>5 DEF Tables, counters
<1>7. Grows /\ Remembers
  BY <1>4, <1>5 DEF Grows, Remembers
<1>8. /\ OwnerInv' /\ NumbersInv' /\ StoredInv' /\ AloneInv' /\ SharedCredentialWorks' /\ CheckedInv'
  BY <1>3, <1>5, <1>7, EndsKeepMost DEF counters
<1>9. Keeps(Emptying) /\ Keeps({"del_note"})
  BY <1>3, EndsConduct DEF Keeps, Phases
<1>10. NotesInv'
  BY <1>5, <1>9, NotesStay DEF IInv, counters
<1>11. EmptiedInv'
  <2>1. ASSUME NEW v \in Workers, req'[v].id \notin late', req'[v].step \in Emptying
        PROVE  /\ \A m \in members' : m[1] # req'[v].id
               /\ req'[v].step \in {"del_notes", "del_row"} => \A a \in assignments' : a[1] # req'[v].id
               /\ req'[v].step = "del_row" => \A n \in notes' : n.mailbox # req'[v].id
    <3>1. req'[v] = req[v]
      BY <1>9, <2>1 DEF Keeps
    <3>2. req[v].id # req[w].id
      BY <1>4, <2>1, <3>1
    <3> QED
      BY <1>4, <1>5, <2>1, <3>1, <3>2 DEF IInv, EmptiedInv, Emptying
  <2> QED
    BY <2>1 DEF EmptiedInv, Emptying
<1>12. RowsBelongToTheirMailbox'
  <2>1. Live' = Live /\ shared' = shared /\ sessions' = sessions /\ grants' = grants
    BY <1>5 DEF Live
  <2>2. /\ \A m \in members : m[1] \in Live \cup late'
        /\ \A a \in assignments' : a[1] \in Live \cup late'
        /\ \A n \in notes : n.mailbox \in Live \cup late'
    BY <1>4, <1>5 DEF IInv, RowsBelongToTheirMailbox
  <2>3. req[w].id \notin late' => <<shared[req[w].id].pw, req[w].to>> \in grants
    BY <1>1, <1>4 DEF IInv, CheckedInv, At
  <2>4. \A row \in members \cup assignments' :
           row[1] \in Live \ late' => <<shared[row[1]].pw, row[2]>> \in grants
    BY <1>4, <1>5, <2>3 DEF IInv, RowsBelongToTheirMailbox
  <2>5. \A s \in sessions, i \in Live \ late' :
           shared[i].pw = s.pw => <<shared[i].pw, s.actingAs>> \in grants
    BY <1>4 DEF IInv, RowsBelongToTheirMailbox
  <2> QED
    BY <1>5, <2>1, <2>2, <2>4, <2>5 DEF RowsBelongToTheirMailbox
<1> QED
  BY <1>3, <1>6, <1>8, <1>10, <1>11, <1>12, TypeParts DEF IInv

LEMMA AddNoteKeeps ==
  ASSUME IInv, NEW w \in Workers, AddNote(w)
  PROVE  IInv'
<1>1. Tables /\ Requests /\ req[w].step = "add_note"
  BY TypeParts DEF IInv, AddNote, At
<1>2. Knows(req[w]) /\ req[w].id \in Ids /\ req[w].who \in People
  BY <1>1 DEF Requests, Kind, Knows, OtherSteps
<1>3. Requests' /\ Ends(w)
  BY <1>1, Ending DEF AddNote
<1>4. /\ late' \subseteq Ids /\ late \subseteq late'
      /\ req[w].id \notin late' =>
           /\ req[w].id \in Live /\ shared[req[w].id].pw = req[w].pw
           /\ \A v \in Workers : req[v].id = req[w].id => req[v].step \notin Emptying
  BY <1>2, NotedLate DEF AddNote
<1>5. PICK id \in NoteIds :
        /\ NextId(id, {n.id : n \in notes})
        /\ notes' = notes \cup {[id |-> id, mailbox |-> req[w].id, author |-> req[w].who,
                                 serial |-> written']}
  BY DEF AddNote
<1> DEFINE note == [id |-> id, mailbox |-> req[w].id, author |-> req[w].who, serial |-> written']
<1>6. /\ written < MaxNotes /\ written' = written + 1
      /\ UNCHANGED <<shared, members, assignments, upstream, sessions, minted, grants, raced, condemned, faults>>
  BY DEF AddNote
<1>7. written \in Nat /\ written' \in NoteIds /\ written' \in 0..MaxNotes
  BY <1>1, <1>6, SharedAssumption DEF Tables, NoteIds
<1>8. /\ note \in [id : NoteIds, mailbox : Ids, author : People, serial : NoteIds]
      /\ note.id = id /\ note.mailbox = req[w].id /\ note.serial = written'
  BY <1>2, <1>7
<1>9. notes' = notes \cup {note}
  BY <1>5
<1>10. \A n \in notes : n.id # id /\ n.serial # written'
  <2>1. \A n \in notes : n.id < id
    BY <1>5 DEF NextId
  <2>2. \A n \in notes : n.id \in Int /\ n.serial \in Int /\ n.serial <= written
    BY <1>1 DEF Tables, NoteIds, IInv, NotesInv
  <2>3. id \in Int
    BY DEF NoteIds
  <2> QED
    BY <1>6, <1>7, <2>1, <2>2, <2>3
<1> HIDE DEF note
<1>11. Tables'
  BY <1>1, <1>4, <1>6, <1>7, <1>8, <1>9 DEF Tables
<1>12. Grows /\ Remembers
  BY <1>4, <1>6 DEF Grows, Remembers
<1>13. /\ OwnerInv' /\ NumbersInv' /\ StoredInv' /\ AloneInv' /\ SharedCredentialWorks' /\ CheckedInv'
  BY <1>3, <1>6, <1>12, EndsKeepMost
<1>14. Keeps(Emptying) /\ Keeps({"del_note"})
  BY <1>3, EndsConduct DEF Keeps, Phases
<1>15. NotesInv'
  <2>1. \A n \in notes : n.serial \in Nat
    BY <1>1 DEF Tables, NoteIds
  <2>2. \A n \in notes' : n.serial <= written'
    BY <1>6, <1>7, <1>8, <1>9, <2>1 DEF IInv, NotesInv
  <2>3. \A m, n \in notes' : m.id = n.id \/ m.serial = n.serial => m = n
    BY <1>8, <1>9, <1>10 DEF IInv, NotesInv
  <2>4. ASSUME NEW v \in Workers, At(v, "del_note")'
        PROVE  /\ req'[v].serial <= written'
               /\ \A n \in notes' : n.serial = req'[v].serial =>
                    n.id = req'[v].note /\ n.author = req'[v].who
    <3>1. req'[v] = req[v] /\ At(v, "del_note")
      BY <1>14, <2>4 DEF Keeps, At
    <3>2. req[v].serial \in Nat /\ req[v].serial <= written
      BY <1>1, <3>1 DEF IInv, NotesInv, Requests, Kind, At, NoteIds
    <3>3. req[v].serial # written' /\ req[v].serial <= written'
      BY <1>6, <1>7, <3>2
    <3> QED
      BY <1>8, <1>9, <3>1, <3>3 DEF IInv, NotesInv
  <2> QED
    BY <2>2, <2>3, <2>4 DEF NotesInv
<1>16. EmptiedInv'
  <2>1. ASSUME NEW v \in Workers, req'[v].id \notin late', req'[v].step \in Emptying
        PROVE  /\ \A m \in members' : m[1] # req'[v].id
               /\ req'[v].step \in {"del_notes", "del_row"} => \A a \in assignments' : a[1] # req'[v].id
               /\ req'[v].step = "del_row" => \A n \in notes' : n.mailbox # req'[v].id
    <3>1. req'[v] = req[v]
      BY <1>14, <2>1 DEF Keeps
    <3>2. req[v].id # req[w].id
      BY <1>4, <2>1, <3>1
    <3> QED
      BY <1>4, <1>6, <1>8, <1>9, <2>1, <3>1, <3>2 DEF IInv, EmptiedInv, Emptying
  <2> QED
    BY <2>1 DEF EmptiedInv, Emptying
<1>17. RowsBelongToTheirMailbox'
  <2>1. /\ Live' = Live /\ shared' = shared /\ sessions' = sessions /\ grants' = grants
        /\ members' = members /\ assignments' = assignments
    BY <1>6 DEF Live
  <2>2. /\ \A m \in members : m[1] \in Live \cup late'
        /\ \A a \in assignments : a[1] \in Live \cup late'
        /\ \A n \in notes' : n.mailbox \in Live \cup late'
    BY <1>4, <1>8, <1>9 DEF IInv, RowsBelongToTheirMailbox
  <2>3. \A row \in members \cup assignments :
           row[1] \in Live \ late' => <<shared[row[1]].pw, row[2]>> \in grants
    BY <1>4 DEF IInv, RowsBelongToTheirMailbox
  <2>4. \A s \in sessions, i \in Live \ late' :
           shared[i].pw = s.pw => <<shared[i].pw, s.actingAs>> \in grants
    BY <1>4 DEF IInv, RowsBelongToTheirMailbox
  <2> QED
    BY <2>1, <2>2, <2>3, <2>4 DEF RowsBelongToTheirMailbox
<1> QED
  BY <1>3, <1>11, <1>13, <1>15, <1>16, <1>17, TypeParts DEF IInv

LEMMA GetNoteKeeps ==
  ASSUME IInv, NEW w \in Workers, GetNote(w)
  PROVE  IInv'
<1>1. Tables /\ Requests /\ req[w].step = "get_note"
  BY TypeParts DEF IInv, GetNote, At
<1>2. req[w] \in Request /\ Kind(req[w]) /\ Knows(req[w])
  BY <1>1 DEF Requests, Knows, OtherSteps
<1>3. UNCHANGED <<tables, upstream, sessions, counters, history, faults>>
  BY DEF GetNote
<1>4. Tables'
  BY <1>1, <1>3 DEF Tables, tables, counters, history
<1>5. RowsShrink /\ Grows /\ Remembers /\ UNCHANGED <<shared, sessions, minted, written, upstream, notes>>
  BY <1>3 DEF tables, counters, history, RowsShrink, Grows, Remembers
<1>6. CASE Done(w)
  <2>1. Requests' /\ Ends(w)
    BY <1>1, <1>6, Ending
  <2> QED
    BY <1>4, <1>5, <2>1, EndsKeep, TypeParts
<1>7. CASE ~ Done(w)
  <2> DEFINE found == {n \in notes : /\ n.id = req[w].note /\ n.mailbox = req[w].id
                                      /\ n.author = req[w].who}
  <2>1. /\ found # {}
        /\ req' = [req EXCEPT ![w].step = "del_note", ![w].serial = (CHOOSE n \in found : TRUE).serial]
    BY <1>7 DEF GetNote
  <2>2. PICK n \in found : req' = [req EXCEPT ![w].step = "del_note", ![w].serial = n.serial]
    BY <2>1
  <2>3. n \in notes /\ n.id = req[w].note /\ n.author = req[w].who /\ n.serial \in NoteIds
    BY <1>1 DEF Tables
  <2> HIDE DEF found
  <2> DEFINE R == [req[w] EXCEPT !.step = "del_note", !.serial = n.serial]
  <2>4. n.serial \in 0..MaxNotes
    BY <2>3, SharedAssumption DEF NoteIds
  <2>5. R \in Request
    BY <1>2, <2>4 DEF Request, Steps
  <2>6. Kind(R)
    BY <1>1, <1>2, <2>3 DEF Request, Kind, CreateSteps, Minting, Knows, DeleteSteps, OtherSteps
  <2>7. req' = [req EXCEPT ![w] = R]
    BY <1>1, <2>2 DEF Requests
  <2>8. Requests' /\ Others(w) /\ req'[w] = R
    BY <1>1, <2>5, <2>6, <2>7, Taken
  <2>9. /\ req'[w].step = "del_note" /\ req'[w].serial = n.serial /\ req'[w].id = req[w].id
        /\ req'[w].email = req[w].email /\ req'[w].pw = req[w].pw /\ req'[w].who = req[w].who
        /\ req'[w].note = req[w].note /\ req'[w].listed = req[w].listed
    BY <1>2, <2>8 DEF Request
  <2>10. \A v \in Workers : v # w => req'[v] = req[v]
    BY <2>8 DEF Others
  <2>11. Continues(w)
    BY <1>2, <2>9 DEF Continues, Knows, Minting, Unstored
  <2>12. Conduct
    BY <2>10, <2>11, SameStep DEF Conduct
  <2>13. NoNewCreator
    BY <2>9, <2>10 DEF NoNewCreator, CreateSteps
  <2>14. Keeps(Emptying) /\ Keeps({"assign", "create_session"})
    BY <2>9, <2>10 DEF Keeps, Emptying
  <2>15. Shrinks
    BY <1>5 DEF Shrinks
  <2>16. Steady
    BY <1>5, <2>12, <2>15 DEF Steady, Conduct
  <2>17. OwnerInv' /\ NumbersInv' /\ StoredInv' /\ AloneInv' /\ SharedCredentialWorks'
    BY <1>5, <2>13, <2>15, <2>16, OwnerStays, NumbersStay, StoredStays, AloneStays, WorksStays
       DEF IInv, Remembers
  <2>18. EmptiedInv' /\ CheckedInv' /\ RowsBelongToTheirMailbox'
    BY <1>5, <2>14, <2>15, EmptiedStays, CheckedStays, RowsStay DEF IInv
  <2>19. NotesInv'
    <3>1. ASSUME NEW v \in Workers, At(v, "del_note")'
          PROVE  /\ req'[v].serial <= written
                 /\ \A k \in notes : k.serial = req'[v].serial =>
                      k.id = req'[v].note /\ k.author = req'[v].who
      <4>1. CASE v = w
        BY <2>3, <2>9, <4>1 DEF IInv, NotesInv
      <4>2. CASE v # w
        BY <2>10, <3>1, <4>2 DEF IInv, NotesInv, At
      <4> QED
        BY <4>1, <4>2
    <3> QED
      BY <1>5, <3>1 DEF IInv, NotesInv
  <2> QED
    BY <1>4, <2>8, <2>17, <2>18, <2>19, TypeParts DEF IInv
<1> QED
  BY <1>6, <1>7
-----------------------------------------------------------------------------
LEMMA Initially ==
  Init => IInv
<1> SUFFICES ASSUME Init PROVE IInv
  OBVIOUS
<1>1. MaxMints \in Nat /\ MaxNotes \in Nat /\ MaxFaults \in Nat
  BY SharedAssumption
<1>2. Live = {}
  BY DEF Init, Live
<1>3. \A w \in Workers : req[w] = Idle
  BY DEF Init
<1>4. Tables
  BY <1>1 DEF Init, Tables
<1>5. Requests
  BY <1>3, IdleIs DEF Init, Requests
<1>6. \A w \in Workers : ~ Knows(req[w]) /\ ~ Minting(req[w]) /\ ~ Unstored(req[w])
  BY <1>3, IdleIs DEF Knows, Minting, Unstored, DeleteSteps, OtherSteps
<1>7. OwnerInv
  <2>1. ASSUME NEW owner \in [Mints -> Emails \cup {"none"}]
        PROVE  Agrees(owner)
    BY <1>2, <1>3, <1>6, IdleIs DEF Init, Agrees, At
  <2>2. [i \in Mints |-> "none"] \in [Mints -> Emails \cup {"none"}]
    OBVIOUS
  <2> QED
    BY <2>1, <2>2 DEF OwnerInv
<1>8. NumbersInv
  BY <1>2, <1>3, IdleIs DEF Init, NumbersInv
<1>9. StoredInv
  BY <1>2, <1>6 DEF StoredInv
<1>10. AloneInv
  BY <1>3, IdleIs DEF AloneInv, Creating
<1>11. SharedCredentialWorks /\ RowsBelongToTheirMailbox
  BY <1>2 DEF Init, SharedCredentialWorks, RowsBelongToTheirMailbox
<1>12. EmptiedInv /\ CheckedInv /\ NotesInv
  BY <1>2, <1>3, IdleIs DEF Init, EmptiedInv, CheckedInv, NotesInv, At
<1> QED
  BY <1>4, <1>5, <1>7, <1>8, <1>9, <1>10, <1>11, <1>12, TypeParts DEF IInv

LEMMA Stuttering ==
  ASSUME IInv, UNCHANGED vars
  PROVE  IInv'
<1>1. /\ UNCHANGED <<tables, upstream, sessions, counters, history, faults>> /\ req' = req
  BY DEF vars
<1>2. Tables' /\ Requests'
  BY <1>1, TypeParts DEF IInv, Tables, Requests, tables, counters, history
<1>3. Conduct
  BY <1>1, SameStep DEF Conduct
<1>4. NoNewCreator /\ Keeps(Phases)
  BY <1>1 DEF NoNewCreator, Keeps
<1>5. RowsShrink /\ Grows /\ Remembers /\ UNCHANGED <<shared, sessions, minted, written, upstream>>
  BY <1>1 DEF tables, counters, history, RowsShrink, Grows, Remembers
<1> QED
  BY <1>2, <1>3, <1>4, <1>5, Quiet, TypeParts

\* The invariant is inductive.
LEMMA Inductive ==
  IInv /\ [Next]_vars => IInv'
<1> SUFFICES ASSUME IInv, [Next]_vars PROVE IInv'
  OBVIOUS
<1>1. ASSUME NEW w \in Workers, AdminRequest(w)
      PROVE  IInv'
  BY <1>1, CreateCheckKeeps, MintKeeps, RecoverKeeps, CreateMailboxKeeps, UndoListKeeps,
     UndoDeleteKeeps, ReadsKeep, DeleteRevokeKeeps, DeleteMembersKeeps, DeleteAssignmentsKeeps,
     DeleteNotesKeeps, DeleteRowKeeps, AddMemberKeeps DEF AdminRequest
<1>2. ASSUME NEW w \in Workers, WebmailRequest(w)
      PROVE  IInv'
  <2>1. ASSUME NEW id \in Ids, Resolves(w, id)
        PROVE  IInv'
    BY <2>1, ReadsKeep
  <2>2. \/ \E id \in Ids : Resolves(w, id)
        \/ \E id \in Ids, person \in Persons : ActivateRead(w, id, person)
        \/ IsMember(w) \/ AssigneeCheck(w) \/ CreateSession(w) \/ SetAssignment(w)
        \/ ClearAssignment(w) \/ AddNote(w) \/ GetNote(w) \/ DeleteNote(w)
    BY <1>2 DEF WebmailRequest, Resolves
  <2> QED
    BY <2>1, <2>2, ReadsKeep, CheckKeeps, CreateSessionKeeps, SetAssignmentKeeps,
       ClearAssignmentKeeps, AddNoteKeeps, GetNoteKeeps, DeleteNoteKeeps
<1> QED
  BY <1>1, <1>2, StatementFailsKeeps, RemoveMemberKeeps, CrashKeeps, Stuttering DEF Next

LEMMA Always ==
  Spec => []IInv
  BY Initially, Inductive, PTL DEF Spec

\* Every variable has its type.
THEOREM Typing ==
  Spec => []TypeOK
<1>1. IInv => TypeOK
  BY DEF IInv, TypeInv
<1> QED
  BY <1>1, Always, PTL

\* A shared mailbox's app-password exists at mailcow as long as no second create
\* of it overlapped the first and no delete of it has begun.
THEOREM CredentialLasts ==
  Spec => []SharedCredentialWorks
<1>1. IInv => SharedCredentialWorks
  BY DEF IInv
<1> QED
  BY <1>1, Always, PTL

\* No row outlives its mailbox, and none of a former mailbox is another's.
THEOREM RowsBelong ==
  Spec => []RowsBelongToTheirMailbox
<1>1. IInv => RowsBelongToTheirMailbox
  BY DEF IInv
<1> QED
  BY <1>1, Always, PTL

\* A note is deleted by its author, or no longer is the note that was checked.
THEOREM AuthorsDelete ==
  Spec => []OnlyTheAuthorDeletes
<1>1. ASSUME IInv
      PROVE  OnlyTheAuthorDeletes
  BY <1>1 DEF IInv, NotesInv, OnlyTheAuthorDeletes
<1> QED
  BY <1>1, Always, PTL
=============================================================================
