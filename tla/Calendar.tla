------------------------------ MODULE Calendar ------------------------------
(***************************************************************************)
(* A mailbox's calendar, changed by browser tabs and by a CalDAV client.   *)
(*   internal/api/calendar.go    the web calendar, and its iCalendar edits *)
(*   internal/dav/caldav.go      the CalDAV backend                        *)
(*   internal/dav/store.go       calendar_objects                          *)
(*                                                                         *)
(* A row is one VEVENT, and of an event only what an edit may get wrong is *)
(* kept: which request wrote its text and times, its categories, its rule, *)
(* its alarms, who is invited, the owner's answer and its attachments.  A  *)
(* row has the name it was put under; the UID of the event itself may be   *)
(* another.                                                                *)
(*                                                                         *)
(* CalendarSpec, calendarVars and the like have names of their own, so     *)
(* that MailboxDataProofs can extend this module beside ScheduledSend.     *)
(***************************************************************************)
EXTENDS Integers, Sequences, FiniteSets, Functions

CONSTANTS
  Tabs,              \* pages that show the calendar
  Guests,            \* people other than the owner
  Categories,        \* categories an event may be filed under
  Authored,          \* the events other calendar programs make
  maxCalAttachTotal, \* cap on the size of attachments
  MaxNames,          \* bound on the rows
  MaxRequests        \* bound on the requests that write

\* The guest that the form shows for an ATTENDEE "MAILTO:" of the owner: only
\* "mailto:" is taken off, and the rest is not the owner's address.
Myself == "MAILTO:owner"

ASSUME CalendarBounds ==
  maxCalAttachTotal \in Nat /\ MaxNames \in Nat /\ MaxRequests \in Nat

ASSUME CalendarNames == Myself \notin Guests /\ "" \notin Categories

VARIABLES
  objects,  \* calendar_objects of the default calendar: name -> event, or NoEvent
  tab,      \* tab -> what it shows, and the write its request is at
  copy,     \* the CalDAV client's copy: [name, event]
  requests, \* history: requests that wrote, or began to
  asked,    \* history: name -> what its owner last asked it to be
  crossed,  \* history: names written from an event that was another by then
  stale,    \* history: names whose files were not those the tab showed
  deleted   \* history: names deleted, and not put again by anybody

calendarVars == <<objects, tab, copy, requests, asked, crossed, stale, deleted>>

-----------------------------------------------------------------------------
(* Events, and what the web calendar shows of one.                         *)

Names == 1..MaxNames

FormFreqs == {"DAILY", "WEEKLY", "MONTHLY", "YEARLY"}
NoRule == [freq |-> "", detail |-> FALSE]

Listable == Guests \cup {Myself}

\* owner and guests: a PARTSTAT, "" for an ATTENDEE without one, or "absent";
\* guests[Myself] is an ATTENDEE "mailto:mailto:" of the owner, which is nobody's.
\* upper: the owner's ATTENDEE, if there is one, is spelt "MAILTO:".
NoEvent == [uid |-> 0, text |-> 0, categories |-> <<>>, rule |-> NoRule, alarms |-> <<>>,
            guests |-> [g \in Listable |-> "absent"], owner |-> "absent", upper |-> FALSE,
            attach |-> <<>>]

Freqs == FormFreqs \cup {"", "HOURLY"}
Rule == {NoRule} \cup [freq : Freqs \ {""}, detail : BOOLEAN]
Alarm == [action : {"DISPLAY", "EMAIL"}, minutes : Nat]
Partstats == {"", "absent", "NEEDS-ACTION", "ACCEPTED", "TENTATIVE", "DECLINED"}

\* The id of a file is the request that uploaded it; files that came with an
\* event made elsewhere have other ids, and no cap.
Elsewhere == Nat \ (0..MaxRequests)
Attachment == [id : 1..MaxRequests, size : 1..maxCalAttachTotal] \cup [id : Elsewhere, size : Nat]

Event == [uid : Names \cup {0}, text : 0..MaxRequests, categories : Seq(Categories),
          rule : Rule, alarms : Seq(Alarm), guests : [Listable -> Partstats],
          owner : Partstats, upper : BOOLEAN, attach : Seq(Attachment)]

\* No two files of an event have the same id.
Distinct(attach) == \A i, j \in DOMAIN attach : attach[i].id = attach[j].id => i = j

ASSUME AuthoredAssumption ==
  \A e \in Authored :
    /\ e \in Event
    /\ Distinct(e.attach) /\ \A i \in DOMAIN e.attach : e.attach[i].id \in Elsewhere

NobodyAsked == [text |-> 0, owner |-> "absent", files |-> {}]
NothingShown == [name |-> 0, event |-> NoEvent]
Idle == [shown |-> NothingShown, step |-> "idle", name |-> 0, data |-> NoEvent,
         base |-> NoEvent, want |-> NobodyAsked]

CalendarInit ==
  /\ objects = [n \in Names |-> NoEvent]
  /\ tab = [t \in Tabs |-> Idle]
  /\ copy = NothingShown
  /\ requests = 0
  /\ asked = [n \in Names |-> NobodyAsked]
  /\ crossed = {} /\ stale = {} /\ deleted = {}

rsvpToPartstat == [yes |-> "ACCEPTED", maybe |-> "TENTATIVE", no |-> "DECLINED",
                   none |-> "NEEDS-ACTION"]

partstatToRsvp(ps) ==
  IF \E r \in DOMAIN rsvpToPartstat : rsvpToPartstat[r] = ps
  THEN CHOOSE r \in DOMAIN rsvpToPartstat : rsvpToPartstat[r] = ps ELSE "none"

\* An alarm's minutes are 0 when its trigger is not some minutes before.
alarmMinutes(alarms) == IF alarms = <<>> THEN 0 ELSE alarms[1].minutes

isSimpleReminder(a) == a.action = "DISPLAY" /\ a.minutes > 0

\* The prefix is compared as it is written, though the owner is found without
\* regard to case: by "MAILTO:" the owner is a guest too.
OwnerListed(e) == e.upper /\ e.owner # "absent"

Invited(e) == {g \in Listable : e.guests[g] # "absent" \/ (g = Myself /\ OwnerListed(e))}

\* Of several CATEGORIES the first is read.
Filed(e) == IF e.categories = <<>> THEN "" ELSE e.categories[1]

FileIds(attach) == {attach[i].id : i \in DOMAIN attach}
Files(e) == FileIds(e.attach)
Size(attach) == SumFunction([i \in DOMAIN attach |-> attach[i].size])

parseEvent(e) ==
  [uid |-> e.uid, calendar |-> Filed(e), repeat |-> e.rule.freq,
   reminder |-> alarmMinutes(e.alarms), guests |-> Invited(e), rsvp |-> partstatToRsvp(e.owner),
   attachments |-> Len(e.attach)]

-----------------------------------------------------------------------------
(* The edits of an event in place.                                         *)

\* All the CATEGORIES there were are replaced by the one the form has.
setOrDelete(calendar) == IF calendar = "" THEN <<>> ELSE <<calendar>>

normalizeFreq(repeat) == IF repeat \in FormFreqs THEN repeat ELSE ""

Reminder(minutes) ==
  IF minutes > 0 THEN <<[action |-> "DISPLAY", minutes |-> minutes]>> ELSE <<>>

\* The elements of a sequence at some places, in their order.
Pick(seq, places) ==
  [k \in 1..Cardinality(places) |->
     seq[CHOOSE i \in places : Cardinality({j \in places : j <= i}) = k]]

\* Mutant: only the frequency of the rule is taken away.
editRRule_KeepsParts(rule, repeat) == [rule EXCEPT !.freq = normalizeFreq(repeat)]

\* A rule written elsewhere survives an edit that leaves its frequency.
editRRule(rule, repeat) ==
  IF normalizeFreq(repeat) = rule.freq THEN rule
  ELSE [freq |-> normalizeFreq(repeat), detail |-> FALSE]

\* Mutant: the new reminder is added to the old one.
editReminder_Added(alarms, minutes) ==
  IF minutes = alarmMinutes(alarms) THEN alarms ELSE alarms \o Reminder(minutes)

\* Only the simple display reminders are the form's to replace.
editReminder(alarms, minutes) ==
  IF minutes = alarmMinutes(alarms) THEN alarms
  ELSE Pick(alarms, {i \in DOMAIN alarms : ~ isSimpleReminder(alarms[i])}) \o Reminder(minutes)

\* A guest who stays keeps the parameters of the ATTENDEE; for one who is the
\* owner by another spelling there is one already.
editGuests(e, want) ==
  [g \in Listable |-> IF g \notin want THEN "absent"
                      ELSE IF e.guests[g] # "absent" THEN e.guests[g]
                      ELSE IF g = Myself /\ OwnerListed(e) THEN "absent" ELSE ""]

\* The owner's ATTENDEE goes when it was taken for a guest's.
Unlisted(e, want) == OwnerListed(e) /\ Myself \notin want
editOwner(e, want) == IF Unlisted(e, want) THEN "absent" ELSE e.owner

\* A file that cannot be decoded has no id; it and an empty one are left out, and
\* nobody is told.
Undecodable == 0
Usable(file) == file.id # Undecodable /\ file.size > 0
addAttachments(upload) == Pick(upload, {i \in DOMAIN upload : Usable(upload[i])})

\* What a request that says nothing of attachments keeps: all of them.
Untouched == {0}

\* Files added without a list of those to keep are ignored.
editAttachments(attach, keep, upload) ==
  IF keep = Untouched THEN attach
  ELSE Pick(attach, keep \cap DOMAIN attach) \o addAttachments(upload)

\* Mutant: the event is built anew, without the ATTENDEE of the owner.
editEvent_Rebuilt(e, form, id) ==
  [e EXCEPT !.text = id, !.categories = setOrDelete(form.calendar),
            !.rule = editRRule(@, form.repeat), !.alarms = editReminder(@, form.reminder),
            !.guests = editGuests(e, form.guests), !.owner = "absent",
            !.attach = editAttachments(@, form.keep, form.upload)]

\* What the form does not show stays.
editEvent(e, form, id) ==
  [e EXCEPT !.text = id, !.categories = setOrDelete(form.calendar),
            !.rule = editRRule(@, form.repeat), !.alarms = editReminder(@, form.reminder),
            !.guests = editGuests(e, form.guests), !.owner = editOwner(e, form.guests),
            !.attach = editAttachments(@, form.keep, form.upload)]

\* In the ATTENDEE there is, however it is spelt, or in a new one.
setOwnerPartstat(e, partstat) == [e EXCEPT !.owner = partstat, !.upper = OwnerListed(e)]

buildEvent(uid, form, rsvp, id) ==
  [uid |-> uid, text |-> id, categories |-> setOrDelete(form.calendar),
   rule |-> editRRule(NoRule, form.repeat), alarms |-> Reminder(form.reminder),
   guests |-> editGuests(NoEvent, form.guests), owner |-> rsvpToPartstat[rsvp], upper |-> FALSE,
   attach |-> addAttachments(form.upload)]

-----------------------------------------------------------------------------
(* The form.                                                               *)

\* What a drag to another time sends: the event as it was listed.
Echo(view) == [calendar |-> view.calendar, repeat |-> view.repeat, reminder |-> view.reminder,
               guests |-> view.guests, keep |-> Untouched, upload |-> <<>>]

\* Nothing or one file, which may be empty, too large, or not decode.
Sent(id) == [id : {id, Undecodable}, size : 0..(maxCalAttachTotal + 1)]
Uploads(id) == {<<>>} \cup {<<f>> : f \in Sent(id)}

\* A person changes one thing at a time.
Forms(view, id) ==
  LET echo == Echo(view)
  IN  {[echo EXCEPT !.calendar = c] : c \in Categories \cup {""}} \cup
      {[echo EXCEPT !.repeat = r] : r \in {"", "DAILY", view.repeat}} \cup
      {[echo EXCEPT !.reminder = m] : m \in 0..2} \cup
      {[echo EXCEPT !.guests = g] : g \in SUBSET (Guests \cup view.guests)} \cup
      [calendar : {view.calendar}, repeat : {view.repeat}, reminder : {view.reminder},
       guests : {view.guests}, keep : SUBSET (1..view.attachments), upload : Uploads(id)]

\* Only the size of what the request brings is compared.
Fits(form) == Size(form.upload) <= maxCalAttachTotal

-----------------------------------------------------------------------------
(* The web calendar.                                                       *)

NextRequest == requests + 1
Writes == requests < MaxRequests /\ requests' = NextRequest
At(t, step) == tab[t].step = step

\* GET events: the tab shows what parseEvent makes of a row; it looks at one.
CalendarList(t) ==
  /\ At(t, "idle")
  /\ \E n \in Names :
       /\ objects[n] # NoEvent
       /\ tab' = [tab EXCEPT ![t].shown = [name |-> n, event |-> objects[n]]]
  /\ UNCHANGED <<objects, copy, requests, asked, crossed, stale, deleted>>

\* POST events: a random UID, which is the name too.
CalendarCreate(t, form, rsvp) ==
  /\ At(t, "idle")
  /\ Writes
  /\ Fits(form)
  /\ \E n \in Names :
       /\ asked[n] = NobodyAsked
       /\ objects' = [objects EXCEPT ![n] = buildEvent(n, form, rsvp, requests')]
       /\ asked' = [asked EXCEPT ![n] = [text |-> requests', owner |-> rsvpToPartstat[rsvp],
                                         files |-> Files(objects'[n])]]
  /\ UNCHANGED <<tab, copy, crossed, stale, deleted>>

\* GetCalObject, by the UID the tab shows; without a row the answer is 404.
Found(n) == n \in Names /\ objects[n] # NoEvent

Target(t) == tab[t].shown.event.uid

\* The request has read its event and is about to write it back.
Write(t, data, want) ==
  tab' = [tab EXCEPT ![t].step = "put", ![t].name = Target(t), ![t].data = data,
                     ![t].base = objects[Target(t)], ![t].want = want]

\* PUT events/{uid}: GetCalObject and editEvent.
CalendarUpdate(t, form) ==
  LET n == Target(t)
      shown == tab[t].shown.event.attach
  IN  /\ At(t, "idle")
      /\ Writes
      /\ Fits(form)
      /\ Found(n)
      /\ Write(t, editEvent(objects[n], form, requests'),
               [asked[n] EXCEPT !.text = requests',
                  !.owner = IF Unlisted(objects[n], form.guests) THEN "absent" ELSE @,
                  !.files = IF form.keep = Untouched THEN @
                            ELSE (@ \ {shown[i].id : i \in DOMAIN shown \ form.keep}) \cup
                                 FileIds(addAttachments(form.upload))])
      /\ stale' = IF form.keep # Untouched /\ objects[n].attach # shown
                  THEN stale \cup {n} ELSE stale
      /\ UNCHANGED <<objects, copy, asked, crossed, deleted>>

\* PATCH events/{uid}/rsvp: GetCalObject and setOwnerPartstat.
CalendarRsvp(t, rsvp) ==
  LET n == Target(t)
      partstat == rsvpToPartstat[rsvp]
  IN  /\ At(t, "idle")
      /\ Writes
      /\ Found(n)
      /\ Write(t, setOwnerPartstat(objects[n], partstat), [asked[n] EXCEPT !.owner = partstat])
      /\ UNCHANGED <<objects, copy, asked, crossed, stale, deleted>>

Answered(t) == tab' = [tab EXCEPT ![t] = [Idle EXCEPT !.shown = tab[t].shown]]

\* PutCalObject of either: an upsert by name.
PutCalObject(t) ==
  LET n == tab[t].name
  IN  /\ At(t, "put")
      /\ objects' = [objects EXCEPT ![n] = tab[t].data]
      /\ asked' = [asked EXCEPT ![n] = tab[t].want]
      /\ crossed' = IF objects[n] # tab[t].base THEN crossed \cup {n} ELSE crossed
      /\ Answered(t)
      /\ UNCHANGED <<copy, requests, stale, deleted>>

\* The statement fails and the request with it.
PutFails(t) ==
  /\ At(t, "put")
  /\ Answered(t)
  /\ UNCHANGED <<objects, copy, requests, asked, crossed, stale, deleted>>

\* DELETE events/{uid}; an error when there is no row.
CalendarDelete(t) ==
  /\ At(t, "idle")
  /\ Found(Target(t))
  /\ objects' = [objects EXCEPT ![Target(t)] = NoEvent]
  /\ deleted' = deleted \cup {Target(t)}
  /\ tab' = [tab EXCEPT ![t] = Idle]
  /\ UNCHANGED <<copy, requests, asked, crossed, stale>>

-----------------------------------------------------------------------------
(* CalDAV.                                                                 *)

\* GetCalendarObject.
GetCalendarObject ==
  /\ \E n \in Names : objects[n] # NoEvent /\ copy' = [name |-> n, event |-> objects[n]]
  /\ UNCHANGED <<objects, tab, requests, asked, crossed, stale, deleted>>

\* PutCalendarObject, of an event made elsewhere: what it replaces is forgotten.
\* The name is the path's, the UID the client's.
PutCalendarObject(n, uid, e) ==
  /\ Writes
  /\ objects' = [objects EXCEPT ![n] = [e EXCEPT !.uid = uid, !.text = requests']]
  /\ asked' = [asked EXCEPT ![n] = [text |-> requests', owner |-> e.owner, files |-> Files(e)]]
  /\ crossed' = crossed \ {n}
  /\ stale' = stale \ {n}
  /\ deleted' = deleted \ {n}
  /\ UNCHANGED <<tab, copy>>

\* PutCalendarObject, of the copy the client fetched, changed; conditions the
\* request comes with (If-Match) are not looked at.
PutCopy ==
  LET n == copy.name
  IN  /\ copy # NothingShown
      /\ Writes
      /\ objects' = [objects EXCEPT ![n] = [copy.event EXCEPT !.text = requests']]
      /\ asked' = [asked EXCEPT ![n].text = requests']
      /\ crossed' = IF objects[n] # copy.event THEN crossed \cup {n} ELSE crossed
      /\ copy' = NothingShown
      /\ UNCHANGED <<tab, stale, deleted>>

\* DeleteCalendarObject.
DeleteCalendarObject(n) ==
  /\ objects[n] # NoEvent
  /\ objects' = [objects EXCEPT ![n] = NoEvent]
  /\ deleted' = deleted \cup {n}
  /\ UNCHANGED <<tab, copy, requests, asked, crossed, stale>>

-----------------------------------------------------------------------------
Web(t) ==
  \/ CalendarList(t) \/ PutCalObject(t) \/ PutFails(t) \/ CalendarDelete(t)
  \/ \E rsvp \in {"none", "yes"} :
       \/ CalendarRsvp(t, rsvp)
       \/ \E form \in Forms(parseEvent(NoEvent), NextRequest) : CalendarCreate(t, form, rsvp)
  \/ \E form \in Forms(parseEvent(tab[t].shown.event), NextRequest) : CalendarUpdate(t, form)

CalDAV ==
  \/ GetCalendarObject \/ PutCopy
  \/ \E n \in Names : \/ DeleteCalendarObject(n)
                      \/ \E uid \in Names \cup {0}, e \in Authored : PutCalendarObject(n, uid, e)

CalendarNext == CalDAV \/ \E t \in Tabs : Web(t)

CalendarSpec == CalendarInit /\ [][CalendarNext]_calendarVars

-----------------------------------------------------------------------------
(* Properties.                                                             *)

Asked == [text : 0..MaxRequests, owner : Partstats, files : SUBSET Nat]
Shown == [name : Names \cup {0}, event : Event]
Page == [shown : Shown, step : {"idle", "put"}, name : Names \cup {0},
         data : Event, base : Event, want : Asked]

\* Every variable has its type; in particular no edit leaves the parts of a rule
\* behind whose frequency it took away, and no file of the page's is over the cap.
CalendarTypeOK ==
  /\ objects \in [Names -> Event]
  /\ tab \in [Tabs -> Page]
  /\ copy \in Shown
  /\ requests \in 0..MaxRequests
  /\ asked \in [Names -> Asked]
  /\ crossed \subseteq Names /\ stale \subseteq Names /\ deleted \subseteq Names

Stored == {n \in Names : objects[n] # NoEvent}

\* A drag keeps a rule whose frequency the form has, and one category.
Draggable(e) == e.rule.freq \in FormFreqs \cup {""} /\ Len(e.categories) <= 1

Dragged(e) == editEvent(e, Echo(parseEvent(e)), 0)

\* The form and the event agree, in both directions.  An event sent back as it
\* was listed, which is what a drag to another time does, changes but its time:
\* "preserving everything the webmail form does not model", whatever program
\* made it and whatever was done to it before - but for a rule whose frequency
\* is none of the form's and the categories after the first.  And what a form
\* asks for is what the calendar then shows: the category, the repetition, the
\* guests, the files that are not empty and decode, the reminder if the event
\* has no alarm that the form cannot change (the first alarm is shown), and the
\* owner's answer as it was, unless the form listed the owner as a guest and
\* comes back without.
FormRoundTrips ==
  \A n \in Stored :
    /\ Draggable(objects[n]) => Dragged(objects[n]) = [objects[n] EXCEPT !.text = 0]
    /\ \A form \in Forms(parseEvent(objects[n]), MaxRequests) :
         LET view == parseEvent(editEvent(objects[n], form, 0))
             own == \A i \in DOMAIN objects[n].alarms : isSimpleReminder(objects[n].alarms[i])
             sent == {i \in DOMAIN form.upload : Usable(form.upload[i])}
         IN  /\ view.calendar = form.calendar
             /\ form.repeat \in FormFreqs \cup {""} => view.repeat = form.repeat
             /\ view.guests = form.guests
             /\ own => view.reminder = form.reminder
             /\ form.keep # Untouched =>
                  view.attachments = Cardinality(form.keep) + Cardinality(sent)
             /\ ~ Unlisted(objects[n], form.guests) => view.rsvp = parseEvent(objects[n]).rsvp

\* Edits, answers and changes by CalDAV survive one another: the text is the last
\* writer's, the answer the last one given, the files those that were uploaded
\* (not empty ones, or ones that do not decode) and not unticked by anyone who saw
\* them, and an event that was deleted does not come back.  Whoever is listed as
\* a guest of their own event and is not on the form that is sent takes their
\* answer away with that.  Unless something was written from an event that was another by
\* then - get and put are two statements, and no ETag is compared - and, for
\* the files, unless they were named by a place they no longer had.
WritesSurvive ==
  /\ \A n \in Stored \ crossed :
       /\ objects[n].text = asked[n].text /\ objects[n].owner = asked[n].owner
       /\ n \notin stale => Files(objects[n]) = asked[n].files
  /\ \A n \in deleted \ crossed : objects[n] = NoEvent
=============================================================================
