----------------------------- MODULE MCCalendar -----------------------------
EXTENDS Calendar, TLC

\* An event with a rule the form does not have, two categories, and an ATTENDEE
\* "MAILTO:" of the owner, who has answered; and one with a rule the form has,
\* with parts of its own, a guest who has accepted, a reminder, and an alarm that
\* is not the form's, and a file larger than the cap of the web calendar.
MCAuthored ==
  {[NoEvent EXCEPT !.rule = [freq |-> "HOURLY", detail |-> TRUE],
                   !.categories = <<"work", "home">>, !.owner = "ACCEPTED", !.upper = TRUE,
                   !.alarms = <<[action |-> "EMAIL", minutes |-> 2]>>],
   [NoEvent EXCEPT !.rule = [freq |-> "WEEKLY", detail |-> TRUE],
                   !.alarms = <<[action |-> "DISPLAY", minutes |-> 1],
                                [action |-> "EMAIL", minutes |-> 2]>>,
                   !.categories = <<"home">>, !.owner = "NEEDS-ACTION",
                   !.guests = [g \in Listable |-> IF g \in Guests THEN "ACCEPTED" ELSE "absent"],
                   !.attach = <<[id |-> 4, size |-> 2]>>]}

Symmetry == Permutations(Tabs)
=============================================================================
