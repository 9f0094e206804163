----------------------------- MODULE Reminders -----------------------------
(***************************************************************************)
(* Rent reminders (app/services/rent_reminder_service.py) and the loop     *)
(* that runs them about once a day (app/main.py).  A job scans the active  *)
(* tenants; in the week before the next due day it stores a notification   *)
(* for the tenant's login, or for the landlord when there is none, unless  *)
(* it finds one of the same period.                                        *)
(***************************************************************************)
EXTENDS Requests

CONSTANTS
    Residents,    \* ids of active tenants rows
    StartOf,      \* tenants.lease_start of each
    Readers,      \* logins of tenants
    Landlord,     \* their landlord
    FirstDay,     \* the days the calendar runs over
    LastDay,
    MaxMissed     \* bound: days in a row without a finished job

ReminderDaysBefore == 7

VARIABLES
    loginOf,      \* tenants.user_id of each, or None
    sent,         \* notifications rows of type rent_due
    repeated,     \* those stored more than once
    today,        \* the calendar
    missed        \* days in a row on which no job finished

reminderVars == <<loginOf, sent, repeated, today, missed>>

-----------------------------------------------------------------------------
(* Dates.                                                                  *)

Leap(y) == (y % 4 = 0 /\ y % 100 # 0) \/ y % 400 = 0

MonthLength(y, m) ==
    CASE m = 2 -> IF Leap(y) THEN 29 ELSE 28
      [] m \in {4, 6, 9, 11} -> 30
      [] OTHER -> 31

Day(y, m, d) == [y |-> y, m |-> m, d |-> d]

IsDate(a) ==
    a \in [y : Nat, m : 1 .. 12, d : 1 .. 31] /\ a.d <= MonthLength(a.y, a.m)

\* Fewer days in a row are missed than the window has.
ASSUME ReminderAssumption ==
    /\ IsDate(FirstDay)
    /\ \A t \in Residents : IsDate(StartOf[t])
    /\ MaxMissed \in 0 .. ReminderDaysBefore - 1

Before(a, b) ==
    \/ a.y < b.y
    \/ a.y = b.y /\ a.m < b.m
    \/ a.y = b.y /\ a.m = b.m /\ a.d < b.d

\* Mutant: December is followed by a thirteenth month.
MonthAfter(y, m) == <<y, m + 1>>

NextMonth(y, m) == IF m = 12 THEN <<y + 1, 1>> ELSE <<y, m + 1>>

Tomorrow(a) ==
    IF a.d < MonthLength(a.y, a.m) THEN [a EXCEPT !.d = @ + 1]
    ELSE LET n == NextMonth(a.y, a.m) IN Day(n[1], n[2], 1)

\* _clamp_day.
ClampDay(y, m, d) ==
    IF d < MonthLength(y, m) THEN d ELSE MonthLength(y, m)

\* Mutant: the due day of a short month spills into the next.
DueUnclamped(y, m, start) ==
    IF start.d <= MonthLength(y, m) THEN Day(y, m, start.d)
    ELSE LET n == NextMonth(y, m) IN Day(n[1], n[2], start.d - MonthLength(y, m))

DueIn(y, m, start) == Day(y, m, ClampDay(y, m, start.d))

\* next_rent_due_date: on or after asOf, the day of the month of the start.
NextDue(start, asOf) ==
    LET due == DueIn(asOf.y, asOf.m, start)
        n == NextMonth(asOf.y, asOf.m)
    IN IF Before(due, asOf) THEN DueIn(n[1], n[2], start) ELSE due

\* The days from a to b, which is in the same month or the next.
DaysLeft(a, b) ==
    IF a.m = b.m THEN b.d - a.d ELSE MonthLength(a.y, a.m) - a.d + b.d

\* is_in_reminder_window.
InWindow(start, asOf) ==
    /\ ~Before(asOf, start)
    /\ DaysLeft(asOf, NextDue(start, asOf)) \in 1 .. ReminderDaysBefore

-----------------------------------------------------------------------------

\* A link names the period for a tenant's login, the tenant for the landlord.
PayLink(due) == [due |-> due, resident |-> None]
ResidentLink(t) == [due |-> None, resident |-> t]
Note(who, link) == [who |-> who, link |-> link]

RemindersInit ==
    /\ loginOf \in [Residents -> Readers \cup {None}]
    /\ sent = {}
    /\ repeated = {}
    /\ today = FirstDay
    /\ missed = 0

RemindersTypeOK ==
    /\ loginOf \in [Residents -> Readers \cup {None}]
    /\ \A n \in sent : n.who \in Readers \cup {Landlord}
    /\ repeated \subseteq sent
    /\ IsDate(today)
    /\ missed \in 0 .. MaxMissed

\* _already_sent.
AlreadySent(who, link) == Note(who, link) \in sent

\* The link the job looks for, and the row it stores when there is none.
LooksFor(t, due) == PayLink(due)

Reminder(t, due) ==
    IF loginOf[t] # None THEN Note(loginOf[t], PayLink(due))
    ELSE Note(Landlord, ResidentLink(t))

StartJob(w) ==
    /\ Ready(w, "reminders")
    /\ Goto(w, "scan", [left |-> Residents, asOf |-> today])
    /\ UNCHANGED reminderVars

\* One tenant of the scan, whose query names no order.
CheckResident(w) ==
    LET j == job[w] IN
    /\ pc[w] = "scan"
    /\ \E t \in j.left :
          LET due == NextDue(StartOf[t], j.asOf)
              note == Reminder(t, due)
              rest == [left |-> j.left \ {t}, asOf |-> j.asOf]
          IN IF InWindow(StartOf[t], j.asOf) /\ ~AlreadySent(note.who, LooksFor(t, due))
             THEN Goto(w, "store_note", [note |-> note, then |-> rest])
             ELSE Goto(w, "scan", rest)
    /\ UNCHANGED reminderVars

\* create_notification commits each.
StoreNote(w) ==
    LET n == job[w].note IN
    /\ pc[w] = "store_note"
    /\ sent' = sent \cup {n}
    /\ repeated' = IF n \in sent THEN repeated \cup {n} ELSE repeated
    /\ Goto(w, "scan", job[w].then)
    /\ UNCHANGED <<loginOf, today, missed>>

EndJob(w) ==
    /\ pc[w] = "scan"
    /\ job[w].left = {}
    /\ missed' = 0
    /\ Respond(w)
    /\ UNCHANGED <<loginOf, sent, repeated, today>>

\* The loop sleeps a day between jobs; a restart or a failed job costs a day.
NextDay ==
    /\ Uses("reminders")
    /\ \A w \in Workers : ~Busy(w)
    /\ Before(today, LastDay)
    /\ missed < MaxMissed
    /\ missed' = missed + 1
    /\ today' = Tomorrow(today)
    /\ UNCHANGED <<requests, loginOf, sent, repeated>>

RemindersNext ==
    \/ \E w \in Workers :
          \/ StartJob(w)
          \/ CheckResident(w)
          \/ StoreNote(w)
          \/ EndJob(w)
          \/ Die(w) /\ UNCHANGED reminderVars
    \/ NextDay

-----------------------------------------------------------------------------

\* A day rent falls due: the day of the start, or the last of a shorter month.
IsDueDay(a, start) == a.d = start.d \/ (a.d < start.d /\ a.d = MonthLength(a.y, a.m))

\* The next due day is the first day from today on that is the start's day of
\* the month, or the last day of a month too short for it: no month is skipped
\* and none has two (next_rent_due_date).
DueDayIsNext ==
    Uses("reminders") =>
        \A t \in Residents :
            LET due == NextDue(StartOf[t], today)
                n == NextMonth(today.y, today.m)
            IN /\ IsDueDay(due, StartOf[t]) /\ ~Before(due, today)
               /\ \A d \in 1 .. 31, ym \in {<<today.y, today.m>>, n} :
                     LET a == Day(ym[1], ym[2], d) IN
                     d <= MonthLength(ym[1], ym[2]) /\ Before(a, due) /\ ~Before(a, today) =>
                         ~IsDueDay(a, StartOf[t])

\* A tenant with a login is reminded of a due day before it comes, though jobs
\* die and days are missed, if fewer are missed in a row than the window has
\* (process_rent_reminders); the move-in day itself needs none, nor does a due
\* day whose window had begun when the loop first ran.
TenantsAreRemindedInTime ==
    \A t \in Residents :
        /\ loginOf[t] # None
        /\ today = NextDue(StartOf[t], today) /\ Before(StartOf[t], today)
        /\ today = NextDue(StartOf[t], FirstDay) =>
              DaysLeft(FirstDay, today) >= ReminderDaysBefore
        => Note(loginOf[t], PayLink(today)) \in sent

\* With one loop running, a login is reminded once of a due day (_already_sent).
TenantsAreRemindedOnce ==
    ~load.overlap => \A n \in repeated : n.who = Landlord

\* The comment in is_in_reminder_window says "once per period via dedup": a
\* landlord has one reminder of a tenant per period too.
LandlordsAreRemindedOnce ==
    ~load.overlap => \A n \in repeated : n.who # Landlord

\* A tenant with a login is reminded of each due day, before it comes and only
\* once, and the due days are those of the lease (next_rent_due_date,
\* process_rent_reminders).
RemindersKeepTime == DueDayIsNext /\ TenantsAreRemindedInTime /\ TenantsAreRemindedOnce
=============================================================================
