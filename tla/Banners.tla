------------------------------ MODULE Banners ------------------------------
(***************************************************************************)
(* MainBannersService: administrators write whole banners, everybody lists *)
(* the active ones.                                                        *)
(*                                                                         *)
(* An update is a conditional UPDATE and a second read; the public list    *)
(* takes new Date() first and sends its SELECT then.  Time passes and      *)
(* other requests run in between.  Image and link are left out.            *)
(***************************************************************************)
EXTENDS SeoulTime, FiniteSets

CONSTANTS
    Req,        \* the requests
    MaxBanners, \* bound on the rows of main_banners
    Forms,      \* what they may ask
    Start,      \* the contents the table may have at start
    Clock0,     \* the hours at which the model may start
    MaxTicks,   \* how far the clock may run
    Null        \* no row, nothing yet

BannerId == 1..MaxBanners

BannerRow == [publish_start_at : Int, publish_end_at : Int,
              is_active : BOOLEAN, deleted : BOOLEAN]

Form ==
    [kind : {"create"}, publish_start_at : Written, publish_end_at : Written,
     is_active : BOOLEAN]
    \cup [kind : {"update"}, id : BannerId, publish_start_at : Written,
          publish_end_at : Written, is_active : BOOLEAN]
    \cup [kind : {"remove"}, id : BannerId]
    \cup [kind : {"findActive"}]

ASSUME BannersAssumption ==
    /\ MaxBanners \in Nat /\ MaxTicks \in Nat /\ Clock0 \subseteq Nat
    /\ Absent \notin Int /\ Invalid \notin Int
    /\ Null \notin BannerRow \cup Form
    /\ Forms \subseteq Form
    /\ Start \subseteq [BannerId -> BannerRow \cup {Null}]

VARIABLES
    clock, ticks,
    banners,  \* committed rows of main_banners, by id
    form, pc, \* of each request, and its next statement
    now,      \* the new Date() of a list
    answer,   \* a row or Null for an update, ids for a list
    wrote,    \* (history) the UPDATE of the request found its row
    intact    \* (history) rows nobody has written to since the list was asked for

vars == <<clock, ticks, banners, form, pc, now, answer, wrote, intact>>

Places == {"insert", "write", "reread", "select"}
Ended == {"done", "refused", "failed"}
Writes == {"create", "update"}

Goto(r, place) == pc' = [pc EXCEPT ![r] = place]

Init ==
    /\ clock \in Clock0 /\ ticks = 0
    /\ banners \in Start
    /\ form = [r \in Req |-> Null]
    /\ pc = [r \in Req |-> "idle"]
    /\ now = [r \in Req |-> clock]
    /\ answer = [r \in Req |-> Null]
    /\ wrote = [r \in Req |-> FALSE]
    /\ intact = [r \in Req |-> {}]

Tick ==
    /\ ticks < MaxTicks
    /\ clock' = clock + 1 /\ ticks' = ticks + 1
    /\ UNCHANGED <<banners, form, pc, now, answer, wrote, intact>>

-----------------------------------------------------------------------------

\* toEntityPayload: both dates are needed.
ValidForm(f) ==
    LET start == parseSeoulDateTime(f.publish_start_at)
        end   == parseSeoulDateTime(f.publish_end_at)
    IN  start # Invalid /\ end # Invalid /\ validateDateRange(start, end)

toEntityPayload(f) ==
    [publish_start_at |-> parseSeoulDateTime(f.publish_start_at),
     publish_end_at |-> parseSeoulDateTime(f.publish_end_at),
     is_active |-> f.is_active, deleted |-> FALSE]

First(f) == IF f.kind \in Writes /\ ~ValidForm(f) THEN "refused"
            ELSE IF f.kind = "create" THEN "insert"
            ELSE IF f.kind = "findActive" THEN "select" ELSE "write"

Submit(r, f) ==
    /\ pc[r] = "idle"
    /\ form' = [form EXCEPT ![r] = f]
    /\ Goto(r, First(f))
    /\ IF f.kind = "findActive"
       THEN now' = [now EXCEPT ![r] = clock] /\ intact' = [intact EXCEPT ![r] = BannerId]
       ELSE UNCHANGED <<now, intact>>
    /\ UNCHANGED <<clock, ticks, banners, answer, wrote>>

\* A statement writes row id.
Put(id, row) ==
    /\ banners' = [banners EXCEPT ![id] = row]
    /\ intact' = [r \in Req |-> intact[r] \ {id}]

Insert(r) ==
    /\ pc[r] = "insert"
    /\ \E id \in BannerId :
          /\ banners[id] = Null /\ \A i \in BannerId : i < id => banners[i] # Null
          /\ Put(id, toEntityPayload(form[r]))
    /\ Goto(r, "done")
    /\ UNCHANGED <<clock, ticks, form, now, answer, wrote>>

\* (slip) the WHERE asks for the id alone
Stored_idOnly(id) == banners[id] # Null

Stored(id) == banners[id] # Null /\ ~banners[id].deleted

\* (slip) affected is not looked at
Update_unchecked(r) ==
    /\ pc[r] = "write" /\ form[r].kind = "update"
    /\ IF Stored(form[r].id)
       THEN Put(form[r].id, toEntityPayload(form[r]))
       ELSE UNCHANGED <<banners, intact>>
    /\ wrote' = [wrote EXCEPT ![r] = Stored(form[r].id)]
    /\ Goto(r, "reread")
    /\ UNCHANGED <<clock, ticks, form, now, answer>>

\* The UPDATE of update: all the columns; no row is a 400.
Update(r) ==
    /\ pc[r] = "write" /\ form[r].kind = "update"
    /\ IF Stored(form[r].id)
       THEN /\ Put(form[r].id, toEntityPayload(form[r]))
            /\ wrote' = [wrote EXCEPT ![r] = TRUE]
            /\ Goto(r, "reread")
       ELSE Goto(r, "refused") /\ UNCHANGED <<banners, intact, wrote>>
    /\ UNCHANGED <<clock, ticks, form, now, answer>>

\* findOne answers null when the banner is gone by then.
Reread(r) ==
    /\ pc[r] = "reread"
    /\ answer' = [answer EXCEPT ![r] = IF Stored(form[r].id) THEN banners[form[r].id] ELSE Null]
    /\ Goto(r, "done")
    /\ UNCHANGED <<clock, ticks, banners, form, now, wrote, intact>>

Remove(r) ==
    /\ pc[r] = "write" /\ form[r].kind = "remove"
    /\ IF Stored(form[r].id)
       THEN /\ Put(form[r].id, [banners[form[r].id] EXCEPT !.deleted = TRUE])
            /\ Goto(r, "done")
       ELSE Goto(r, "refused") /\ UNCHANGED <<banners, intact>>
    /\ UNCHANGED <<clock, ticks, form, now, answer, wrote>>

\* (slip) LessThan instead of LessThanOrEqual
Active_after(id, t) ==
    /\ Stored(id) /\ banners[id].is_active
    /\ banners[id].publish_start_at < t /\ t <= banners[id].publish_end_at

\* The WHERE of findActive.
Active(id, t) ==
    /\ Stored(id) /\ banners[id].is_active
    /\ banners[id].publish_start_at <= t /\ t <= banners[id].publish_end_at

FindActive(r) ==
    /\ pc[r] = "select"
    /\ answer' = [answer EXCEPT ![r] = {id \in BannerId : Active(id, now[r])}]
    /\ Goto(r, "done")
    /\ UNCHANGED <<clock, ticks, banners, form, now, wrote, intact>>

Abort(r) ==
    /\ pc[r] \in Places
    /\ Goto(r, "failed")
    /\ UNCHANGED <<clock, ticks, banners, form, now, answer, wrote, intact>>

Next == \/ Tick
        \/ \E r \in Req : \/ \E f \in Forms : Submit(r, f)
                          \/ Insert(r) \/ Update(r) \/ Reread(r) \/ Remove(r)
                          \/ FindActive(r) \/ Abort(r)

Spec == Init /\ [][Next]_vars
-----------------------------------------------------------------------------
(* Properties                                                              *)

\* Rows are well formed, their periods not empty, whatever updates overlap:
\* each writes both dates.
TypeOK ==
    /\ clock \in Nat /\ ticks \in 0..MaxTicks
    /\ banners \in [BannerId -> BannerRow \cup {Null}]
    /\ form \in [Req -> Forms \cup {Null}]
    /\ pc \in [Req -> {"idle"} \cup Places \cup Ended]
    /\ now \in [Req -> Nat] /\ wrote \in [Req -> BOOLEAN]
    /\ intact \in [Req -> SUBSET BannerId]
    /\ \A r \in Req : pc[r] # "idle" => form[r] # Null
    /\ \A id \in BannerId : banners[id] # Null =>
          banners[id].publish_start_at < banners[id].publish_end_at

\* The calendar as everybody knows it.
DaysIn(y, m) == IF m = 2 THEN (IF IsLeap(y) THEN 29 ELSE 28)
                ELSE IF m \in {4, 6, 9, 11} THEN 30 ELSE 31

\* Years below 100 are refused as well.
IsCalendarDate(w) ==
    /\ w.year \in 100..LastYear /\ w.month \in 1..12 /\ w.day \in 1..DaysIn(w.year, w.month)
    /\ w.hour \in 0..23 \cup {Absent} /\ w.zone \in -23..23 \cup {Absent}

\* Two dates of the same zone compare as their parts do.
Before(v, w) ==
    LET hour(x) == IF x.hour = Absent THEN 0 ELSE x.hour IN
    \/ v.year < w.year
    \/ v.year = w.year /\ \/ v.month < w.month
                          \/ v.month = w.month /\ \/ v.day < w.day
                                                  \/ v.day = w.day /\ hour(v) < hour(w)

\* A banner is refused exactly if a date is none of the calendar or the period
\* is empty, leap days, ends of months and of years included.
RefusesExactlyInvalid ==
    \A r \in Req : pc[r] # "idle" /\ form[r].kind = "create" =>
        LET v == form[r].publish_start_at
            w == form[r].publish_end_at
        IN  v.zone = w.zone =>
              (pc[r] = "refused" <=> ~(IsCalendarDate(v) /\ IsCalendarDate(w) /\ Before(v, w)))

\* A date without a zone is read in Seoul: the banner starts there on the day
\* and at the hour that were written, at midnight if none was.
StartsInSeoul ==
    \A r \in Req : LET w == form[r].publish_start_at IN
        pc[r] \in {"insert", "done"} /\ form[r].kind = "create" /\ w.zone = Absent =>
            LET t == parseSeoulDateTime(w)
                d == SeoulDay(t)
            IN  /\ YearOf(d) = w.year /\ MonthOf(d) + 1 = w.month /\ DayOf(d) = w.day
                /\ (t + 9) % 24 = IF w.hour = Absent THEN 0 ELSE w.hour

\* The month of the dashboard holds the present and nothing of its neighbours:
\* it begins with the first day in Seoul and has all its days.
MonthHoldsNow ==
    LET month == getCurrentMonthRangeInSeoul(clock)
        first == SeoulDay(month.from)
    IN  /\ month.from <= clock /\ clock < month.to
        /\ DayOf(first) = 1 /\ (month.from + 9) % 24 = 0
        /\ month.to - month.from = 24 * DaysIn(YearOf(first), MonthOf(first) + 1)

\* The list shows the moment at which it was asked for, although its SELECT
\* comes later, as far as nobody has written to a banner in between.
ListIsAsOfArrival ==
    \A r \in Req : pc[r] = "done" /\ form[r].kind = "findActive" =>
        \A id \in intact[r] :
            id \in answer[r] <=>
                /\ banners[id] # Null /\ ~banners[id].deleted /\ banners[id].is_active
                /\ now[r] \in banners[id].publish_start_at..banners[id].publish_end_at

\* A banner that was removed stays as it is: an update or a second removal
\* that is on its way changes nothing, whatever it has read or validated.
RemovedIsFrozen ==
    [][\A id \in BannerId : banners[id] # Null /\ banners[id].deleted
                            => banners'[id] = banners[id]]_vars

\* An update answered with success has been written.  If it shows no banner,
\* the banner was removed in between.
AnsweredUpdateWasWritten ==
    \A r \in Req : pc[r] = "done" /\ form[r].kind = "update" =>
        /\ wrote[r]
        /\ answer[r] = Null => banners[form[r].id].deleted
=============================================================================
