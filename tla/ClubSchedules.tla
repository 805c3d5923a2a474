--------------------------- MODULE ClubSchedules ---------------------------
(***************************************************************************)
(* ClubSchedulesService: the schedules of clubs and the common schedules   *)
(* of the administrators.                                                  *)
(*                                                                         *)
(* An update or a removal is a read, a conditional UPDATE whose affected   *)
(* count nobody looks at, and, for an update, a second read that makes the *)
(* answer.  The statements of concurrent requests interleave, and clubs    *)
(* are deleted in between.  Of title, type and the optional texts it only  *)
(* matters whether a patch gives any; their values are left out.           *)
(***************************************************************************)
EXTENDS Integers, FiniteSets

CONSTANTS
    Req,           \* the requests
    Club,          \* the clubs
    MaxSchedules,  \* bound on the rows of club_schedules
    MaxDate,       \* instants are 0..MaxDate
    Forms,         \* the requests clients may send
    Schedules0,    \* the table at start
    MaxConcurrent, \* how many requests may be in flight at once
    Null,          \* SQL NULL, "no row", and an administrator in place of a club
    Keep           \* a field the body leaves undefined

ScheduleId == 1..MaxSchedules
Date == 0..MaxDate
Owner == Club \cup {Null}

ScheduleRow == [club_id : Owner, start_at : Date, end_at : Date,
                is_public : BOOLEAN, deleted : BOOLEAN]

\* by is the club whose president asks, assertClubWritePermission passed, or
\* Null for an administrator; texts says whether a patch gives any other field.
Form ==
    [kind : {"create"}, by : Owner, start_at : Date, end_at : Date,
     is_public : BOOLEAN]
    \cup [kind : {"update"}, by : Owner, id : ScheduleId,
          start_at : Date \cup {Keep}, end_at : Date \cup {Keep},
          is_public : BOOLEAN \cup {Keep}, texts : BOOLEAN]
    \cup [kind : {"status"}, by : {Null}, id : ScheduleId,
          start_at : {Keep}, end_at : {Keep}, is_public : BOOLEAN]
    \cup [kind : {"remove"}, by : Owner, id : ScheduleId]

ASSUME SchedulesAssumption ==
    /\ MaxSchedules \in Nat /\ MaxDate \in Nat /\ MaxConcurrent \in Nat
    /\ Null \notin Nat \cup Club \cup ScheduleRow \cup Form
    /\ Keep \notin Date /\ Keep \notin BOOLEAN
    /\ Forms \subseteq Form
    /\ Schedules0 \in [ScheduleId -> ScheduleRow \cup {Null}]

VARIABLES
    schedules, \* committed rows of club_schedules, by id
    deleted,   \* the clubs with a deleted_at
    form,      \* the request each handler serves
    pc,        \* its next statement
    schedule,  \* the row it read
    wrote      \* (history) did its UPDATE find the row

vars == <<schedules, deleted, form, pc, schedule, wrote>>

Places == {"insert", "read", "write", "reread"}
Ended == {"done", "refused", "failed"}
Patches == {"update", "status"}

Goto(r, place) == pc' = [pc EXCEPT ![r] = place]

Init ==
    /\ schedules = Schedules0
    /\ deleted = {}
    /\ form = [r \in Req |-> Null]
    /\ pc = [r \in Req |-> "idle"]
    /\ schedule = [r \in Req |-> Null]
    /\ wrote = [r \in Req |-> FALSE]

\* validateDateOrder: both instants may be the same.
validateDateOrder(start, end) == start <= end

\* toCreatePayload comes before the first statement.
Submit(r, f) ==
    /\ pc[r] = "idle"
    /\ Cardinality({q \in Req : pc[q] \in Places}) < MaxConcurrent
    /\ form' = [form EXCEPT ![r] = f]
    /\ Goto(r, IF f.kind # "create" THEN "read"
               ELSE IF validateDateOrder(f.start_at, f.end_at) THEN "insert"
               ELSE "refused")
    /\ UNCHANGED <<schedules, deleted, schedule, wrote>>

\* create and createCommonForAdmin: the foreign key accepts deleted clubs.
Insert(r) ==
    /\ pc[r] = "insert"
    /\ \E s \in ScheduleId :
          /\ schedules[s] = Null /\ \A t \in ScheduleId : t < s => schedules[t] # Null
          /\ schedules' = [schedules EXCEPT ![s] =
                [club_id |-> form[r].by, start_at |-> form[r].start_at,
                 end_at |-> form[r].end_at, is_public |-> form[r].is_public,
                 deleted |-> FALSE]]
    /\ Goto(r, "done")
    /\ UNCHANGED <<deleted, form, schedule, wrote>>

-----------------------------------------------------------------------------

\* (slip) the read does not leave deleted rows out
Finds_deletedToo(f) ==
    /\ schedules[f.id] # Null
    /\ f.by # Null => /\ schedules[f.id].club_id = f.by
                      /\ f.by \notin deleted

\* findOwnedSchedule joins the club and so misses rows of deleted clubs;
\* findScheduleForAdmin has withDeleted().
Finds(f) ==
    /\ schedules[f.id] # Null /\ ~schedules[f.id].deleted
    /\ f.by # Null => /\ schedules[f.id].club_id = f.by
                      /\ f.by \notin deleted

\* (slip) the UPDATE trusts the read before it and asks for the id alone
Matches_idOnly(f) == schedules[f.id] # Null

\* The WHERE of updateOwnedSchedule, softDeleteOwned and their admin twins.
Matches(f) ==
    /\ schedules[f.id] # Null /\ ~schedules[f.id].deleted
    /\ f.by # Null => schedules[f.id].club_id = f.by

Given(value, stored) == IF value = Keep THEN stored ELSE value

\* (slip) the instants that were validated are written, given or not
toUpdatePayload_bothDates(f, row) ==
    [start_at |-> Given(f.start_at, row.start_at),
     end_at |-> Given(f.end_at, row.end_at), is_public |-> f.is_public]

\* Only what the body gives; the row serves the validation alone.
toUpdatePayload(f, row) ==
    [start_at |-> f.start_at, end_at |-> f.end_at, is_public |-> f.is_public]

\* (slip) only the dates of the body are compared
ValidPatch_bodyOnly(f, row) ==
    /\ f.start_at # Keep /\ f.end_at # Keep => validateDateOrder(f.start_at, f.end_at)
    /\ f.texts \/ f.start_at # Keep \/ f.end_at # Keep \/ f.is_public # Keep

\* toUpdatePayload throws on a reversed period, update on an empty payload.
ValidPatch(f, row) ==
    /\ validateDateOrder(Given(f.start_at, row.start_at), Given(f.end_at, row.end_at))
    /\ f.texts \/ f.start_at # Keep \/ f.end_at # Keep \/ f.is_public # Keep

Read(r) ==
    /\ pc[r] = "read"
    /\ IF Finds(form[r])
       THEN /\ schedule' = [schedule EXCEPT ![r] = schedules[form[r].id]]
            /\ Goto(r, IF form[r].kind = "update" /\ ~ValidPatch(form[r], schedules[form[r].id])
                       THEN "refused" ELSE "write")
       ELSE Goto(r, "refused") /\ UNCHANGED schedule
    /\ UNCHANGED <<schedules, deleted, form, wrote>>

Patched(row, payload) ==
    [row EXCEPT !.start_at = Given(payload.start_at, row.start_at),
                !.end_at = Given(payload.end_at, row.end_at),
                !.is_public = Given(payload.is_public, row.is_public)]

\* The UPDATE; zero affected rows go unnoticed.
Write(r) ==
    /\ pc[r] = "write"
    /\ schedules' =
          IF ~Matches(form[r]) THEN schedules
          ELSE [schedules EXCEPT ![form[r].id] =
                  IF form[r].kind = "remove" THEN [@ EXCEPT !.deleted = TRUE]
                  ELSE Patched(@, toUpdatePayload(form[r], schedule[r]))]
    /\ wrote' = [wrote EXCEPT ![r] = Matches(form[r])]
    /\ Goto(r, IF form[r].kind = "remove" THEN "done" ELSE "reread")
    /\ UNCHANGED <<deleted, form, schedule>>

\* The answer of an update is the row as it is now, or a 404.
Reread(r) ==
    /\ pc[r] = "reread"
    /\ Goto(r, IF Finds(form[r]) THEN "done" ELSE "refused")
    /\ UNCHANGED <<schedules, deleted, form, schedule, wrote>>

Abort(r) ==
    /\ pc[r] \in Places
    /\ Goto(r, "failed")
    /\ UNCHANGED <<schedules, deleted, form, schedule, wrote>>

\* ClubsService.delete: the schedules stay.
DeleteClub(c) ==
    /\ c \notin deleted
    /\ deleted' = deleted \cup {c}
    /\ UNCHANGED <<schedules, form, pc, schedule, wrote>>

Serve(r) == Insert(r) \/ Read(r) \/ Write(r) \/ Reread(r)

Next ==
    \/ \E r \in Req : (\E f \in Forms : Submit(r, f)) \/ Serve(r) \/ Abort(r)
    \/ \E c \in Club : DeleteClub(c)

Spec == Init /\ [][Next]_vars
-----------------------------------------------------------------------------
(* The lists, each one statement: the ids of the rows it returns           *)

Stored == {s \in ScheduleId : schedules[s] # Null /\ ~schedules[s].deleted}

\* A join that leaves deleted clubs out finds the club of this row.
ClubFound(s) == schedules[s].club_id \in Club \ deleted

\* Both bounds belong to the range; a query without one has Null.
Overlaps(s, from, to) == /\ to # Null => schedules[s].start_at <= to
                         /\ from # Null => schedules[s].end_at >= from

\* findAllByClubId with createPresidentStatusWhere.
findAllByClubId(c, status, now) ==
    {s \in Stored :
        /\ schedules[s].club_id = c /\ ClubFound(s)
        /\ status = "public" => schedules[s].is_public
        /\ status = "private" => ~schedules[s].is_public
        /\ status = "upcoming" => schedules[s].start_at >= now
        /\ status = "past" => schedules[s].end_at < now}

findPublicByClubId(c) ==
    {s \in Stored : schedules[s].club_id = c /\ schedules[s].is_public /\ ClubFound(s)}

\* (slip) it is not asked whether the join found the club
findPublicCalendar_anyClub(from, to) ==
    {s \in Stored : schedules[s].is_public /\ Overlaps(s, from, to)}

\* Common schedules are public, too.
findPublicCalendar(from, to) ==
    {s \in Stored : /\ schedules[s].is_public
                    /\ schedules[s].club_id = Null \/ ClubFound(s)
                    /\ Overlaps(s, from, to)}

\* createAdminQuery, deleted clubs included; isPublic and the range may be
\* missing from the query.
findAllForAdmin(isPublic, from, to) ==
    {s \in Stored : /\ isPublic # Keep => schedules[s].is_public = isPublic
                    /\ Overlaps(s, from, to)}

findCalendarForAdmin(from, to) == {s \in Stored : Overlaps(s, from, to)}

\* (slip) a schedule that starts when the next month does counts as well
getScheduleSummary_closed(from, to) == {s \in Stored : Overlaps(s, from, to)}

\* DashboardService.getScheduleSummary counts the month from <= t < to.
getScheduleSummary(from, to) ==
    {s \in Stored : schedules[s].start_at < to /\ schedules[s].end_at >= from}
-----------------------------------------------------------------------------
(* Properties                                                              *)

\* Rows are well formed, and a handler about to write has read a row.
TypeOK ==
    /\ schedules \in [ScheduleId -> ScheduleRow \cup {Null}]
    /\ deleted \subseteq Club
    /\ form \in [Req -> Forms \cup {Null}]
    /\ pc \in [Req -> {"idle"} \cup Places \cup Ended]
    /\ schedule \in [Req -> ScheduleRow \cup {Null}]
    /\ wrote \in [Req -> BOOLEAN]
    /\ \A r \in Req : pc[r] \in {"write", "reread"} => schedule[r] # Null

\* A client that is told its change was made can rely on it although nobody
\* checks affected: the second read would have missed a row the UPDATE missed.
AnsweredMeansWritten ==
    \A r \in Req : pc[r] = "done" /\ form[r].kind \in Patches => wrote[r]

\* A removal that was answered has removed: the row is deleted from then on,
\* whoever deleted it first.
RemovedIsGone ==
    \A r \in Req : pc[r] = "done" /\ form[r].kind = "remove"
                   => schedules[form[r].id] # Null /\ schedules[form[r].id].deleted

\* A deleted schedule is frozen: an update that had read it before the
\* removal does not write to it afterwards.
DeletedIsFrozen ==
    [][\A s \in ScheduleId : schedules[s] # Null /\ schedules[s].deleted
                             => schedules'[s] = schedules[s]]_vars

\* No lost update: a field changes only in the UPDATE of a request whose body
\* gives that field, so a patch of other fields never restores an older value.
OnlyGivenFieldsChange ==
    [][\A s \in ScheduleId, field \in {"start_at", "end_at", "is_public"} :
         schedules[s] # Null /\ schedules'[s][field] # schedules[s][field] =>
            \E r \in Req : /\ pc[r] = "write" /\ pc'[r] = "reread"
                           /\ form[r].id = s /\ form[r][field] # Keep]_vars

InOrder(s) == validateDateOrder(schedules[s].start_at, schedules[s].end_at)

\* The validation against the row that was read is worth something: schedules
\* are created in order, and a schedule in order is reversed only by a patch
\* whose row changed between its read and its UPDATE.
ReversedByRaceOnly ==
    [][\A s \in ScheduleId :
         /\ schedules'[s] # Null
         /\ schedules[s] # Null => InOrder(s)
         /\ \A r \in Req : pc[r] = "write" /\ pc'[r] # "write" /\ form[r].id = s
                           => schedule[r] = schedules[s]
         => InOrder(s)']_vars

\* Four queries say in their own words what is public:
\* the list of a club, the list of its president and the public calendar show
\* the same schedules, and an administrator sees those and besides only
\* private ones and those of deleted clubs.
PublicViewsAgree ==
    /\ \A c \in Club, now \in Date :
          /\ findPublicByClubId(c) = findAllByClubId(c, "public", now)
          /\ findAllByClubId(c, "all", now) =
                findAllByClubId(c, "public", now) \cup findAllByClubId(c, "private", now)
    /\ \A from, to \in Date :
          LET hidden == {s \in Stored : schedules[s].club_id \in deleted}
          IN  findPublicCalendar(from, to) = findAllForAdmin(TRUE, from, to) \ hidden

\* A schedule that a race has reversed is the only one that gets lost: it may
\* fall between two adjacent months of the dashboard although the calendar of
\* both shows it, and be past and upcoming at once.  All others are counted,
\* but not in a month that ends when they start.
OnlyReversedIsMissed ==
    /\ \A from, mid, to \in Date :
          from < mid /\ mid < to =>
             LET counted  == getScheduleSummary(from, mid) \cup getScheduleSummary(mid, to)
                 calendar == {s \in findCalendarForAdmin(from, to) :
                                schedules[s].start_at # to}
             IN  /\ counted \subseteq calendar
                 /\ \A s \in calendar \ counted : ~InOrder(s)
    /\ \A c \in Club, now \in Date :
          \A s \in findAllByClubId(c, "upcoming", now) \cap findAllByClubId(c, "past", now) :
             ~InOrder(s)
-----------------------------------------------------------------------------
(* What the handlers implement                                             *)

\* A request took effect when its statement found the row, or inserted it.
OneStep == INSTANCE OneStepSchedules WITH
    rows <- schedules,
    asked <- form,
    served <- {r \in Req : \/ wrote[r]
                           \/ pc[r] = "done" /\ form[r].kind = "create"},
    answered <- {r \in Req : pc[r] = "done"}

\* The reads, the conditional UPDATEs and the deletions of clubs in between
\* look to every client as if its request happened at once and entirely, or
\* not at all: nobody is told of a change that was not made, none is made
\* twice or by a club the schedule does not belong to, and none brings back a
\* schedule or an older value.
SchedulesChangeInOneStep == OneStep!Spec
=============================================================================
