------------------------------- MODULE Clubs -------------------------------
(***************************************************************************)
(* ClubsService: the writes to the clubs table.  The one-time key of a     *)
(* creation is the subject of module Registration; here the transaction    *)
(* that consumes it is the single step that publishes its rows.            *)
(***************************************************************************)
EXTENDS Tables

\* validateRecruitDateRange
InOrder(start, end) == start # Null /\ end # Null => start < end

\* (slip) the constraint is not there
Clash_never(p, c) == FALSE

\* UNIQUE(president_id) counts deleted clubs too.  NULLs never clash.
Clash(p, c) ==
    /\ UniquePresident /\ p # Null
    /\ \E d \in ClubId \ {c} : clubs[d] # Null /\ clubs[d].president_id = p

\* usersService.findOne(president_id).  TypeORM drops a null from the WHERE,
\* so clearing the president asks for any user at all.
PresidentExists(p) ==
    IF p = Null THEN \E u \in UserId : Findable(u) ELSE Findable(p)

NewClub(p, f) == [president_id |-> p, deleted |-> FALSE,
                  recruit_start |-> f.recruit_start, recruit_end |-> f.recruit_end,
                  icon_url |-> f.icon_url]

EnsurePresident(r) ==
    /\ IsAt(r, {"createClub", "updateClub"}, "ensure")
    /\ Goto(r, IF ~PresidentExists(form[r].president_id) THEN "refused"
               ELSE IF form[r].kind = "createClub" THEN "insert" ELSE "write")
    /\ UNCHANGED <<users, clubs, form, early, serial, met>>

\* COMMIT of a creation with an existing president.
InsertClub(r) ==
    /\ IsAt(r, {"createClub"}, "insert")
    /\ \E id \in ClubId :
          /\ NextClubId(id)
          /\ IF Clash(form[r].president_id, id)
             THEN Goto(r, "refused") /\ UNCHANGED clubs
             ELSE /\ clubs' = [clubs EXCEPT ![id] = 
                               NewClub(form[r].president_id, form[r])]
                  /\ Goto(r, "done")
    /\ UNCHANGED <<users, form, early, serial, met>>

\* COMMIT of a public registration: the account and its club.
InsertUserAndClub(r) ==
    /\ IsAt(r, {"register"}, "insert")
    /\ \E u \in UserId, c \in ClubId :
          /\ NextUserId(u) /\ NextClubId(c)
          /\ users' = [users EXCEPT ![u] =
                         [login_id |-> form[r].login_id, phone |-> form[r].phone,
                          role |-> "president", is_system |-> FALSE, deleted |-> FALSE]]
          /\ clubs' = [clubs EXCEPT ![c] = NewClub(u, form[r])]
    /\ Goto(r, "done")
    /\ UNCHANGED <<form, early, serial, met>>

-----------------------------------------------------------------------------
(* ClubsService.update                                                     *)

\* (slip) a date the body does not give counts as unset
InOrderMerged_bodyOnly(f, row) ==
    InOrder(Given(f.recruit_start, Null), Given(f.recruit_end, Null))

\* undefined keeps the stored date, null clears it.
InOrderMerged(f, row) ==
    InOrder(Given(f.recruit_start, row.recruit_start),
            Given(f.recruit_end, row.recruit_end))

AfterDates(f) == IF f.president_id # Keep THEN "ensure" ELSE "write"

\* Only a body with a date reads the row, to check the merged period.
CheckDates(r) ==
    /\ IsAt(r, {"updateClub"}, "dates")
    /\ Goto(r, IF /\ LiveClub(form[r].id)
                  /\ InOrderMerged(form[r], clubs[form[r].id])
               THEN AfterDates(form[r]) ELSE "refused")
    /\ UNCHANGED <<users, clubs, form, early, serial, met>>

UpdatedClub(row, f) ==
    [row EXCEPT !.president_id = Given(f.president_id, row.president_id),
                !.recruit_start = Given(f.recruit_start, row.recruit_start),
                !.recruit_end = Given(f.recruit_end, row.recruit_end),
                !.icon_url = Given(f.icon_url, row.icon_url)]

\* (slip) deleted_at: IsNull() is missing from the WHERE
Writable_deletedToo(f) ==
    clubs[f.id] # Null /\ ~(f.president_id # Keep /\ Clash(f.president_id, f.id))

Writable(f) ==
    LiveClub(f.id) /\ ~(f.president_id # Keep /\ Clash(f.president_id, f.id))

\* UPDATE clubs ... WHERE id and not deleted; no row is a 400, a duplicate
\* president an error of the database.
WriteClub(r) ==
    /\ IsAt(r, {"updateClub"}, "write")
    /\ IF Writable(form[r])
       THEN /\ clubs' = [clubs EXCEPT ![form[r].id] =
                           UpdatedClub(clubs[form[r].id], form[r])]
            /\ Goto(r, "done")
       ELSE Goto(r, "refused") /\ UNCHANGED clubs
    /\ UNCHANGED <<users, form, early, serial, met>>

\* ClubsService.delete: one conditional UPDATE, president_id stays.
DeleteClub(r) ==
    /\ IsAt(r, {"deleteClub"}, "erase")
    /\ IF LiveClub(form[r].id)
       THEN /\ clubs' = [clubs EXCEPT ![form[r].id].deleted = TRUE]
            /\ Goto(r, "done")
       ELSE Goto(r, "refused") /\ UNCHANGED clubs
    /\ UNCHANGED <<users, form, early, serial, met>>

ClubStep(r) ==
    \/ EnsurePresident(r) \/ InsertClub(r) \/ InsertUserAndClub(r)
    \/ CheckDates(r) \/ WriteClub(r) \/ DeleteClub(r)
=============================================================================
