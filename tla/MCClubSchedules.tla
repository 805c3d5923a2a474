-------------------------- MODULE MCClubSchedules --------------------------
EXTENDS ClubSchedules, TLC

CONSTANTS r1, r2, r3, c1, c2

ThreeReqs == {r1, r2, r3}
MCClub == {c1, c2}

Row(c, s, e) == [club_id |-> c, start_at |-> s, end_at |-> e,
                 is_public |-> FALSE, deleted |-> FALSE]

\* Schedule 1 belongs to club c1, schedule 2 is a common one.
OneOfEach == [s \in ScheduleId |-> IF s = 1 THEN Row(c1, 1, 2)
                                   ELSE IF s = 2 THEN Row(Null, 0, 0) ELSE Null]

Create(by, s, e) == [kind |-> "create", by |-> by, start_at |-> s, end_at |-> e,
                     is_public |-> TRUE]
Update(by, id, s, e, p) == [kind |-> "update", by |-> by, id |-> id,
                            start_at |-> s, end_at |-> e, is_public |-> p,
                            texts |-> FALSE]
Retitle(by, id) == [Update(by, id, Keep, Keep, Keep) EXCEPT !.texts = TRUE]
Status(id, p) == [kind |-> "status", by |-> Null, id |-> id,
                  start_at |-> Keep, end_at |-> Keep, is_public |-> p]
Remove(by, id) == [kind |-> "remove", by |-> by, id |-> id]

AllForms ==
    {Create(c1, 1, 1), Create(Null, 0, 2), Create(c2, 2, 1),
     Update(c1, 1, 2, Keep, Keep), Update(c1, 1, Keep, 1, TRUE),
     Update(c1, 1, Keep, Keep, Keep), Retitle(c1, 1), Update(c1, 1, 0, 3, Keep),
     Update(Null, 1, Keep, 3, FALSE), Update(Null, 2, 2, Keep, Keep),
     Update(c2, 1, Keep, Keep, TRUE), Status(1, TRUE), Status(1, FALSE),
     Remove(c1, 1), Remove(c2, 1), Remove(Null, 1), Remove(Null, 2), Remove(c1, 3)}

ReqSymmetry == Permutations(ThreeReqs)
=============================================================================
