----------------------------- MODULE MCContent -----------------------------
EXTENDS Content, TLC

CONSTANTS r1, r2, w1, w2, l0, l1, p0, p1, link

TwoReqs == {r1, r2}
TwoWrites == {w1, w2}
MCLoginId == {l0, l1}
MCPhone == {p0, p1}
MCUrl == {link, w1, w2}

User(l, p, role) == [login_id |-> l, phone |-> p, role |-> role,
                     is_system |-> FALSE, deleted |-> FALSE]
ClubOf(u) == [president_id |-> u, deleted |-> FALSE,
              recruit_start |-> Null, recruit_end |-> Null, icon_url |-> Null]

\* User 1 is an administrator, user 2 presides club 1; club 2 is vacant.
Users0 == [u \in UserId |-> IF u = 1 THEN User(l0, p0, "admin")
                            ELSE User(l1, p1, "president")]
Clubs0 == [c \in ClubId |-> IF c = 1 THEN ClubOf(2) ELSE ClubOf(Null)]
Reports1 == [i \in ReportId |-> IF i = 1 THEN [club_id |-> 1, by |-> Null] ELSE Null]
OneTable == {[users |-> Users0, clubs |-> Clubs0]}

Edit(c, u, url) == [kind |-> "updateClub", id |-> c, president_id |-> u,
                    recruit_start |-> Keep, recruit_end |-> Keep, icon_url |-> url]
ChangeForms == {Edit(1, Null, link), Edit(2, 2, Keep), Edit(1, Keep, w1), Edit(1, Keep, w2),
                [kind |-> "deleteClub", id |-> 1],
                [kind |-> "removeUser", id |-> 2]}

AdminToken == [sub |-> 1, login_id |-> l0, role |-> "admin", club_id |-> Null]
Token(c) == [sub |-> 2, login_id |-> l1, role |-> "president", club_id |-> c]

Ask(kind, t, c) == [kind |-> kind, token |-> t, club |-> c, report |-> 1, given |-> TRUE]

MCBodies ==
    {Ask("createReport", Token(1), 1), Ask("createReport", Token(2), 2),
     Ask("updateReport", Token(1), 1), Ask("updateReport", Token(2), 2),
     [Ask("updateReport", Token(1), 1) EXCEPT !.given = FALSE],
     Ask("deleteReport", Token(1), 1), Ask("deleteReport", AdminToken, 1),
     Ask("deleteReport", Token(1), 2), Ask("deleteReport", AdminToken, 2),
     Ask("createReport", AdminToken, 1), Ask("createReport", Token(1), 2),
     Ask("icon", Token(1), 1), Ask("icon", AdminToken, 1),
     Ask("reportImage", Token(1), 1), Ask("bannerImage", AdminToken, 1),
     Ask("feedback", Token(1), 1), Ask("feedback", Token(Null), 1)}

WriteSymmetry == Permutations(TwoWrites)
=============================================================================
