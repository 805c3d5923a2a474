---------------------------- MODULE MCDirectory ----------------------------
EXTENDS Directory, TLC

CONSTANTS r1, r2, r3, l0, l1, l2, p0, p1, p2, link

TwoReqs == {r1, r2}
ThreeReqs == {r1, r2, r3}
MCLoginId == {l0, l1, l2}
MCPhone == {p0, p1, p2}
MCUrl == {link}

Row(l, p, role, system) == [login_id |-> l, phone |-> p, role |-> role,
                            is_system |-> system, deleted |-> FALSE]
ClubOf(u, start, end) == [president_id |-> u, deleted |-> FALSE,
                          recruit_start |-> start, recruit_end |-> end, icon_url |-> Null]

\* User 1 is an administrator who presides club 1, user 2 a system account.
Admin == Row(l0, p0, "admin", FALSE)
System == Row(l1, p1, "admin", TRUE)
AdminToken == [sub |-> 1, login_id |-> l0, role |-> "admin"]
PresidentToken == [sub |-> 1, login_id |-> l0, role |-> "president"]

NoUsers == [u \in UserId |-> Null]
NoClubs == [c \in ClubId |-> Null]
AdminAndSystem == [u \in UserId |-> IF u = 1 THEN Admin ELSE IF u = 2 THEN System ELSE Null]
OneClub == [c \in ClubId |-> IF c = 1 THEN ClubOf(1, 1, 3) ELSE Null]
VacantClub == [c \in ClubId |-> IF c = 1 THEN ClubOf(Null, 1, 2) ELSE Null]

Populated == {[users |-> AdminAndSystem, clubs |-> OneClub]}
Unpresided == {[users |-> AdminAndSystem, clubs |-> VacantClub]}
EmptyOrPopulated == {[users |-> NoUsers, clubs |-> NoClubs]} \cup Populated

Create(l, p, token) ==
    [kind |-> "createUser", login_id |-> l, phone |-> p, role |-> "admin", token |-> token]
Update(id, l, p, role) ==
    [kind |-> "updateUser", id |-> id, login_id |-> l, phone |-> p, role |-> role]
Remove(id) == [kind |-> "removeUser", id |-> id]
Register(l, p) == [kind |-> "register", login_id |-> l, phone |-> p,
                   recruit_start |-> Null, recruit_end |-> Null, icon_url |-> link]
NewClubFor(u, start, end) == [kind |-> "createClub", president_id |-> u,
                              recruit_start |-> start, recruit_end |-> end,
                              icon_url |-> Null]
Edit(c, u, start, end) == [kind |-> "updateClub", id |-> c, president_id |-> u,
                           recruit_start |-> start, recruit_end |-> end,
                           icon_url |-> Keep]
Delete(c) == [kind |-> "deleteClub", id |-> c]

BootstrapForms == {Create(l0, p0, Null), Create(l1, p1, Null), Create(l1, p1, AdminToken),
                   Create(l2, p2, PresidentToken), Remove(1)}

AccountForms == {Create(l1, p2, AdminToken), Create(l2, p2, AdminToken),
                 Register(l2, p1), Register(l2, p2),
                 Update(1, l1, Keep, Keep), Update(1, Keep, p1, Keep),
                 Update(1, l2, p2, "president"), Update(2, l2, Keep, Keep),
                 Remove(1), Remove(2)}

ClubForms == {NewClubFor(1, Null, Null), NewClubFor(2, Null, Null), NewClubFor(1, 2, 1),
              NewClubFor(3, 0, 1), Register(l2, p2),
              Edit(1, 1, Keep, Keep), Edit(1, Null, 2, Keep), Edit(1, 3, Keep, 2),
              Edit(2, 1, 2, 3), Delete(1), Remove(1), Remove(3)}

ReqSymmetry == Permutations(ThreeReqs)

AllForms == AccountForms \cup ClubForms
RaceForms == AllForms \cup BootstrapForms

PresidentForms == {Edit(1, 1, Keep, Keep), Remove(1)}
=============================================================================
