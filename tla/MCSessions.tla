----------------------------- MODULE MCSessions -----------------------------
EXTENDS Sessions

CONSTANTS r1, c1, c2, c3, l0, l1, p0

NoReqs == {}
OneReq == {r1}
ThreeCalls == {c1, c2, c3}
NoUrl == {}
TwoLoginIds == {l0, l1}
MCPhone == {p0}

President == [login_id |-> l0, phone |-> p0, role |-> "president",
              is_system |-> FALSE, deleted |-> FALSE]
Vacant == [president_id |-> Null, deleted |-> FALSE,
           recruit_start |-> Null, recruit_end |-> Null, icon_url |-> Null]

\* User 1 presides club 1; club 2 is vacant.
OnePresident == [u \in UserId |-> IF u = 1 THEN President ELSE Null]
TwoClubs == [c \in ClubId |-> IF c = 1 THEN [Vacant EXCEPT !.president_id = 1] ELSE Vacant]
OneTable == {[users |-> OnePresident, clubs |-> TwoClubs]}

Edit(c, u) == [kind |-> "updateClub", id |-> c, president_id |-> u,
               recruit_start |-> Keep, recruit_end |-> Keep, icon_url |-> Keep]
Rename(l) == [kind |-> "updateUser", id |-> 1, login_id |-> l, phone |-> Keep, role |-> Keep]
Promote == [kind |-> "updateUser", id |-> 1, login_id |-> Keep, phone |-> Keep,
            role |-> "admin"]
Remove == [kind |-> "removeUser", id |-> 1]

ChangeForms == {Edit(1, Null), Edit(2, 1), Promote, Rename(l1), Remove}
=============================================================================
