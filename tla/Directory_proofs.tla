-------------------------- MODULE Directory_proofs --------------------------
(***************************************************************************)
(* Theorems about module Directory, for any tables, bodies and number of   *)
(* requests.                                                               *)
(***************************************************************************)
EXTENDS Directory, TLAPS

\* What the validation of a body guarantees, by kind.
LEMMA FieldsOfBody ==
    ASSUME NEW f \in Forms
    PROVE  /\ f.kind \in {"createUser", "updateUser", "removeUser", "register",
                          "createClub", "updateClub", "deleteClub"}
           /\ f.kind \in {"createUser", "register"} =>
                 f.login_id \in LoginId /\ f.phone \in Phone
           /\ f.kind = "createUser" =>
                 f.role \in Role /\ f.token \in Claims \cup {Null}
           /\ f.kind = "updateUser" =>
                 /\ f.id \in UserId /\ f.login_id \in LoginId \cup {Keep}
                 /\ f.phone \in Phone \cup {Keep} /\ f.role \in Role \cup {Keep}
           /\ f.kind = "removeUser" => f.id \in UserId
           /\ f.kind \in {"register", "createClub"} =>
                 /\ f.recruit_start \in Date \cup {Null} /\ f.recruit_end \in Date \cup {Null}
                 /\ f.icon_url \in Url \cup {Null}
           /\ f.kind = "createClub" => f.president_id \in UserId
           /\ f.kind \in {"updateClub", "deleteClub"} => f.id \in ClubId
           /\ f.kind = "updateClub" =>
                 /\ f.president_id \in UserId \cup {Null, Keep}
                 /\ f.recruit_start \in Date \cup {Null, Keep}
                 /\ f.recruit_end \in Date \cup {Null, Keep}
                 /\ f.icon_url \in Url \cup {Null, Keep}
<1>1. f \in Form
  BY TablesAssumption
<1> QED BY <1>1 DEF Form

\* Rows as an UPDATE leaves them.
LEMMA UserWritten ==
    ASSUME NEW f \in Forms, f.kind = "updateUser", NEW row \in UserRow
    PROVE  /\ UpdatedUser(row, f) \in UserRow
           /\ UpdatedUser(row, f).is_system = row.is_system
           /\ UpdatedUser(row, f).deleted = row.deleted
BY FieldsOfBody DEF UserRow, UpdatedUser, Given

LEMMA UserErased ==
    ASSUME NEW row \in UserRow
    PROVE  /\ [row EXCEPT !.deleted = TRUE] \in UserRow
           /\ [row EXCEPT !.deleted = TRUE].is_system = row.is_system
           /\ [row EXCEPT !.deleted = TRUE].deleted
BY DEF UserRow

LEMMA ClubWritten ==
    ASSUME NEW f \in Forms, f.kind = "updateClub", NEW row \in ClubRow
    PROVE  /\ UpdatedClub(row, f) \in ClubRow
           /\ UpdatedClub(row, f).deleted = row.deleted
<1>1. /\ Given(f.president_id, row.president_id) \in UserId \cup {Null}
      /\ Given(f.recruit_start, row.recruit_start) \in Date \cup {Null}
      /\ Given(f.recruit_end, row.recruit_end) \in Date \cup {Null}
      /\ Given(f.icon_url, row.icon_url) \in Url \cup {Null}
  BY FieldsOfBody DEF ClubRow, Given
<1> QED BY <1>1 DEF ClubRow, UpdatedClub

LEMMA ClubErased ==
    ASSUME NEW row \in ClubRow
    PROVE  /\ [row EXCEPT !.deleted = TRUE] \in ClubRow
           /\ [row EXCEPT !.deleted = TRUE].deleted
BY DEF ClubRow

\* The row of a new user is one, and live.
LEMMA UserMade ==
    ASSUME NEW f \in Forms, f.kind \in {"createUser", "register"}, NEW role \in Role
    PROVE  [login_id |-> f.login_id, phone |-> f.phone, role |-> role,
            is_system |-> FALSE, deleted |-> FALSE] \in UserRow
BY FieldsOfBody DEF UserRow

\* An update or a removal past its read works on a row that is there and is no
\* system account; rows are never removed, and is_system never changes.
Reading(r) == \/ form[r].kind = "updateUser" /\ pc[r] \in {"login", "phone", "write"}
              \/ form[r].kind = "removeUser" /\ pc[r] \in {"unlink", "erase"}

Targets == \A r \in Req : Reading(r) =>
             users[form[r].id] # Null /\ ~users[form[r].id].is_system

Sound == TypeOK /\ Targets

LEMMA InitSound == Init => Sound
BY TablesAssumption DEF Init, Sound, TypeOK, Targets, Reading

\* A step that moves a request and leaves the tables well formed.
LEMMA Moved ==
    ASSUME TypeOK, NEW r \in Req, pc[r] # "idle",
           NEW place \in Places \cup Ended, Goto(r, place),
           users' \in [UserId -> UserRow \cup {Null}],
           clubs' \in [ClubId -> ClubRow \cup {Null}],
           UNCHANGED <<form, early, serial, met>>
    PROVE  TypeOK'
BY DEF TypeOK, Goto, Places, Ended

LEMMA SoundStep == Sound /\ [Next]_tables => Sound'
<1> SUFFICES ASSUME Sound, [Next]_tables PROVE Sound'
  OBVIOUS
<1> USE TablesAssumption DEF Sound
<1>1. ASSUME NEW r \in Req, NEW f \in Forms, Submit(r, f) PROVE Sound'
  <2>1. First(f) \in Places \cup Ended
    BY FieldsOfBody DEF First, Places, Ended, AfterDates
  <2>2. TypeOK'
    <3>1. met' \in [Req -> SUBSET Req]
      BY <1>1 DEF Submit, TypeOK, InFlight
    <3> QED BY <1>1, <2>1, <3>1 DEF Submit, TypeOK, Goto
  <2>3. Targets'
    BY <1>1, FieldsOfBody DEF Submit, TypeOK, Targets, Reading, Goto, First, AfterDates
  <2> QED BY <2>2, <2>3
<1>2. ASSUME NEW r \in Req, Guard(r) PROVE Sound'
  <2>1. TypeOK'
    BY <1>2, Moved DEF Guard, TypeOK, IsAt, Goto, Places, Ended
  <2>2. Targets'
    BY <1>2 DEF Guard, TypeOK, IsAt, Goto, Targets, Reading
  <2> QED BY <2>1, <2>2
<1>3. ASSUME NEW r \in Req, VerifyToken(r) PROVE Sound'
  <2>1. TypeOK'
    BY <1>3, Moved DEF VerifyToken, TypeOK, IsAt, Goto, Places, Ended
  <2>2. Targets'
    BY <1>3 DEF VerifyToken, TypeOK, IsAt, Goto, Targets, Reading
  <2> QED BY <2>1, <2>2
<1>4. ASSUME NEW r \in Req, CheckLoginId(r) PROVE Sound'
  <2>1. TypeOK'
    BY <1>4, Moved DEF CheckLoginId, TypeOK, IsAt, Goto, Places, Ended, AfterChecks
  <2>2. Targets'
    BY <1>4 DEF CheckLoginId, TypeOK, IsAt, Goto, Targets, Reading, AfterChecks
  <2> QED BY <2>1, <2>2
<1>5. ASSUME NEW r \in Req, CheckPhone(r) PROVE Sound'
  <2>1. TypeOK'
    BY <1>5, Moved DEF CheckPhone, TypeOK, IsAt, Goto, Places, Ended, AfterChecks
  <2>2. Targets'
    BY <1>5 DEF CheckPhone, TypeOK, IsAt, Goto, Targets, Reading, AfterChecks
  <2> QED BY <2>1, <2>2
<1>6. ASSUME NEW r \in Req, ReadTarget(r) PROVE Sound'
  <2>1. TypeOK'
    BY <1>6, Moved DEF ReadTarget, TypeOK, IsAt, Goto, Places, Ended
  <2>2. Targets'
    BY <1>6 DEF ReadTarget, TypeOK, IsAt, Goto, Targets, Reading, Findable, Live
  <2> QED BY <2>1, <2>2
<1>7. ASSUME NEW r \in Req, EnsurePresident(r) PROVE Sound'
  <2>1. TypeOK'
    BY <1>7, Moved DEF EnsurePresident, TypeOK, IsAt, Goto, Places, Ended
  <2>2. Targets'
    BY <1>7 DEF EnsurePresident, TypeOK, IsAt, Goto, Targets, Reading
  <2> QED BY <2>1, <2>2
<1>8. ASSUME NEW r \in Req, CheckDates(r) PROVE Sound'
  <2>1. TypeOK'
    BY <1>8, Moved DEF CheckDates, TypeOK, IsAt, Goto, Places, Ended, AfterDates
  <2>2. Targets'
    BY <1>8 DEF CheckDates, TypeOK, IsAt, Goto, Targets, Reading, AfterDates
  <2> QED BY <2>1, <2>2
<1>9. ASSUME NEW r \in Req, Abort(r) PROVE Sound'
  <2>1. TypeOK'
    BY <1>9, Moved DEF Abort, TypeOK, IsAt, Goto, Places, Ended
  <2>2. Targets'
    BY <1>9 DEF Abort, TypeOK, IsAt, Goto, Targets, Reading
  <2> QED BY <2>1, <2>2
<1>10. ASSUME NEW r \in Req, InsertUser(r) PROVE Sound'
  <2>1. /\ users' \in [UserId -> UserRow \cup {Null}]
        /\ clubs' \in [ClubId -> ClubRow \cup {Null}]
    BY <1>10, FieldsOfBody DEF InsertUser, TypeOK, IsAt, UserRow, Role
  <2>2. TypeOK'
    BY <1>10, <2>1, Moved DEF InsertUser, TypeOK, IsAt, Goto, Places, Ended
  <2>3. Targets'
    BY <1>10, FieldsOfBody DEF InsertUser, TypeOK, IsAt, Goto, Targets, Reading, NextUserId
  <2> QED BY <2>2, <2>3
<1>11. ASSUME NEW r \in Req, UnlinkPresident(r) PROVE Sound'
  <2>1. /\ users' \in [UserId -> UserRow \cup {Null}]
        /\ clubs' \in [ClubId -> ClubRow \cup {Null}]
    BY <1>11, FieldsOfBody DEF UnlinkPresident, TypeOK, IsAt, ClubRow, LiveClub
  <2>2. TypeOK'
    BY <1>11, <2>1, Moved DEF UnlinkPresident, TypeOK, IsAt, Goto, Places, Ended
  <2>3. Targets'
    BY <1>11, FieldsOfBody DEF UnlinkPresident, TypeOK, IsAt, Goto, Targets, Reading, NextUserId
  <2> QED BY <2>2, <2>3
<1>12. ASSUME NEW r \in Req, InsertUserAndClub(r) PROVE Sound'
  <2>1. /\ users' \in [UserId -> UserRow \cup {Null}]
        /\ clubs' \in [ClubId -> ClubRow \cup {Null}]
    BY <1>12, FieldsOfBody DEF InsertUserAndClub, TypeOK, IsAt, UserRow, Role, ClubRow, NewClub
  <2>2. TypeOK'
    BY <1>12, <2>1, Moved DEF InsertUserAndClub, TypeOK, IsAt, Goto, Places, Ended
  <2>3. Targets'
    BY <1>12, FieldsOfBody DEF InsertUserAndClub, TypeOK, IsAt, Goto, Targets, Reading, NextUserId
  <2> QED BY <2>2, <2>3
<1>13. ASSUME NEW r \in Req, WriteUser(r) PROVE Sound'
  <2> DEFINE f == form[r]
             row == UpdatedUser(users[f.id], f)
  <2>1. f \in Forms /\ f.kind = "updateUser" /\ f.id \in UserId
    BY <1>13, FieldsOfBody DEF WriteUser, TypeOK, IsAt
  <2>2. users[f.id] \in UserRow
    BY <1>13, <2>1 DEF WriteUser, TypeOK, Targets, Reading, IsAt
  <2>3. row \in UserRow /\ row.is_system = users[f.id].is_system
    BY <2>1, <2>2, UserWritten
  <2>4. users' = [users EXCEPT ![f.id] = row] /\ UNCHANGED clubs
    BY <1>13 DEF WriteUser
  <2>5. TypeOK'
    <3> HIDE DEF f, row
    <3>1. users' \in [UserId -> UserRow \cup {Null}]
      BY <2>1, <2>3, <2>4 DEF TypeOK
    <3> QED BY <1>13, <2>4, <3>1, Moved DEF WriteUser, TypeOK, IsAt, Goto, Places, Ended
  <2>6. \A u \in UserId : users[u] # Null /\ ~users[u].is_system
                          => users'[u] # Null /\ ~users'[u].is_system
    <3> HIDE DEF f, row
    <3> QED BY <2>1, <2>3, <2>4 DEF TypeOK
  <2>7. Targets'
    <3>1. \A q \in Req : Reading(q)' => Reading(q) /\ form'[q].id = form[q].id
                                        /\ form[q].id \in UserId
      BY <1>13, FieldsOfBody DEF WriteUser, TypeOK, IsAt, Goto, Reading
    <3> QED BY <2>6, <3>1 DEF Targets
  <2> QED BY <2>5, <2>7
<1>14. ASSUME NEW r \in Req, EraseUser(r) PROVE Sound'
  <2> DEFINE f == form[r]
             row == [users[f.id] EXCEPT !.deleted = TRUE]
  <2>1. f \in Forms /\ f.kind = "removeUser" /\ f.id \in UserId
    BY <1>14, FieldsOfBody DEF EraseUser, TypeOK, IsAt
  <2>2. users[f.id] \in UserRow
    BY <1>14, <2>1 DEF EraseUser, TypeOK, Targets, Reading, IsAt
  <2>3. row \in UserRow /\ row.is_system = users[f.id].is_system
    BY <2>1, <2>2, UserErased
  <2>4. users' = [users EXCEPT ![f.id] = row] /\ UNCHANGED clubs
    BY <1>14 DEF EraseUser
  <2>5. TypeOK'
    <3> HIDE DEF f, row
    <3>1. users' \in [UserId -> UserRow \cup {Null}]
      BY <2>1, <2>3, <2>4 DEF TypeOK
    <3> QED BY <1>14, <2>4, <3>1, Moved DEF EraseUser, TypeOK, IsAt, Goto, Places, Ended
  <2>6. \A u \in UserId : users[u] # Null /\ ~users[u].is_system
                          => users'[u] # Null /\ ~users'[u].is_system
    <3> HIDE DEF f, row
    <3> QED BY <2>1, <2>3, <2>4 DEF TypeOK
  <2>7. Targets'
    <3>1. \A q \in Req : Reading(q)' => Reading(q) /\ form'[q].id = form[q].id
                                        /\ form[q].id \in UserId
      BY <1>14, FieldsOfBody DEF EraseUser, TypeOK, IsAt, Goto, Reading
    <3> QED BY <2>6, <3>1 DEF Targets
  <2> QED BY <2>5, <2>7
<1>15. ASSUME NEW r \in Req, InsertClub(r) PROVE Sound'
  <2>1. NewClub(form[r].president_id, form[r]) \in ClubRow
    BY <1>15, FieldsOfBody DEF InsertClub, TypeOK, IsAt, ClubRow, NewClub
  <2>2. clubs' \in [ClubId -> ClubRow \cup {Null}] /\ UNCHANGED users
    BY <1>15, <2>1 DEF InsertClub, TypeOK
  <2>3. TypeOK'
    BY <1>15, <2>2, Moved DEF InsertClub, TypeOK, IsAt, Goto, Places, Ended
  <2>4. Targets'
    BY <1>15, <2>2, FieldsOfBody DEF InsertClub, TypeOK, IsAt, Goto, Targets, Reading
  <2> QED BY <2>3, <2>4
<1>16. ASSUME NEW r \in Req, WriteClub(r) PROVE Sound'
  <2> DEFINE f == form[r]
             row == UpdatedClub(clubs[f.id], f)
  <2>1. f \in Forms /\ f.kind = "updateClub" /\ f.id \in ClubId
    BY <1>16, FieldsOfBody DEF WriteClub, TypeOK, IsAt
  <2>2. clubs' \in [ClubId -> ClubRow \cup {Null}] /\ UNCHANGED users
    <3>1. CASE clubs' = clubs
      BY <1>16, <3>1 DEF WriteClub, TypeOK
    <3>2. CASE clubs' # clubs
      <4>1. clubs[f.id] \in ClubRow /\ clubs' = [clubs EXCEPT ![f.id] = row]
            /\ UNCHANGED users
        BY <1>16, <2>1, <3>2 DEF WriteClub, Writable, LiveClub, TypeOK
      <4>2. row \in ClubRow
        BY <2>1, <4>1, ClubWritten
      <4> HIDE DEF f, row
      <4> QED BY <2>1, <4>1, <4>2 DEF TypeOK
    <3> QED BY <3>1, <3>2
  <2>3. TypeOK'
    BY <1>16, <2>2, Moved DEF WriteClub, TypeOK, IsAt, Goto, Places, Ended
  <2>4. Targets'
    BY <1>16, <2>2, FieldsOfBody DEF WriteClub, TypeOK, IsAt, Goto, Targets, Reading
  <2> QED BY <2>3, <2>4
<1>17. ASSUME NEW r \in Req, DeleteClub(r) PROVE Sound'
  <2> DEFINE f == form[r]
             row == [clubs[f.id] EXCEPT !.deleted = TRUE]
  <2>1. f \in Forms /\ f.kind = "deleteClub" /\ f.id \in ClubId
    BY <1>17, FieldsOfBody DEF DeleteClub, TypeOK, IsAt
  <2>2. clubs' \in [ClubId -> ClubRow \cup {Null}] /\ UNCHANGED users
    <3>1. CASE clubs' = clubs
      BY <1>17, <3>1 DEF DeleteClub, TypeOK
    <3>2. CASE clubs' # clubs
      <4>1. clubs[f.id] \in ClubRow /\ clubs' = [clubs EXCEPT ![f.id] = row]
            /\ UNCHANGED users
        BY <1>17, <2>1, <3>2 DEF DeleteClub, LiveClub, TypeOK
      <4>2. row \in ClubRow
        BY <2>1, <4>1, ClubErased
      <4> HIDE DEF f, row
      <4> QED BY <2>1, <4>1, <4>2 DEF TypeOK
    <3> QED BY <3>1, <3>2
  <2>3. TypeOK'
    BY <1>17, <2>2, Moved DEF DeleteClub, TypeOK, IsAt, Goto, Places, Ended
  <2>4. Targets'
    BY <1>17, <2>2, FieldsOfBody DEF DeleteClub, TypeOK, IsAt, Goto, Targets, Reading
  <2> QED BY <2>3, <2>4
<1>18. CASE UNCHANGED tables
  BY <1>18 DEF tables, TypeOK, Targets, Reading
<1> QED BY <1>1, <1>2, <1>3, <1>4, <1>5, <1>6, <1>7, <1>8, <1>9, <1>10, <1>11, <1>12, <1>13,
           <1>14, <1>15, <1>16, <1>17, <1>18
         DEF Next, UserStep, ClubStep

LEMMA SoundAlways == Spec => []Sound
BY InitSound, SoundStep, PTL DEF Spec

\* The rows, the bodies and the places of the requests are what they may be.
THEOREM TypeCorrect == Spec => []TypeOK
BY SoundAlways, PTL DEF Sound

-----------------------------------------------------------------------------
(* What a step does to a row                                               *)

Writers(r) == \/ InsertUser(r) \/ WriteUser(r) \/ UnlinkPresident(r) \/ EraseUser(r)
              \/ InsertClub(r) \/ InsertUserAndClub(r) \/ WriteClub(r) \/ DeleteClub(r)

LEMMA WhoWrites == [Next]_tables => \/ UNCHANGED <<users, clubs>>
                                    \/ \E r \in Req : Writers(r)
BY DEF Next, tables, UserStep, ClubStep, Writers, Submit, Abort, Guard, VerifyToken,
       CheckLoginId, CheckPhone, ReadTarget, EnsurePresident, CheckDates

UserRowStep(u) ==
    /\ users[u] # Null => /\ users'[u] # Null
                          /\ users'[u].is_system = users[u].is_system
                          /\ users[u].is_system => users'[u] = users[u]
                          /\ users[u].deleted => users'[u].deleted
    /\ users[u] = Null /\ users'[u] # Null => Findable(u)'

LEMMA UserRows == Sound /\ [Next]_tables => \A u \in UserId : UserRowStep(u)
<1> SUFFICES ASSUME Sound, [Next]_tables, NEW u \in UserId PROVE UserRowStep(u)
  OBVIOUS
<1> USE TablesAssumption DEF Sound, UserRowStep
<1>1. ASSUME NEW r \in Req, InsertUser(r) PROVE UserRowStep(u)
  <2>1. form[r] \in Forms /\ form[r].kind = "createUser" /\ form[r].role \in Role
    BY <1>1, FieldsOfBody DEF InsertUser, IsAt, TypeOK
  <2>2. [login_id |-> form[r].login_id, phone |-> form[r].phone, role |-> form[r].role,
         is_system |-> FALSE, deleted |-> FALSE] # Null
    BY <2>1, UserMade
  <2>3. CASE users[u] = Null
    BY <1>1, <2>2, <2>3 DEF InsertUser, NextUserId, TypeOK, Findable, Live
  <2>4. CASE users[u] # Null
    <3>1. users'[u] = users[u]
      BY <1>1, <2>4 DEF InsertUser, NextUserId, TypeOK
    <3> QED BY <2>4, <3>1, Zenon
  <2> QED BY <2>3, <2>4
<1>2. ASSUME NEW r \in Req, WriteUser(r) PROVE UserRowStep(u)
  <2> DEFINE row == UpdatedUser(users[form[r].id], form[r])
  <2>1. /\ users[form[r].id] \in UserRow /\ ~users[form[r].id].is_system
        /\ form[r].id \in UserId /\ form[r].kind = "updateUser" /\ form[r] \in Forms
    BY <1>2, FieldsOfBody DEF WriteUser, IsAt, TypeOK, Targets, Reading
  <2>2. row # Null /\ row.is_system = users[form[r].id].is_system
        /\ row.deleted = users[form[r].id].deleted
    BY <2>1, UserWritten
  <2>3. users' = [users EXCEPT ![form[r].id] = row]
    BY <1>2 DEF WriteUser
  <2> HIDE DEF row
  <2>4. CASE u = form[r].id
    <3>1. users[u] # Null /\ users'[u] = row
      BY <2>1, <2>3, <2>4 DEF TypeOK
    <3> QED BY <2>1, <2>2, <2>4, <3>1
  <2>5. CASE u # form[r].id
    <3>1. users'[u] = users[u]
      BY <2>1, <2>3, <2>5 DEF TypeOK
    <3> QED BY <3>1, Zenon
  <2> QED BY <2>4, <2>5
<1>3. ASSUME NEW r \in Req, EraseUser(r) PROVE UserRowStep(u)
  <2> DEFINE row == [users[form[r].id] EXCEPT !.deleted = TRUE]
  <2>1. /\ users[form[r].id] \in UserRow /\ ~users[form[r].id].is_system
        /\ form[r].id \in UserId
    BY <1>3, FieldsOfBody DEF EraseUser, IsAt, TypeOK, Targets, Reading
  <2>2. row # Null /\ row.is_system = users[form[r].id].is_system /\ row.deleted
    BY <2>1, UserErased
  <2>3. users' = [users EXCEPT ![form[r].id] = row]
    BY <1>3 DEF EraseUser
  <2> HIDE DEF row
  <2>4. CASE u = form[r].id
    <3>1. users[u] # Null /\ users'[u] = row
      BY <2>1, <2>3, <2>4 DEF TypeOK
    <3> QED BY <2>1, <2>2, <2>4, <3>1
  <2>5. CASE u # form[r].id
    <3>1. users'[u] = users[u]
      BY <2>1, <2>3, <2>5 DEF TypeOK
    <3> QED BY <3>1, Zenon
  <2> QED BY <2>4, <2>5
<1>4. ASSUME NEW r \in Req, InsertUserAndClub(r) PROVE UserRowStep(u)
  <2>1. form[r] \in Forms /\ form[r].kind = "register"
    BY <1>4 DEF InsertUserAndClub, IsAt, TypeOK
  <2>2. [login_id |-> form[r].login_id, phone |-> form[r].phone, role |-> "president",
         is_system |-> FALSE, deleted |-> FALSE] # Null
    BY <2>1, UserMade DEF Role
  <2>3. CASE users[u] = Null
    BY <1>4, <2>2, <2>3 DEF InsertUserAndClub, NextUserId, TypeOK, Findable, Live
  <2>4. CASE users[u] # Null
    <3>1. users'[u] = users[u]
      BY <1>4, <2>4 DEF InsertUserAndClub, NextUserId, TypeOK
    <3> QED BY <2>4, <3>1, Zenon
  <2> QED BY <2>3, <2>4
<1>5. CASE UNCHANGED users
  BY <1>5
<1> QED BY <1>1, <1>2, <1>3, <1>4, <1>5, WhoWrites
        DEF Writers, UnlinkPresident, InsertClub, WriteClub, DeleteClub

\* Of a club that is there: it stays, a deleted one as it is.
ClubRowStep(c) ==
    clubs[c] # Null => /\ clubs'[c] # Null
                       /\ clubs[c].deleted => clubs'[c] = clubs[c]

LEMMA ClubRows == Sound /\ [Next]_tables => \A c \in ClubId : ClubRowStep(c)
<1> SUFFICES ASSUME Sound, [Next]_tables, NEW c \in ClubId PROVE ClubRowStep(c)
  OBVIOUS
<1> USE TablesAssumption DEF Sound, ClubRowStep, TypeOK
<1>1. ASSUME NEW r \in Req, UnlinkPresident(r) PROVE ClubRowStep(c)
  BY <1>1 DEF UnlinkPresident, LiveClub, ClubRow
<1>2. ASSUME NEW r \in Req, InsertClub(r) PROVE ClubRowStep(c)
  BY <1>2 DEF InsertClub, NextClubId
<1>3. ASSUME NEW r \in Req, InsertUserAndClub(r) PROVE ClubRowStep(c)
  BY <1>3 DEF InsertUserAndClub, NextClubId
<1>4. ASSUME NEW r \in Req, WriteClub(r) PROVE ClubRowStep(c)
  <2> DEFINE row == UpdatedClub(clubs[form[r].id], form[r])
  <2>1. form[r] \in Forms /\ form[r].kind = "updateClub" /\ form[r].id \in ClubId
    BY <1>4, FieldsOfBody DEF WriteClub, IsAt
  <2>2. CASE clubs' # clubs
    <3>1. LiveClub(form[r].id) /\ clubs' = [clubs EXCEPT ![form[r].id] = row]
      BY <1>4, <2>2 DEF WriteClub, Writable
    <3>2. row # Null
      BY <2>1, <3>1, ClubWritten DEF LiveClub
    <3> HIDE DEF row
    <3> QED BY <2>1, <3>1, <3>2 DEF LiveClub
  <2> QED BY <2>2
<1>5. ASSUME NEW r \in Req, DeleteClub(r) PROVE ClubRowStep(c)
  <2> DEFINE row == [clubs[form[r].id] EXCEPT !.deleted = TRUE]
  <2>1. form[r] \in Forms /\ form[r].kind = "deleteClub" /\ form[r].id \in ClubId
    BY <1>5, FieldsOfBody DEF DeleteClub, IsAt
  <2>2. CASE clubs' # clubs
    <3>1. LiveClub(form[r].id) /\ clubs' = [clubs EXCEPT ![form[r].id] = row]
      BY <1>5, <2>2 DEF DeleteClub
    <3>2. row # Null
      BY <2>1, <3>1, ClubErased DEF LiveClub
    <3> HIDE DEF row
    <3> QED BY <2>1, <3>1, <3>2 DEF LiveClub
  <2> QED BY <2>2
<1>6. CASE UNCHANGED clubs
  BY <1>6
<1> QED BY <1>1, <1>2, <1>3, <1>4, <1>5, <1>6, WhoWrites
        DEF Writers, InsertUser, WriteUser, EraseUser

\* No request ever changes a system account, or makes one.
THEOREM SystemAccountsAreUntouched == Spec => SystemAccountsUntouched
<1> DEFINE Untouched ==
      \A u \in UserId :
          /\ users[u] # Null /\ users[u].is_system => users'[u] = users[u]
          /\ users[u] = Null /\ users'[u] # Null => ~users'[u].is_system
<1>1. Sound /\ [Next]_tables => Untouched
  BY UserRows DEF UserRowStep, Findable
<1> HIDE DEF Untouched
<1>2. Spec => [][Untouched]_tables
  BY <1>1, SoundAlways, PTL DEF Spec
<1> QED BY <1>2 DEF Untouched, SystemAccountsUntouched

\* A deleted user stays deleted, and a deleted club is never written again.
THEOREM DeletionIsFinal == Spec => DeletedIsFinal
<1> DEFINE Final ==
      /\ \A u \in UserId : users[u] # Null /\ users[u].deleted => users'[u].deleted
      /\ \A c \in ClubId : clubs[c] # Null /\ clubs[c].deleted => clubs'[c] = clubs[c]
<1>1. Sound /\ [Next]_tables => Final
  BY UserRows, ClubRows DEF UserRowStep, ClubRowStep
<1> HIDE DEF Final
<1>2. Spec => [][Final]_tables
  BY <1>1, SoundAlways, PTL DEF Spec
<1> QED BY <1>2 DEF Final, DeletedIsFinal

-----------------------------------------------------------------------------
(* The anonymous creation of users                                         *)

\* Whoever is past the guard without a token arrived when users was empty.
Anonymous(r) ==
    form[r].kind = "createUser" =>
        /\ pc[r] = "guard" /\ ~early[r] => hasAnyUser
        /\ pc[r] = "token" => form[r].token # Null
        /\ pc[r] \in {"login", "phone", "insert", "done"} /\ form[r].token = Null
           => early[r]

LEMMA AnonymousStep ==
    Sound /\ (\A r \in Req : Anonymous(r)) /\ [Next]_tables => (\A r \in Req : Anonymous(r))'
<1> SUFFICES ASSUME Sound, \A r \in Req : Anonymous(r), [Next]_tables, NEW q \in Req
             PROVE  Anonymous(q)'
  OBVIOUS
<1>0. hasAnyUser => hasAnyUser'
  BY UserRows DEF UserRowStep, hasAnyUser
<1> USE <1>0 DEF Sound, TypeOK, Anonymous, IsAt, Goto
<1>1. ASSUME NEW r \in Req, NEW f \in Forms, Submit(r, f) PROVE Anonymous(q)'
  BY <1>1, FieldsOfBody DEF Submit, First, AfterDates
<1>2. ASSUME NEW r \in Req, Guard(r) PROVE Anonymous(q)'
  BY <1>2 DEF Guard
<1>3. ASSUME NEW r \in Req, VerifyToken(r) PROVE Anonymous(q)'
  BY <1>3 DEF VerifyToken
<1>4. ASSUME NEW r \in Req, CheckLoginId(r) PROVE Anonymous(q)'
  BY <1>4 DEF CheckLoginId, AfterChecks
<1>5. ASSUME NEW r \in Req, CheckPhone(r) PROVE Anonymous(q)'
  BY <1>5 DEF CheckPhone, AfterChecks
<1>6. ASSUME NEW r \in Req, InsertUser(r) PROVE Anonymous(q)'
  BY <1>6 DEF InsertUser
<1>7. ASSUME NEW r \in Req, ReadTarget(r) PROVE Anonymous(q)'
  BY <1>7 DEF ReadTarget
<1>8. ASSUME NEW r \in Req, WriteUser(r) PROVE Anonymous(q)'
  BY <1>8 DEF WriteUser
<1>9. ASSUME NEW r \in Req, UnlinkPresident(r) PROVE Anonymous(q)'
  BY <1>9 DEF UnlinkPresident
<1>10. ASSUME NEW r \in Req, EraseUser(r) PROVE Anonymous(q)'
  BY <1>10 DEF EraseUser
<1>11. ASSUME NEW r \in Req, EnsurePresident(r) PROVE Anonymous(q)'
  BY <1>11 DEF EnsurePresident
<1>12. ASSUME NEW r \in Req, InsertClub(r) PROVE Anonymous(q)'
  BY <1>12 DEF InsertClub
<1>13. ASSUME NEW r \in Req, InsertUserAndClub(r) PROVE Anonymous(q)'
  BY <1>13 DEF InsertUserAndClub
<1>14. ASSUME NEW r \in Req, CheckDates(r) PROVE Anonymous(q)'
  BY <1>14 DEF CheckDates, AfterDates
<1>15. ASSUME NEW r \in Req, WriteClub(r) PROVE Anonymous(q)'
  BY <1>15 DEF WriteClub
<1>16. ASSUME NEW r \in Req, DeleteClub(r) PROVE Anonymous(q)'
  BY <1>16 DEF DeleteClub
<1>17. ASSUME NEW r \in Req, Abort(r) PROVE Anonymous(q)'
  BY <1>17 DEF Abort
<1>18. CASE UNCHANGED tables
  BY <1>18 DEF tables
<1> QED BY <1>1, <1>2, <1>3, <1>4, <1>5, <1>6, <1>7, <1>8, <1>9, <1>10, <1>11, <1>12, <1>13,
           <1>14, <1>15, <1>16, <1>17, <1>18
         DEF Next, UserStep, ClubStep

\* Whoever has created a user without a token arrived when there was none.
THEOREM BootstrapIsOver == Spec => []BootstrapStaysClosed
<1>1. Init => \A r \in Req : Anonymous(r)
  BY TablesAssumption DEF Init, Anonymous
<1>2. (\A r \in Req : Anonymous(r)) => BootstrapStaysClosed
  BY DEF Anonymous, BootstrapStaysClosed
<1> QED BY <1>1, <1>2, AnonymousStep, SoundAlways, PTL DEF Spec

-----------------------------------------------------------------------------
(* One club per president                                                  *)

\* president_id is a foreign key, and an id a body names is looked up first.
Exists(p) == p = Null \/ users[p] # Null

Named(r) ==
    \/ form[r].kind = "createClub" /\ pc[r] = "insert"
    \/ form[r].kind = "updateClub" /\ pc[r] = "write" /\ form[r].president_id # Keep
    => Exists(form[r].president_id)

References ==
    /\ \A c \in ClubId : clubs[c] # Null => Exists(clubs[c].president_id)
    /\ \A r \in Req : Named(r)

\* With UNIQUE(president_id) a user presides one club at most, so the club_id
\* of a token, read with getOne, is determined by the user.
OneClubEach ==
    \A c, d \in ClubId :
        /\ clubs[c] # Null /\ clubs[d] # Null
        /\ clubs[c].president_id = clubs[d].president_id
        /\ clubs[c].president_id # Null
        => c = d

\* What the constraints of the database say of its first contents.
Constrained(t) ==
    /\ \A c \in ClubId : t.clubs[c] # Null /\ t.clubs[c].president_id # Null
                         => t.users[t.clubs[c].president_id] # Null
    /\ \A c, d \in ClubId :
          /\ t.clubs[c] # Null /\ t.clubs[d] # Null
          /\ t.clubs[c].president_id = t.clubs[d].president_id
          /\ t.clubs[c].president_id # Null
          => c = d

\* Where a club gets its president from: it has none, or the same as before, or
\* the one a body names, which presides no other club, or a new user.
FromBody(r, c) ==
    /\ \/ form[r].kind = "createClub" /\ pc[r] = "insert"
       \/ form[r].kind = "updateClub" /\ pc[r] = "write" /\ form[r].president_id # Keep
    /\ clubs'[c].president_id = form[r].president_id
    /\ ~Clash(form[r].president_id, c)
    /\ \A d \in ClubId \ {c} : clubs'[d] = clubs[d]

FromRegistration(c) ==
    /\ clubs'[c].president_id \in UserId
    /\ users[clubs'[c].president_id] = Null /\ users'[clubs'[c].president_id] # Null
    /\ \A d \in ClubId \ {c} : clubs'[d] = clubs[d]

PresidentStep(c) ==
    \/ clubs'[c].president_id = Null
    \/ clubs[c] # Null /\ clubs'[c].president_id = clubs[c].president_id
    \/ \E r \in Req : FromBody(r, c)
    \/ FromRegistration(c)

LEMMA Presidents ==
    Sound /\ [Next]_tables => \A c \in ClubId : clubs'[c] # Null => PresidentStep(c)
<1> SUFFICES ASSUME Sound, [Next]_tables, NEW c \in ClubId, clubs'[c] # Null
             PROVE  PresidentStep(c)
  OBVIOUS
<1> USE TablesAssumption DEF Sound, TypeOK
<1>1. ASSUME NEW r \in Req, UnlinkPresident(r) PROVE PresidentStep(c)
  BY <1>1 DEF UnlinkPresident, LiveClub, PresidentStep, ClubRow
<1>2. ASSUME NEW r \in Req, InsertClub(r) PROVE PresidentStep(c)
  <2>1. CASE clubs'[c] = clubs[c]
    BY <2>1 DEF PresidentStep
  <2>2. CASE clubs'[c] # clubs[c]
    <3>1. FromBody(r, c)
      BY <1>2, <2>2 DEF InsertClub, IsAt, NewClub, FromBody
    <3> QED BY <3>1 DEF PresidentStep
  <2> QED BY <2>1, <2>2
<1>3. ASSUME NEW r \in Req, InsertUserAndClub(r) PROVE PresidentStep(c)
  <2>1. CASE clubs'[c] = clubs[c]
    BY <2>1 DEF PresidentStep
  <2>2. CASE clubs'[c] # clubs[c]
    <3>0. form[r] \in Forms /\ form[r].kind = "register"
      BY <1>3 DEF InsertUserAndClub, IsAt
    <3>1. [login_id |-> form[r].login_id, phone |-> form[r].phone, role |-> "president",
           is_system |-> FALSE, deleted |-> FALSE] # Null
      BY <3>0, UserMade DEF Role
    <3>2. FromRegistration(c)
      BY <1>3, <2>2, <3>1 DEF InsertUserAndClub, NextUserId, NewClub, FromRegistration
    <3> QED BY <3>2 DEF PresidentStep
  <2> QED BY <2>1, <2>2
<1>4. ASSUME NEW r \in Req, WriteClub(r) PROVE PresidentStep(c)
  <2>1. CASE clubs'[c] = clubs[c]
    BY <2>1 DEF PresidentStep
  <2>2. CASE clubs'[c] # clubs[c]
    <3>1. /\ form[r] \in Forms /\ form[r].kind = "updateClub" /\ form[r].id = c
          /\ pc[r] = "write" /\ Writable(form[r]) /\ clubs[c] \in ClubRow
          /\ clubs' = [clubs EXCEPT ![c] = UpdatedClub(clubs[c], form[r])]
      BY <1>4, <2>2, FieldsOfBody DEF WriteClub, IsAt, Writable, LiveClub
    <3>2. clubs'[c].president_id = Given(form[r].president_id, clubs[c].president_id)
      BY <3>1 DEF UpdatedClub, ClubRow
    <3>3. CASE form[r].president_id = Keep
      BY <3>1, <3>2, <3>3 DEF Given, PresidentStep
    <3>4. CASE form[r].president_id # Keep
      <4>1. FromBody(r, c)
        BY <3>1, <3>2, <3>4 DEF Given, Writable, FromBody
      <4> QED BY <4>1 DEF PresidentStep
    <3> QED BY <3>3, <3>4
  <2> QED BY <2>1, <2>2
<1>5. ASSUME NEW r \in Req, DeleteClub(r) PROVE PresidentStep(c)
  <2>1. CASE clubs'[c] = clubs[c]
    BY <2>1 DEF PresidentStep
  <2>2. CASE clubs'[c] # clubs[c]
    <3>1. /\ form[r].id = c /\ clubs[c] \in ClubRow
          /\ clubs' = [clubs EXCEPT ![c] = [clubs[c] EXCEPT !.deleted = TRUE]]
      BY <1>5, <2>2, FieldsOfBody DEF DeleteClub, IsAt, LiveClub
    <3> QED BY <3>1 DEF PresidentStep, ClubRow
  <2> QED BY <2>1, <2>2
<1>6. CASE UNCHANGED clubs
  BY <1>6 DEF PresidentStep
<1> QED BY <1>1, <1>2, <1>3, <1>4, <1>5, <1>6, WhoWrites
        DEF Writers, InsertUser, WriteUser, EraseUser

LEMMA ReferencesStep == Sound /\ References /\ [Next]_tables => References'
<1> SUFFICES ASSUME Sound, References, [Next]_tables PROVE References'
  OBVIOUS
<1>1. \A p \in UserId \cup {Null} :
         p = Null \/ users[p] # Null => p = Null \/ users'[p] # Null
  BY UserRows DEF UserRowStep
<1>2. ASSUME NEW c \in ClubId, clubs'[c] # Null PROVE Exists(clubs[c].president_id)'
  <2>1. PresidentStep(c)
    BY <1>2, Presidents
  <2>2. ASSUME clubs[c] # Null, clubs'[c].president_id = clubs[c].president_id
        PROVE  Exists(clubs[c].president_id)'
    <3>1. clubs[c].president_id \in UserId \cup {Null}
      BY <2>2 DEF Sound, TypeOK, ClubRow
    <3> QED BY <1>1, <2>2, <3>1 DEF References, Exists
  <2>3. ASSUME NEW r \in Req, FromBody(r, c) PROVE Exists(clubs[c].president_id)'
    <3>1. form[r] \in Forms /\ form[r].president_id \in UserId \cup {Null}
      BY <2>3, TablesAssumption, FieldsOfBody DEF FromBody, Sound, TypeOK
    <3>2. Exists(form[r].president_id)
      BY <2>3 DEF References, Named, FromBody
    <3> QED BY <1>1, <2>3, <3>1, <3>2 DEF FromBody, Exists
  <2> QED BY <2>1, <2>2, <2>3 DEF PresidentStep, FromRegistration, Exists
<1>3. (\A r \in Req : Named(r))'
  <2> SUFFICES ASSUME NEW q \in Req PROVE Named(q)'
    OBVIOUS
  <2>0. /\ Named(q)
        /\ form[q].kind \in {"createClub", "updateClub"} /\ pc[q] # "idle"
           => form[q].president_id \in UserId \cup {Null, Keep}
    <3>1. Named(q)
      BY DEF References
    <3>2. pc[q] # "idle" => form[q] \in Forms
      BY TablesAssumption DEF Sound, TypeOK
    <3> QED BY <3>1, <3>2, FieldsOfBody
  <2> USE <1>1, <2>0 DEF References, Sound, TypeOK, Named, Exists, IsAt, Goto
  <2>1. ASSUME NEW r \in Req, NEW f \in Forms, Submit(r, f) PROVE Named(q)'
    BY <2>1, FieldsOfBody DEF Submit, First, AfterDates
  <2>4. ASSUME NEW r \in Req, Guard(r) PROVE Named(q)'
    BY <2>4 DEF Guard
  <2>5. ASSUME NEW r \in Req, VerifyToken(r) PROVE Named(q)'
    BY <2>5 DEF VerifyToken
  <2>6. ASSUME NEW r \in Req, CheckLoginId(r) PROVE Named(q)'
    BY <2>6 DEF CheckLoginId, AfterChecks
  <2>7. ASSUME NEW r \in Req, CheckPhone(r) PROVE Named(q)'
    BY <2>7 DEF CheckPhone, AfterChecks
  <2>8. ASSUME NEW r \in Req, InsertUser(r) PROVE Named(q)'
    BY <2>8 DEF InsertUser
  <2>9. ASSUME NEW r \in Req, ReadTarget(r) PROVE Named(q)'
    BY <2>9 DEF ReadTarget
  <2>10. ASSUME NEW r \in Req, WriteUser(r) PROVE Named(q)'
    BY <2>10 DEF WriteUser
  <2>11. ASSUME NEW r \in Req, UnlinkPresident(r) PROVE Named(q)'
    BY <2>11 DEF UnlinkPresident
  <2>12. ASSUME NEW r \in Req, EraseUser(r) PROVE Named(q)'
    BY <2>12 DEF EraseUser
  <2>13. ASSUME NEW r \in Req, EnsurePresident(r) PROVE Named(q)'
    BY <2>13, FieldsOfBody DEF EnsurePresident, PresidentExists, Findable, Live
  <2>14. ASSUME NEW r \in Req, InsertClub(r) PROVE Named(q)'
    BY <2>14 DEF InsertClub
  <2>15. ASSUME NEW r \in Req, InsertUserAndClub(r) PROVE Named(q)'
    BY <2>15 DEF InsertUserAndClub
  <2>16. ASSUME NEW r \in Req, CheckDates(r) PROVE Named(q)'
    BY <2>16 DEF CheckDates, AfterDates
  <2>17. ASSUME NEW r \in Req, WriteClub(r) PROVE Named(q)'
    BY <2>17 DEF WriteClub
  <2>18. ASSUME NEW r \in Req, DeleteClub(r) PROVE Named(q)'
    BY <2>18 DEF DeleteClub
  <2>19. ASSUME NEW r \in Req, Abort(r) PROVE Named(q)'
    BY <2>19 DEF Abort
  <2>20. CASE UNCHANGED tables
    BY <2>20 DEF tables
  <2> QED BY <2>1, <2>4, <2>5, <2>6, <2>7, <2>8, <2>9, <2>10, <2>11, <2>12, <2>13, <2>14,
             <2>15, <2>16, <2>17, <2>18, <2>19, <2>20
           DEF Next, UserStep, ClubStep
<1> QED BY <1>2, <1>3 DEF References

LEMMA OneClubEachStep ==
    ASSUME UniquePresident, Sound, References, OneClubEach, [Next]_tables
    PROVE  OneClubEach'
<1>1. ASSUME NEW c \in ClubId, NEW d \in ClubId, c # d,
             clubs'[c] # Null, clubs'[d] # Null,
             clubs'[c].president_id = clubs'[d].president_id,
             clubs'[c].president_id # Null,
             (\E r \in Req : FromBody(r, c)) \/ FromRegistration(c)
      PROVE  FALSE
  <2>1. clubs'[d] = clubs[d]
    BY <1>1 DEF FromBody, FromRegistration
  <2>2. CASE \E r \in Req : FromBody(r, c)
    BY <1>1, <2>1, <2>2 DEF FromBody, Clash
  <2>3. CASE FromRegistration(c)
    BY <1>1, <2>1, <2>3 DEF FromRegistration, References, Exists
  <2> QED BY <1>1, <2>2, <2>3
<1>2. ASSUME NEW c \in ClubId, NEW d \in ClubId,
             clubs'[c] # Null, clubs'[d] # Null,
             clubs'[c].president_id = clubs'[d].president_id,
             clubs'[c].president_id # Null, c # d
      PROVE  FALSE
  <2>1. PresidentStep(c) /\ PresidentStep(d)
    BY <1>2, Presidents
  <2>2. ~((\E r \in Req : FromBody(r, c)) \/ FromRegistration(c))
    BY <1>1, <1>2
  <2>3. ~((\E r \in Req : FromBody(r, d)) \/ FromRegistration(d))
    BY <1>1, <1>2
  <2> QED BY <1>2, <2>1, <2>2, <2>3 DEF PresidentStep, OneClubEach
<1> QED BY <1>2 DEF OneClubEach

\* A step keeps the constraint of the database, and so does a behaviour on tables
\* that satisfied it at first: what the sessions rely on.
LEMMA OneClubEachAlways ==
    ASSUME UniquePresident, \A t \in Start : Constrained(t)
    PROVE  Spec => []OneClubEach
<1>1. Init => References /\ OneClubEach
  <2> SUFFICES ASSUME Init PROVE References /\ OneClubEach
    OBVIOUS
  <2>1. PICK t \in Start : users = t.users /\ clubs = t.clubs
    BY DEF Init
  <2>2. Constrained(t)
    BY <2>1
  <2>3. OneClubEach
    BY <2>1, <2>2 DEF Constrained, OneClubEach
  <2>4. References
    BY <2>1, <2>2 DEF Constrained, References, Exists, Named, Init
  <2> QED BY <2>3, <2>4
<1>2. Sound /\ References /\ OneClubEach /\ [Next]_tables
      => (References /\ OneClubEach)'
  BY ReferencesStep, OneClubEachStep
<1> QED BY <1>1, <1>2, SoundAlways, PTL DEF Spec
=============================================================================
