------------------------------- MODULE Users -------------------------------
(***************************************************************************)
(* UsersService and the guard of POST /v1/users.                           *)
(***************************************************************************)
EXTENDS Tables

\* (slip) deleted rows are not counted
hasAnyUser_liveOnly == \E u \in UserId : Live(u)

\* All rows count, the deleted ones too.
hasAnyUser == \E u \in UserId : users[u] # Null

\* BootstrapUserCreateGuard: without any user everybody may create one.
Guard(r) ==
    /\ IsAt(r, {"createUser"}, "guard")
    /\ Goto(r, IF ~hasAnyUser THEN "login"
               ELSE IF form[r].token = Null THEN "refused" ELSE "token")
    /\ UNCHANGED <<users, clubs, form, early, serial, met>>

\* AuthService.verifyAccessToken and the role check of the guard: the token
\* of a live user whose row still says what the token says, and an admin's.
IsAdminToken(t) == ClaimsMatch(t) /\ t.role = "admin"

VerifyToken(r) ==
    /\ IsAt(r, {"createUser"}, "token")
    /\ Goto(r, IF IsAdminToken(form[r].token) THEN "login" ELSE "refused")
    /\ UNCHANGED <<users, clubs, form, early, serial, met>>

-----------------------------------------------------------------------------
(* checkDuplicateLoginIdAndPhone: two reads, each only for a given field   *)

\* (slip) system accounts are left out of the search
Others_noSystem(r) ==
    {u \in UserId : Findable(u) /\ ~(form[r].kind = "updateUser" /\ form[r].id = u)}

\* The live rows a value must differ from; an update leaves its own row out.
Others(r) ==
    {u \in UserId : Live(u) /\ ~(form[r].kind = "updateUser" /\ form[r].id = u)}

AfterChecks(r) == IF form[r].kind = "updateUser" THEN "write" ELSE "insert"

CheckLoginId(r) ==
    /\ IsAt(r, {"createUser", "updateUser", "register"}, "login")
    /\ Goto(r, IF \E u \in Others(r) : users[u].login_id = form[r].login_id
               THEN "refused"
               ELSE IF form[r].phone # Keep THEN "phone" ELSE AfterChecks(r))
    /\ UNCHANGED <<users, clubs, form, early, serial, met>>

CheckPhone(r) ==
    /\ IsAt(r, {"createUser", "updateUser", "register"}, "phone")
    /\ Goto(r, IF \E u \in Others(r) : users[u].phone = form[r].phone
               THEN "refused" ELSE AfterChecks(r))
    /\ UNCHANGED <<users, clubs, form, early, serial, met>>

-----------------------------------------------------------------------------

\* UsersService.create: bcrypt, then the INSERT.
InsertUser(r) ==
    /\ IsAt(r, {"createUser"}, "insert")
    /\ \E id \in UserId :
          /\ NextUserId(id)
          /\ users' = [users EXCEPT ![id] =
                         [login_id |-> form[r].login_id, phone |-> form[r].phone,
                          role |-> form[r].role, is_system |-> FALSE, deleted |-> FALSE]]
    /\ Goto(r, "done")
    /\ UNCHANGED <<clubs, form, early, serial, met>>

\* (slip) nobody asks whether the target is a system account
ReadTarget_anyAccount(r) ==
    /\ IsAt(r, {"updateUser", "removeUser"}, "read")
    /\ Goto(r, IF ~Live(form[r].id) THEN "refused"
               ELSE IF form[r].kind = "removeUser" THEN "unlink"
               ELSE IF form[r].login_id # Keep THEN "login"
               ELSE IF form[r].phone # Keep THEN "phone" ELSE "write")
    /\ UNCHANGED <<users, clubs, form, early, serial, met>>

\* UsersService.update and remove read the row first.
ReadTarget(r) ==
    /\ IsAt(r, {"updateUser", "removeUser"}, "read")
    /\ Goto(r, IF ~Findable(form[r].id) THEN "refused"
               ELSE IF form[r].kind = "removeUser" THEN "unlink"
               ELSE IF form[r].login_id # Keep THEN "login"
               ELSE IF form[r].phone # Keep THEN "phone" ELSE "write")
    /\ UNCHANGED <<users, clubs, form, early, serial, met>>

UpdatedUser(row, f) ==
    [row EXCEPT !.login_id = Given(f.login_id, row.login_id),
                !.phone = Given(f.phone, row.phone),
                !.role = Given(f.role, row.role)]

\* userRepository.update(id, ...): by id only, whatever happened since.
WriteUser(r) ==
    /\ IsAt(r, {"updateUser"}, "write")
    /\ users' = [users EXCEPT ![form[r].id] = UpdatedUser(users[form[r].id], form[r])]
    /\ Goto(r, "done")
    /\ UNCHANGED <<clubs, form, early, serial, met>>

\* (slip) the user is deleted first and unlinked afterwards
UnlinkPresident_afterErase(r) ==
    /\ IsAt(r, {"removeUser"}, "unlink")
    /\ users' = [users EXCEPT ![form[r].id].deleted = TRUE]
    /\ Goto(r, "erase")
    /\ UNCHANGED <<clubs, form, early, serial, met>>

\* UsersService.remove: the live clubs of the user lose their president, ...
UnlinkPresident(r) ==
    /\ IsAt(r, {"removeUser"}, "unlink")
    /\ clubs' = [c \in ClubId |->
                   IF LiveClub(c) /\ clubs[c].president_id = form[r].id
                   THEN [clubs[c] EXCEPT !.president_id = Null] ELSE clubs[c]]
    /\ Goto(r, "erase")
    /\ UNCHANGED <<users, form, early, serial, met>>

\* ... and in a second statement the row is marked as deleted.
EraseUser(r) ==
    /\ IsAt(r, {"removeUser"}, "erase")
    /\ users' = [users EXCEPT ![form[r].id].deleted = TRUE]
    /\ Goto(r, "done")
    /\ UNCHANGED <<clubs, form, early, serial, met>>

UserStep(r) ==
    \/ Guard(r) \/ VerifyToken(r) \/ CheckLoginId(r) \/ CheckPhone(r)
    \/ InsertUser(r) \/ ReadTarget(r) \/ WriteUser(r)
    \/ UnlinkPresident(r) \/ EraseUser(r)
=============================================================================
