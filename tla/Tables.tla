------------------------------- MODULE Tables -------------------------------
(***************************************************************************)
(* The users and clubs tables and the HTTP requests that work on them.     *)
(*                                                                         *)
(* A request is served by one of several Node processes; every SQL         *)
(* statement it issues is a step, and pc says which one is next.  What a   *)
(* handler keeps between its statements is its body alone: it writes what  *)
(* the body says, never a value it read, so no local copy is modelled.     *)
(***************************************************************************)
EXTENDS Integers, FiniteSets

CONSTANTS
    Req,        \* the requests
    MaxUsers,   \* bound on the rows of users
    MaxClubs,   \* bound on the rows of clubs
    LoginId, Phone,
    Url,        \* what icon_url may hold
    MaxDate,    \* recruit dates are 0..MaxDate
    Forms,      \* the bodies clients may submit
    Start,      \* the contents the two tables may have at start
    MaxConcurrent,    \* how many requests may be in flight at once
    UniquePresident,  \* is there UNIQUE(clubs.president_id)
    Null,       \* SQL NULL, and "no row"
    Keep        \* a field the body leaves undefined

UserId == 1..MaxUsers
ClubId == 1..MaxClubs
Role == {"admin", "president"}
Date == 0..MaxDate

UserRow == [login_id : LoginId, phone : Phone, role : Role,
            is_system : BOOLEAN, deleted : BOOLEAN]
ClubRow == [president_id : UserId \cup {Null}, deleted : BOOLEAN,
            recruit_start : Date \cup {Null}, recruit_end : Date \cup {Null},
            icon_url : Url \cup {Null}]

\* The claims of an access token that the guards compare with the table.
Claims == [sub : UserId, login_id : LoginId, role : Role]

Form ==
    [kind : {"createUser"}, login_id : LoginId, phone : Phone, role : Role,
     token : Claims \cup {Null}]
    \cup [kind : {"updateUser"}, id : UserId, login_id : LoginId \cup {Keep},
          phone : Phone \cup {Keep}, role : Role \cup {Keep}]
    \cup [kind : {"removeUser"}, id : UserId]
    \cup [kind : {"register"}, login_id : LoginId, phone : Phone,
          recruit_start : Date \cup {Null}, recruit_end : Date \cup {Null},
          icon_url : Url \cup {Null}]
    \cup [kind : {"createClub"}, president_id : UserId,
          recruit_start : Date \cup {Null}, recruit_end : Date \cup {Null},
          icon_url : Url \cup {Null}]
    \cup [kind : {"updateClub"}, id : ClubId,
          president_id : UserId \cup {Null, Keep},
          recruit_start : Date \cup {Null, Keep},
          recruit_end : Date \cup {Null, Keep},
          icon_url : Url \cup {Null, Keep}]
    \cup [kind : {"deleteClub"}, id : ClubId]

ASSUME TablesAssumption ==
    /\ MaxUsers \in Nat /\ MaxClubs \in Nat /\ MaxDate \in Nat
    /\ MaxConcurrent \in Nat
    /\ Null # Keep
    /\ Null \notin Nat \cup Url \cup UserRow \cup ClubRow \cup Claims \cup Form
    /\ Keep \notin Nat \cup LoginId \cup Phone \cup Url
    /\ Keep \notin Role
    /\ Forms \subseteq Form
    /\ Start \subseteq [users : [UserId -> UserRow \cup {Null}],
                       clubs : [ClubId -> ClubRow \cup {Null}]]
    /\ UniquePresident \in BOOLEAN

VARIABLES users, clubs, \* committed rows, by id
          form,         \* the body of each request
          pc,           \* its next statement
          early,        \* (history) was users empty when the request arrived
          serial,       \* (history) have no two requests been in flight at once
          met           \* (history) those that each has been in flight together with

tables == <<users, clubs, form, pc, early, serial, met>>

Places == {"guard", "token", "read", "login", "phone", "insert", "unlink",
           "dates", "ensure", "write", "erase"}
Ended == {"done", "refused", "failed"}

\* A field the body leaves undefined keeps the stored value.
Given(value, stored) == IF value = Keep THEN stored ELSE value

Goto(r, place) == pc' = [pc EXCEPT ![r] = place]
IsAt(r, kinds, place) == pc[r] = place /\ form[r].kind \in kinds

Live(u) == users[u] # Null /\ ~users[u].deleted
LiveClub(c) == clubs[c] # Null /\ ~clubs[c].deleted

\* (slip) deleted rows are found, too
Findable_deletedToo(u) == users[u] # Null /\ ~users[u].is_system

\* UsersService.findOne: neither deleted nor a system account.
Findable(u) == Live(u) /\ ~users[u].is_system

\* The first check of a token: its user is live and still what it says.
ClaimsMatch(t) ==
    Live(t.sub) /\ users[t.sub].login_id = t.login_id /\ users[t.sub].role = t.role

\* getOne without an order: any of the rows, when there are several.
managedClub(u, role) ==
    LET found == {c \in ClubId : LiveClub(c) /\ clubs[c].president_id = u}
    IN  IF role # "president" \/ found = {} THEN {Null} ELSE found

\* SERIAL hands out the ids in order.
NextUserId(id) == users[id] = Null /\ \A i \in UserId : i < id => users[i] # Null
NextClubId(id) == clubs[id] = Null /\ \A i \in ClubId : i < id => clubs[i] # Null
=============================================================================
