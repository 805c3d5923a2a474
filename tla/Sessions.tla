------------------------------ MODULE Sessions ------------------------------
(***************************************************************************)
(* AuthService and JwtStrategy: login, token refresh, logout and the check *)
(* of an access token, while users and clubs change underneath.            *)
(*                                                                         *)
(* generateTokens signs the same claims twice, as an access and a refresh  *)
(* token, so one record stands for the pair.  A JWT is its claims and its  *)
(* iat in whole seconds: two tokens signed for the same claims within one  *)
(* second are the same string.                                             *)
(***************************************************************************)
EXTENDS Directory

CONSTANTS
    Call,       \* the requests to /v1/auth
    MaxClock,   \* bound on the clock, in seconds
    AccessTTL,  \* JWT_ACCESS_EXPIRE_TIME
    RefreshTTL, \* JWT_REFRESH_EXPIRE_TIME
    MaxCalls,   \* how many calls may be in flight at once
    LoggedOut   \* the empty string that logout stores

Token == [sub : UserId, login_id : LoginId, role : Role,
          club_id : ClubId \cup {Null}, iat : 0..MaxClock]
Kind == {"login", "refresh", "logout", "verify"}

ASSUME SessionsAssumption ==
    /\ MaxClock \in Nat /\ AccessTTL \in Nat /\ RefreshTTL \in Nat /\ MaxCalls \in Nat
    /\ LoggedOut # Null /\ LoggedOut \notin Token
    /\ Null \notin Token \cup [kind : Kind, arg : LoginId \cup Token]

VARIABLES
    clock,
    refresh_token, \* the column of users, by id
    given,         \* the tokens that clients received
    step,          \* the next statement of each call
    call,          \* kind and argument of each call
    made,          \* the claims a login or refresh has read so far
    gone,          \* (history) was the token's user deleted on arrival
    overtaken      \* (history) refreshes that had compared when a logout stored

sessionVars == <<clock, refresh_token, given, step, call, made, gone, overtaken>>
allVars == <<tables, sessionVars>>

Steps == {"user", "club", "store"}

Proceed(s, place) == step' = [step EXCEPT ![s] = place]

SessionInit ==
    /\ Init
    /\ clock = 0
    /\ refresh_token = [u \in UserId |-> Null]
    /\ given = {}
    /\ step = [s \in Call |-> "idle"]
    /\ call = [s \in Call |-> Null]
    /\ made = [s \in Call |-> Null]
    /\ gone = [s \in Call |-> FALSE]
    /\ overtaken = {}

Tick ==
    /\ clock < MaxClock
    /\ clock' = clock + 1
    /\ UNCHANGED <<tables, refresh_token, given, step, call, made, gone, overtaken>>

-----------------------------------------------------------------------------
(* Arrival.  Signature and expiry are checked before the first statement;  *)
(* jsonwebtoken rejects a token from the second of its exp on.             *)

Arrive(s, kind, arg) ==
    /\ step[s] = "idle"
    /\ Cardinality({q \in Call : step[q] \in Steps}) < MaxCalls
    /\ call' = [call EXCEPT ![s] = [kind |-> kind, arg |-> arg]]
    /\ Proceed(s, "user")
    /\ UNCHANGED <<tables, clock, refresh_token, given, made, overtaken>>

ArriveLogin(s, l) == Arrive(s, "login", l) /\ UNCHANGED gone

ArriveWithToken(s, kind, t) ==
    /\ clock < t.iat + (IF kind = "refresh" THEN RefreshTTL ELSE AccessTTL)
    /\ Arrive(s, kind, t)
    /\ gone' = [gone EXCEPT ![s] = ~Live(t.sub)]

-----------------------------------------------------------------------------
(* The first read: the user                                                *)

ClaimsOf(u) == [sub |-> u, login_id |-> users[u].login_id, role |-> users[u].role]

\* validateUser with the right password; a wrong one is a Fail.
LoginUser(s) ==
    /\ step[s] = "user" /\ call[s].kind = "login"
    /\ LET found == {u \in UserId : Live(u) /\ users[u].login_id = call[s].arg} IN
       \/ /\ found = {}
          /\ Proceed(s, "refused")
          /\ UNCHANGED made
       \/ \E u \in found : /\ made' = [made EXCEPT ![s] = ClaimsOf(u)]
                           /\ Proceed(s, "club")
    /\ UNCHANGED <<tables, clock, refresh_token, given, call, gone, overtaken>>

\* (slip) deleted_at: IsNull() is missing from findOneIncludingSystem
findOneIncludingSystem_deletedToo(u) == users[u] # Null

findOneIncludingSystem(u) == Live(u)

\* (slip) the presented token is not compared with the stored one
RefreshUser_anyToken(s) ==
    /\ step[s] = "user" /\ call[s].kind = "refresh"
    /\ LET t == call[s].arg IN
       IF findOneIncludingSystem(t.sub)
       THEN made' = [made EXCEPT ![s] = ClaimsOf(t.sub)] /\ Proceed(s, "club")
       ELSE Proceed(s, "refused") /\ UNCHANGED made
    /\ UNCHANGED <<tables, clock, refresh_token, given, call, gone, overtaken>>

\* refreshToken compares the stored token with the one presented.
RefreshUser(s) ==
    /\ step[s] = "user" /\ call[s].kind = "refresh"
    /\ LET t == call[s].arg IN
       IF findOneIncludingSystem(t.sub) /\ refresh_token[t.sub] = t
       THEN made' = [made EXCEPT ![s] = ClaimsOf(t.sub)] /\ Proceed(s, "club")
       ELSE Proceed(s, "refused") /\ UNCHANGED made
    /\ UNCHANGED <<tables, clock, refresh_token, given, call, gone, overtaken>>

\* JwtStrategy.validate and verifyAccessToken compare the claims.
AccessUser(s) ==
    /\ step[s] = "user" /\ call[s].kind \in {"logout", "verify"}
    /\ LET t == call[s].arg IN
       Proceed(s, IF /\ findOneIncludingSystem(t.sub)
                     /\ users[t.sub].login_id = t.login_id
                     /\ users[t.sub].role = t.role
                  THEN "club" ELSE "refused")
    /\ UNCHANGED <<tables, clock, refresh_token, given, call, made, gone, overtaken>>

-----------------------------------------------------------------------------
(* The second read: the club a president manages                           *)

\* generateTokens: the club, then the signature with the time of now.
SignClub(s) ==
    /\ step[s] = "club" /\ call[s].kind \in {"login", "refresh"}
    /\ \E c \in managedClub(made[s].sub, made[s].role) :
          made' = [made EXCEPT ![s] =
                     [sub |-> made[s].sub, login_id |-> made[s].login_id,
                      role |-> made[s].role, club_id |-> c, iat |-> clock]]
    /\ Proceed(s, "store")
    /\ UNCHANGED <<tables, clock, refresh_token, given, call, gone, overtaken>>

\* An access token must name the club its user manages now.
AccessClub(s) ==
    /\ step[s] = "club" /\ call[s].kind \in {"logout", "verify"}
    /\ LET t == call[s].arg IN
       \E c \in managedClub(t.sub, t.role) :
          Proceed(s, IF c # t.club_id THEN "refused"
                     ELSE IF call[s].kind = "logout" THEN "store" ELSE "done")
    /\ UNCHANGED <<tables, clock, refresh_token, given, call, made, gone, overtaken>>

-----------------------------------------------------------------------------
(* updateRefreshToken: WHERE id and not deleted; nobody looks at affected  *)

Store(u, value) ==
    refresh_token' = [refresh_token EXCEPT ![u] = IF Live(u) THEN value ELSE @]

StoreToken(s) ==
    /\ step[s] = "store" /\ call[s].kind \in {"login", "refresh"}
    /\ Store(made[s].sub, made[s])
    /\ given' = given \cup {made[s]}
    /\ Proceed(s, "done")
    /\ UNCHANGED <<tables, clock, call, made, gone, overtaken>>

StoreLogout(s) ==
    /\ step[s] = "store" /\ call[s].kind = "logout"
    /\ Store(call[s].arg.sub, LoggedOut)
    /\ overtaken' = overtaken \cup
          {q \in Call : /\ step[q] \in {"club", "store"} /\ call[q].kind = "refresh"
                         /\ made[q].sub = call[s].arg.sub}
    /\ Proceed(s, "done")
    /\ UNCHANGED <<tables, clock, given, call, made, gone>>

\* A wrong password, a failing statement or a restart of the process.
Fail(s) ==
    /\ step[s] \in Steps
    /\ Proceed(s, "failed")
    /\ UNCHANGED <<tables, clock, refresh_token, given, call, made, gone, overtaken>>

CallStep(s) ==
    \/ LoginUser(s) \/ RefreshUser(s) \/ AccessUser(s) \/ SignClub(s)
    \/ AccessClub(s) \/ StoreToken(s) \/ StoreLogout(s) \/ Fail(s)

SessionNext ==
    \/ Tick
    \/ \E s \in Call :
          \/ \E l \in LoginId : ArriveLogin(s, l)
          \/ \E kind \in Kind \ {"login"}, t \in given : ArriveWithToken(s, kind, t)
          \/ CallStep(s)
    \/ Next /\ UNCHANGED sessionVars

SessionSpec == SessionInit /\ [][SessionNext]_allVars
-----------------------------------------------------------------------------
(* Properties                                                              *)

\* Well-formed tokens and calls, on well-formed tables.
SessionTypeOK ==
    /\ TypeOK
    /\ clock \in 0..MaxClock
    /\ refresh_token \in [UserId -> Token \cup {Null, LoggedOut}]
    /\ given \subseteq Token
    /\ \A s \in Call :
         /\ step[s] \in {"idle"} \cup Steps \cup Ended
         /\ step[s] # "idle" => call[s].kind \in Kind
         /\ step[s] = "store" /\ call[s].kind \in {"login", "refresh"} => made[s] \in Token
         /\ gone[s] \in BOOLEAN
    /\ overtaken \subseteq Call

\* Removing a user ends the user's sessions: no call that arrives with a token
\* of a deleted user succeeds, neither with an access nor a refresh token.
DeletedUserStaysOut ==
    \A s \in Call : step[s] = "done" /\ call[s].kind # "login" => ~gone[s]

\* An access token is refused for its club only if the user does not preside
\* that club any more: the guards never ask about another club of the same
\* president.
PresidedClubIsAccepted ==
    [][\A s \in Call :
         /\ step[s] = "club" /\ step'[s] = "refused"
         /\ call[s].arg.club_id # Null
         => LET t == call[s].arg IN
            ~(LiveClub(t.club_id) /\ clubs[t.club_id].president_id = t.sub)]_allVars

\* u's session is started anew by one of these calls.
StartsAgain(u, calls) ==
    \E s \in calls : /\ step[s] = "store" /\ step'[s] = "done"
                     /\ call[s].kind \in {"login", "refresh"} /\ made[s].sub = u

Logins == {s \in Call : call[s] # Null /\ call[s].kind = "login"}

\* After a logout only a login starts a session again, or a refresh that had
\* already passed its comparison when the logout was stored: a refresh token
\* presented afterwards is worth nothing.
LoggedOutStaysOut ==
    [][\A u \in UserId :
         refresh_token[u] = LoggedOut /\ refresh_token'[u] # LoggedOut
         => StartsAgain(u, Logins \cup overtaken)]_allVars

\* After a logout nothing but a login starts a session again.
LogoutEndsSession ==
    [][\A u \in UserId :
         refresh_token[u] = LoggedOut /\ refresh_token'[u] # LoggedOut
         => StartsAgain(u, Logins)]_allVars
=============================================================================
