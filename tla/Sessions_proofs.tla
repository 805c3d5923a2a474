--------------------------- MODULE Sessions_proofs ---------------------------
(***************************************************************************)
(* Theorems about module Sessions, for any number of calls and seconds.    *)
(***************************************************************************)
EXTENDS Sessions, Directory_proofs

\* The calls of /v1/auth leave the tables alone, so what holds of the
\* directory holds here.
LEMMA DirectoryKept == SessionSpec => Spec
<1>1. SessionInit => Init
  BY DEF SessionInit
<1>2. [SessionNext]_allVars => [Next]_tables
  BY DEF SessionNext, allVars, Tick, ArriveLogin, ArriveWithToken, Arrive, CallStep,
         LoginUser, RefreshUser, AccessUser, SignClub, AccessClub, StoreToken, StoreLogout,
         Fail
<1> QED BY <1>1, <1>2, PTL DEF SessionSpec, Spec

-----------------------------------------------------------------------------
(* The invariant                                                           *)

\* A token names a user that exists, and a club only for a president.
Genuine(t) == /\ t \in Token /\ users[t.sub] # Null
              /\ t.club_id # Null => t.role = "president"

Issues(s) == call[s].kind \in {"login", "refresh"}

Shapes ==
    /\ clock \in 0..MaxClock
    /\ refresh_token \in [UserId -> Token \cup {Null, LoggedOut}]
    /\ \A t \in given : Genuine(t)
    /\ step \in [Call -> {"idle"} \cup Steps \cup Ended]
    /\ DOMAIN call = Call
    /\ DOMAIN made = Call
    /\ gone \in [Call -> BOOLEAN]
    /\ overtaken \subseteq Call

\* What a call has in hand at each of its places.
InHand(s) ==
    /\ step[s] # "idle" => call[s] # Null /\ call[s].kind \in Kind
    /\ step[s] # "idle" /\ call[s].kind # "login" => call[s].arg \in given
    /\ step[s] = "club" /\ Issues(s) => made[s] \in Claims /\ users[made[s].sub] # Null
    /\ step[s] = "store" /\ Issues(s) => Genuine(made[s])

\* The user of a call that came with the token of a deleted user stays deleted.
StaysOut(s) ==
    gone[s] /\ step[s] # "idle" /\ call[s].kind # "login" =>
        /\ ~Live(call[s].arg.sub)
        /\ step[s] \notin {"club", "store", "done"}

\* Only a refresh that had compared before the logout is still on its way.
Overtaken(s) ==
    /\ step[s] \in {"club", "store"} /\ call[s].kind = "refresh"
    /\ refresh_token[made[s].sub] = LoggedOut
    => s \in overtaken

SessionInv == Shapes /\ \A s \in Call : InHand(s) /\ StaysOut(s) /\ Overtaken(s)

LEMMA InitSession == SessionInit => SessionInv
BY SessionsAssumption
   DEF SessionInit, SessionInv, Shapes, InHand, StaysOut, Overtaken

\* A user never comes back, and never disappears.
LEMMA UsersStay ==
    Sound /\ [Next]_tables => \A u \in UserId : users[u] # Null =>
        /\ users'[u] # Null
        /\ ~Live(u) => ~Live(u)'
BY UserRows DEF UserRowStep, Live

LEMMA ClaimsRead ==
    ASSUME Sound, NEW u \in UserId, Live(u) PROVE ClaimsOf(u) \in Claims
BY DEF Sound, TypeOK, Live, ClaimsOf, Claims, UserRow

LEMMA ClubRead ==
    ASSUME NEW u, NEW role, NEW c \in managedClub(u, role)
    PROVE  c \in ClubId \cup {Null} /\ (c # Null => role = "president")
BY DEF managedClub

LEMMA SessionStep == Sound /\ SessionInv /\ [SessionNext]_allVars => SessionInv'
<1> SUFFICES ASSUME Sound, SessionInv, [SessionNext]_allVars PROVE SessionInv'
  OBVIOUS
<1>0. [Next]_tables
  BY DEF SessionNext, allVars, Tick, ArriveLogin, ArriveWithToken, Arrive, CallStep,
         LoginUser, RefreshUser, AccessUser, SignClub, AccessClub, StoreToken, StoreLogout,
         Fail
<1>1. \A u \in UserId : users[u] # Null => users'[u] # Null /\ (~Live(u) => ~Live(u)')
  BY <1>0, UsersStay
<1>2. \A t : Genuine(t) => Genuine(t)'
  BY <1>1 DEF Genuine, Token
<1>3. \A t \in given : t \in Token /\ t.sub \in UserId /\ users[t.sub] # Null
  BY DEF SessionInv, Shapes, Genuine, Token
<1> USE SessionsAssumption, TablesAssumption
<1>4. ASSUME Tick PROVE SessionInv'
  <2>1. Shapes'
    BY <1>2, <1>3, <1>4, ClaimsRead, ClubRead DEF Tick, Proceed, Shapes, SessionInv, InHand,
       Steps, Ended, Issues, Kind, Genuine, Claims, Token
  <2>2. ASSUME NEW q \in Call PROVE InHand(q)'
    BY <1>1, <1>2, <1>3, <1>4, ClaimsRead, ClubRead DEF Tick, Proceed, Shapes, SessionInv,
       InHand, Steps, Issues, Kind, findOneIncludingSystem, Live, Genuine, Claims, Token,
       ClaimsOf
  <2>3. ASSUME NEW q \in Call PROVE StaysOut(q)'
    BY <1>1, <1>2, <1>3, <1>4 DEF Tick, Proceed, Shapes, SessionInv, InHand, Steps,
       StaysOut, findOneIncludingSystem, Live, Kind
  <2>4. ASSUME NEW q \in Call PROVE Overtaken(q)'
    BY <1>1, <1>2, <1>3, <1>4 DEF Tick, Proceed, Shapes, SessionInv, InHand, Overtaken,
       Issues, ClaimsOf, Genuine
  <2> QED BY <2>1, <2>2, <2>3, <2>4 DEF SessionInv
<1>5. ASSUME NEW s \in Call, NEW l \in LoginId, ArriveLogin(s, l) PROVE SessionInv'
  <2>1. Shapes'
    BY <1>2, <1>3, <1>5, ClaimsRead, ClubRead DEF ArriveLogin, Arrive, Proceed, Shapes,
       SessionInv, InHand, Steps, Ended, Issues, Kind, Genuine, Claims, Token
  <2>2. ASSUME NEW q \in Call PROVE InHand(q)'
    BY <1>1, <1>2, <1>3, <1>5, ClaimsRead, ClubRead DEF ArriveLogin, Arrive, Proceed,
       Shapes, SessionInv, InHand, Steps, Issues, Kind, findOneIncludingSystem, Live,
       Genuine, Claims, Token, ClaimsOf
  <2>3. ASSUME NEW q \in Call PROVE StaysOut(q)'
    BY <1>1, <1>2, <1>3, <1>5 DEF ArriveLogin, Arrive, Proceed, Shapes, SessionInv, InHand,
       Steps, StaysOut, findOneIncludingSystem, Live, Kind
  <2>4. ASSUME NEW q \in Call PROVE Overtaken(q)'
    BY <1>1, <1>2, <1>3, <1>5 DEF ArriveLogin, Arrive, Proceed, Shapes, SessionInv, InHand,
       Overtaken, Issues, ClaimsOf, Genuine
  <2> QED BY <2>1, <2>2, <2>3, <2>4 DEF SessionInv
<1>6. ASSUME NEW s \in Call, NEW kind \in Kind \ {"login"}, NEW t \in given,
             ArriveWithToken(s, kind, t)
      PROVE  SessionInv'
  <2>1. Shapes'
    BY <1>2, <1>3, <1>6, ClaimsRead, ClubRead DEF ArriveWithToken, Arrive, Proceed, Shapes,
       SessionInv, InHand, Steps, Ended, Issues, Kind, Genuine, Claims, Token
  <2>2. ASSUME NEW q \in Call PROVE InHand(q)'
    BY <1>1, <1>2, <1>3, <1>6, ClaimsRead, ClubRead DEF ArriveWithToken, Arrive, Proceed,
       Shapes, SessionInv, InHand, Steps, Issues, Kind, findOneIncludingSystem, Live,
       Genuine, Claims, Token, ClaimsOf
  <2>3. ASSUME NEW q \in Call PROVE StaysOut(q)'
    BY <1>1, <1>2, <1>3, <1>6 DEF ArriveWithToken, Arrive, Proceed, Shapes, SessionInv,
       InHand, Steps, StaysOut, findOneIncludingSystem, Live, Kind
  <2>4. ASSUME NEW q \in Call PROVE Overtaken(q)'
    BY <1>1, <1>2, <1>3, <1>6 DEF ArriveWithToken, Arrive, Proceed, Shapes, SessionInv,
       InHand, Overtaken, Issues, ClaimsOf, Genuine
  <2> QED BY <2>1, <2>2, <2>3, <2>4 DEF SessionInv
<1>7. ASSUME NEW s \in Call, LoginUser(s) PROVE SessionInv'
  <2>1. Shapes'
    BY <1>2, <1>3, <1>7, ClaimsRead, ClubRead DEF LoginUser, Proceed, Shapes, SessionInv,
       InHand, Steps, Ended, Issues, Kind, Genuine, Claims, Token
  <2>2. ASSUME NEW q \in Call PROVE InHand(q)'
    BY <1>1, <1>2, <1>3, <1>7, ClaimsRead, ClubRead DEF LoginUser, Proceed, Shapes,
       SessionInv, InHand, Steps, Issues, Kind, findOneIncludingSystem, Live, Genuine,
       Claims, Token, ClaimsOf
  <2>3. ASSUME NEW q \in Call PROVE StaysOut(q)'
    BY <1>1, <1>2, <1>3, <1>7 DEF LoginUser, Proceed, Shapes, SessionInv, InHand, Steps,
       StaysOut, findOneIncludingSystem, Live, Kind
  <2>4. ASSUME NEW q \in Call PROVE Overtaken(q)'
    BY <1>1, <1>2, <1>3, <1>7 DEF LoginUser, Proceed, Shapes, SessionInv, InHand, Overtaken,
       Issues, ClaimsOf, Genuine
  <2> QED BY <2>1, <2>2, <2>3, <2>4 DEF SessionInv
<1>8. ASSUME NEW s \in Call, RefreshUser(s) PROVE SessionInv'
  <2>1. Shapes'
    BY <1>2, <1>3, <1>8, ClaimsRead, ClubRead DEF RefreshUser, Proceed, Shapes, SessionInv,
       InHand, Steps, Ended, Issues, Kind, Genuine, Claims, Token
  <2>2. ASSUME NEW q \in Call PROVE InHand(q)'
    BY <1>1, <1>2, <1>3, <1>8, ClaimsRead, ClubRead DEF RefreshUser, Proceed, Shapes,
       SessionInv, InHand, Steps, Issues, Kind, findOneIncludingSystem, Live, Genuine,
       Claims, Token, ClaimsOf
  <2>3. ASSUME NEW q \in Call PROVE StaysOut(q)'
    BY <1>1, <1>2, <1>3, <1>8 DEF RefreshUser, Proceed, Shapes, SessionInv, InHand, Steps,
       StaysOut, findOneIncludingSystem, Live, Kind
  <2>4. ASSUME NEW q \in Call PROVE Overtaken(q)'
    BY <1>1, <1>2, <1>3, <1>8 DEF RefreshUser, Proceed, Shapes, SessionInv, InHand,
       Overtaken, Issues, ClaimsOf, Genuine
  <2> QED BY <2>1, <2>2, <2>3, <2>4 DEF SessionInv
<1>9. ASSUME NEW s \in Call, AccessUser(s) PROVE SessionInv'
  <2>1. Shapes'
    BY <1>2, <1>3, <1>9, ClaimsRead, ClubRead DEF AccessUser, Proceed, Shapes, SessionInv,
       InHand, Steps, Ended, Issues, Kind, Genuine, Claims, Token
  <2>2. ASSUME NEW q \in Call PROVE InHand(q)'
    BY <1>1, <1>2, <1>3, <1>9, ClaimsRead, ClubRead DEF AccessUser, Proceed, Shapes,
       SessionInv, InHand, Steps, Issues, Kind, findOneIncludingSystem, Live, Genuine,
       Claims, Token, ClaimsOf
  <2>3. ASSUME NEW q \in Call PROVE StaysOut(q)'
    BY <1>1, <1>2, <1>3, <1>9 DEF AccessUser, Proceed, Shapes, SessionInv, InHand, Steps,
       StaysOut, findOneIncludingSystem, Live, Kind
  <2>4. ASSUME NEW q \in Call PROVE Overtaken(q)'
    BY <1>1, <1>2, <1>3, <1>9 DEF AccessUser, Proceed, Shapes, SessionInv, InHand,
       Overtaken, Issues, ClaimsOf, Genuine
  <2> QED BY <2>1, <2>2, <2>3, <2>4 DEF SessionInv
<1>10. ASSUME NEW s \in Call, SignClub(s) PROVE SessionInv'
  <2>1. Shapes'
    BY <1>2, <1>3, <1>10, ClaimsRead, ClubRead DEF SignClub, Proceed, Shapes, SessionInv,
       InHand, Steps, Ended, Issues, Kind, Genuine, Claims, Token
  <2>2. ASSUME NEW q \in Call PROVE InHand(q)'
    BY <1>1, <1>2, <1>3, <1>10, ClaimsRead, ClubRead DEF SignClub, Proceed, Shapes,
       SessionInv, InHand, Steps, Issues, Kind, findOneIncludingSystem, Live, Genuine,
       Claims, Token, ClaimsOf
  <2>3. ASSUME NEW q \in Call PROVE StaysOut(q)'
    BY <1>1, <1>2, <1>3, <1>10 DEF SignClub, Proceed, Shapes, SessionInv, InHand, Steps,
       StaysOut, findOneIncludingSystem, Live, Kind
  <2>4. ASSUME NEW q \in Call PROVE Overtaken(q)'
    BY <1>1, <1>2, <1>3, <1>10 DEF SignClub, Proceed, Shapes, SessionInv, InHand, Overtaken,
       Issues, ClaimsOf, Genuine
  <2> QED BY <2>1, <2>2, <2>3, <2>4 DEF SessionInv
<1>11. ASSUME NEW s \in Call, AccessClub(s) PROVE SessionInv'
  <2>1. Shapes'
    BY <1>2, <1>3, <1>11, ClaimsRead, ClubRead DEF AccessClub, Proceed, Shapes, SessionInv,
       InHand, Steps, Ended, Issues, Kind, Genuine, Claims, Token
  <2>2. ASSUME NEW q \in Call PROVE InHand(q)'
    BY <1>1, <1>2, <1>3, <1>11, ClaimsRead, ClubRead DEF AccessClub, Proceed, Shapes,
       SessionInv, InHand, Steps, Issues, Kind, findOneIncludingSystem, Live, Genuine,
       Claims, Token, ClaimsOf
  <2>3. ASSUME NEW q \in Call PROVE StaysOut(q)'
    BY <1>1, <1>2, <1>3, <1>11 DEF AccessClub, Proceed, Shapes, SessionInv, InHand, Steps,
       StaysOut, findOneIncludingSystem, Live, Kind
  <2>4. ASSUME NEW q \in Call PROVE Overtaken(q)'
    BY <1>1, <1>2, <1>3, <1>11 DEF AccessClub, Proceed, Shapes, SessionInv, InHand,
       Overtaken, Issues, ClaimsOf, Genuine
  <2> QED BY <2>1, <2>2, <2>3, <2>4 DEF SessionInv
<1>12. ASSUME NEW s \in Call, StoreToken(s) PROVE SessionInv'
  <2>1. Shapes'
    BY <1>2, <1>3, <1>12, ClaimsRead, ClubRead DEF StoreToken, Store, Proceed, Shapes,
       SessionInv, InHand, Steps, Ended, Issues, Kind, Genuine, Claims, Token
  <2>2. ASSUME NEW q \in Call PROVE InHand(q)'
    BY <1>1, <1>2, <1>3, <1>12, ClaimsRead, ClubRead DEF StoreToken, Store, Proceed, Shapes,
       SessionInv, InHand, Steps, Issues, Kind, findOneIncludingSystem, Live, Genuine,
       Claims, Token, ClaimsOf
  <2>3. ASSUME NEW q \in Call PROVE StaysOut(q)'
    BY <1>1, <1>2, <1>3, <1>12 DEF StoreToken, Store, Proceed, Shapes, SessionInv, InHand,
       Steps, StaysOut, findOneIncludingSystem, Live, Kind
  <2>4. ASSUME NEW q \in Call PROVE Overtaken(q)'
    BY <1>1, <1>2, <1>3, <1>12 DEF StoreToken, Store, Proceed, Shapes, SessionInv, InHand,
       Overtaken, Issues, ClaimsOf, Genuine
  <2> QED BY <2>1, <2>2, <2>3, <2>4 DEF SessionInv
<1>13. ASSUME NEW s \in Call, StoreLogout(s) PROVE SessionInv'
  <2>1. Shapes'
    BY <1>2, <1>3, <1>13, ClaimsRead, ClubRead DEF StoreLogout, Store, Proceed, Shapes,
       SessionInv, InHand, Steps, Ended, Issues, Kind, Genuine, Claims, Token
  <2>2. ASSUME NEW q \in Call PROVE InHand(q)'
    BY <1>1, <1>2, <1>3, <1>13, ClaimsRead, ClubRead DEF StoreLogout, Store, Proceed,
       Shapes, SessionInv, InHand, Steps, Issues, Kind, findOneIncludingSystem, Live,
       Genuine, Claims, Token, ClaimsOf
  <2>3. ASSUME NEW q \in Call PROVE StaysOut(q)'
    BY <1>1, <1>2, <1>3, <1>13 DEF StoreLogout, Store, Proceed, Shapes, SessionInv, InHand,
       Steps, StaysOut, findOneIncludingSystem, Live, Kind
  <2>4. ASSUME NEW q \in Call PROVE Overtaken(q)'
    BY <1>1, <1>2, <1>3, <1>13 DEF StoreLogout, Store, Proceed, Shapes, SessionInv, InHand,
       Overtaken, Issues, ClaimsOf, Genuine
  <2> QED BY <2>1, <2>2, <2>3, <2>4 DEF SessionInv
<1>14. ASSUME NEW s \in Call, Fail(s) PROVE SessionInv'
  <2>1. Shapes'
    BY <1>2, <1>3, <1>14, ClaimsRead, ClubRead DEF Fail, Proceed, Shapes, SessionInv,
       InHand, Steps, Ended, Issues, Kind, Genuine, Claims, Token
  <2>2. ASSUME NEW q \in Call PROVE InHand(q)'
    BY <1>1, <1>2, <1>3, <1>14, ClaimsRead, ClubRead DEF Fail, Proceed, Shapes, SessionInv,
       InHand, Steps, Issues, Kind, findOneIncludingSystem, Live, Genuine, Claims, Token,
       ClaimsOf
  <2>3. ASSUME NEW q \in Call PROVE StaysOut(q)'
    BY <1>1, <1>2, <1>3, <1>14 DEF Fail, Proceed, Shapes, SessionInv, InHand, Steps,
       StaysOut, findOneIncludingSystem, Live, Kind
  <2>4. ASSUME NEW q \in Call PROVE Overtaken(q)'
    BY <1>1, <1>2, <1>3, <1>14 DEF Fail, Proceed, Shapes, SessionInv, InHand, Overtaken,
       Issues, ClaimsOf, Genuine
  <2> QED BY <2>1, <2>2, <2>3, <2>4 DEF SessionInv
<1>15. CASE UNCHANGED sessionVars
  <2>1. Shapes'
    BY <1>2, <1>15 DEF sessionVars, SessionInv, Shapes
  <2>2. ASSUME NEW q \in Call PROVE InHand(q)'
    BY <1>1, <1>2, <1>15 DEF sessionVars, SessionInv, InHand, Issues, Claims
  <2>3. ASSUME NEW q \in Call PROVE StaysOut(q)'
    BY <1>1, <1>3, <1>15 DEF sessionVars, SessionInv, InHand, StaysOut
  <2>4. ASSUME NEW q \in Call PROVE Overtaken(q)'
    BY <1>15 DEF sessionVars, SessionInv, Overtaken
  <2> QED BY <2>1, <2>2, <2>3, <2>4 DEF SessionInv
<1> QED BY <1>4, <1>5, <1>6, <1>7, <1>8, <1>9, <1>10, <1>11, <1>12, <1>13, <1>14, <1>15
         DEF SessionNext, CallStep, allVars

LEMMA SessionAlways == SessionSpec => []Sound /\ []SessionInv
BY DirectoryKept, SoundAlways, InitSession, SessionStep, PTL DEF SessionSpec, Spec

\* Tokens, calls and tables are what they may be.
THEOREM SessionsTypeCorrect == SessionSpec => []SessionTypeOK
<1> Sound /\ SessionInv => SessionTypeOK
  BY DEF Sound, SessionInv, Shapes, InHand, Genuine, Issues, SessionTypeOK
<1> QED BY SessionAlways, PTL

\* No call that arrives with a token of a deleted user succeeds.
THEOREM DeletedUserIsOut == SessionSpec => []DeletedUserStaysOut
<1> SessionInv => DeletedUserStaysOut
  BY DEF SessionInv, StaysOut, DeletedUserStaysOut
<1> QED BY SessionAlways, PTL

\* After a logout only a login, or a refresh that had passed its comparison
\* before, starts the session again.
THEOREM LoggedOutIsOut == SessionSpec => LoggedOutStaysOut
<1> DEFINE Stays == \A u \in UserId :
                      refresh_token[u] = LoggedOut /\ refresh_token'[u] # LoggedOut
                      => StartsAgain(u, Logins \cup overtaken)
<1>1. Sound /\ SessionInv /\ [SessionNext]_allVars => Stays
  <2> SUFFICES ASSUME Sound, SessionInv, [SessionNext]_allVars, NEW u \in UserId,
                      refresh_token[u] = LoggedOut, refresh_token'[u] # LoggedOut
               PROVE  StartsAgain(u, Logins \cup overtaken)
    OBVIOUS
  <2>1. PICK s \in Call : StoreToken(s) \/ StoreLogout(s)
    BY DEF SessionNext, allVars, sessionVars, Tick, ArriveLogin, ArriveWithToken, Arrive,
           CallStep, LoginUser, RefreshUser, AccessUser, SignClub, AccessClub, Fail
  <2>2. StoreToken(s)
    BY <2>1 DEF StoreLogout, Store, SessionInv, Shapes
  <2>3. made[s].sub = u
    BY <2>2 DEF StoreToken, Store, SessionInv, Shapes
  <2>4. /\ step[s] = "store" /\ step'[s] = "done" /\ call[s] # Null
        /\ call[s].kind \in {"login", "refresh"}
    BY <2>2 DEF StoreToken, Proceed, SessionInv, Shapes, InHand
  <2>5. s \in Logins \cup overtaken
    BY <2>3, <2>4 DEF SessionInv, Overtaken, Logins
  <2> QED BY <2>3, <2>4, <2>5 DEF StartsAgain, SessionInv, Shapes
<1> HIDE DEF Stays
<1>2. SessionSpec => [][Stays]_allVars
  BY <1>1, SessionAlways, PTL DEF SessionSpec
<1> QED BY <1>2 DEF Stays, LoggedOutStaysOut

\* With the constraint of the database an access token of the president of a
\* live club is never refused for another club of the same user.
THEOREM PresidentIsAccepted ==
    ASSUME UniquePresident, \A t \in Start : Constrained(t)
    PROVE  SessionSpec => PresidedClubIsAccepted
<1> DEFINE Accepted ==
      \A s \in Call :
         /\ step[s] = "club" /\ step'[s] = "refused"
         /\ call[s].arg.club_id # Null
         => LET t == call[s].arg IN
            ~(LiveClub(t.club_id) /\ clubs[t.club_id].president_id = t.sub)
<1>1. SessionInv /\ OneClubEach /\ [SessionNext]_allVars => Accepted
  <2> SUFFICES ASSUME SessionInv, OneClubEach, [SessionNext]_allVars,
                      NEW s \in Call, step[s] = "club", step'[s] = "refused",
                      call[s].arg.club_id # Null, LiveClub(call[s].arg.club_id),
                      clubs[call[s].arg.club_id].president_id = call[s].arg.sub
               PROVE  FALSE
    OBVIOUS
  <2> DEFINE t == call[s].arg
  <2>1. AccessClub(s)
    <3>1. step # step'
      BY DEF SessionInv, Shapes
    <3>2. PICK q \in Call : CallStep(q) \/ (step[q] = "idle" /\ Proceed(q, "user"))
      BY <3>1 DEF SessionNext, allVars, sessionVars, Tick, ArriveLogin, ArriveWithToken, Arrive
    <3>3. \E place : Proceed(q, place)
      BY <3>2 DEF CallStep, LoginUser, RefreshUser, AccessUser, SignClub, AccessClub,
                  StoreToken, StoreLogout, Fail
    <3>4. q = s
      BY <3>3 DEF Proceed, SessionInv, Shapes
    <3>5. CallStep(s)
      BY <3>2, <3>4
    <3> QED BY <3>5 DEF CallStep, LoginUser, RefreshUser, AccessUser, SignClub, StoreToken,
                        StoreLogout, Fail, Proceed, SessionInv, Shapes
  <2>2. Genuine(t)
    BY <2>1 DEF AccessClub, SessionInv, Shapes, InHand
  <2>3. t.role = "president" /\ t.club_id \in ClubId /\ t.sub # Null
    BY <2>2, TablesAssumption DEF Genuine, Token, UserId
  <2>4. PICK c \in managedClub(t.sub, t.role) : c # t.club_id
    BY <2>1 DEF AccessClub, Proceed, SessionInv, Shapes
  <2>5. c \in ClubId /\ LiveClub(c) /\ clubs[c].president_id = t.sub
    BY <2>3, <2>4 DEF managedClub
  <2> QED BY <2>3, <2>4, <2>5 DEF OneClubEach, LiveClub
<1> HIDE DEF Accepted
<1>2. SessionSpec => []OneClubEach
  BY DirectoryKept, OneClubEachAlways
<1>3. SessionSpec => [][Accepted]_allVars
  BY <1>1, <1>2, SessionAlways, PTL DEF SessionSpec
<1> QED BY <1>3 DEF Accepted, PresidedClubIsAccepted
=============================================================================
