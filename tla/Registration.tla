---------------------------- MODULE Registration ----------------------------
(***************************************************************************)
(* Club registration with a one-time key: POST /v1/clubs.                  *)
(*                                                                         *)
(* An administrator issues a key; whoever holds it submits a form that     *)
(* either names an existing user as president or carries the account of a  *)
(* new one.  Several Node processes serve the forms over one PostgreSQL    *)
(* database (READ COMMITTED), so every SQL statement of                    *)
(* ClubsService.create is a step of its own, a transaction publishes its   *)
(* rows at COMMIT only, and the row lock that the key's UPDATE takes is    *)
(* held until COMMIT or ROLLBACK.                                          *)
(***************************************************************************)
EXTENDS Integers

CONSTANTS
    Key,             \* the one-time keys (randomUUID values, all distinct)
    Req,             \* the POST /v1/clubs requests; a request names its rows
    Staff,           \* the users that exist before any registration
    LoginId, Phone,  \* values of the two columns checked for duplicates
    Account,         \* [Staff -> login_id and phone] of the existing users
    Forms,           \* the bodies a client may submit
    TTL,             \* CLUB_REGISTRATION_EXPIRATION_TIME, in ticks
    MaxClock,        \* bound on the wall clock
    StampsNullable,  \* may one_time_keys.used_at & co. be NULL (sql.ddl: yes)
    UniquePresident, \* is there UNIQUE(clubs.president_id) (sql.ddl: no)
    Null

Accounts == [login_id : LoginId, phone : Phone]

\* A body that passed ExactlyOnePresidentSourceConstraint.
Form == {f \in [key : Key,
                president_id : Staff \cup Req \cup {Null},
                newPresident : Accounts \cup {Null}] :
            (f.president_id # Null) # (f.newPresident # Null)}

ASSUME ConstantsAssumption ==
    /\ Staff \cap Req = {}
    /\ Null \notin Staff \cup Req \cup Accounts \cup Forms \cup Nat
    /\ Account \in [Staff -> Accounts]
    /\ Forms \subseteq Form
    /\ TTL \in Nat /\ MaxClock \in Nat
    /\ StampsNullable \in BOOLEAN /\ UniquePresident \in BOOLEAN

VARIABLES
    clock,  \* Date.now()
    keys,   \* committed rows of one_time_keys
    users,  \* committed rows of users
    clubs,  \* committed rows of clubs
    form,   \* the body each request carries
    pc,     \* the statement each request executes next
    at      \* the new Date() a request put into its key UPDATE

vars == <<clock, keys, users, clubs, form, pc, at>>

\* Places inside the transaction, after the key UPDATE returned one row.
Holding == {"login", "phone", "insertUser", "insertClub", "commit", "rollback"}
InFlight == {"ensure", "peek", "begin", "consume"} \cup Holding
Ended == {"done", "refused", "failed"}

KeyRow == [state : {"absent", "stored", "error"},
           expiredAt : Nat, usedAt : Nat \cup {Null}]
UserRow == [id : Staff \cup Req, login_id : LoginId, phone : Phone]
ClubRow == [id : Req, president_id : Staff \cup Req]

NewPresident(r) == form[r].newPresident # Null

\* The rows the transaction of r inserts.
President(r) == [id |-> r, login_id |-> form[r].newPresident.login_id,
                           phone |-> form[r].newPresident.phone]
Club(r) == [id |-> r, president_id |-> IF NewPresident(r) THEN r
                                       ELSE form[r].president_id]

\* The transactions that hold the row lock of key k.
LockHolders(k) == {q \in Req : pc[q] \in Holding /\ form[q].key = k}

Goto(r, place) == pc' = [pc EXCEPT ![r] = place]

Init ==
    /\ clock = 0
    /\ keys = [k \in Key |-> [state |-> "absent", expiredAt |-> 0, usedAt |-> Null]]
    /\ users = {[id |-> s, login_id |-> Account[s].login_id,
                           phone |-> Account[s].phone] : s \in Staff}
    /\ clubs = {}
    /\ form = [r \in Req |-> Null]
    /\ pc = [r \in Req |-> "idle"]
    /\ at = [r \in Req |-> 0]

Tick == /\ clock < MaxClock
        /\ clock' = clock + 1
        /\ UNCHANGED <<keys, users, clubs, form, pc, at>>

-----------------------------------------------------------------------------
(* Issuing a key.  Nobody knows the key before the INSERT answered, so the *)
(* computation of expiredAt and the INSERT are one step.  The INSERT gives *)
(* key and expired_at only: the other stamps take their default, NULL      *)
(* where the table has none.                                               *)

createRegistrationUrl(k) ==
    /\ keys[k].state = "absent"
    /\ keys' = [keys EXCEPT ![k] =
                  [state |-> IF StampsNullable THEN "stored" ELSE "error",
                   expiredAt |-> clock + TTL, usedAt |-> Null]]
    /\ UNCHANGED <<clock, users, clubs, form, pc, at>>

-----------------------------------------------------------------------------
(* ClubsService.create                                                     *)

Submit(r, f) ==
    /\ pc[r] = "idle"
    /\ form' = [form EXCEPT ![r] = f]
    /\ Goto(r, IF f.newPresident = Null THEN "ensure" ELSE "peek")
    /\ UNCHANGED <<clock, keys, users, clubs, at>>

\* validateRecruitDateRange throws before the first await.
RejectDates(r) ==
    /\ pc[r] = "idle"
    /\ Goto(r, "refused")
    /\ UNCHANGED <<clock, keys, users, clubs, form, at>>

\* Reads outside the transaction.
ensurePresidentExists(r) ==
    /\ pc[r] = "ensure"
    /\ Goto(r, IF \E u \in users : u.id = form[r].president_id
               THEN "begin" ELSE "refused")
    /\ UNCHANGED <<clock, keys, users, clubs, form, at>>

isOneTimeKeyValid(k) ==
    /\ keys[k].state = "stored"
    /\ keys[k].expiredAt >= clock
    /\ keys[k].usedAt = Null

PeekKey(r) ==
    /\ pc[r] = "peek"
    /\ Goto(r, IF isOneTimeKeyValid(form[r].key) THEN "begin" ELSE "refused")
    /\ UNCHANGED <<clock, keys, users, clubs, form, at>>

\* START TRANSACTION; the parameters of the UPDATE are fixed here.
Begin(r) ==
    /\ pc[r] = "begin"
    /\ at' = [at EXCEPT ![r] = clock]
    /\ Goto(r, "consume")
    /\ UNCHANGED <<clock, keys, users, clubs, form>>

\* (slip) usedAt: IsNull() is missing from the WHERE
Consumable_usedToo(k, now) == keys[k].state = "stored" /\ keys[k].expiredAt > now

\* (slip) MoreThanOrEqual(new Date()) instead of MoreThan
Consumable_lastInstant(k, now) ==
    keys[k].state = "stored" /\ keys[k].usedAt = Null /\ keys[k].expiredAt >= now

\* The WHERE of the UPDATE, over the committed row.
Consumable(k, now) ==
    /\ keys[k].state = "stored"
    /\ keys[k].usedAt = Null
    /\ keys[k].expiredAt > now

\* (slip) the key is looked up and marked later, without locking its row
consumeOneTimeKey_findThenSave(r) ==
    /\ pc[r] = "consume"
    /\ Goto(r, IF ~Consumable(form[r].key, at[r]) THEN "refused"
               ELSE IF NewPresident(r) THEN "login" ELSE "insertClub")
    /\ UNCHANGED <<clock, keys, users, clubs, form, at>>

\* (slip) the UPDATE goes to oneTimeKeyRepository and not to the manager: it
\* commits on its own
consumeOneTimeKey_noManager(r) ==
    /\ pc[r] = "consume"
    /\ \/ /\ ~Consumable(form[r].key, at[r])
          /\ Goto(r, "refused")
          /\ UNCHANGED keys
       \/ /\ Consumable(form[r].key, at[r])
          /\ keys' = [keys EXCEPT ![form[r].key].usedAt = at[r]]
          /\ Goto(r, IF NewPresident(r) THEN "login" ELSE "insertClub")
    /\ UNCHANGED <<clock, users, clubs, form, at>>

\* UPDATE one_time_keys.  A row that matches and is locked makes the
\* statement wait; when the holder ends, PostgreSQL evaluates the WHERE anew
\* on the row as committed.
consumeOneTimeKey(r) ==
    /\ pc[r] = "consume"
    /\ \/ /\ ~Consumable(form[r].key, at[r])
          /\ Goto(r, "refused")
       \/ /\ Consumable(form[r].key, at[r])
          /\ LockHolders(form[r].key) = {}
          /\ Goto(r, IF NewPresident(r) THEN "login" ELSE "insertClub")
    /\ UNCHANGED <<clock, keys, users, clubs, form, at>>

\* UsersService.create inside the transaction: two duplicate checks, INSERT.
CheckLoginId(r) ==
    /\ pc[r] = "login"
    /\ Goto(r, IF \E u \in users : u.login_id = form[r].newPresident.login_id
               THEN "rollback" ELSE "phone")
    /\ UNCHANGED <<clock, keys, users, clubs, form, at>>

CheckPhone(r) ==
    /\ pc[r] = "phone"
    /\ Goto(r, IF \E u \in users : u.phone = form[r].newPresident.phone
               THEN "rollback" ELSE "insertUser")
    /\ UNCHANGED <<clock, keys, users, clubs, form, at>>

\* (slip) usersService.create is called without the manager: it commits alone
InsertUser_noManager(r) ==
    /\ pc[r] = "insertUser"
    /\ users' = users \cup {President(r)}
    /\ Goto(r, "insertClub")
    /\ UNCHANGED <<clock, keys, clubs, form, at>>

InsertUser(r) ==
    /\ pc[r] = "insertUser"
    /\ Goto(r, "insertClub")
    /\ UNCHANGED <<clock, keys, users, clubs, form, at>>

\* (slip) the table lacks the constraint
InsertClub_notUnique(r) ==
    /\ pc[r] = "insertClub"
    /\ Goto(r, "commit")
    /\ UNCHANGED <<clock, keys, users, clubs, form, at>>

\* With the unique constraint an INSERT fails on a committed row of the same
\* president and waits for a transaction that has inserted one.
InsertClub(r) ==
    /\ pc[r] = "insertClub"
    /\ IF ~UniquePresident THEN Goto(r, "commit")
       ELSE IF \E c \in clubs : c.president_id = Club(r).president_id
            THEN Goto(r, "rollback")
            ELSE /\ \A q \in Req : pc[q] = "commit" =>
                       Club(q).president_id # Club(r).president_id
                 /\ Goto(r, "commit")
    /\ UNCHANGED <<clock, keys, users, clubs, form, at>>

Commit(r) ==
    /\ pc[r] = "commit"
    /\ keys' = [keys EXCEPT ![form[r].key].usedAt = at[r]]
    /\ users' = users \cup (IF NewPresident(r) THEN {President(r)} ELSE {})
    /\ clubs' = clubs \cup {Club(r)}
    /\ Goto(r, "done")
    /\ UNCHANGED <<clock, form, at>>

\* (slip) the query runner is neither rolled back nor released after a throw
Rollback_forgotten(r) == pc[r] = "rollback" /\ UNCHANGED vars

Rollback(r) ==
    /\ pc[r] = "rollback"
    /\ Goto(r, "refused")
    /\ UNCHANGED <<clock, keys, users, clubs, form, at>>

\* A statement fails, the connection drops or the process is restarted: the
\* database discards the open transaction and the client gets no club.
Abort(r) ==
    /\ pc[r] \in InFlight
    /\ Goto(r, "failed")
    /\ UNCHANGED <<clock, keys, users, clubs, form, at>>

-----------------------------------------------------------------------------

Serve(r) ==
    \/ ensurePresidentExists(r) \/ PeekKey(r) \/ Begin(r) \/ consumeOneTimeKey(r)
    \/ CheckLoginId(r) \/ CheckPhone(r) \/ InsertUser(r) \/ InsertClub(r)
    \/ Commit(r) \/ Rollback(r)

Next ==
    \/ Tick
    \/ \E k \in Key : createRegistrationUrl(k)
    \/ \E r \in Req : \/ \E f \in Forms : Submit(r, f)
                      \/ RejectDates(r)
                      \/ Serve(r)
                      \/ Abort(r)

Spec == Init /\ [][Next]_vars

\* Node keeps running the handlers it started and PostgreSQL answers every
\* statement; nothing forces a client to submit or the clock to advance.
FairSpec == Spec /\ \A r \in Req : WF_vars(Serve(r))
-----------------------------------------------------------------------------
(* Properties                                                              *)

\* Every table holds well-formed rows, and a request its form once submitted.
TypeOK ==
    /\ clock \in 0..MaxClock
    /\ keys \in [Key -> KeyRow]
    /\ users \subseteq UserRow
    /\ clubs \subseteq ClubRow
    /\ form \in [Req -> Forms \cup {Null}]
    /\ pc \in [Req -> {"idle"} \cup InFlight \cup Ended]
    /\ at \in [Req -> 0..MaxClock]
    /\ \A r \in Req : pc[r] \in InFlight \cup {"done"} => form[r] # Null

\* However many requests race with the same key, at most one of them ends up
\* with a club (the conditional UPDATE and its row lock).
OneClubPerKey ==
    \A c, d \in clubs : form[c.id].key = form[d.id].key => c.id = d.id

\* A key is marked as used exactly when a club was registered with it: a
\* request that failed half-way gives the key back for a retry.
KeySpentIffClub ==
    \A k \in Key :
        keys[k].usedAt # Null <=> \E c \in clubs : form[c.id].key = k

\* User, key and club live and die together: a request has a club iff it was
\* answered with one, and has an account iff it has a club that is presided
\* by that very account; refused and failed requests leave no row at all.
AllOrNothing ==
    \A r \in Req :
        /\ (pc[r] = "done") <=> (\E c \in clubs : c.id = r)
        /\ (\E u \in users : u.id = r)
              <=> (\E c \in clubs : c.id = r /\ c.president_id = r /\ NewPresident(r))

\* A key is never used at or after its expiry (peek accepts the very instant
\* of expiry, the UPDATE does not).
UsedBeforeExpiry ==
    \A k \in Key : keys[k].usedAt # Null => keys[k].usedAt < keys[k].expiredAt

\* The key UPDATE turns a client away only for a reason that lasts: the key
\* was never issued, had expired, or somebody's club already carries it.  It
\* is never refused on account of a registration that was rolled back.
RefusalIsJustified ==
    [][\A r \in Req :
         pc[r] = "consume" /\ pc'[r] = "refused" =>
            \/ keys[form[r].key].state # "stored"
            \/ keys[form[r].key].expiredAt <= at[r]
            \/ \E c \in clubs : form[c.id].key = form[r].key]_vars

\* With the constraint of BaselineSchema nobody presides two clubs, even when
\* the two INSERTs race under different keys.
OneClubPerPresident ==
    \A c, d \in clubs : c.president_id = d.president_id => c.id = d.id

\* Every submitted form is answered: waiting for row locks and for unique
\* index entries never ends in a deadlock or in a lock left behind.
EveryFormIsAnswered ==
    \A r \in Req : (pc[r] \in InFlight) ~> (pc[r] \in Ended)

\* Administrators get the key they asked for.
IssuingSucceeds == \A k \in Key : keys[k].state # "error"

\* The statements implement the one-step registration.
Promise == INSTANCE OneShotRegistration WITH
    issued <- {k \in Key : keys[k].state = "stored"},
    spent <- {k \in Key : keys[k].usedAt # Null},
    registered <- {<<form[c.id].key, c.id>> : c \in clubs},
    accounts <- {r \in Req : \E u \in users : u.id = r}

RegisterInOneStep == Promise!Spec
=============================================================================
