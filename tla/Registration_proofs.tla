------------------------ MODULE Registration_proofs ------------------------
(***************************************************************************)
(* The theorems about Registration, for any number of keys, requests,      *)
(* users and forms and for both schemas.                                   *)
(***************************************************************************)
EXTENDS Registration, TLAPS

\* A row lock has one holder.
OneLockHolder ==
    \A q, r \in Req : /\ pc[q] \in Holding /\ pc[r] \in Holding
                      /\ form[q].key = form[r].key
                      => q = r

\* While somebody holds the lock of a key, the committed row still says that
\* the key is stored and unused, and the statement that took it saw it alive.
LockedKeyIsOpen ==
    \A r \in Req : pc[r] \in Holding =>
        /\ keys[form[r].key].state = "stored"
        /\ keys[form[r].key].usedAt = Null
        /\ at[r] < keys[form[r].key].expiredAt

\* A club and a new president are committed by their own request only.
RowsAreCommitted ==
    /\ \A c \in clubs : pc[c.id] = "done" /\ c = Club(c.id)
    /\ \A r \in Req : pc[r] = "done" => Club(r) \in clubs
    /\ \A u \in users : u.id \in Req => pc[u.id] = "done" /\ NewPresident(u.id)
    /\ \A r \in Req : pc[r] = "done" /\ NewPresident(r) => President(r) \in users

\* A used key points back to the request that committed with it.
SpentIffDone ==
    \A k \in Key :
        keys[k].usedAt # Null <=> \E r \in Req : pc[r] = "done" /\ form[r].key = k

OneDonePerKey ==
    \A q, r \in Req : /\ pc[q] = "done" /\ pc[r] = "done"
                      /\ form[q].key = form[r].key
                      => q = r

\* Only a stored key can be used.
UsedIsStored == \A k \in Key : keys[k].usedAt # Null => keys[k].state = "stored"

\* The places of a new president's transaction belong to such a form only.
AccountPlaces ==
    \A r \in Req : pc[r] \in {"login", "phone", "insertUser"} => NewPresident(r)

IInv == /\ TypeOK
        /\ OneLockHolder
        /\ LockedKeyIsOpen
        /\ RowsAreCommitted
        /\ SpentIffDone
        /\ OneDonePerKey
        /\ AccountPlaces
        /\ UsedIsStored
        /\ UsedBeforeExpiry
-----------------------------------------------------------------------------

\* The rows a request inserts are well formed: an account when the form has
\* one, and a club presided by that account or by the named user.
LEMMA RowsOfForm ==
    ASSUME TypeOK, NEW r \in Req, form[r] # Null
    PROVE  /\ form[r].key \in Key
           /\ Club(r) \in ClubRow
           /\ NewPresident(r) => President(r) \in UserRow
  <1>1. form[r] \in Form
    BY ConstantsAssumption DEF TypeOK
  <1>2. form[r].key \in Key
    BY <1>1 DEF Form
  <1>3. NewPresident(r) => form[r].newPresident \in Accounts
    BY <1>1 DEF Form, NewPresident
  <1>4. ~NewPresident(r) => form[r].president_id \in Staff \cup Req
    BY <1>1 DEF Form, NewPresident
  <1>5. QED
    BY <1>2, <1>3, <1>4 DEF Club, ClubRow, President, UserRow, Accounts

\* The statements that only move a request on, without publishing a row and
\* without taking a lock, preserve the invariant.
LEMMA MoveOn ==
    ASSUME IInv, NEW r \in Req,
           NEW p \in {"idle"} \cup InFlight \cup Ended,
           Goto(r, p), UNCHANGED <<clock, keys, users, clubs, form, at>>,
           pc[r] # "done", p # "done",
           p \in Holding => pc[r] \in Holding,
           p \in InFlight => form[r] # Null,
           p \in {"login", "phone", "insertUser"} => NewPresident(r)
    PROVE  IInv'
  <1>1. pc' = [pc EXCEPT ![r] = p] /\ pc \in [Req -> {"idle"} \cup InFlight \cup Ended]
    BY DEF Goto, IInv, TypeOK
  <1>2. \A q \in Req : pc'[q] = IF q = r THEN p ELSE pc[q]
    BY <1>1
  <1>3. \A q \in Req : pc'[q] = "done" <=> pc[q] = "done"
    BY <1>2
  <1>4. \A q \in Req : pc'[q] \in Holding => pc[q] \in Holding
    BY <1>2
  <1>5. TypeOK'
    BY <1>1, <1>2 DEF IInv, TypeOK
  <1>6. OneLockHolder' /\ LockedKeyIsOpen'
    BY <1>4 DEF IInv, OneLockHolder, LockedKeyIsOpen
  <1>7. RowsAreCommitted'
    <2>1. \A c \in clubs : c.id \in Req
      BY DEF IInv, TypeOK, ClubRow
    <2>2. QED
      BY <1>3, <2>1 DEF IInv, RowsAreCommitted, Club, President, NewPresident
  <1>8. SpentIffDone' /\ OneDonePerKey'
    BY <1>3 DEF IInv, SpentIffDone, OneDonePerKey
  <1>9. AccountPlaces' /\ UsedIsStored' /\ UsedBeforeExpiry'
    BY <1>2 DEF IInv, AccountPlaces, UsedIsStored, UsedBeforeExpiry, NewPresident
  <1>10. QED
    BY <1>5, <1>6, <1>7, <1>8, <1>9 DEF IInv

\* The clock and the issuing of keys disturb no request.
LEMMA TickStep == ASSUME IInv, Tick PROVE IInv'
  <1>1. TypeOK'
    BY ConstantsAssumption DEF IInv, TypeOK, Tick
  <1>2. RowsAreCommitted'
    BY DEF IInv, Tick, RowsAreCommitted, Club, President, NewPresident
  <1>3. QED
    BY <1>1, <1>2 DEF IInv, Tick, OneLockHolder, LockedKeyIsOpen, SpentIffDone,
       OneDonePerKey, AccountPlaces, NewPresident, UsedIsStored, UsedBeforeExpiry

LEMMA IssueStep ==
    ASSUME IInv, NEW k \in Key, createRegistrationUrl(k) PROVE IInv'
  <1> USE DEF createRegistrationUrl
  <1>1. clock \in Nat /\ clock + TTL \in Nat
    BY ConstantsAssumption DEF IInv, TypeOK
  <1>2. TypeOK'
    BY <1>1 DEF IInv, TypeOK, KeyRow
  <1>3. \A j \in Key : /\ keys'[j].usedAt # Null <=> keys[j].usedAt # Null
                       /\ keys[j].state = "stored" => keys'[j] = keys[j]
                       /\ keys[j].usedAt # Null => keys'[j] = keys[j]
    <2>1. keys[k].state = "absent" /\ keys[k].usedAt = Null
      BY DEF IInv, UsedIsStored
    <2>2. QED
      BY <2>1 DEF IInv, TypeOK, KeyRow
  <1>4. LockedKeyIsOpen'
    <2>1. \A r \in Req : pc[r] \in Holding => form[r].key \in Key
      BY RowsOfForm DEF IInv, TypeOK, InFlight
    <2>2. QED
      BY <1>3, <2>1 DEF IInv, LockedKeyIsOpen
  <1>5. RowsAreCommitted'
    BY DEF IInv, RowsAreCommitted, Club, President, NewPresident
  <1>6. UsedBeforeExpiry' /\ UsedIsStored' /\ SpentIffDone'
    BY <1>3 DEF IInv, UsedBeforeExpiry, UsedIsStored, SpentIffDone
  <1>7. QED
    BY <1>2, <1>4, <1>5, <1>6 DEF IInv, OneLockHolder, OneDonePerKey,
       AccountPlaces, NewPresident

\* A request that enters with a form, or fixes the parameters of its UPDATE.
LEMMA SubmitStep ==
    ASSUME IInv, NEW r \in Req, NEW f \in Forms, Submit(r, f) PROVE IInv'
  <1> USE DEF Submit, Goto
  <1>1. f # Null /\ pc[r] = "idle"
    BY ConstantsAssumption
  <1>2. TypeOK'
    BY <1>1 DEF IInv, TypeOK, InFlight, Holding, Ended
  <1>3. \A q \in Req : q # r => pc'[q] = pc[q] /\ form'[q] = form[q]
    BY DEF IInv, TypeOK
  <1>4. pc'[r] \notin Holding /\ pc'[r] # "done" /\ pc[r] # "done" /\ pc[r] \notin Holding
    BY <1>1 DEF IInv, TypeOK, Holding
  <1>5. OneLockHolder' /\ LockedKeyIsOpen' /\ OneDonePerKey'
    BY <1>3, <1>4 DEF IInv, OneLockHolder, LockedKeyIsOpen, OneDonePerKey
  <1>6. RowsAreCommitted'
    <2>1. \A c \in clubs : c.id \in Req
      BY DEF IInv, TypeOK, ClubRow
    <2>2. QED
      BY <1>3, <1>4, <2>1 DEF IInv, RowsAreCommitted, Club, President, NewPresident
  <1>7. SpentIffDone'
    BY <1>3, <1>4 DEF IInv, SpentIffDone
  <1>8. AccountPlaces' /\ UsedIsStored' /\ UsedBeforeExpiry'
    BY <1>3, <1>4 DEF IInv, AccountPlaces, NewPresident, UsedIsStored, UsedBeforeExpiry,
       Holding
  <1>9. QED
    BY <1>2, <1>5, <1>6, <1>7, <1>8 DEF IInv

LEMMA BeginStep ==
    ASSUME IInv, NEW r \in Req, Begin(r) PROVE IInv'
  <1> USE DEF Begin, Goto
  <1>1. pc[r] = "begin" /\ pc \in [Req -> {"idle"} \cup InFlight \cup Ended]
    BY DEF IInv, TypeOK
  <1>2. TypeOK'
    BY <1>1 DEF IInv, TypeOK, InFlight
  <1>3. \A q \in Req : q # r => pc'[q] = pc[q] /\ at'[q] = at[q]
    BY DEF IInv, TypeOK
  <1>4. pc'[r] = "consume"
    BY <1>1
  <1>5. OneLockHolder' /\ LockedKeyIsOpen' /\ OneDonePerKey'
    BY <1>1, <1>3, <1>4 DEF IInv, OneLockHolder, LockedKeyIsOpen, OneDonePerKey, Holding
  <1>6. RowsAreCommitted'
    <2>1. \A c \in clubs : c.id \in Req
      BY DEF IInv, TypeOK, ClubRow
    <2>2. QED
      BY <1>1, <1>3, <1>4, <2>1 DEF IInv, RowsAreCommitted, Club, President, NewPresident
  <1>7. SpentIffDone'
    BY <1>1, <1>3, <1>4 DEF IInv, SpentIffDone
  <1>8. AccountPlaces' /\ UsedIsStored' /\ UsedBeforeExpiry'
    BY <1>1, <1>3, <1>4 DEF IInv, AccountPlaces, NewPresident, UsedIsStored, UsedBeforeExpiry
  <1>9. QED
    BY <1>2, <1>5, <1>6, <1>7, <1>8 DEF IInv

\* The UPDATE that gets the row: it becomes the only holder of its key, and
\* sees the key unused.
LEMMA LockStep ==
    ASSUME IInv, NEW r \in Req, pc[r] = "consume",
           NEW p \in {"login", "insertClub"}, p = "login" => NewPresident(r),
           Consumable(form[r].key, at[r]), LockHolders(form[r].key) = {},
           Goto(r, p), UNCHANGED <<clock, keys, users, clubs, form, at>>
    PROVE  IInv'
  <1>1. pc' = [pc EXCEPT ![r] = p] /\ pc \in [Req -> {"idle"} \cup InFlight \cup Ended]
    BY DEF Goto, IInv, TypeOK
  <1>2. \A q \in Req : pc'[q] = IF q = r THEN p ELSE pc[q]
    BY <1>1
  <1>3. p \in Holding /\ p # "done" /\ \A q \in Req : pc'[q] = "done" <=> pc[q] = "done"
    BY <1>2 DEF Holding
  <1>4. TypeOK'
    BY <1>1, <1>2, <1>3 DEF IInv, TypeOK, InFlight
  <1>5. \A q \in Req : pc[q] \in Holding => form[q].key # form[r].key
    BY DEF LockHolders
  <1>6. OneLockHolder'
    BY <1>2, <1>5 DEF IInv, OneLockHolder
  <1>7. LockedKeyIsOpen'
    <2>1. form[r].key \in Key /\ at[r] \in Nat
      BY RowsOfForm, ConstantsAssumption DEF IInv, TypeOK, InFlight
    <2>2. keys[form[r].key].expiredAt \in Nat
      BY <2>1 DEF IInv, TypeOK, KeyRow
    <2>3. at[r] < keys[form[r].key].expiredAt
      BY <2>1, <2>2 DEF Consumable
    <2>4. QED
      BY <1>2, <2>3 DEF IInv, LockedKeyIsOpen, Consumable
  <1>8. RowsAreCommitted'
    <2>1. \A c \in clubs : c.id \in Req
      BY DEF IInv, TypeOK, ClubRow
    <2>2. QED
      BY <1>3, <2>1 DEF IInv, RowsAreCommitted, Club, President, NewPresident
  <1>9. SpentIffDone' /\ OneDonePerKey'
    BY <1>3 DEF IInv, SpentIffDone, OneDonePerKey
  <1>10. AccountPlaces' /\ UsedIsStored' /\ UsedBeforeExpiry'
    BY <1>2 DEF IInv, AccountPlaces, UsedIsStored, UsedBeforeExpiry, NewPresident
  <1>11. QED
    BY <1>4, <1>6, <1>7, <1>8, <1>9, <1>10 DEF IInv

\* COMMIT publishes the key stamp, the account and the club together.
LEMMA CommitStep ==
    ASSUME IInv, NEW r \in Req, Commit(r) PROVE IInv'
  <1> DEFINE k == form[r].key
  <1>1. pc[r] = "commit" /\ pc[r] \in Holding /\ form[r] # Null
    BY DEF Commit, IInv, TypeOK, InFlight, Holding
  <1>2. k \in Key /\ Club(r) \in ClubRow /\ (NewPresident(r) => President(r) \in UserRow)
    BY <1>1, RowsOfForm DEF IInv
  <1>3. at[r] \in Nat /\ at[r] # Null
    BY ConstantsAssumption DEF IInv, TypeOK
  <1>4. keys[k].state = "stored" /\ keys[k].usedAt = Null /\ at[r] < keys[k].expiredAt
    BY <1>1 DEF IInv, LockedKeyIsOpen
  <1>5. \A q \in Req : pc'[q] = IF q = r THEN "done" ELSE pc[q]
    BY DEF Commit, Goto, IInv, TypeOK
  <1>6. \A j \in Key : keys'[j] = IF j = k THEN [keys[k] EXCEPT !.usedAt = at[r]] ELSE keys[j]
    BY <1>2 DEF Commit, IInv, TypeOK
  <1>7. keys[k] \in KeyRow
    BY <1>2 DEF IInv, TypeOK
  <1>8. keys'[k].usedAt = at[r] /\ keys'[k].state = "stored"
        /\ keys'[k].expiredAt = keys[k].expiredAt
    BY <1>2, <1>4, <1>6, <1>7 DEF KeyRow
  <1>9. \A q \in Req : pc[q] = "done" => form[q].key # k
    BY <1>2, <1>4 DEF IInv, SpentIffDone
  <1>10. \A q \in Req : q # r /\ pc[q] \in Holding => form[q].key # k
    BY <1>1 DEF IInv, OneLockHolder
  <1>11. \A q \in Req : pc'[q] \in Holding => q # r /\ pc[q] \in Holding
    BY <1>5 DEF Holding
  <1>12. form' = form /\ at' = at
    BY DEF Commit
  <1>13. TypeOK'
    <2>1. keys' \in [Key -> KeyRow]
      BY <1>2, <1>3, <1>7 DEF Commit, IInv, TypeOK, KeyRow
    <2>2. users' \subseteq UserRow /\ clubs' \subseteq ClubRow
      BY <1>2 DEF Commit, IInv, TypeOK
    <2>3. pc' \in [Req -> {"idle"} \cup InFlight \cup Ended]
      BY DEF Commit, Goto, IInv, TypeOK, Ended
    <2>4. \A q \in Req : pc'[q] \in InFlight \cup {"done"} => form'[q] # Null
      BY <1>1, <1>5, <1>12 DEF IInv, TypeOK
    <2>5. QED
      BY <2>1, <2>2, <2>3, <2>4 DEF Commit, IInv, TypeOK
  <1>14. OneLockHolder'
    BY <1>11, <1>12 DEF IInv, OneLockHolder
  <1>15. LockedKeyIsOpen'
    <2>1. \A q \in Req : pc'[q] \in Holding => form[q].key \in Key
      BY <1>11, RowsOfForm DEF IInv, TypeOK, InFlight
    <2>2. \A q \in Req : pc'[q] \in Holding => keys'[form[q].key] = keys[form[q].key]
      BY <1>6, <1>10, <1>11, <2>1
    <2>3. QED
      BY <1>11, <1>12, <2>2 DEF IInv, LockedKeyIsOpen
  <1>16. RowsAreCommitted'
    <2>1. \A q : Club(q)' = Club(q) /\ President(q)' = President(q)
                 /\ NewPresident(q)' = NewPresident(q)
      BY <1>12 DEF Club, President, NewPresident
    <2>2. \A c \in clubs' : pc'[c.id] = "done" /\ c = Club(c.id)
      <3>1. \A c \in clubs : c.id \in Req
        BY DEF IInv, TypeOK, ClubRow
      <3>2. Club(r).id = r
        BY DEF Club
      <3>3. QED
        BY <1>5, <3>1, <3>2 DEF Commit, IInv, RowsAreCommitted
    <2>3. \A q \in Req : pc'[q] = "done" => Club(q) \in clubs'
      BY <1>5 DEF Commit, IInv, RowsAreCommitted
    <2>4. \A u \in users' : u.id \in Req => pc'[u.id] = "done" /\ NewPresident(u.id)
      <3>1. President(r).id = r
        BY DEF President
      <3>2. QED
        BY <1>5, <3>1 DEF Commit, IInv, RowsAreCommitted
    <2>5. \A q \in Req : pc'[q] = "done" /\ NewPresident(q) => President(q) \in users'
      BY <1>5 DEF Commit, IInv, RowsAreCommitted
    <2>6. QED
      BY <2>1, <2>2, <2>3, <2>4, <2>5 DEF RowsAreCommitted
  <1>17. SpentIffDone'
    <2>1. \A j \in Key : keys'[j].usedAt # Null
                           <=> \E q \in Req : pc'[q] = "done" /\ form[q].key = j
      <3>1. TAKE j \in Key
      <3>2. CASE j = k
        BY <1>3, <1>5, <1>8, <3>2
      <3>3. CASE j # k
        BY <1>1, <1>5, <1>6, <3>3 DEF IInv, SpentIffDone
      <3>4. QED
        BY <3>2, <3>3
    <2>2. QED
      BY <1>12, <2>1 DEF SpentIffDone
  <1>18. OneDonePerKey'
    BY <1>5, <1>9, <1>12 DEF IInv, OneDonePerKey
  <1>19. AccountPlaces'
    BY <1>5, <1>12 DEF IInv, AccountPlaces, NewPresident
  <1>20. UsedIsStored' /\ UsedBeforeExpiry'
    BY <1>4, <1>6, <1>8 DEF IInv, UsedIsStored, UsedBeforeExpiry
  <1>21. QED
    BY <1>13, <1>14, <1>15, <1>16, <1>17, <1>18, <1>19, <1>20 DEF IInv

\* No statement of the handler breaks the invariant.
LEMMA ServeStep ==
    ASSUME IInv, NEW r \in Req, Serve(r) PROVE IInv'
  <1> USE DEF InFlight, Holding, Ended
  <1>1. pc[r] \in InFlight => form[r] # Null
    BY DEF IInv, TypeOK
  <1>2. CASE ensurePresidentExists(r)
    BY <1>1, <1>2, MoveOn DEF ensurePresidentExists, Goto
  <1>3. CASE PeekKey(r)
    BY <1>1, <1>3, MoveOn DEF PeekKey, Goto
  <1>4. CASE Begin(r)
    BY <1>4, BeginStep
  <1>5. CASE consumeOneTimeKey(r)
    <2>1. CASE ~Consumable(form[r].key, at[r])
      BY <1>5, <2>1, MoveOn DEF consumeOneTimeKey, Goto
    <2>2. CASE Consumable(form[r].key, at[r])
      BY <1>5, <2>2, LockStep DEF consumeOneTimeKey, Goto
    <2>3. QED
      BY <2>1, <2>2
  <1>6. CASE CheckLoginId(r)
    BY <1>1, <1>6, MoveOn DEF CheckLoginId, Goto, IInv, AccountPlaces
  <1>7. CASE CheckPhone(r)
    BY <1>1, <1>7, MoveOn DEF CheckPhone, Goto, IInv, AccountPlaces
  <1>8. CASE InsertUser(r)
    BY <1>1, <1>8, MoveOn DEF InsertUser, Goto
  <1>9. CASE InsertClub(r)
    BY <1>1, <1>9, MoveOn DEF InsertClub, Goto
  <1>10. CASE Commit(r)
    BY <1>10, CommitStep
  <1>11. CASE Rollback(r)
    BY <1>1, <1>11, MoveOn DEF Rollback, Goto
  <1>12. QED
    BY <1>2, <1>3, <1>4, <1>5, <1>6, <1>7, <1>8, <1>9, <1>10, <1>11 DEF Serve

\* The inductive invariant holds from the start and across every step.
THEOREM Invariance == Spec => []IInv
  <1>1. Init => IInv
    <2> SUFFICES ASSUME Init PROVE IInv
      OBVIOUS
    <2> USE ConstantsAssumption DEF Init
    <2>1. TypeOK
      BY DEF TypeOK, KeyRow, UserRow, Accounts, InFlight, Holding
    <2>2. \A r \in Req : pc[r] = "idle"
      OBVIOUS
    <2>3. RowsAreCommitted
      BY <2>2 DEF RowsAreCommitted
    <2>4. QED
      BY <2>1, <2>2, <2>3 DEF IInv, OneLockHolder, LockedKeyIsOpen, SpentIffDone,
         OneDonePerKey, AccountPlaces, UsedIsStored, UsedBeforeExpiry, Holding
  <1>2. IInv /\ [Next]_vars => IInv'
    <2> SUFFICES ASSUME IInv, [Next]_vars PROVE IInv'
      OBVIOUS
    <2>1. CASE Tick
      BY <2>1, TickStep
    <2>2. ASSUME NEW k \in Key, createRegistrationUrl(k) PROVE IInv'
      BY <2>2, IssueStep
    <2>3. ASSUME NEW r \in Req, NEW f \in Forms, Submit(r, f) PROVE IInv'
      BY <2>3, SubmitStep
    <2>4. ASSUME NEW r \in Req, RejectDates(r) PROVE IInv'
      BY <2>4, MoveOn DEF RejectDates, Goto, InFlight, Ended, Holding
    <2>5. ASSUME NEW r \in Req, Serve(r) PROVE IInv'
      BY <2>5, ServeStep
    <2>6. ASSUME NEW r \in Req, Abort(r) PROVE IInv'
      BY <2>6, MoveOn DEF Abort, Goto, InFlight, Ended, Holding
    <2>7. CASE UNCHANGED vars
      BY <2>7 DEF vars, IInv, TypeOK, OneLockHolder, LockedKeyIsOpen, RowsAreCommitted,
         Club, President, NewPresident, SpentIffDone, OneDonePerKey, AccountPlaces,
         UsedIsStored, UsedBeforeExpiry
    <2>8. QED
      BY <2>1, <2>2, <2>3, <2>4, <2>5, <2>6, <2>7 DEF Next
  <1>3. QED
    BY <1>1, <1>2, PTL DEF Spec

\* Type correctness of the registration tables and requests.
THEOREM TypeCorrect == Spec => []TypeOK
  <1>1. IInv => TypeOK
    BY DEF IInv
  <1>2. QED
    BY <1>1, Invariance, PTL

\* A club's request has committed, hence its form has a key.
LEMMA ClubIsDone ==
    ASSUME IInv, NEW c \in clubs
    PROVE  c.id \in Req /\ pc[c.id] = "done" /\ form[c.id].key \in Key
  <1>1. c.id \in Req /\ pc[c.id] = "done"
    BY DEF IInv, TypeOK, ClubRow, RowsAreCommitted
  <1>2. QED
    BY <1>1, RowsOfForm DEF IInv, TypeOK

\* At most one club per key, for any number of racing requests.
THEOREM KeyMakesOneClub == Spec => []OneClubPerKey
  <1>1. IInv => OneClubPerKey
    BY ClubIsDone DEF IInv, OneDonePerKey, OneClubPerKey
  <1>2. QED
    BY <1>1, Invariance, PTL

\* A key is spent exactly by the club that was registered with it.
THEOREM KeyIsNeverLost == Spec => []KeySpentIffClub
  <1>1. IInv => KeySpentIffClub
    <2> SUFFICES ASSUME IInv, NEW k \in Key
                 PROVE  keys[k].usedAt # Null
                          <=> \E c \in clubs : form[c.id].key = k
      BY DEF KeySpentIffClub
    <2>1. \A r \in Req : pc[r] = "done" => Club(r) \in clubs /\ Club(r).id = r
      BY DEF IInv, RowsAreCommitted, Club
    <2>2. QED
      BY <2>1, ClubIsDone DEF IInv, SpentIffDone
  <1>2. QED
    BY <1>1, Invariance, PTL

\* User, key and club are committed together or not at all.
THEOREM Atomicity == Spec => []AllOrNothing
  <1>1. IInv => AllOrNothing
    <2> SUFFICES ASSUME IInv, NEW r \in Req
                 PROVE  /\ (pc[r] = "done") <=> (\E c \in clubs : c.id = r)
                        /\ (\E u \in users : u.id = r) <=>
                           (\E c \in clubs : c.id = r /\ c.president_id = r /\ NewPresident(r))
      BY DEF AllOrNothing
    <2>1. Club(r).id = r /\ (NewPresident(r) => Club(r).president_id = r)
      BY DEF Club
    <2>2. President(r).id = r
      BY DEF President
    <2>3. (pc[r] = "done") <=> (\E c \in clubs : c.id = r)
      BY <2>1, ClubIsDone DEF IInv, RowsAreCommitted
    <2>4. (\E u \in users : u.id = r) <=> pc[r] = "done" /\ NewPresident(r)
      BY <2>2 DEF IInv, RowsAreCommitted
    <2>5. QED
      BY <2>1, <2>3, <2>4 DEF IInv, RowsAreCommitted
  <1>2. QED
    BY <1>1, Invariance, PTL

\* No key is used at or after its expiry.
THEOREM ExpiryIsRespected == Spec => []UsedBeforeExpiry
  <1>1. IInv => UsedBeforeExpiry
    BY DEF IInv
  <1>2. QED
    BY <1>1, Invariance, PTL

\* The key UPDATE refuses a request only on account of a registration that
\* committed, of the expiry, or of a key that was never issued.
THEOREM RefusalsAreJustified == Spec => RefusalIsJustified
  <1>1. IInv /\ [Next]_vars =>
          \A r \in Req :
            pc[r] = "consume" /\ pc'[r] = "refused" =>
               \/ keys[form[r].key].state # "stored"
               \/ keys[form[r].key].expiredAt <= at[r]
               \/ \E c \in clubs : form[c.id].key = form[r].key
    <2> SUFFICES ASSUME IInv, [Next]_vars, NEW r \in Req,
                        pc[r] = "consume", pc'[r] = "refused"
                 PROVE  \/ keys[form[r].key].state # "stored"
                        \/ keys[form[r].key].expiredAt <= at[r]
                        \/ \E c \in clubs : form[c.id].key = form[r].key
      OBVIOUS
    <2>1. consumeOneTimeKey(r)
      <3>1. pc \in [Req -> {"idle"} \cup InFlight \cup Ended]
        BY DEF IInv, TypeOK
      <3>2. ASSUME NEW q \in Req, NEW p, Goto(q, p), pc[q] # "consume" \/ p # "refused"
            PROVE  FALSE
        BY <3>1, <3>2 DEF Goto
      <3>3. ASSUME NEW q \in Req, Serve(q) PROVE consumeOneTimeKey(r)
        <4>1. consumeOneTimeKey(q)
          BY <3>2, <3>3 DEF Serve, ensurePresidentExists, PeekKey, Begin, CheckLoginId,
             CheckPhone, InsertUser, InsertClub, Commit, Rollback
        <4>2. pc' = [pc EXCEPT ![q] = pc'[q]]
          BY <3>1, <4>1 DEF consumeOneTimeKey, Goto
        <4>3. q = r
          BY <3>1, <4>2
        <4>4. QED
          BY <4>1, <4>3
      <3>4. QED
        BY <3>1, <3>2, <3>3 DEF Next, vars, Tick, createRegistrationUrl, Submit,
           RejectDates, Abort
    <2>2. ~Consumable(form[r].key, at[r])
      BY <2>1, pc[r] = "consume", pc'[r] = "refused"
      DEF consumeOneTimeKey, Goto, IInv, TypeOK
    <2>3. form[r].key \in Key /\ at[r] \in Int
      BY RowsOfForm, ConstantsAssumption DEF IInv, TypeOK, InFlight
    <2>4. keys[form[r].key].expiredAt \in Int
      BY <2>3 DEF IInv, TypeOK, KeyRow
    <2>5. CASE keys[form[r].key].usedAt # Null
      <3>1. PICK q \in Req : pc[q] = "done" /\ form[q].key = form[r].key
        BY <2>3, <2>5 DEF IInv, SpentIffDone
      <3>2. Club(q) \in clubs /\ Club(q).id = q
        BY <3>1 DEF IInv, RowsAreCommitted, Club
      <3>3. QED
        BY <3>1, <3>2
    <2>6. QED
      BY <2>2, <2>3, <2>4, <2>5 DEF Consumable
  <1>2. QED
    BY <1>1, Invariance, PTL DEF Spec, RefusalIsJustified

-----------------------------------------------------------------------------
(* One club per president                                                  *)

\* The entries of the unique index: those of committed clubs, and those of the
\* transactions that have inserted a club and have not committed yet.  No two
\* of them are the same.
Reserved ==
    /\ OneClubPerPresident
    /\ \A r \in Req : pc[r] = "commit" =>
          /\ \A c \in clubs : c.president_id # Club(r).president_id
          /\ \A q \in Req : /\ pc[q] = "commit"
                             /\ Club(q).president_id = Club(r).president_id
                             => q = r

\* Whoever is to be "commit" was there before or has just got there.
LEMMA ReservedKept ==
    ASSUME IInv, Reserved, clubs' = clubs,
           \A q \in Req : pc'[q] = "commit" => pc[q] = "commit" /\ form'[q] = form[q]
    PROVE  Reserved'
  <1>1. \A q \in Req : pc'[q] = "commit" => Club(q)' = Club(q)
    BY DEF Club, NewPresident
  <1>2. OneClubPerPresident'
    BY DEF Reserved, OneClubPerPresident
  <1>3. QED
    BY <1>1, <1>2 DEF Reserved

LEMMA ReservedStep ==
    ASSUME UniquePresident, IInv, Reserved, [Next]_vars
    PROVE  Reserved'
  <1>1. pc \in [Req -> {"idle"} \cup InFlight \cup Ended]
    BY DEF IInv, TypeOK
  <1>2. ASSUME NEW r \in Req, NEW p, Goto(r, p), NEW q \in Req
        PROVE  pc'[q] = IF q = r THEN p ELSE pc[q]
    BY <1>1, <1>2 DEF Goto
  <1>3. CASE Tick \/ (\E k \in Key : createRegistrationUrl(k)) \/ UNCHANGED vars
    BY <1>3, ReservedKept DEF Tick, createRegistrationUrl, vars
  <1>4. ASSUME NEW r \in Req, NEW f \in Forms, Submit(r, f) PROVE Reserved'
    <2>1. \A q \in Req : pc'[q] = "commit" => pc[q] = "commit" /\ q # r
      BY <1>2, <1>4 DEF Submit
    <2>2. \A q \in Req : q # r => form'[q] = form[q]
      BY <1>4 DEF Submit, IInv, TypeOK
    <2>3. QED
      BY <1>4, <2>1, <2>2, ReservedKept DEF Submit
  <1>5. ASSUME NEW r \in Req, NEW p, Goto(r, p), p # "commit", UNCHANGED <<clubs, form>>
        PROVE  Reserved'
    <2>1. \A q \in Req : pc'[q] = "commit" => pc[q] = "commit"
      BY <1>2, <1>5
    <2>2. QED
      BY <1>5, <2>1, ReservedKept
  <1>6. ASSUME NEW r \in Req, InsertClub(r) PROVE Reserved'
    <2>1. CASE \E c \in clubs : c.president_id = Club(r).president_id
      BY <1>5, <1>6, <2>1, UniquePresident DEF InsertClub
    <2>2. CASE ~ \E c \in clubs : c.president_id = Club(r).president_id
      <3>1. /\ Goto(r, "commit") /\ UNCHANGED <<clubs, form>>
            /\ \A q \in Req : pc[q] = "commit" =>
                  Club(q).president_id # Club(r).president_id
        BY <1>6, <2>2, UniquePresident DEF InsertClub
      <3>2. \A q \in Req : Club(q)' = Club(q)
        BY <3>1 DEF Club, NewPresident
      <3>3. \A q \in Req : pc'[q] = "commit" => q = r \/ pc[q] = "commit"
        BY <1>2, <3>1
      <3>4. OneClubPerPresident'
        BY <3>1 DEF Reserved, OneClubPerPresident
      <3>5. QED
        BY <2>2, <3>1, <3>2, <3>3, <3>4 DEF Reserved
    <2>3. QED
      BY <2>1, <2>2
  <1>7. ASSUME NEW r \in Req, Commit(r) PROVE Reserved'
    <2>1. pc[r] = "commit" /\ clubs' = clubs \cup {Club(r)} /\ form' = form
      BY <1>7 DEF Commit
    <2>2. \A q \in Req : pc'[q] = "commit" => pc[q] = "commit" /\ q # r
      BY <1>2, <1>7 DEF Commit
    <2>3. \A q \in Req : Club(q)' = Club(q)
      BY <2>1 DEF Club, NewPresident
    <2>4. OneClubPerPresident'
      BY <2>1 DEF Reserved, OneClubPerPresident
    <2>5. QED
      BY <2>1, <2>2, <2>3, <2>4 DEF Reserved
  <1>8. ASSUME NEW r \in Req, Serve(r) PROVE Reserved'
    <2>1. CASE InsertClub(r) \/ Commit(r)
      BY <1>6, <1>7, <2>1
    <2>2. CASE \/ ensurePresidentExists(r) \/ PeekKey(r) \/ Begin(r) \/ consumeOneTimeKey(r)
              \/ CheckLoginId(r) \/ CheckPhone(r) \/ InsertUser(r) \/ Rollback(r)
      BY <1>5, <2>2 DEF ensurePresidentExists, PeekKey, Begin, consumeOneTimeKey,
         CheckLoginId, CheckPhone, InsertUser, Rollback
    <2>3. QED
      BY <1>8, <2>1, <2>2 DEF Serve
  <1>9. ASSUME NEW r \in Req, RejectDates(r) \/ Abort(r) PROVE Reserved'
    BY <1>5, <1>9 DEF RejectDates, Abort
  <1>10. QED
    BY <1>3, <1>4, <1>8, <1>9 DEF Next

\* With the unique constraint nobody presides two clubs, whatever number of
\* transactions race under different keys.
THEOREM PresidentsHaveOneClub ==
    ASSUME UniquePresident PROVE Spec => []OneClubPerPresident
  <1>1. Init => Reserved
    BY DEF Init, Reserved, OneClubPerPresident
  <1>2. IInv /\ Reserved /\ [Next]_vars => Reserved'
    BY ReservedStep, UniquePresident
  <1>3. Reserved => OneClubPerPresident
    BY DEF Reserved
  <1>4. QED
    BY <1>1, <1>2, <1>3, Invariance, PTL DEF Spec

-----------------------------------------------------------------------------
(* Refinement                                                              *)

\* Steps that publish nothing are invisible to the specification of the promise.
LEMMA Invisible ==
    ASSUME IInv, UNCHANGED <<keys, users, clubs>>,
           \A r \in Req : pc[r] = "done" => form'[r] = form[r]
    PROVE  UNCHANGED Promise!ovars
  <1>1. \A c \in clubs : form'[c.id] = form[c.id]
    BY ClubIsDone
  <1>2. QED
    BY <1>1 DEF Promise!ovars

\* COMMIT is where the registration of the promise happens.
LEMMA CommitRegisters ==
    ASSUME IInv, NEW r \in Req, Commit(r), NEW k \in Key, form[r].key = k
    PROVE  Promise!Register(r, k)
  <1> DEFINE Spent == {j \in Key : keys[j].usedAt # Null}
             Registered == {<<form[c.id].key, c.id>> : c \in clubs}
             WithAccount == {q \in Req : \E u \in users : u.id = q}
  <1>1. pc[r] = "commit" /\ pc[r] \in Holding /\ form[r] # Null
    BY DEF Commit, IInv, TypeOK, InFlight, Holding
  <1>2. keys[k] \in KeyRow /\ keys[k].state = "stored" /\ keys[k].usedAt = Null
    BY <1>1 DEF IInv, LockedKeyIsOpen, TypeOK
  <1>3. at[r] # Null
    BY ConstantsAssumption DEF IInv, TypeOK
  <1>4. keys' = [keys EXCEPT ![k].usedAt = at[r]] /\ keys \in [Key -> KeyRow]
    BY DEF Commit, IInv, TypeOK
  <1>5. \A j \in Key : /\ keys'[j].state = keys[j].state
                       /\ keys'[j].usedAt # Null <=> (j = k \/ keys[j].usedAt # Null)
    BY <1>2, <1>3, <1>4 DEF KeyRow
  <1>6. form' = form /\ Club(r).id = r /\ President(r).id = r
    BY DEF Commit, Club, President
  <1>7. \A p \in Registered : p[2] # r
    BY <1>1, ClubIsDone
  <1>8. Spent' = Spent \cup {k}
    BY <1>5
  <1>9. Registered' = Registered \cup {<<k, r>>}
    BY <1>6 DEF Commit
  <1>10. WithAccount' \in {WithAccount, WithAccount \cup {r}}
    BY <1>6 DEF Commit
  <1>11. {j \in Key : keys[j].state = "stored"}' = {j \in Key : keys[j].state = "stored"}
    BY <1>5
  <1>12. QED
    BY <1>2, <1>7, <1>8, <1>9, <1>10, <1>11 DEF Promise!Register

\* The statements of ClubsService.create implement the one-step registration.
THEOREM Refinement == Spec => RegisterInOneStep
  <1>1. Init => Promise!Init
    <2> SUFFICES ASSUME Init PROVE Promise!Init
      OBVIOUS
    <2>1. \A r \in Req : ~ \E u \in users : u.id = r
      BY ConstantsAssumption DEF Init
    <2>2. \A k \in Key : keys[k].state = "absent" /\ keys[k].usedAt = Null
      BY DEF Init
    <2>3. QED
      BY <2>1, <2>2 DEF Init, Promise!Init
  <1>2. IInv /\ [Next]_vars => [Promise!Next]_Promise!ovars
    <2> SUFFICES ASSUME IInv, [Next]_vars PROVE [Promise!Next]_Promise!ovars
      OBVIOUS
    <2>1. ASSUME NEW k \in Key, createRegistrationUrl(k)
          PROVE  Promise!Issue(k) \/ UNCHANGED Promise!ovars
      <3>1. keys[k].state = "absent" /\ keys[k].usedAt = Null
        BY <2>1 DEF createRegistrationUrl, IInv, UsedIsStored
      <3>2. keys' = [keys EXCEPT ![k] = keys'[k]] /\ keys'[k].usedAt = Null
        BY <2>1 DEF createRegistrationUrl, IInv, TypeOK
      <3>3. \A j \in Key : j # k => keys'[j] = keys[j]
        BY <3>2 DEF IInv, TypeOK
      <3>4. {j \in Key : keys[j].usedAt # Null}' = {j \in Key : keys[j].usedAt # Null}
        BY <3>1, <3>2, <3>3
      <3>5. UNCHANGED <<users, clubs, form>>
        BY <2>1 DEF createRegistrationUrl
      <3>6. CASE StampsNullable
        <4>1. keys'[k].state = "stored"
          BY <2>1, <3>6 DEF createRegistrationUrl, IInv, TypeOK
        <4>2. {j \in Key : keys[j].state = "stored"}'
                = {j \in Key : keys[j].state = "stored"} \cup {k}
          BY <3>1, <3>3, <4>1
        <4>3. QED
          BY <3>1, <3>4, <3>5, <4>2 DEF Promise!Issue
      <3>7. CASE ~StampsNullable
        <4>1. keys'[k].state = "error"
          BY <2>1, <3>7 DEF createRegistrationUrl, IInv, TypeOK
        <4>2. {j \in Key : keys[j].state = "stored"}' = {j \in Key : keys[j].state = "stored"}
          BY <3>1, <3>3, <4>1
        <4>3. QED
          BY <3>4, <3>5, <4>2 DEF Promise!ovars
      <3>8. QED
        BY <3>6, <3>7
    <2>2. ASSUME NEW r \in Req, NEW f \in Forms, Submit(r, f) PROVE UNCHANGED Promise!ovars
      <3>1. \A q \in Req : pc[q] = "done" => form'[q] = form[q]
        BY <2>2 DEF Submit, IInv, TypeOK
      <3>2. QED
        BY <2>2, <3>1, Invisible DEF Submit
    <2>3. ASSUME NEW r \in Req, Serve(r) \/ RejectDates(r) \/ Abort(r), ~Commit(r)
          PROVE  UNCHANGED Promise!ovars
      BY <2>3, Invisible DEF Serve, RejectDates, Abort, ensurePresidentExists, PeekKey,
         Begin, consumeOneTimeKey, CheckLoginId, CheckPhone, InsertUser, InsertClub, Rollback
    <2>4. ASSUME NEW r \in Req, Commit(r) PROVE Promise!Next
      <3>1. form[r].key \in Key
        BY <2>4, RowsOfForm DEF Commit, IInv, TypeOK, InFlight, Holding
      <3>2. PICK k \in Key : form[r].key = k
        BY <3>1
      <3>3. QED
        BY <2>4, <3>2, CommitRegisters DEF Promise!Next
    <2>5. CASE Tick \/ UNCHANGED vars
      BY <2>5, Invisible DEF Tick, vars
    <2>6. QED
      BY <2>1, <2>2, <2>3, <2>4, <2>5 DEF Next, Serve, Promise!Next
  <1>3. QED
    BY <1>1, <1>2, Invariance, PTL DEF Spec, RegisterInOneStep, Promise!Spec
=============================================================================
