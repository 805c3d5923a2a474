---------------------------- MODULE Serial_proofs ----------------------------
(***************************************************************************)
(* Theorems about what the checks of module Directory are worth.           *)
(*                                                                         *)
(* A check and the write that relies on it are statements of their own.    *)
(* ValueFree, PeriodFits and TargetLives say, of what a request has found, *)
(* that it still holds or that a request in flight at the same time has    *)
(* undone it. Serial says it for requests that never overlap, where nobody *)
(* else is there to undo it.                                               *)
(***************************************************************************)
EXTENDS Directory_proofs

-----------------------------------------------------------------------------
(* How a request goes on                                                   *)

\* Two requests in flight have met.
Together ==
    \A q, r \in Req : q # r /\ pc[q] \in Places /\ pc[r] \in Places => q \in met[r]

\* Whoever moves has just arrived or executes a statement of its own.
Steps(r) == /\ pc[r] \in Places /\ form' = form /\ met' = met /\ serial' = serial
            /\ \E place \in Places \cup Ended : Goto(r, place)
            /\ UserStep(r) \/ ClubStep(r) \/ Abort(r)

LEMMA Movers ==
    ASSUME Sound, Next
    PROVE  \E r \in Req : (\E f \in Forms : Submit(r, f)) \/ Steps(r)
<1>1. PICK r \in Req : (\E f \in Forms : Submit(r, f)) \/ UserStep(r) \/ ClubStep(r) \/ Abort(r)
  BY DEF Next
<1>2. ASSUME UserStep(r) PROVE Steps(r)
  BY <1>2 DEF Steps, UserStep, Guard, VerifyToken, CheckLoginId, CheckPhone, InsertUser,
     ReadTarget, WriteUser, UnlinkPresident, EraseUser, AfterChecks, IsAt, Goto, Places, Ended
<1>3. ASSUME ClubStep(r) PROVE Steps(r)
  BY <1>3 DEF Steps, ClubStep, EnsurePresident, InsertClub, InsertUserAndClub, CheckDates,
     WriteClub, DeleteClub, AfterDates, IsAt, Goto, Places, Ended
<1>4. ASSUME Abort(r) PROVE Steps(r)
  BY <1>4 DEF Steps, Abort, Goto, Ended
<1> QED BY <1>1, <1>2, <1>3, <1>4

\* What a step leaves of the requests: a body stays, whom one has met stays
\* met, and what is over is over.
LEMMA Kept ==
    ASSUME Sound, [Next]_tables, NEW r \in Req, pc[r] # "idle"
    PROVE  /\ form'[r] = form[r] /\ met[r] \subseteq met'[r] /\ pc'[r] # "idle"
           /\ pc[r] \notin Places => pc'[r] = pc[r]
<1>1. ASSUME NEW q \in Req, NEW f \in Forms, Submit(q, f)
      PROVE  /\ form'[r] = form[r] /\ met[r] \subseteq met'[r] /\ pc'[r] = pc[r]
  BY <1>1 DEF Submit, Goto, Sound, TypeOK
<1>2. ASSUME NEW q \in Req, Steps(q)
      PROVE  /\ form'[r] = form[r] /\ met[r] \subseteq met'[r] /\ pc'[r] # "idle"
             /\ pc[r] \notin Places => pc'[r] = pc[r]
  BY <1>2 DEF Steps, Goto, Sound, TypeOK, Places, Ended
<1>3. CASE UNCHANGED tables
  BY <1>3 DEF tables
<1> QED BY <1>1, <1>2, <1>3, Movers

\* Nobody else moves a request, and it arrives at the first of its statements.
LEMMA OwnStep ==
    ASSUME Sound, [Next]_tables, NEW r \in Req, pc'[r] # pc[r]
    PROVE  IF pc[r] = "idle" THEN \E f \in Forms : form'[r] = f /\ pc'[r] = First(f)
           ELSE Steps(r)
<1>1. ~UNCHANGED tables
  BY DEF tables
<1>2. ASSUME NEW q \in Req, NEW f \in Forms, Submit(q, f)
      PROVE  pc[r] = "idle" /\ form'[r] = f /\ pc'[r] = First(f)
  BY <1>2 DEF Submit, Goto, Sound, TypeOK
<1>3. ASSUME NEW q \in Req, Steps(q) PROVE q = r /\ pc[r] # "idle"
  BY <1>3 DEF Steps, Goto, Sound, TypeOK, Places
<1> QED BY <1>1, <1>2, <1>3, Movers

LEMMA TogetherStep == Sound /\ Together /\ [Next]_tables => Together'
<1> SUFFICES ASSUME Sound, Together, [Next]_tables PROVE Together'
  OBVIOUS
<1>1. ASSUME NEW r \in Req, NEW f \in Forms, Submit(r, f) PROVE Together'
  BY <1>1 DEF Submit, Goto, Sound, TypeOK, Together, InFlight
<1>2. ASSUME NEW r \in Req, Steps(r) PROVE Together'
  BY <1>2 DEF Steps, Goto, Sound, TypeOK, Together
<1>3. CASE UNCHANGED tables
  BY <1>3 DEF tables, Together
<1> QED BY <1>1, <1>2, <1>3, Movers

\* A request that is answered in a step has been in flight with all the others.
LEMMA Met ==
    ASSUME Sound, Together, [Next]_tables, NEW q \in Req, NEW r \in Req,
           pc[q] \in Places, pc'[q] = "done", pc[r] \in Places, pc'[r] = pc[r]
    PROVE  q \in met'[r]
<1>1. q # r
  BY DEF Places
<1>2. pc[r] # "idle"
  BY DEF Places
<1> QED BY <1>1, <1>2, Kept DEF Together

-----------------------------------------------------------------------------
(* What a step does to the values of a row                                 *)

Fields == {"login_id", "phone"}

\* The body gives the field, and nobody else had its value when r looked.
PastCheck(r, field) ==
    /\ form[r].kind \in WritesAccount /\ form[r][field] # Keep
    /\ \/ field = "login_id" /\ pc[r] = "phone"
       \/ pc[r] = IF form[r].kind = "updateUser" THEN "write" ELSE "insert"

\* A live user keeps its login_id or phone, or gets it from one request, which
\* leaves the other rows alone.
GivenBy(q, u, field) ==
    /\ pc[q] \in Places /\ pc'[q] = "done" /\ PastCheck(q, field)
    /\ form[q][field] = users'[u][field]
    /\ \A v \in UserId \ {u} : users'[v] = users[v] /\ (Live(v) => v \in Others(q))

FieldStep(u, field) ==
    Live(u)' => \/ Live(u) /\ users'[u][field] = users[u][field]
                \/ \E q \in Req : GivenBy(q, u, field)

LEMMA FieldSteps ==
    ASSUME Sound, [Next]_tables, NEW u \in UserId, NEW field \in Fields
    PROVE  FieldStep(u, field)
<1> USE TablesAssumption DEF Sound, FieldStep
<1>1. ASSUME NEW r \in Req, InsertUser(r) PROVE FieldStep(u, field)
  <2> DEFINE row == [login_id |-> form[r].login_id, phone |-> form[r].phone,
                     role |-> form[r].role, is_system |-> FALSE, deleted |-> FALSE]
  <2>1. PICK id \in UserId : users[id] = Null /\ users' = [users EXCEPT ![id] = row]
    BY <1>1 DEF InsertUser, NextUserId
  <2>2. /\ form[r] \in Forms /\ form[r].kind = "createUser" /\ pc[r] = "insert"
        /\ pc'[r] = "done"
    BY <1>1 DEF InsertUser, IsAt, Goto, TypeOK
  <2>3. row[field] = form[r][field]
    BY DEF Fields
  <2> HIDE DEF row
  <2>4. users'[id] = row /\ \A v \in UserId \ {id} : users'[v] = users[v]
    BY <2>1 DEF TypeOK
  <2>5. form[r][field] # Keep
    BY <2>2, FieldsOfBody DEF Fields
  <2>6. CASE u = id
    BY <2>1, <2>2, <2>3, <2>4, <2>5, <2>6
       DEF GivenBy, PastCheck, WritesAccount, Others, Places, Fields
  <2>7. CASE u # id
    BY <2>4, <2>7 DEF Live
  <2> QED BY <2>6, <2>7
<1>2. ASSUME NEW r \in Req, InsertUserAndClub(r) PROVE FieldStep(u, field)
  <2> DEFINE row == [login_id |-> form[r].login_id, phone |-> form[r].phone,
                     role |-> "president", is_system |-> FALSE, deleted |-> FALSE]
  <2>1. PICK id \in UserId : users[id] = Null /\ users' = [users EXCEPT ![id] = row]
    BY <1>2 DEF InsertUserAndClub, NextUserId
  <2>2. /\ form[r] \in Forms /\ form[r].kind = "register" /\ pc[r] = "insert"
        /\ pc'[r] = "done"
    BY <1>2 DEF InsertUserAndClub, IsAt, Goto, TypeOK
  <2>3. row[field] = form[r][field]
    BY DEF Fields
  <2> HIDE DEF row
  <2>4. users'[id] = row /\ \A v \in UserId \ {id} : users'[v] = users[v]
    BY <2>1 DEF TypeOK
  <2>5. form[r][field] # Keep
    BY <2>2, FieldsOfBody DEF Fields
  <2>6. CASE u = id
    BY <2>1, <2>2, <2>3, <2>4, <2>5, <2>6
       DEF GivenBy, PastCheck, WritesAccount, Others, Places, Fields
  <2>7. CASE u # id
    BY <2>4, <2>7 DEF Live
  <2> QED BY <2>6, <2>7
<1>3. ASSUME NEW r \in Req, WriteUser(r) PROVE FieldStep(u, field)
  <2> DEFINE f == form[r]
             row == UpdatedUser(users[f.id], f)
  <2>1. /\ f \in Forms /\ f.kind = "updateUser" /\ pc[r] = "write" /\ pc'[r] = "done"
        /\ f.id \in UserId /\ users[f.id] \in UserRow
        /\ users' = [users EXCEPT ![f.id] = row]
    BY <1>3, FieldsOfBody DEF WriteUser, IsAt, Goto, TypeOK, Targets, Reading
  <2>2. row \in UserRow /\ row.deleted = users[f.id].deleted
    BY <2>1, UserWritten
  <2>3. row[field] = Given(f[field], users[f.id][field])
    <3>1. row.login_id = Given(f.login_id, users[f.id].login_id)
          /\ row.phone = Given(f.phone, users[f.id].phone)
      BY <2>1 DEF UpdatedUser, UserRow
    <3> QED BY <3>1 DEF Fields
  <2>4. users'[f.id] = row /\ \A v \in UserId \ {f.id} : users'[v] = users[v]
    BY <2>1 DEF TypeOK
  <2> HIDE DEF row
  <2>5. CASE u = f.id /\ f[field] # Keep
    <3>1. users'[u][field] = f[field]
      BY <2>3, <2>4, <2>5 DEF Given
    <3>2. PastCheck(r, field)
      BY <2>1, <2>5 DEF PastCheck, WritesAccount
    <3>3. GivenBy(r, u, field)
      BY <2>1, <2>4, <2>5, <3>1, <3>2 DEF GivenBy, Others, Places
    <3> QED BY <3>3
  <2>6. CASE u = f.id /\ f[field] = Keep
    <3>1. users'[u][field] = users[u][field]
      BY <2>3, <2>4, <2>6 DEF Given
    <3>2. Live(u)' => Live(u)
      BY <2>1, <2>2, <2>4, <2>6 DEF Live
    <3> QED BY <3>1, <3>2
  <2>7. CASE u # f.id
    BY <2>4, <2>7 DEF Live
  <2> QED BY <2>5, <2>6, <2>7
<1>4. ASSUME NEW r \in Req, EraseUser(r) PROVE FieldStep(u, field)
  <2> DEFINE row == [users[form[r].id] EXCEPT !.deleted = TRUE]
  <2>1. /\ form[r].id \in UserId /\ users[form[r].id] \in UserRow
        /\ users' = [users EXCEPT ![form[r].id] = row]
    BY <1>4, FieldsOfBody DEF EraseUser, IsAt, TypeOK, Targets, Reading
  <2>2. row.deleted
    BY <2>1, UserErased
  <2>3. users'[form[r].id] = row /\ \A v \in UserId \ {form[r].id} : users'[v] = users[v]
    BY <2>1 DEF TypeOK
  <2> HIDE DEF row
  <2> QED BY <2>2, <2>3 DEF Live
<1>5. CASE UNCHANGED users
  BY <1>5 DEF Live
<1> QED BY <1>1, <1>2, <1>3, <1>4, <1>5, WhoWrites
        DEF Writers, UnlinkPresident, InsertClub, WriteClub, DeleteClub

-----------------------------------------------------------------------------
(* Accounts                                                                *)

\* q was answered and gave the value.
Gave(q, field, value) ==
    pc[q] = "done" /\ form[q].kind \in WritesAccount /\ form[q][field] = value

\* Of what r has found: nobody else has the value, or somebody that r has met
\* gave it.
ValueFree(r, field) ==
    PastCheck(r, field) =>
        \A u \in Others(r) : users[u][field] = form[r][field] =>
            \E q \in met[r] : Gave(q, field, form[r][field])

\* Whoever gets past a check has found the value free just now.
LEMMA PassesCheck ==
    ASSUME Sound, NEW r \in Req, Steps(r), NEW field \in Fields, PastCheck(r, field)'
    PROVE  /\ UNCHANGED users
           /\ \/ PastCheck(r, field)
              \/ \A u \in Others(r) : users[u][field] # form[r][field]
<1> USE TablesAssumption DEF Sound, TypeOK, PastCheck, WritesAccount, Fields, Steps, IsAt, Goto
<1>0. /\ form[r] \in Forms
      /\ form[r].kind \in {"createUser", "register"} =>
            form[r].login_id # Keep /\ form[r].phone # Keep
  <2>1. form[r] \in Forms
    BY DEF Places
  <2> QED BY <2>1, FieldsOfBody
<1>1. CASE CheckLoginId(r)
  BY <1>0, <1>1 DEF CheckLoginId, AfterChecks
<1>2. CASE CheckPhone(r)
  BY <1>0, <1>2 DEF CheckPhone, AfterChecks
<1>3. CASE ReadTarget(r)
  BY <1>3 DEF ReadTarget
<1>4. CASE Guard(r) \/ VerifyToken(r)
  BY <1>4 DEF Guard, VerifyToken
<1>5. CASE InsertUser(r) \/ WriteUser(r) \/ UnlinkPresident(r) \/ EraseUser(r)
  BY <1>5 DEF InsertUser, WriteUser, UnlinkPresident, EraseUser
<1>6. CASE ClubStep(r) \/ Abort(r)
  BY <1>6 DEF ClubStep, EnsurePresident, InsertClub, InsertUserAndClub, CheckDates,
     WriteClub, DeleteClub, AfterDates, Abort
<1> QED BY <1>1, <1>2, <1>3, <1>4, <1>5, <1>6 DEF UserStep

\* What was given stays given.
LEMMA StillGave ==
    ASSUME Sound, [Next]_tables, NEW q \in Req, NEW field, NEW value, Gave(q, field, value)
    PROVE  Gave(q, field, value)'
BY Kept DEF Gave, Places

LEMMA ValueFreeStep ==
    ASSUME Sound, Together, [Next]_tables, NEW r \in Req, NEW field \in Fields,
           ValueFree(r, field)
    PROVE  ValueFree(r, field)'
<1> SUFFICES ASSUME PastCheck(r, field)', NEW u \in Others(r)',
                    users'[u][field] = form'[r][field]
             PROVE  \E q \in met'[r] : Gave(q, field, form[r][field])'
  BY DEF ValueFree
<1>0. met'[r] \subseteq Req /\ met[r] \subseteq Req
  BY SoundStep DEF Sound, TypeOK
<1>1. CASE pc[r] # "idle" /\ pc'[r] = pc[r]
  <2>1. form'[r] = form[r] /\ met[r] \subseteq met'[r]
    BY <1>1, Kept
  <2>2. PastCheck(r, field) /\ pc[r] \in Places /\ u \in UserId /\ Live(u)'
    BY <1>1, <2>1 DEF PastCheck, Others, Places
  <2>3. CASE Live(u) /\ users'[u][field] = users[u][field]
    <3>1. u \in Others(r)
      BY <2>1, <2>2, <2>3 DEF Others
    <3>2. PICK q \in met[r] : Gave(q, field, form[r][field])
      BY <2>1, <2>2, <2>3, <3>1 DEF ValueFree
    <3> QED BY <1>0, <2>1, <3>2, StillGave
  <2>4. ASSUME NEW q \in Req, GivenBy(q, u, field)
        PROVE  \E p \in met'[r] : Gave(p, field, form[r][field])'
    <3>1. q \in met'[r]
      BY <1>1, <2>2, <2>4, Met DEF GivenBy
    <3>2. form'[q] = form[q]
      BY <2>4, Kept DEF GivenBy, Places
    <3>3. Gave(q, field, form[r][field])'
      BY <2>1, <2>4, <3>2 DEF GivenBy, Gave, PastCheck
    <3> QED BY <3>1, <3>3
  <2> QED BY <2>2, <2>3, <2>4, FieldSteps DEF FieldStep
<1>2. CASE pc[r] # "idle" /\ pc'[r] # pc[r]
  <2>1. Steps(r)
    BY <1>2, OwnStep
  <2>2. UNCHANGED <<users, form, met>>
    BY <2>1, PassesCheck DEF Steps
  <2>3. u \in Others(r)
    BY <2>2 DEF Others, Live
  <2>4. PastCheck(r, field)
    BY <2>1, <2>2, <2>3, PassesCheck
  <2>5. PICK q \in met[r] : Gave(q, field, form[r][field])
    BY <2>2, <2>3, <2>4 DEF ValueFree
  <2> QED BY <1>0, <2>2, <2>5, StillGave
<1>3. CASE pc[r] = "idle"
  <2>1. PICK f \in Forms : form'[r] = f /\ pc'[r] = First(f)
    BY <1>3, OwnStep DEF PastCheck
  <2> QED BY <2>1, FieldsOfBody DEF PastCheck, First, AfterDates, WritesAccount
<1> QED BY <1>1, <1>2, <1>3

\* What r has found of the login_id and the phone it gives.
Raced(r) == \A field \in Fields : ValueFree(r, field)

\* A step that makes two users share a value is the write of a request that was
\* overtaken.
THEOREM AccountsClashOnlyInRaces == Spec => AccountsClashByRaceOnly
<1> DEFINE Clashes ==
      \A u, v \in UserId, field \in {"login_id", "phone"} :
          u # v /\ ~Share(u, v, field) /\ Share(u, v, field)' =>
             \E q, r \in Req :
                /\ Overtook(q, r)
                /\ form[q].kind \in WritesAccount /\ form[q][field] = users'[u][field]
                /\ form[r].kind \in WritesAccount /\ form[r][field] = users'[u][field]
           Inv == Together /\ \A r \in Req : Raced(r)
<1>1. Init => Inv
  BY DEF Init, Together, Raced, ValueFree, PastCheck, Places
<1>2. Sound /\ Inv /\ [Next]_tables => Inv'
  BY TogetherStep, ValueFreeStep DEF Raced
<1>3. Sound /\ Inv /\ [Next]_tables => Clashes
  <2> SUFFICES ASSUME Sound, Inv, [Next]_tables, NEW u \in UserId, NEW v \in UserId,
                      NEW field \in {"login_id", "phone"},
                      u # v, ~Share(u, v, field), Share(u, v, field)'
               PROVE  \E q, r \in Req :
                         /\ Overtook(q, r)
                         /\ form[q].kind \in WritesAccount /\ form[q][field] = users'[u][field]
                         /\ form[r].kind \in WritesAccount /\ form[r][field] = users'[u][field]
    OBVIOUS
  <2>1. ASSUME NEW a \in UserId, NEW b \in UserId, a # b,
               Live(b)', users'[a][field] = users'[b][field],
               NEW r \in Req, GivenBy(r, a, field)
        PROVE  \E q \in Req :
                  /\ Overtook(q, r)
                  /\ form[q].kind \in WritesAccount /\ form[q][field] = users'[a][field]
                  /\ form[r].kind \in WritesAccount /\ form[r][field] = users'[a][field]
    <3>1. users'[b] = users[b] /\ Live(b) /\ b \in Others(r)
      BY <2>1 DEF GivenBy, Live
    <3>2. PICK q \in met[r] : Gave(q, field, form[r][field])
      BY <2>1, <3>1 DEF GivenBy, Raced, ValueFree, Fields
    <3>3. q \in Req
      BY <3>2 DEF Sound, TypeOK
    <3> QED BY <2>1, <3>2, <3>3 DEF GivenBy, PastCheck, Gave, Overtook, Places
  <2>2. FieldStep(u, field) /\ FieldStep(v, field) /\ Live(u)' /\ Live(v)'
        /\ users'[u][field] = users'[v][field]
    BY FieldSteps DEF Fields, Share
  <2>3. (\E r \in Req : GivenBy(r, u, field)) \/ (\E r \in Req : GivenBy(r, v, field))
    BY <2>2 DEF FieldStep, Share
  <2> QED BY <2>1, <2>2, <2>3
<1> HIDE DEF Clashes, Inv
<1>4. Spec => [][Clashes]_tables
  BY <1>1, <1>2, <1>3, SoundAlways, PTL DEF Spec
<1> QED BY <1>4 DEF Clashes, AccountsClashByRaceOnly

-----------------------------------------------------------------------------
(* Periods                                                                 *)

Dated(f) == f.recruit_start # Keep \/ f.recruit_end # Keep

\* The two dates of an update leave and give.
Completes(f, g) == \/ f.recruit_start = Keep /\ g.recruit_start # Keep
                   \/ f.recruit_end = Keep /\ g.recruit_end # Keep

\* q was answered and gave a date that r leaves alone.
GaveDate(q, r) ==
    /\ pc[q] = "done" /\ form[q].kind = "updateClub" /\ form[q].id = form[r].id
    /\ Completes(form[r], form[q])

\* A creation has a period in order.  An update with a date has found its club
\* and a period in order, or somebody that r has met gave the other date.
PeriodFits(r) ==
    /\ form[r].kind \in {"register", "createClub"}
       /\ pc[r] \in {"login", "phone", "ensure", "insert"}
       => InOrder(form[r].recruit_start, form[r].recruit_end)
    /\ form[r].kind = "updateClub" /\ pc[r] \in {"ensure", "write"} /\ Dated(form[r])
       => /\ clubs[form[r].id] # Null
          /\ \/ InOrderMerged(form[r], clubs[form[r].id])
             \/ \E q \in met[r] : GaveDate(q, r)

\* What a step does to the dates of a club.
SamePeriod(c) ==
    /\ clubs[c] # Null
    /\ clubs'[c].recruit_start = clubs[c].recruit_start
    /\ clubs'[c].recruit_end = clubs[c].recruit_end

FirstPeriod(q, c) ==
    /\ clubs[c] = Null
    /\ form[q].kind \in {"register", "createClub"} /\ pc[q] = "insert"
    /\ clubs'[c].recruit_start = form[q].recruit_start
    /\ clubs'[c].recruit_end = form[q].recruit_end

NextPeriod(q, c) ==
    /\ clubs[c] # Null
    /\ form[q].kind = "updateClub" /\ form[q].id = c
    /\ pc[q] = "write" /\ pc'[q] = "done"
    /\ clubs'[c].recruit_start = Given(form[q].recruit_start, clubs[c].recruit_start)
    /\ clubs'[c].recruit_end = Given(form[q].recruit_end, clubs[c].recruit_end)

PeriodStep(c) == \/ SamePeriod(c)
                 \/ \E q \in Req : FirstPeriod(q, c) \/ NextPeriod(q, c)

LEMMA PeriodSteps ==
    ASSUME Sound, [Next]_tables, NEW c \in ClubId, clubs'[c] # Null
    PROVE  PeriodStep(c)
<1> USE TablesAssumption DEF Sound, TypeOK
<1>1. ASSUME NEW r \in Req, UnlinkPresident(r) PROVE PeriodStep(c)
  BY <1>1 DEF UnlinkPresident, LiveClub, ClubRow, PeriodStep, SamePeriod
<1>2. ASSUME NEW r \in Req, InsertClub(r) PROVE PeriodStep(c)
  <2>1. CASE clubs'[c] = clubs[c]
    BY <2>1 DEF PeriodStep, SamePeriod
  <2>2. CASE clubs'[c] # clubs[c]
    <3>1. FirstPeriod(r, c)
      BY <1>2, <2>2 DEF InsertClub, IsAt, NextClubId, NewClub, FirstPeriod
    <3> QED BY <3>1 DEF PeriodStep
  <2> QED BY <2>1, <2>2
<1>3. ASSUME NEW r \in Req, InsertUserAndClub(r) PROVE PeriodStep(c)
  <2>1. CASE clubs'[c] = clubs[c]
    BY <2>1 DEF PeriodStep, SamePeriod
  <2>2. CASE clubs'[c] # clubs[c]
    <3>1. FirstPeriod(r, c)
      BY <1>3, <2>2 DEF InsertUserAndClub, IsAt, NextClubId, NewClub, FirstPeriod
    <3> QED BY <3>1 DEF PeriodStep
  <2> QED BY <2>1, <2>2
<1>4. ASSUME NEW r \in Req, WriteClub(r) PROVE PeriodStep(c)
  <2>1. CASE clubs'[c] = clubs[c]
    BY <2>1 DEF PeriodStep, SamePeriod
  <2>2. CASE clubs'[c] # clubs[c]
    <3>1. /\ form[r].kind = "updateClub" /\ form[r].id = c /\ clubs[c] \in ClubRow
          /\ pc[r] = "write" /\ pc'[r] = "done"
          /\ clubs' = [clubs EXCEPT ![c] = UpdatedClub(clubs[c], form[r])]
      BY <1>4, <2>2, FieldsOfBody DEF WriteClub, IsAt, Goto, Writable, LiveClub
    <3>2. NextPeriod(r, c)
      BY <3>1 DEF UpdatedClub, ClubRow, NextPeriod
    <3> QED BY <3>2 DEF PeriodStep
  <2> QED BY <2>1, <2>2
<1>5. ASSUME NEW r \in Req, DeleteClub(r) PROVE PeriodStep(c)
  <2>1. CASE clubs'[c] = clubs[c]
    BY <2>1 DEF PeriodStep, SamePeriod
  <2>2. CASE clubs'[c] # clubs[c]
    <3>1. /\ form[r].id = c /\ clubs[c] \in ClubRow
          /\ clubs' = [clubs EXCEPT ![c] = [clubs[c] EXCEPT !.deleted = TRUE]]
      BY <1>5, <2>2, FieldsOfBody DEF DeleteClub, IsAt, LiveClub
    <3> QED BY <3>1 DEF PeriodStep, SamePeriod, ClubRow
  <2> QED BY <2>1, <2>2
<1>6. CASE UNCHANGED clubs
  BY <1>6 DEF PeriodStep, SamePeriod
<1> QED BY <1>1, <1>2, <1>3, <1>4, <1>5, <1>6, WhoWrites
        DEF Writers, InsertUser, WriteUser, EraseUser

LEMMA PeriodFitsStep ==
    ASSUME Sound, Together, [Next]_tables, NEW r \in Req, PeriodFits(r)
    PROVE  PeriodFits(r)'
<1>0. met'[r] \subseteq Req /\ met[r] \subseteq Req
  BY SoundStep DEF Sound, TypeOK
<1>1. CASE pc[r] # "idle" /\ pc'[r] = pc[r]
  <2>1. form'[r] = form[r] /\ met[r] \subseteq met'[r]
    BY <1>1, Kept
  <2>2. CASE form[r].kind # "updateClub" \/ pc[r] \notin {"ensure", "write"} \/ ~Dated(form[r])
    BY <1>1, <2>1, <2>2 DEF PeriodFits
  <2>3. CASE form[r].kind = "updateClub" /\ pc[r] \in {"ensure", "write"} /\ Dated(form[r])
    <3> DEFINE c == form[r].id
    <3>1. c \in ClubId /\ clubs[c] # Null
      <4>1. form[r] \in Forms
        BY <1>1, TablesAssumption DEF Sound, TypeOK
      <4> QED BY <2>3, <4>1, FieldsOfBody DEF PeriodFits
    <3>2. clubs'[c] # Null
      BY <3>1, ClubRows DEF ClubRowStep
    <3>3. CASE \E q \in met[r] : GaveDate(q, r)
      <4>1. PICK q \in met[r] : GaveDate(q, r)
        BY <3>3
      <4>2. pc'[q] = "done" /\ form'[q] = form[q]
        BY <1>0, <4>1, Kept DEF GaveDate, Places
      <4>3. GaveDate(q, r)'
        BY <2>1, <4>1, <4>2 DEF GaveDate
      <4> QED BY <2>1, <2>3, <3>2, <4>1, <4>3 DEF PeriodFits
    <3>4. CASE InOrderMerged(form[r], clubs[c])
      <4>1. CASE SamePeriod(c)
        <5>1. InOrderMerged(form[r], clubs'[c])
          BY <3>4, <4>1 DEF SamePeriod, InOrderMerged
        <5> QED BY <2>1, <2>3, <3>2, <5>1 DEF PeriodFits
      <4>2. ASSUME NEW q \in Req, NextPeriod(q, c) PROVE PeriodFits(r)'
        <5>1. pc[q] \in Places /\ form'[q] = form[q] /\ pc[r] \in Places
          BY <2>3, <4>2, Kept DEF NextPeriod, Places
        <5>2. q \in met'[r]
          BY <1>1, <4>2, <5>1, Met DEF NextPeriod
        <5>3. CASE Completes(form[r], form[q])
          <6>1. GaveDate(q, r)'
            BY <2>1, <4>2, <5>1, <5>3 DEF GaveDate, NextPeriod
          <6> QED BY <2>1, <2>3, <3>2, <5>2, <6>1 DEF PeriodFits
        <5>4. CASE ~Completes(form[r], form[q])
          <6>1. InOrderMerged(form[r], clubs'[c])
            BY <3>4, <4>2, <5>4 DEF InOrderMerged, NextPeriod, Completes, Given
          <6> QED BY <2>1, <2>3, <3>2, <6>1 DEF PeriodFits
        <5> QED BY <5>3, <5>4
      <4> QED BY <3>1, <3>2, <4>1, <4>2, PeriodSteps DEF PeriodStep, FirstPeriod
    <3> QED BY <2>3, <3>3, <3>4 DEF PeriodFits
  <2> QED BY <2>2, <2>3
<1>2. CASE pc[r] # "idle" /\ pc'[r] # pc[r]
  <2>1. Steps(r) /\ UNCHANGED <<form, met>> /\ pc[r] \in Places
    BY <1>2, OwnStep DEF Steps
  <2>2. \A q \in met[r] : GaveDate(q, r) => GaveDate(q, r)'
    BY <1>0, <2>1, Kept DEF GaveDate, Places
  <2>3. form[r] \in Forms
    BY <1>2, TablesAssumption DEF Sound, TypeOK
  <2> USE <2>1, <2>2, <2>3, FieldsOfBody DEF PeriodFits, IsAt, Goto, Sound, TypeOK
  <2>4. CASE CheckDates(r)
    BY <2>4 DEF CheckDates, AfterDates, LiveClub
  <2>5. CASE EnsurePresident(r)
    BY <2>5 DEF EnsurePresident
  <2>6. CASE CheckLoginId(r) \/ CheckPhone(r)
    BY <2>6 DEF CheckLoginId, CheckPhone, AfterChecks
  <2>7. CASE Guard(r) \/ VerifyToken(r) \/ ReadTarget(r) \/ Abort(r)
    BY <2>7 DEF Guard, VerifyToken, ReadTarget, Abort
  <2>8. CASE InsertUser(r) \/ WriteUser(r) \/ UnlinkPresident(r) \/ EraseUser(r)
             \/ InsertClub(r) \/ InsertUserAndClub(r) \/ WriteClub(r) \/ DeleteClub(r)
    BY <2>8 DEF InsertUser, WriteUser, UnlinkPresident, EraseUser, InsertClub,
       InsertUserAndClub, WriteClub, DeleteClub
  <2> QED BY <2>4, <2>5, <2>6, <2>7, <2>8 DEF Steps, UserStep, ClubStep
<1>3. CASE pc[r] = "idle"
  <2>1. CASE pc'[r] = "idle"
    BY <2>1 DEF PeriodFits
  <2>2. CASE pc'[r] # "idle"
    <3>1. PICK f \in Forms : form'[r] = f /\ pc'[r] = First(f)
      BY <1>3, <2>2, OwnStep
    <3> QED BY <3>1, FieldsOfBody DEF PeriodFits, First, AfterDates, Dated
  <2> QED BY <2>1, <2>2
<1> QED BY <1>1, <1>2, <1>3

\* A step that reverses a period is the write of an update that was overtaken
\* by the update of the other date.
THEOREM PeriodsReverseOnlyInRaces == Spec => PeriodsReversedByRaceOnly
<1> DEFINE Reverses ==
      \A c \in ClubId : ~Reversed(c) /\ Reversed(c)' =>
          \E q, r \in Req :
             /\ Overtook(q, r)
             /\ {form[q].kind, form[r].kind} = {"updateClub"} /\ {form[q].id, form[r].id} = {c}
             /\ \/ form[r].recruit_start = Keep /\ form[q].recruit_start # Keep
                \/ form[r].recruit_end = Keep /\ form[q].recruit_end # Keep
           Inv == Together /\ \A r \in Req : PeriodFits(r)
<1>1. Init => Inv
  BY DEF Init, Together, PeriodFits, Places
<1>2. Sound /\ Inv /\ [Next]_tables => Inv'
  BY TogetherStep, PeriodFitsStep
<1>3. Sound /\ Inv /\ [Next]_tables => Reverses
  <2> SUFFICES ASSUME Sound, Inv, [Next]_tables, NEW c \in ClubId, ~Reversed(c), Reversed(c)'
               PROVE  \E q, r \in Req :
                         /\ Overtook(q, r)
                         /\ {form[q].kind, form[r].kind} = {"updateClub"}
                         /\ {form[q].id, form[r].id} = {c}
                         /\ Completes(form[r], form[q])
    BY DEF Completes
  <2>1. ~SamePeriod(c)
    BY DEF SamePeriod, Reversed
  <2>2. ASSUME NEW r \in Req, FirstPeriod(r, c) PROVE FALSE
    BY <2>2 DEF FirstPeriod, PeriodFits, Reversed
  <2>3. PICK r \in Req : NextPeriod(r, c)
    BY <2>1, <2>2, PeriodSteps DEF PeriodStep, Reversed
  <2>4. ~InOrderMerged(form[r], clubs[c])
    BY <2>3 DEF NextPeriod, InOrderMerged, Reversed
  <2>5. Dated(form[r])
    BY <2>3, <2>4 DEF NextPeriod, InOrderMerged, Dated, Given, Reversed
  <2>6. PICK q \in met[r] : GaveDate(q, r)
    BY <2>3, <2>4, <2>5 DEF PeriodFits, NextPeriod
  <2>7. q \in Req
    BY <2>6 DEF Sound, TypeOK
  <2> QED BY <2>3, <2>6, <2>7 DEF NextPeriod, GaveDate, Overtook
<1> HIDE DEF Reverses, Inv
<1>4. Spec => [][Reverses]_tables
  BY <1>1, <1>2, <1>3, SoundAlways, PTL DEF Spec
<1> QED BY <1>4 DEF Reverses, PeriodsReversedByRaceOnly

-----------------------------------------------------------------------------
(* Removed users                                                           *)

\* q was answered and removed the user that r works on.
Removed(q, r) ==
    pc[q] = "done" /\ form[q].kind = "removeUser" /\ form[q].id = form[r].id

\* An update has found its user, and who is not there any more was removed by
\* somebody that r has met.
TargetLives(r) ==
    form[r].kind = "updateUser" /\ pc[r] \in {"login", "phone", "write"} =>
        Live(form[r].id) \/ \E q \in met[r] : Removed(q, r)

\* A live user is erased by one request; a removed one is written by an update.
Erases(q, u) ==
    /\ form[q].kind = "removeUser" /\ form[q].id = u
    /\ pc[q] = "erase" /\ pc'[q] = "done" /\ UNCHANGED clubs

Rewrites(r, u) ==
    /\ form[r].kind = "updateUser" /\ form[r].id = u
    /\ pc[r] = "write" /\ pc'[r] = "done"

LEMMA LivesEnd ==
    ASSUME Sound, [Next]_tables, NEW u \in UserId
    PROVE  /\ Live(u) => Live(u)' \/ \E q \in Req : Erases(q, u)
           /\ users[u] # Null /\ users[u].deleted =>
                 users'[u] = users[u] \/ \E r \in Req : Rewrites(r, u)
<1> USE TablesAssumption DEF Sound
<1> DEFINE Goal == /\ Live(u) => Live(u)' \/ \E q \in Req : Erases(q, u)
                   /\ users[u] # Null /\ users[u].deleted =>
                         users'[u] = users[u] \/ \E r \in Req : Rewrites(r, u)
<1>1. CASE users'[u] = users[u]
  BY <1>1 DEF Live
<1>2. ASSUME NEW r \in Req, InsertUser(r) \/ InsertUserAndClub(r), users'[u] # users[u]
      PROVE  users[u] = Null
  BY <1>2 DEF InsertUser, InsertUserAndClub, NextUserId, TypeOK
<1>3. ASSUME NEW r \in Req, WriteUser(r), users'[u] # users[u] PROVE Goal
  <2> DEFINE row == UpdatedUser(users[form[r].id], form[r])
  <2>1. /\ form[r] \in Forms /\ form[r].kind = "updateUser" /\ form[r].id \in UserId
        /\ pc[r] = "write" /\ pc'[r] = "done" /\ users[form[r].id] \in UserRow
        /\ users' = [users EXCEPT ![form[r].id] = row]
    BY <1>3, FieldsOfBody DEF WriteUser, IsAt, Goto, TypeOK, Targets, Reading
  <2>2. row \in UserRow /\ row.deleted = users[form[r].id].deleted
    BY <2>1, UserWritten
  <2> HIDE DEF row
  <2>3. u = form[r].id /\ users'[u] = row
    BY <1>3, <2>1 DEF TypeOK
  <2> QED BY <2>1, <2>2, <2>3 DEF Rewrites, Live
<1>4. ASSUME NEW r \in Req, EraseUser(r), users'[u] # users[u] PROVE Goal
  <2> DEFINE row == [users[form[r].id] EXCEPT !.deleted = TRUE]
  <2>1. /\ form[r].kind = "removeUser" /\ form[r].id \in UserId /\ UNCHANGED clubs
        /\ pc[r] = "erase" /\ pc'[r] = "done" /\ users[form[r].id] \in UserRow
        /\ users' = [users EXCEPT ![form[r].id] = row]
    BY <1>4, FieldsOfBody DEF EraseUser, IsAt, Goto, TypeOK, Targets, Reading
  <2>2. users[form[r].id].deleted => row = users[form[r].id]
    BY <2>1 DEF UserRow
  <2> HIDE DEF row
  <2>3. u = form[r].id /\ users'[u] = row
    BY <1>4, <2>1 DEF TypeOK
  <2> QED BY <1>4, <2>1, <2>2, <2>3 DEF Erases, Live
<1> QED BY <1>1, <1>2, <1>3, <1>4, WhoWrites
        DEF Writers, UnlinkPresident, InsertClub, WriteClub, DeleteClub, Live

LEMMA TargetLivesStep ==
    ASSUME Sound, Together, [Next]_tables, NEW r \in Req, TargetLives(r)
    PROVE  TargetLives(r)'
<1>0. met'[r] \subseteq Req /\ met[r] \subseteq Req
  BY SoundStep DEF Sound, TypeOK
<1>1. CASE pc[r] # "idle" /\ pc'[r] = pc[r]
  <2>1. form'[r] = form[r] /\ met[r] \subseteq met'[r]
    BY <1>1, Kept
  <2> SUFFICES ASSUME form[r].kind = "updateUser", pc[r] \in {"login", "phone", "write"}
               PROVE  TargetLives(r)'
    BY <1>1, <2>1 DEF TargetLives
  <2>2. PICK u \in UserId : form[r].id = u
    BY <1>1, TablesAssumption, FieldsOfBody DEF Sound, TypeOK
  <2>3. CASE \E q \in met[r] : Removed(q, r)
    <3>1. PICK q \in met[r] : Removed(q, r)
      BY <2>3
    <3>2. pc'[q] = "done" /\ form'[q] = form[q]
      BY <1>0, <3>1, Kept DEF Removed, Places
    <3> QED BY <2>1, <3>1, <3>2 DEF TargetLives, Removed
  <2>4. ASSUME NEW q \in Req, Erases(q, u) PROVE TargetLives(r)'
    <3>1. pc[q] \in Places /\ pc[r] \in Places
      BY <2>4 DEF Erases, Places
    <3>2. q \in met'[r]
      BY <1>1, <2>4, <3>1, Met DEF Erases
    <3>3. form'[q] = form[q]
      BY <3>1, Kept DEF Places
    <3> QED BY <2>1, <2>2, <2>4, <3>2, <3>3 DEF TargetLives, Removed, Erases
  <2>5. CASE Live(u)'
    BY <2>1, <2>2, <2>5 DEF TargetLives, Live
  <2> QED BY <2>2, <2>3, <2>4, <2>5, LivesEnd DEF TargetLives
<1>2. CASE pc[r] # "idle" /\ pc'[r] # pc[r]
  <2>1. Steps(r) /\ UNCHANGED <<form, met>> /\ pc[r] \in Places
    BY <1>2, OwnStep DEF Steps
  <2>2. \A q \in met[r] : Removed(q, r) => Removed(q, r)'
    BY <1>0, <2>1, Kept DEF Removed, Places
  <2> USE <2>1, <2>2 DEF TargetLives, IsAt, Goto, Sound, TypeOK, Live
  <2>3. CASE ReadTarget(r)
    BY <2>3 DEF ReadTarget, Findable
  <2>4. CASE CheckLoginId(r) \/ CheckPhone(r)
    BY <2>4 DEF CheckLoginId, CheckPhone, AfterChecks
  <2>5. CASE Guard(r) \/ VerifyToken(r) \/ Abort(r)
    BY <2>5 DEF Guard, VerifyToken, Abort
  <2>6. CASE InsertUser(r) \/ WriteUser(r) \/ UnlinkPresident(r) \/ EraseUser(r) \/ ClubStep(r)
    BY <2>6 DEF InsertUser, WriteUser, UnlinkPresident, EraseUser, ClubStep, EnsurePresident,
       CheckDates, InsertClub, InsertUserAndClub, WriteClub, DeleteClub
  <2> QED BY <2>3, <2>4, <2>5, <2>6 DEF Steps, UserStep
<1>3. CASE pc[r] = "idle"
  <2>1. CASE pc'[r] = "idle"
    BY <2>1 DEF TargetLives
  <2>2. CASE pc'[r] # "idle"
    <3>1. PICK f \in Forms : form'[r] = f /\ pc'[r] = First(f)
      BY <1>3, <2>2, OwnStep
    <3> QED BY <3>1 DEF TargetLives, First
  <2> QED BY <2>1, <2>2
<1> QED BY <1>1, <1>2, <1>3

\* A step that writes the account of a removed user is that of an update which
\* the removal overtook.
THEOREM RemovedUserWrittenOnlyInRaces == Spec => RemovedUserWrittenByRaceOnly
<1> DEFINE Late ==
      \A u \in UserId : users[u] # Null /\ users[u].deleted /\ users'[u] # users[u] =>
          \E q, r \in Req :
             /\ Overtook(q, r)
             /\ form[q].kind = "removeUser" /\ form[r].kind = "updateUser"
             /\ form[q].id = u /\ form[r].id = u
           Inv == Together /\ \A r \in Req : TargetLives(r)
<1>1. Init => Inv
  BY DEF Init, Together, TargetLives, Places
<1>2. Sound /\ Inv /\ [Next]_tables => Inv'
  BY TogetherStep, TargetLivesStep
<1>3. Sound /\ Inv /\ [Next]_tables => Late
  <2> SUFFICES ASSUME Sound, Inv, [Next]_tables, NEW u \in UserId,
                      users[u] # Null, users[u].deleted, users'[u] # users[u]
               PROVE  \E q, r \in Req :
                         /\ Overtook(q, r)
                         /\ form[q].kind = "removeUser" /\ form[r].kind = "updateUser"
                         /\ form[q].id = u /\ form[r].id = u
    OBVIOUS
  <2>1. PICK r \in Req : Rewrites(r, u)
    BY LivesEnd
  <2>2. PICK q \in met[r] : Removed(q, r)
    BY <2>1 DEF Rewrites, TargetLives, Live
  <2>3. q \in Req
    BY <2>2 DEF Sound, TypeOK
  <2> QED BY <2>1, <2>2, <2>3 DEF Rewrites, Removed, Overtook
<1> HIDE DEF Late, Inv
<1>4. Spec => [][Late]_tables
  BY <1>1, <1>2, <1>3, SoundAlways, PTL DEF Spec
<1> QED BY <1>4 DEF Late, RemovedUserWrittenByRaceOnly

-----------------------------------------------------------------------------
(* Presidents, while no two requests overlap                               *)

Alone == \A q, r \in Req : pc[q] \in Places /\ pc[r] \in Places => q = r

Unlinked(r) ==
    form[r].kind = "removeUser" /\ pc[r] = "erase" =>
        \A c \in ClubId : LiveClub(c) => clubs[c].president_id # form[r].id

PresidentFound(r) ==
    \/ form[r].kind = "createClub" /\ pc[r] = "insert"
    \/ /\ form[r].kind = "updateClub" /\ pc[r] = "write"
       /\ form[r].president_id \notin {Null, Keep}
    => Findable(form[r].president_id)

\* The one request in flight can rely on what it has found.
Serial == serial => /\ Alone /\ NoDeletedPresident
                    /\ \A r \in Req : Unlinked(r) /\ PresidentFound(r)

LEMMA AloneStep ==
    ASSUME Sound, Serial, [Next]_tables, serial'
    PROVE  /\ serial /\ Alone'
           /\ \A r \in Req : pc'[r] \in Places /\ pc[r] \in Places /\ pc'[r] = pc[r]
                             => UNCHANGED <<users, clubs>>
<1>1. ASSUME NEW q \in Req, NEW f \in Forms, Submit(q, f)
      PROVE  serial /\ Alone' /\ UNCHANGED <<users, clubs>>
  BY <1>1 DEF Submit, Goto, InFlight, Serial, Alone, Sound, TypeOK
<1>2. ASSUME NEW q \in Req, Steps(q)
      PROVE  /\ serial /\ Alone'
             /\ \A r \in Req : pc[r] \in Places => r = q
  BY <1>2 DEF Steps, Goto, Serial, Alone, Sound, TypeOK
<1>3. CASE UNCHANGED tables
  BY <1>3 DEF tables, Serial, Alone
<1>4. ASSUME NEW q \in Req, Steps(q), pc'[q] = pc[q] PROVE UNCHANGED <<users, clubs>>
  BY <1>4 DEF Steps, UserStep, ClubStep, Abort, Guard, VerifyToken, CheckLoginId, CheckPhone,
     InsertUser, ReadTarget, WriteUser, UnlinkPresident, EraseUser, EnsurePresident,
     InsertClub, InsertUserAndClub, CheckDates, WriteClub, DeleteClub, AfterChecks, AfterDates,
     IsAt, Goto, Sound, TypeOK
<1>5. ASSUME NEW q \in Req, Steps(q), NEW r \in Req, pc[r] \in Places, pc'[r] = pc[r]
      PROVE  UNCHANGED <<users, clubs>>
  BY <1>2, <1>4, <1>5
<1> QED BY <1>1, <1>2, <1>3, <1>5, Movers DEF tables

LEMMA FoundStep ==
    ASSUME Sound, Serial, [Next]_tables, serial', NEW r \in Req
    PROVE  Unlinked(r)' /\ PresidentFound(r)'
<1>0. serial /\ Unlinked(r) /\ PresidentFound(r)
  BY AloneStep DEF Serial
<1>1. CASE pc'[r] \notin Places
  BY <1>1 DEF Unlinked, PresidentFound, Places
<1>2. CASE pc'[r] \in Places /\ pc'[r] = pc[r]
  <2>1. UNCHANGED <<users, clubs>> /\ form'[r] = form[r]
    BY <1>2, AloneStep, Kept DEF Places
  <2> QED BY <1>0, <1>2, <2>1 DEF Unlinked, PresidentFound, LiveClub, Findable, Live
<1>3. CASE pc'[r] # pc[r] /\ pc[r] # "idle"
  <2>1. Steps(r) /\ form' = form
    BY <1>3, OwnStep DEF Steps
  <2>2. form[r] \in Forms
    BY <1>3, TablesAssumption DEF Sound, TypeOK
  <2>3. /\ form[r].kind = "createClub" => form[r].president_id \in UserId
        /\ form[r].kind = "updateClub" => form[r].president_id \in UserId \cup {Null, Keep}
        /\ form[r].kind = "removeUser" => form[r].id \in UserId
    BY <2>2, FieldsOfBody
  <2>4. Null \notin UserId
    BY TablesAssumption DEF UserId
  <2> USE <2>1, <2>3, <2>4 DEF IsAt, Goto, Sound, TypeOK
  <2>5. CASE UnlinkPresident(r)
    <3>1. form[r].kind = "removeUser" /\ form[r].id \in UserId
          /\ clubs' = [c \in ClubId |->
                         IF LiveClub(c) /\ clubs[c].president_id = form[r].id
                         THEN [clubs[c] EXCEPT !.president_id = Null] ELSE clubs[c]]
      BY <2>5 DEF UnlinkPresident
    <3>2. ASSUME NEW c \in ClubId, LiveClub(c)' PROVE clubs'[c].president_id # form[r].id
      <4>1. CASE LiveClub(c) /\ clubs[c].president_id = form[r].id
        <5>1. clubs[c] \in ClubRow /\ clubs'[c] = [clubs[c] EXCEPT !.president_id = Null]
          BY <3>1, <4>1 DEF LiveClub
        <5> QED BY <3>1, <5>1 DEF ClubRow
      <4>2. CASE ~(LiveClub(c) /\ clubs[c].president_id = form[r].id)
        <5>1. clubs'[c] = clubs[c]
          BY <3>1, <4>2
        <5> QED BY <3>2, <4>2, <5>1 DEF LiveClub
      <4> QED BY <4>1, <4>2
    <3> QED BY <3>1, <3>2 DEF Unlinked, PresidentFound
  <2>6. CASE EnsurePresident(r)
    BY <2>6 DEF EnsurePresident, PresidentExists, PresidentFound, Unlinked, Findable, Live
  <2>7. CASE CheckDates(r)
    BY <2>7 DEF CheckDates, AfterDates, PresidentFound, Unlinked
  <2>8. CASE CheckLoginId(r) \/ CheckPhone(r)
    BY <2>8 DEF CheckLoginId, CheckPhone, AfterChecks, PresidentFound, Unlinked
  <2>9. CASE Guard(r) \/ VerifyToken(r) \/ ReadTarget(r) \/ Abort(r)
    BY <2>9 DEF Guard, VerifyToken, ReadTarget, Abort, PresidentFound, Unlinked
  <2>10. CASE InsertUser(r) \/ WriteUser(r) \/ EraseUser(r) \/ InsertClub(r)
              \/ InsertUserAndClub(r) \/ WriteClub(r) \/ DeleteClub(r)
    BY <2>10 DEF InsertUser, WriteUser, EraseUser, InsertClub, InsertUserAndClub, WriteClub,
       DeleteClub, PresidentFound, Unlinked
  <2> QED BY <2>5, <2>6, <2>7, <2>8, <2>9, <2>10 DEF Steps, UserStep, ClubStep
<1>4. CASE pc'[r] # pc[r] /\ pc[r] = "idle"
  <2>1. PICK f \in Forms : form'[r] = f /\ pc'[r] = First(f)
    BY <1>4, OwnStep
  <2> QED BY <2>1 DEF First, AfterDates, Unlinked, PresidentFound
<1> QED BY <1>1, <1>2, <1>3, <1>4

LEMMA PresidentStaysLive ==
    ASSUME Sound, Serial, [Next]_tables, serial' PROVE NoDeletedPresident'
<1> SUFFICES ASSUME NEW c \in ClubId, LiveClub(c)', clubs'[c].president_id # Null
             PROVE  Findable(clubs[c].president_id)'
  BY DEF NoDeletedPresident
<1>0. serial /\ NoDeletedPresident /\ \A r \in Req : Unlinked(r) /\ PresidentFound(r)
  BY AloneStep DEF Serial
<1>1. PresidentStep(c)
  BY Presidents DEF LiveClub
<1>2. PICK p : p = clubs'[c].president_id
  OBVIOUS
<1>3. p \in UserId
  BY <1>2, SoundStep DEF Sound, TypeOK, ClubRow, LiveClub
<1>4. Findable(p) => Findable(p)' \/ \E q \in Req : Erases(q, p)
  BY <1>3, LivesEnd, UserRows DEF UserRowStep, Findable, Live
<1>5. CASE clubs[c] # Null /\ clubs'[c].president_id = clubs[c].president_id
  <2>1. LiveClub(c)
    BY <1>5, ClubRows DEF ClubRowStep, LiveClub
  <2>2. Findable(p)
    BY <1>0, <1>2, <1>5, <2>1 DEF NoDeletedPresident
  <2>3. ASSUME NEW q \in Req, Erases(q, p) PROVE FALSE
    BY <1>0, <1>2, <1>5, <2>1, <2>3 DEF Erases, Unlinked
  <2> QED BY <1>2, <1>4, <2>2, <2>3 DEF Findable, Live
<1>6. ASSUME NEW r \in Req, FromBody(r, c), ~(clubs[c] # Null /\ clubs'[c].president_id = clubs[c].president_id)
      PROVE  Findable(p)'
  <2>1. form[r].president_id = p /\ p \notin {Null, Keep}
    BY <1>2, <1>3, <1>6, TablesAssumption DEF FromBody, UserId
  <2>2. Findable(p)
    BY <1>0, <1>6, <2>1 DEF FromBody, PresidentFound
  <2>3. ASSUME NEW q \in Req, Erases(q, p) PROVE FALSE
    BY <1>6, <2>3 DEF Erases, LiveClub
  <2> QED BY <1>4, <2>2, <2>3
<1>7. CASE FromRegistration(c)
  BY <1>2, <1>3, <1>7, UserRows DEF FromRegistration, UserRowStep, Findable, Live
<1>8. Findable(p)' => Findable(clubs[c].president_id)'
  BY <1>2 DEF Findable, Live
<1> QED BY <1>1, <1>5, <1>6, <1>7, <1>8, <1>2 DEF PresidentStep, Findable, Live

LEMMA SerialStep == Sound /\ Serial /\ [Next]_tables => Serial'
BY AloneStep, FoundStep, PresidentStaysLive DEF Serial

\* The president of a live club of these tables is a live ordinary user.
Orderly(t) ==
    \A c \in ClubId :
        t.clubs[c] # Null /\ ~t.clubs[c].deleted /\ t.clubs[c].president_id # Null =>
            LET u == t.users[t.clubs[c].president_id]
            IN  u # Null /\ ~u.deleted /\ ~u.is_system

LEMMA InitSerial == ASSUME \A t \in Start : Orderly(t) PROVE Init => Serial
<1> SUFFICES ASSUME Init PROVE Serial
  OBVIOUS
<1>1. PICK t \in Start : users = t.users /\ clubs = t.clubs
  BY DEF Init
<1>2. Orderly(t)
  BY <1>1
<1>3. NoDeletedPresident
  BY <1>1, <1>2 DEF Orderly, NoDeletedPresident, LiveClub, Findable, Live
<1>4. Alone /\ \A r \in Req : Unlinked(r) /\ PresidentFound(r)
  BY DEF Init, Alone, Places, Unlinked, PresidentFound
<1> QED BY <1>3, <1>4 DEF Serial

\* The invariant holds, whichever request is cut off between two statements.
LEMMA SerialAlways ==
    ASSUME \A t \in Start : Orderly(t) PROVE Spec => []Serial
BY InitSerial, SerialStep, SoundAlways, PTL DEF Spec

\* As long as no two requests overlap, the president of a live club is a live
\* ordinary user, even after a removal that was cut off half way.
THEOREM PresidentsStayLive ==
    ASSUME \A t \in Start : Orderly(t) PROVE Spec => []PresidentsAreLive
<1>1. Serial => PresidentsAreLive
  BY DEF Serial, PresidentsAreLive
<1> QED BY <1>1, SerialAlways, PTL
=============================================================================
