--------------------------- MODULE Banners_proofs ---------------------------
(***************************************************************************)
(* Theorems about module Banners, for any number of requests and banners   *)
(* and any dates: first what overlapping statements do, for which an       *)
(* instant is just an integer, then the calendar, and last what is decided *)
(* about a written date.                                                   *)
(***************************************************************************)
EXTENDS Banners, TLAPS

LEMMA DateIsInteger ==
    ASSUME NEW year \in Int, NEW month \in Int, NEW day \in Int
    PROVE  DateUTC(year, month, day) \in Int
<1> DEFINE y == (IF year <= 99 THEN 1900 + year ELSE year) + month \div 12
           m == month % 12
<1>1. y \in Int /\ m \in 0..11
  OBVIOUS
<1>2. <<0, 31, 59, 90, 120, 151, 181, 212, 243, 273, 304, 334>>[m + 1] \in Int
  BY <1>1
<1>3. DaysBefore(y, m) \in Int
  BY <1>1, <1>2 DEF DaysBefore
<1>4. DayFromYear(y) \in Int
  BY <1>1 DEF DayFromYear
<1> QED BY <1>3, <1>4 DEF DateUTC

LEMMA InstantIsInteger ==
    ASSUME NEW w \in Written PROVE parseSeoulDateTime(w) \in Int \cup {Invalid}
<1> DEFINE year  == w.year
           month == w.month - 1
           day   == w.day
           days  == DateUTC(year, month, day)
           hour  == IF w.hour = Absent THEN 0 ELSE w.hour
           zone  == IF w.zone = Absent \/ w.hour = Absent THEN 9 ELSE w.zone
<1>1. year \in Int /\ month \in Int /\ day \in Int /\ hour \in Int /\ zone \in Int
  <2>1. /\ year \in 0..LastYear /\ w.month \in 0..99 /\ w.day \in 0..99
        /\ w.hour \in 0..99 \cup {Absent} /\ w.zone \in -99..99 \cup {Absent}
    BY DEF Written
  <2>2. month \in Int /\ day \in Int /\ hour \in Int /\ zone \in Int
    BY <2>1
  <2> HIDE DEF year
  <2>3. year \in Int
    BY <2>1
  <2> QED BY <2>2, <2>3
<1> HIDE DEF year, month, day, hour, zone
<1>2. days \in Int
  BY <1>1, DateIsInteger, Zenon DEF days
<1> HIDE DEF days
<1>3. 24 * days + hour - zone \in Int
  BY <1>1, <1>2
<1> QED BY <1>3, Zenon DEF parseSeoulDateTime, days, hour, zone, year, month, day

\* The row of a body that was accepted.
LEMMA Payload ==
    ASSUME NEW f \in Forms, f.kind \in Writes, ValidForm(f)
    PROVE  /\ toEntityPayload(f) \in BannerRow /\ toEntityPayload(f) # Null
           /\ toEntityPayload(f).publish_start_at < toEntityPayload(f).publish_end_at
           /\ ~toEntityPayload(f).deleted
<1>1. f \in Form
  BY BannersAssumption
<1>2. /\ f.publish_start_at \in Written /\ f.publish_end_at \in Written
      /\ f.is_active \in BOOLEAN
  BY <1>1 DEF Form, Writes
<1>3. toEntityPayload(f) \in BannerRow
  BY <1>2, InstantIsInteger DEF ValidForm, toEntityPayload, BannerRow
<1> QED BY <1>3, BannersAssumption DEF ValidForm, toEntityPayload, validateDateRange

LEMMA Target ==
    ASSUME NEW f \in Forms
    PROVE  /\ f.kind \in {"create", "update", "remove", "findActive"}
           /\ f.kind \in {"update", "remove"} => f.id \in BannerId
<1>1. f \in Form
  BY BannersAssumption
<1> QED BY <1>1 DEF Form

\* What a request relies on where it is.
Doing(r) ==
    /\ pc[r] \in {"insert", "write"} /\ form[r].kind \in Writes => ValidForm(form[r])
    /\ pc[r] = "insert" => form[r].kind = "create"
    /\ pc[r] = "write" => form[r].kind \in {"update", "remove"}
    /\ pc[r] = "select" => form[r].kind = "findActive"
    /\ pc[r] = "reread" => form[r].kind = "update" /\ wrote[r]

\* The row an UPDATE has found is there for good.
Found(r) == wrote[r] => /\ pc[r] # "idle" /\ form[r].kind = "update"
                        /\ banners[form[r].id] # Null

\* ListIsAsOfArrival and AnsweredUpdateWasWritten, of one request.
Listed(r) ==
    pc[r] = "done" /\ form[r].kind = "findActive" =>
        \A id \in intact[r] :
            id \in answer[r] <=>
                /\ banners[id] # Null /\ ~banners[id].deleted /\ banners[id].is_active
                /\ now[r] \in banners[id].publish_start_at..banners[id].publish_end_at

Answered(r) ==
    pc[r] = "done" /\ form[r].kind = "update" =>
        /\ wrote[r]
        /\ answer[r] = Null => banners[form[r].id].deleted

OfRequest(r) == Doing(r) /\ Found(r) /\ Listed(r) /\ Answered(r)

BannersInv == TypeOK /\ DOMAIN answer = Req /\ \A r \in Req : OfRequest(r)

\* No period is empty at start.
StartsOrdered ==
    \A b \in Start, id \in BannerId :
        b[id] # Null => b[id].publish_start_at < b[id].publish_end_at

\* BannersInv is an invariant.
LEMMA InitBanners ==
    ASSUME StartsOrdered PROVE Init => BannersInv
BY BannersAssumption
   DEF StartsOrdered, Init, BannersInv, OfRequest, TypeOK, Doing, Found, Listed, Answered

\* The body of a request, as its kind has it.
LEMMA FormOf ==
    ASSUME BannersInv, NEW r \in Req, pc[r] # "idle"
    PROVE  /\ form[r] \in Forms /\ form[r].kind \in {"create", "update", "remove", "findActive"}
           /\ form[r].kind \in {"update", "remove"} => form[r].id \in BannerId
BY Target DEF BannersInv, TypeOK

\* A request does not notice what another one does, as long as no row changes.
LEMMA OthersQuiet ==
    ASSUME BannersInv, NEW r \in Req, NEW q \in Req \ {r},
           banners' = banners, intact'[q] = intact[q], form'[q] = form[q], pc'[q] = pc[q],
           now'[q] = now[q], answer'[q] = answer[q], wrote'[q] = wrote[q]
    PROVE  OfRequest(q)'
BY DEF BannersInv, OfRequest, Doing, Found, Listed, Answered

\* The statement of request r writes a row that was not deleted.
Writing(r, id, row) ==
    /\ id \in BannerId /\ row \in BannerRow
    /\ row.publish_start_at < row.publish_end_at
    /\ banners[id] # Null => ~banners[id].deleted
    /\ Put(id, row)
    /\ UNCHANGED <<clock, ticks, form, now, answer>>

LEMMA WritingStep ==
    ASSUME BannersInv, NEW r \in Req, NEW id, NEW row, Writing(r, id, row)
    PROVE  /\ banners' \in [BannerId -> BannerRow \cup {Null}]
           /\ \A i \in BannerId : banners'[i] # Null =>
                banners'[i].publish_start_at < banners'[i].publish_end_at
           /\ intact' \in [Req -> SUBSET BannerId]
           /\ banners'[id] # Null
           /\ \A q \in Req \ {r} : pc'[q] = pc[q] /\ wrote'[q] = wrote[q] => OfRequest(q)'
<1>1. /\ banners' \in [BannerId -> BannerRow \cup {Null}]
      /\ \A i \in BannerId : banners'[i] # Null =>
           banners'[i].publish_start_at < banners'[i].publish_end_at
      /\ intact' \in [Req -> SUBSET BannerId]
      /\ banners'[id] # Null
      /\ \A i \in BannerId \ {id} : banners'[i] = banners[i]
      /\ \A q \in Req : intact'[q] = intact[q] \ {id} /\ intact[q] \in SUBSET BannerId
  BY BannersAssumption DEF BannersInv, TypeOK, Writing, Put
<1>2. ASSUME NEW q \in Req \ {r}, pc'[q] = pc[q], wrote'[q] = wrote[q] PROVE OfRequest(q)'
  <2>1. Doing(q)'
    BY <1>2 DEF BannersInv, OfRequest, Doing, Writing
  <2>2. Found(q)'
    BY <1>1, <1>2, FormOf DEF BannersInv, OfRequest, Found, Writing
  <2>3. Listed(q)'
    BY <1>1, <1>2 DEF BannersInv, OfRequest, Listed, Writing
  <2>4. Answered(q)'
    <3> SUFFICES ASSUME pc[q] = "done", form[q].kind = "update"
                 PROVE  wrote[q] /\ (answer[q] = Null => banners'[form[q].id].deleted)
      BY <1>2 DEF Answered, Writing
    <3>1. /\ wrote[q] /\ banners[form[q].id] # Null /\ form[q].id \in BannerId
          /\ answer[q] = Null => banners[form[q].id].deleted
      BY FormOf DEF BannersInv, OfRequest, Found, Answered
    <3> QED BY <1>1, <3>1 DEF Writing
  <2> QED BY <2>1, <2>2, <2>3, <2>4 DEF OfRequest
<1> QED BY <1>1, <1>2

\* The row the body of an accepted update or create makes.
LEMMA AcceptedBody ==
    ASSUME BannersInv, NEW r \in Req, pc[r] \in {"insert", "write"}, form[r].kind \in Writes
    PROVE  /\ toEntityPayload(form[r]) \in BannerRow
           /\ toEntityPayload(form[r]).publish_start_at < toEntityPayload(form[r]).publish_end_at
BY FormOf, Payload DEF BannersInv, OfRequest, Doing

LEMMA BannersStep == BannersInv /\ [Next]_vars => BannersInv'
<1> SUFFICES ASSUME BannersInv, [Next]_vars PROVE BannersInv'
  OBVIOUS
<1> USE BannersAssumption
<1>1. CASE Tick
  BY <1>1 DEF Tick, BannersInv, OfRequest, TypeOK, Doing, Found, Listed, Answered
<1>2. ASSUME NEW r \in Req, NEW f \in Forms, Submit(r, f) PROVE BannersInv'
  <2>1. First(f) \in Places \cup {"refused"} /\ form'[r] = f /\ pc'[r] = First(f)
    BY <1>2 DEF First, Places, Submit, Goto, BannersInv, TypeOK
  <2>2. TypeOK' /\ DOMAIN answer' = Req
    BY <1>2, <2>1 DEF Submit, Goto, BannersInv, TypeOK, Ended
  <2>3. OfRequest(r)'
    BY <1>2, <2>1, Target
       DEF Submit, BannersInv, OfRequest, First, Writes, Places, Doing, Found, Listed, Answered
  <2>4. \A q \in Req \ {r} : OfRequest(q)'
    BY <1>2, OthersQuiet DEF Submit, Goto, BannersInv, TypeOK
  <2> QED BY <2>2, <2>3, <2>4 DEF BannersInv
<1>3. ASSUME NEW r \in Req, Insert(r) PROVE BannersInv'
  <2>1. form[r].kind = "create" /\ pc'[r] = "done" /\ ~wrote[r]
    BY <1>3 DEF Insert, Goto, BannersInv, TypeOK, OfRequest, Doing, Found
  <2>2. PICK id \in BannerId : Writing(r, id, toEntityPayload(form[r]))
    BY <1>3, <2>1, AcceptedBody DEF Insert, Writing, Writes
  <2>3. TypeOK' /\ DOMAIN answer' = Req
    BY <1>3, <2>2, WritingStep DEF Insert, Goto, BannersInv, TypeOK, Places, Ended
  <2>4. OfRequest(r)'
    BY <1>3, <2>1 DEF Insert, OfRequest, Doing, Found, Listed, Answered
  <2>5. \A q \in Req \ {r} : OfRequest(q)'
    BY <1>3, <2>2, WritingStep DEF Insert, Goto, BannersInv, TypeOK
  <2> QED BY <2>3, <2>4, <2>5 DEF BannersInv
<1>4. ASSUME NEW r \in Req, Update(r) PROVE BannersInv'
  <2>1. form[r].kind = "update" /\ form[r].id \in BannerId
    BY <1>4, FormOf DEF Update
  <2>2. CASE Stored(form[r].id)
    <3>1. Writing(r, form[r].id, toEntityPayload(form[r]))
      BY <1>4, <2>1, <2>2, AcceptedBody DEF Update, Stored, Writing, Writes
    <3>2. pc'[r] = "reread" /\ wrote'[r]
      BY <1>4, <2>2 DEF Update, Goto, BannersInv, TypeOK
    <3>3. TypeOK' /\ DOMAIN answer' = Req
      BY <1>4, <2>2, <3>1, WritingStep DEF Update, Goto, BannersInv, TypeOK, Places, Ended
    <3>4. OfRequest(r)'
      BY <2>1, <3>1, <3>2, WritingStep
         DEF Writing, OfRequest, Doing, Found, Listed, Answered
    <3>5. \A q \in Req \ {r} : OfRequest(q)'
      BY <1>4, <2>2, <3>1, WritingStep DEF Update, Goto, BannersInv, TypeOK
    <3> QED BY <3>3, <3>4, <3>5 DEF BannersInv
  <2>3. CASE ~Stored(form[r].id)
    <3>1. TypeOK' /\ DOMAIN answer' = Req
      BY <1>4, <2>3 DEF Update, Goto, BannersInv, TypeOK, Places, Ended
    <3>2. OfRequest(r)'
      BY <1>4, <2>3 DEF Update, Goto, BannersInv, TypeOK, OfRequest, Doing, Found, Listed,
         Answered
    <3>3. \A q \in Req \ {r} : OfRequest(q)'
      BY <1>4, <2>3, OthersQuiet DEF Update, Goto, BannersInv, TypeOK
    <3> QED BY <3>1, <3>2, <3>3 DEF BannersInv
  <2> QED BY <2>2, <2>3
<1>5. ASSUME NEW r \in Req, Remove(r) PROVE BannersInv'
  <2>1. form[r].kind = "remove" /\ form[r].id \in BannerId /\ ~wrote[r]
    BY <1>5, FormOf DEF Remove, BannersInv, OfRequest, Found
  <2>2. CASE Stored(form[r].id)
    <3> DEFINE id == form[r].id
    <3>1. /\ banners[id] \in BannerRow /\ ~banners[id].deleted
          /\ banners[id].publish_start_at < banners[id].publish_end_at
      BY <2>1, <2>2 DEF Stored, BannersInv, TypeOK
    <3>2. Writing(r, id, [banners[id] EXCEPT !.deleted = TRUE])
      BY <1>5, <2>1, <2>2, <3>1 DEF Remove, Writing, BannerRow
    <3>3. pc'[r] = "done"
      BY <1>5, <2>2 DEF Remove, Goto, BannersInv, TypeOK
    <3>4. TypeOK' /\ DOMAIN answer' = Req
      BY <1>5, <2>2, <3>2, WritingStep DEF Remove, Goto, BannersInv, TypeOK, Places, Ended
    <3>5. OfRequest(r)'
      BY <1>5, <2>1, <3>3 DEF Remove, OfRequest, Doing, Found, Listed, Answered
    <3>6. \A q \in Req \ {r} : OfRequest(q)'
      BY <1>5, <2>2, <3>2, WritingStep DEF Remove, Goto, BannersInv, TypeOK
    <3> QED BY <3>4, <3>5, <3>6 DEF BannersInv
  <2>3. CASE ~Stored(form[r].id)
    <3>1. TypeOK' /\ DOMAIN answer' = Req
      BY <1>5, <2>3 DEF Remove, Goto, BannersInv, TypeOK, Places, Ended
    <3>2. OfRequest(r)'
      BY <1>5, <2>1, <2>3
         DEF Remove, Goto, BannersInv, TypeOK, OfRequest, Doing, Found, Listed, Answered
    <3>3. \A q \in Req \ {r} : OfRequest(q)'
      BY <1>5, <2>3, OthersQuiet DEF Remove, Goto, BannersInv, TypeOK
    <3> QED BY <3>1, <3>2, <3>3 DEF BannersInv
  <2> QED BY <2>2, <2>3
<1>6. ASSUME NEW r \in Req, Reread(r) PROVE BannersInv'
  <2>1. /\ form[r].kind = "update" /\ wrote[r] /\ form[r].id \in BannerId
        /\ banners[form[r].id] \in BannerRow /\ pc'[r] = "done"
        /\ answer'[r] = IF Stored(form[r].id) THEN banners[form[r].id] ELSE Null
    BY <1>6, FormOf DEF Reread, Goto, BannersInv, TypeOK, OfRequest, Doing, Found
  <2>2. TypeOK' /\ DOMAIN answer' = Req
    BY <1>6 DEF Reread, Goto, BannersInv, TypeOK, Ended
  <2>3. OfRequest(r)'
    BY <1>6, <2>1 DEF Reread, Stored, OfRequest, Doing, Found, Listed, Answered
  <2>4. \A q \in Req \ {r} : OfRequest(q)'
    BY <1>6, OthersQuiet DEF Reread, Goto, BannersInv, TypeOK
  <2> QED BY <2>2, <2>3, <2>4 DEF BannersInv
<1>7. ASSUME NEW r \in Req, FindActive(r) PROVE BannersInv'
  <2>1. /\ form[r].kind = "findActive" /\ pc'[r] = "done" /\ ~wrote[r]
        /\ answer'[r] = {id \in BannerId : Active(id, now[r])}
    BY <1>7 DEF FindActive, Goto, BannersInv, TypeOK, OfRequest, Doing, Found
  <2>2. TypeOK' /\ DOMAIN answer' = Req
    BY <1>7 DEF FindActive, Goto, BannersInv, TypeOK, Ended
  <2>3. Listed(r)'
    <3> SUFFICES ASSUME NEW id \in intact[r]
                 PROVE  Active(id, now[r]) <=>
                          /\ banners[id] # Null /\ ~banners[id].deleted /\ banners[id].is_active
                          /\ now[r] \in banners[id].publish_start_at..banners[id].publish_end_at
      BY <1>7, <2>1 DEF FindActive, BannersInv, TypeOK, Listed
    <3>1. id \in BannerId /\ now[r] \in Nat
      BY DEF BannersInv, TypeOK
    <3>2. banners[id] # Null => /\ banners[id].publish_start_at \in Int
                                /\ banners[id].publish_end_at \in Int
      BY <3>1 DEF BannersInv, TypeOK, BannerRow
    <3> QED BY <3>1, <3>2 DEF Active, Stored
  <2>4. OfRequest(r)'
    BY <1>7, <2>1, <2>3 DEF FindActive, OfRequest, Doing, Found, Answered
  <2>5. \A q \in Req \ {r} : OfRequest(q)'
    BY <1>7, OthersQuiet DEF FindActive, Goto, BannersInv, TypeOK
  <2> QED BY <2>2, <2>4, <2>5 DEF BannersInv
<1>8. ASSUME NEW r \in Req, Abort(r) PROVE BannersInv'
  <2>1. TypeOK' /\ DOMAIN answer' = Req
    BY <1>8 DEF Abort, Goto, BannersInv, TypeOK, Places, Ended
  <2>2. OfRequest(r)'
    BY <1>8 DEF Abort, Goto, BannersInv, TypeOK, Places, OfRequest, Doing, Found, Listed,
       Answered
  <2>3. \A q \in Req \ {r} : OfRequest(q)'
    BY <1>8, OthersQuiet DEF Abort, Goto, BannersInv, TypeOK
  <2> QED BY <2>1, <2>2, <2>3 DEF BannersInv
<1>9. CASE UNCHANGED vars
  BY <1>9 DEF vars, BannersInv, OfRequest, TypeOK, Doing, Found, Listed, Answered
<1> QED BY <1>1, <1>2, <1>3, <1>4, <1>5, <1>6, <1>7, <1>8, <1>9 DEF Next

\* No statement touches a deleted row: an update and a removal carry the
\* condition, an insert takes an id no row has.
LEMMA DeletedRowStep ==
    ASSUME BannersInv, [Next]_vars, NEW id \in BannerId, banners[id] # Null, banners[id].deleted
    PROVE  banners'[id] = banners[id]
<1>1. ASSUME NEW i \in BannerId, NEW row, Put(i, row), i # id PROVE banners'[id] = banners[id]
  BY <1>1 DEF Put, BannersInv, TypeOK
<1>2. ASSUME NEW r \in Req, Insert(r) PROVE banners'[id] = banners[id]
  BY <1>1, <1>2 DEF Insert
<1>3. ASSUME NEW r \in Req, Update(r) \/ Remove(r) PROVE banners'[id] = banners[id]
  BY <1>1, <1>3, FormOf DEF Update, Remove, Stored
<1> QED BY <1>2, <1>3 DEF Next, vars, Tick, Submit, Reread, FindActive, Abort

-----------------------------------------------------------------------------

\* A banner that was removed stays as it is, whatever is on its way.
THEOREM RemovalIsFinal ==
    ASSUME StartsOrdered PROVE Spec => RemovedIsFrozen
<1>1. Init => BannersInv
  BY InitBanners
<1>2. BannersInv /\ [Next]_vars
      => [\A id \in BannerId : banners[id] # Null /\ banners[id].deleted
                               => banners'[id] = banners[id]]_vars
  BY DeletedRowStep
<1> QED BY <1>1, <1>2, BannersStep, PTL DEF Spec, RemovedIsFrozen

\* Rows stay well formed and their periods not empty, whichever updates and
\* removals overlap, if the table starts so.
THEOREM TypeCorrect ==
    ASSUME StartsOrdered PROVE Spec => []TypeOK
<1>1. Init => BannersInv
  BY InitBanners
<1>2. BannersInv => TypeOK
  BY DEF BannersInv
<1> QED BY <1>1, <1>2, BannersStep, PTL DEF Spec

\* The public list is the one of the moment it was asked for, as far as nobody
\* writes in between.
THEOREM ListShowsArrival ==
    ASSUME StartsOrdered PROVE Spec => []ListIsAsOfArrival
<1>1. Init => BannersInv
  BY InitBanners
<1>2. BannersInv => ListIsAsOfArrival
  BY DEF BannersInv, OfRequest, Listed, ListIsAsOfArrival
<1> QED BY <1>1, <1>2, BannersStep, PTL DEF Spec

\* An update answered with success was written, and shows no banner only if
\* the banner was removed meanwhile.
THEOREM UpdateWasWritten ==
    ASSUME StartsOrdered PROVE Spec => []AnsweredUpdateWasWritten
<1>1. Init => BannersInv
  BY InitBanners
<1>2. BannersInv => AnsweredUpdateWasWritten
  BY DEF BannersInv, OfRequest, Answered, AnsweredUpdateWasWritten
<1> QED BY <1>1, <1>2, BannersStep, PTL DEF Spec

-----------------------------------------------------------------------------
(* The calendar of Date: years, months and days of the month               *)

\* The days before a year are counted in whole days.
LEMMA YearIsInteger == ASSUME NEW y \in Int PROVE DayFromYear(y) \in Int
BY DEF DayFromYear

\* A year has 365 days or, if it is a leap year, 366.
LEMMA YearLength ==
    ASSUME NEW y \in Int
    PROVE  DayFromYear(y + 1) = DayFromYear(y) + IF IsLeap(y) THEN 366 ELSE 365
BY SMT DEF DayFromYear, IsLeap

\* The 400 years of a cycle have 146097 days, and every year begins within a
\* day and a half of its mean.
NearMean(y) ==
    LET e == 400 * DayFromYear(y) - 146097 * (y - 1970) IN -600 <= e /\ e <= 600

LEMMA MeanYear ==
    ASSUME NEW y \in Int PROVE NearMean(y)
BY SMT DEF DayFromYear, NearMean

\* Day d is one of year y.
DayInYear(d, y) == DayFromYear(y) <= d /\ d < DayFromYear(y + 1)

\* Day d is in year y, give or take a day and a half.
Near(d, y) == 146097 * (y - 1970) - 600 <= 400 * d /\ 400 * d < 146097 * (y - 1969) + 600

\* Where YearOf begins to look.
Guess(d) == 1970 + (400 * d) \div 146097

\* No day is further from its year than that.
LEMMA DaysAreNear ==
    ASSUME NEW d \in Int, NEW y \in Int, DayInYear(d, y) PROVE Near(d, y)
<1> DEFINE a == DayFromYear(y)
           b == DayFromYear(y + 1)
<1>1. y + 1 \in Int
  OBVIOUS
<1>2. a \in Int /\ NearMean(y)
  BY YearIsInteger, MeanYear
<1>3. b \in Int /\ NearMean(y + 1)
  BY <1>1, YearIsInteger, MeanYear
<1>4. a <= d /\ d < b
  BY DEF DayInYear
<1>5. -600 <= 400 * a - 146097 * (y - 1970)
  BY <1>2, SMT DEF NearMean
<1>6. 400 * b - 146097 * (y - 1969) <= 600
  BY <1>1, <1>3, SMT DEF NearMean
<1> HIDE DEF a, b
<1>7. 146097 * (y - 1970) - 600 <= 400 * d
  BY <1>2, <1>4, <1>5, SMT
<1>8. 400 * d < 146097 * (y - 1969) + 600
  BY <1>3, <1>4, <1>6, SMT
<1> QED BY <1>7, <1>8, SMT DEF Near

\* No day is in two years: the years would be neighbours, and one begins where
\* the other ends.
LEMMA OneYear ==
    ASSUME NEW d \in Int, NEW y \in Int, NEW z \in Int, DayInYear(d, y), DayInYear(d, z)
    PROVE  y = z
<1>1. ASSUME NEW a \in Int, NEW b \in Int, a < b, DayInYear(d, a), DayInYear(d, b) PROVE FALSE
  <2>1. Near(d, a) /\ Near(d, b)
    BY <1>1, DaysAreNear
  <2>2. b = a + 1
    BY <1>1, <2>1, SMT DEF Near
  <2>3. DayFromYear(a + 1) <= d /\ d < DayFromYear(a + 1)
    BY <1>1, <2>2 DEF DayInYear
  <2>4. a + 1 \in Int
    BY <1>1
  <2>5. DayFromYear(a + 1) \in Int
    BY <2>4, YearIsInteger
  <2> QED BY <2>3, <2>5
<1> QED BY <1>1

\* Every day is in one of the three years YearOf looks at.
LEMMA SomeYear ==
    ASSUME NEW d \in Int
    PROVE  \E y \in Guess(d) - 1..Guess(d) + 1 : DayInYear(d, y)
<1> DEFINE n == Guess(d)
           first(y) == DayFromYear(y)
<1>1. n \in Int /\ 146097 * (n - 1970) <= 400 * d /\ 400 * d < 146097 * (n - 1969)
  BY SMT DEF Guess
<1>0. n \in Int
  BY <1>1, SMT
<1> HIDE DEF n
<1>2. n - 1 \in Int /\ n + 1 \in Int /\ n + 2 \in Int /\ (n - 1) + 1 = n /\ (n + 1) + 1 = n + 2
  BY <1>0
<1>3. first(n - 1) \in Int /\ NearMean(n - 1)
  BY <1>2, YearIsInteger, MeanYear
<1>4. first(n + 2) \in Int /\ NearMean(n + 2)
  BY <1>2, YearIsInteger, MeanYear
<1>5. first(n) \in Int /\ first(n + 1) \in Int
  BY <1>0, <1>2, YearIsInteger
<1>6. DayInYear(d, n - 1) <=> first(n - 1) <= d /\ d < first(n)
  BY <1>2 DEF DayInYear
<1>7. DayInYear(d, n) <=> first(n) <= d /\ d < first(n + 1)
  BY DEF DayInYear
<1>8. DayInYear(d, n + 1) <=> first(n + 1) <= d /\ d < first(n + 2)
  BY <1>2 DEF DayInYear
<1>9. first(n - 1) <= d
  BY <1>1, <1>3, SMT DEF NearMean
<1>10. d < first(n + 2)
  BY <1>1, <1>4, SMT DEF NearMean
<1> HIDE DEF first
<1>11. DayInYear(d, n - 1) \/ DayInYear(d, n) \/ DayInYear(d, n + 1)
  BY <1>5, <1>6, <1>7, <1>8, <1>9, <1>10
<1>12. n - 1 \in n - 1..n + 1 /\ n \in n - 1..n + 1 /\ n + 1 \in n - 1..n + 1
  BY <1>0
<1>13. \E y \in n - 1..n + 1 : DayInYear(d, y)
  BY <1>11, <1>12, Zenon
<1> QED BY <1>13 DEF n

\* YearOf finds the year of a day
LEMMA YearOfDay ==
    ASSUME NEW d \in Int PROVE YearOf(d) \in Int /\ DayInYear(d, YearOf(d))
<1> DEFINE near == Guess(d) - 1..Guess(d) + 1
<1>0. Guess(d) \in Int
  BY SMT DEF Guess
<1>1. near \subseteq Int
  BY <1>0
<1>2. \E y \in near : DayFromYear(y) <= d /\ d < DayFromYear(y + 1)
  BY SomeYear DEF DayInYear
<1>3. YearOf(d) = CHOOSE y \in near : DayFromYear(y) <= d /\ d < DayFromYear(y + 1)
  BY SMT DEF YearOf, Guess
<1> HIDE DEF near
<1>4. /\ YearOf(d) \in near
      /\ DayFromYear(YearOf(d)) <= d /\ d < DayFromYear(YearOf(d) + 1)
  BY <1>2, <1>3, Zenon
<1> QED BY <1>1, <1>4, Zenon DEF DayInYear

\* and no other one.
LEMMA YearOfIs ==
    ASSUME NEW d \in Int, NEW y \in Int, DayInYear(d, y) PROVE YearOf(d) = y
BY YearOfDay, OneYear, Zenon

\* The leap day as a number.
Leap(y) == IF IsLeap(y) THEN 1 ELSE 0

\* The table of the days before each month.
LEMMA MonthTable ==
    ASSUME NEW y \in Int
    PROVE  /\ DaysBefore(y, 0) = 0 /\ DaysBefore(y, 1) = 31
           /\ DaysBefore(y, 2) = 59 + Leap(y) /\ DaysBefore(y, 3) = 90 + Leap(y)
           /\ DaysBefore(y, 4) = 120 + Leap(y) /\ DaysBefore(y, 5) = 151 + Leap(y)
           /\ DaysBefore(y, 6) = 181 + Leap(y) /\ DaysBefore(y, 7) = 212 + Leap(y)
           /\ DaysBefore(y, 8) = 243 + Leap(y) /\ DaysBefore(y, 9) = 273 + Leap(y)
           /\ DaysBefore(y, 10) = 304 + Leap(y) /\ DaysBefore(y, 11) = 334 + Leap(y)
BY SMT DEF DaysBefore, Leap

\* The first day of month m, counted from 0, of year y.
FirstDay(y, m) == DayFromYear(y) + DaysBefore(y, m)

\* The first day of the month after month m.
NextFirst(y, m) == IF m = 11 THEN DayFromYear(y + 1) ELSE FirstDay(y, m + 1)

\* The table agrees with the lengths of the months everybody knows.
LEMMA MonthLength ==
    ASSUME NEW y \in Int, NEW m \in 0..11
    PROVE  /\ DaysBefore(y, m) \in Int /\ FirstDay(y, m) \in Int /\ NextFirst(y, m) \in Int
           /\ DaysIn(y, m + 1) \in 28..31
           /\ NextFirst(y, m) = FirstDay(y, m) + DaysIn(y, m + 1)
<1>1. /\ DayFromYear(y) \in Int /\ Leap(y) \in 0..1
      /\ DayFromYear(y + 1) = DayFromYear(y) + 365 + Leap(y)
  BY YearIsInteger, YearLength, SMT DEF Leap
<1>2. DaysIn(y, m + 1) = IF m = 1 THEN 28 + Leap(y) ELSE IF m \in {3, 5, 8, 10} THEN 30 ELSE 31
  BY SMT DEF DaysIn, Leap
<1> QED BY <1>1, <1>2, MonthTable, SMT DEF FirstDay, NextFirst

\* A month ends before a later one begins.
LEMMA MonthsInOrder ==
    ASSUME NEW y \in Int, NEW m \in 0..11, NEW n \in 0..11, m < n
    PROVE  NextFirst(y, m) <= FirstDay(y, n)
<1>1. DayFromYear(y) \in Int /\ Leap(y) \in 0..1
  BY YearIsInteger, SMT DEF Leap
<1> QED BY <1>1, MonthTable, SMT DEF FirstDay, NextFirst

\* Day d is one of month m of year y.
DayInMonth(d, y, m) == FirstDay(y, m) <= d /\ d < NextFirst(y, m)

\* The months do not leave their year.
LEMMA MonthWithinYear ==
    ASSUME NEW y \in Int, NEW m \in 0..11
    PROVE  DayFromYear(y) <= FirstDay(y, m) /\ NextFirst(y, m) <= DayFromYear(y + 1)
<1>1. /\ DayFromYear(y) \in Int /\ Leap(y) \in 0..1
      /\ DayFromYear(y + 1) = DayFromYear(y) + 365 + Leap(y)
  BY YearIsInteger, YearLength, SMT DEF Leap
<1> QED BY <1>1, MonthTable, SMT DEF FirstDay, NextFirst

\* Every day of a year is in one of its months.
LEMMA SomeMonth ==
    ASSUME NEW d \in Int, NEW y \in Int, DayInYear(d, y)
    PROVE  \E m \in 0..11 : DayInMonth(d, y, m)
<1>1. /\ DayFromYear(y) \in Int /\ Leap(y) \in 0..1
      /\ DayFromYear(y + 1) = DayFromYear(y) + 365 + Leap(y)
  BY YearIsInteger, YearLength, SMT DEF Leap
<1>2. /\ FirstDay(y, 0) <= d /\ d < DayFromYear(y + 1)
  BY <1>1, MonthTable, SMT DEF FirstDay, DayInYear
<1>3. PICK m \in 0..11 : FirstDay(y, m) <= d /\ (m < 11 => d < FirstDay(y, m + 1))
  BY <1>1, <1>2, MonthTable, SMT DEF FirstDay
<1> QED BY <1>2, <1>3, SMT DEF DayInMonth, NextFirst

\* The parts of a day are those of its year and month.
LEMMA MonthOfIs ==
    ASSUME NEW d \in Int, NEW y \in Int, NEW m \in 0..11, DayInMonth(d, y, m)
    PROVE  /\ YearOf(d) = y /\ MonthOf(d) = m
           /\ DayOf(d) = d - FirstDay(y, m) + 1
<1>0. /\ DayFromYear(y) \in Int /\ DaysBefore(y, m) \in Int
      /\ FirstDay(y, m) \in Int /\ NextFirst(y, m) \in Int
  BY YearIsInteger, MonthLength
<1>1. DayInYear(d, y)
  <2>1. y + 1 \in Int
    OBVIOUS
  <2>2. DayFromYear(y + 1) \in Int
    BY <2>1, YearIsInteger
  <2>3. DayFromYear(y) <= FirstDay(y, m) /\ NextFirst(y, m) <= DayFromYear(y + 1)
    BY MonthWithinYear
  <2> QED BY <1>0, <2>2, <2>3, SMT DEF DayInYear, DayInMonth
<1>2. YearOf(d) = y
  BY <1>1, YearOfIs
<1> DEFINE P(k) == /\ DayFromYear(y) + DaysBefore(y, k) <= d
                   /\ k < 11 => d < DayFromYear(y) + DaysBefore(y, k + 1)
<1>3. MonthOf(d) = CHOOSE k \in 0..11 : P(k)
  BY <1>2, SMT DEF MonthOf
<1>4. ASSUME NEW k \in 0..11
      PROVE  P(k) <=> FirstDay(y, k) <= d /\ (k < 11 => d < FirstDay(y, k + 1))
  BY DEF FirstDay
<1>5. P(m)
  BY <1>4, SMT DEF DayInMonth, NextFirst
<1>6. ASSUME NEW k \in 0..11, P(k) PROVE k = m
  <2>1. DayInMonth(d, y, k)
    BY <1>1, <1>4, <1>6, SMT DEF DayInMonth, NextFirst, DayInYear
  <2>2. /\ FirstDay(y, k) \in Int /\ NextFirst(y, k) \in Int
        /\ FirstDay(y, m) \in Int /\ NextFirst(y, m) \in Int
    BY MonthLength
  <2>3. ~(k < m) /\ ~(m < k)
    BY <2>1, <2>2, MonthsInOrder, SMT DEF DayInMonth
  <2> QED BY <2>3
<1> HIDE DEF P
<1>7. MonthOf(d) = m
  BY <1>3, <1>5, <1>6, Zenon
<1> QED BY <1>0, <1>2, <1>7, SMT DEF DayOf, FirstDay

\* The parts of a day are a date of the calendar, and give the day back.
LEMMA DayParts ==
    ASSUME NEW d \in Int
    PROVE  /\ YearOf(d) \in Int /\ MonthOf(d) \in 0..11
           /\ DayOf(d) \in 1..DaysIn(YearOf(d), MonthOf(d) + 1)
           /\ d = FirstDay(YearOf(d), MonthOf(d)) + DayOf(d) - 1
<1>1. PICK y \in Int : DayInYear(d, y)
  BY YearOfDay
<1>2. PICK m \in 0..11 : DayInMonth(d, y, m)
  BY <1>1, SomeMonth
<1>3. YearOf(d) = y /\ MonthOf(d) = m /\ DayOf(d) = d - FirstDay(y, m) + 1
  BY <1>2, MonthOfIs
<1>4. /\ FirstDay(y, m) \in Int /\ DaysIn(y, m + 1) \in 28..31
      /\ NextFirst(y, m) = FirstDay(y, m) + DaysIn(y, m + 1)
  BY MonthLength
<1> QED BY <1>2, <1>3, <1>4, SMT DEF DayInMonth

\* A date of the calendar comes back from the day it stands for.
LEMMA DayOfDate ==
    ASSUME NEW y \in Int, NEW m \in 0..11, NEW k \in 1..DaysIn(y, m + 1)
    PROVE  LET d == FirstDay(y, m) + k - 1
           IN  d \in Int /\ YearOf(d) = y /\ MonthOf(d) = m /\ DayOf(d) = k
<1> DEFINE d == FirstDay(y, m) + k - 1
<1>1. /\ FirstDay(y, m) \in Int /\ DaysIn(y, m + 1) \in 28..31
      /\ NextFirst(y, m) = FirstDay(y, m) + DaysIn(y, m + 1)
  BY MonthLength
<1>2. d \in Int /\ FirstDay(y, m) <= d /\ d < NextFirst(y, m) /\ d - FirstDay(y, m) + 1 = k
  BY <1>1, SMT
<1> HIDE DEF d
<1>3. DayInMonth(d, y, m)
  BY <1>2 DEF DayInMonth
<1>4. YearOf(d) = y /\ MonthOf(d) = m /\ DayOf(d) = d - FirstDay(y, m) + 1
  BY <1>2, <1>3, MonthOfIs
<1>5. d \in Int /\ YearOf(d) = y /\ MonthOf(d) = m /\ DayOf(d) = k
  BY <1>2, <1>4
<1> QED BY <1>5 DEF d

\* A year of two digits is over long before the one Date takes it for.
LEMMA YearsApart ==
    ASSUME NEW d \in Int, NEW y \in Int, 0 <= y, DayInYear(d, y)
    PROVE  d < DayFromYear(1900 + y)
<1>1. 1900 + y \in Int
  OBVIOUS
<1>2. DayFromYear(1900 + y) \in Int /\ NearMean(1900 + y)
  BY <1>1, YearIsInteger, MeanYear
<1>3. Near(d, y)
  BY DaysAreNear
<1> QED BY <1>2, <1>3, SMT DEF Near, NearMean

\* The day Date makes of a year, a month that exists and any day.
LEMMA DateOfParts ==
    ASSUME NEW y \in Int, NEW m \in 0..11, NEW k \in Int
    PROVE  /\ y > 99 => DateUTC(y, m, k) = FirstDay(y, m) + k - 1
           /\ y <= 99 => DateUTC(y, m, k) = FirstDay(1900 + y, m) + k - 1
<1>1. m \div 12 = 0 /\ m % 12 = m
  BY SMT
<1>2. y + 0 = y /\ 1900 + y + 0 = 1900 + y
  BY SMT
<1>3. CASE y > 99
  BY <1>1, <1>2, <1>3, SMT DEF DateUTC, FirstDay
<1>4. CASE y <= 99
  BY <1>1, <1>2, <1>4, SMT DEF DateUTC, FirstDay
<1> QED BY <1>3, <1>4, SMT

\* Year, month and day are a date that Date does not take for another one.
Parts(y, m, k) == 100 <= y /\ m \in 1..12 /\ k \in 1..DaysIn(y, m)

\* Date gives the parts back exactly if they are: a day that runs over would
\* come back in the next month, a year of two digits in another century.
LEMMA ValidParts ==
    ASSUME NEW y \in Nat, NEW m \in Int, NEW k \in Int
    PROVE  LET d == DateUTC(y, m - 1, k)
           IN  /\ YearOf(d) = y /\ MonthOf(d) = m - 1 /\ DayOf(d) = k <=> Parts(y, m, k)
               /\ Parts(y, m, k) => d = FirstDay(y, m - 1) + k - 1
<1> DEFINE d == DateUTC(y, m - 1, k)
<1>1. y \in Int /\ m - 1 \in Int /\ k \in Int
  BY SMT
<1>2. d \in Int
  BY <1>1, DateIsInteger
<1>3. ASSUME Parts(y, m, k)
      PROVE  /\ YearOf(d) = y /\ MonthOf(d) = m - 1 /\ DayOf(d) = k
             /\ d = FirstDay(y, m - 1) + k - 1
  <2>1. m - 1 \in 0..11 /\ (m - 1) + 1 = m /\ y > 99
    BY <1>3, SMT DEF Parts
  <2>2. d = FirstDay(y, m - 1) + k - 1
    BY <1>1, <2>1, DateOfParts
  <2>3. k \in 1..DaysIn(y, (m - 1) + 1)
    BY <1>3, <2>1 DEF Parts
  <2> QED BY <1>1, <2>1, <2>2, <2>3, DayOfDate
<1>4. ASSUME YearOf(d) = y, MonthOf(d) = m - 1, DayOf(d) = k
      PROVE  Parts(y, m, k)
  <2>1. /\ m - 1 \in 0..11 /\ k \in 1..DaysIn(y, m - 1 + 1)
        /\ d = FirstDay(y, m - 1) + k - 1
    BY <1>2, <1>4, DayParts
  <2>2. m \in 1..12 /\ k \in 1..DaysIn(y, m)
    <3>1. m - 1 + 1 = m /\ m \in 1..12
      BY <2>1
    <3> QED BY <2>1, <3>1
  <2>3. ASSUME y <= 99 PROVE FALSE
    <3> DEFINE z == 1900 + y
               n == m - 1
    <3>1. z \in Int /\ n \in 0..11 /\ 0 <= y
      BY <1>1, <2>1
    <3>2. d = FirstDay(z, n) + k - 1
      BY <1>1, <2>1, <2>3, DateOfParts
    <3>3. d < DayFromYear(z)
      BY <1>1, <1>2, <1>4, <3>1, YearOfDay, YearsApart
    <3>4. k >= 1
      BY <2>2, SMT
    <3> HIDE DEF z, n
    <3>5. DayFromYear(z) \in Int /\ FirstDay(z, n) \in Int /\ DayFromYear(z) <= FirstDay(z, n)
      BY <3>1, YearIsInteger, MonthLength, MonthWithinYear
    <3> QED BY <1>1, <1>2, <3>2, <3>3, <3>4, <3>5
  <2> QED BY <2>2, <2>3, SMT DEF Parts
<1> QED BY <1>3, <1>4

\* A year ends before a later one begins.
LEMMA YearsInOrder ==
    ASSUME NEW y \in Int, NEW z \in Int, y < z
    PROVE  DayFromYear(y + 1) <= DayFromYear(z)
<1>1. y + 1 \in Int
  OBVIOUS
<1>2. /\ DayFromYear(y + 1) \in Int /\ NearMean(y + 1)
      /\ DayFromYear(z) \in Int /\ NearMean(z)
  BY <1>1, YearIsInteger, MeanYear
<1>3. CASE z = y + 1
  BY <1>2, <1>3
<1>4. CASE y + 1 < z
  BY <1>2, <1>4, SMT DEF NearMean
<1> QED BY <1>3, <1>4

\* The number of a day of the calendar, of which Parts holds.
DayNumber(y, m, k) == FirstDay(y, m - 1) + k - 1

\* Dates in the order they are written in.
Earlier(y, m, k, z, n, l) ==
    \/ y < z
    \/ y = z /\ m < n
    \/ y = z /\ m = n /\ k < l

\* A date of the calendar is within its month and its year.
LEMMA DayWithin ==
    ASSUME NEW y \in Int, NEW m \in Int, NEW k \in Int, Parts(y, m, k)
    PROVE  /\ m - 1 \in 0..11 /\ DayNumber(y, m, k) \in Int
           /\ FirstDay(y, m - 1) \in Int /\ NextFirst(y, m - 1) \in Int
           /\ DayFromYear(y) \in Int /\ DayFromYear(y + 1) \in Int
           /\ FirstDay(y, m - 1) <= DayNumber(y, m, k)
           /\ DayNumber(y, m, k) < NextFirst(y, m - 1)
           /\ DayFromYear(y) <= DayNumber(y, m, k)
           /\ DayNumber(y, m, k) < DayFromYear(y + 1)
<1> DEFINE n == m - 1
           d == DayNumber(y, m, k)
<1>1. n \in 0..11 /\ n + 1 = m /\ y + 1 \in Int
  BY SMT DEF Parts
<1>2. k \in 1..DaysIn(y, n + 1) /\ d = FirstDay(y, n) + k - 1
  BY <1>1 DEF Parts, DayNumber
<1> HIDE DEF n, d
<1>3. /\ DayFromYear(y) \in Int /\ DayFromYear(y + 1) \in Int
      /\ FirstDay(y, n) \in Int /\ NextFirst(y, n) \in Int /\ DaysIn(y, n + 1) \in 28..31
      /\ NextFirst(y, n) = FirstDay(y, n) + DaysIn(y, n + 1)
      /\ DayFromYear(y) <= FirstDay(y, n) /\ NextFirst(y, n) <= DayFromYear(y + 1)
  BY <1>1, YearIsInteger, MonthLength, MonthWithinYear
<1>4. d \in Int /\ FirstDay(y, n) <= d /\ d < NextFirst(y, n)
  BY <1>2, <1>3, SMT
<1>5. DayFromYear(y) <= d /\ d < DayFromYear(y + 1)
  BY <1>3, <1>4, SMT
<1> QED BY <1>1, <1>3, <1>4, <1>5 DEF n, d

\* Days follow each other as years, months and days of the month do.
LEMMA DaysInOrder ==
    ASSUME NEW y \in Int, NEW m \in Int, NEW k \in Int, Parts(y, m, k),
           NEW z \in Int, NEW n \in Int, NEW l \in Int, Parts(z, n, l),
           Earlier(y, m, k, z, n, l)
    PROVE  DayNumber(y, m, k) < DayNumber(z, n, l)
<1> DEFINE d == DayNumber(y, m, k)
           e == DayNumber(z, n, l)
<1>1. CASE y < z
  <2>1. /\ d \in Int /\ DayFromYear(y + 1) \in Int /\ d < DayFromYear(y + 1)
        /\ e \in Int /\ DayFromYear(z) \in Int /\ DayFromYear(z) <= e
    BY DayWithin
  <2>2. DayFromYear(y + 1) <= DayFromYear(z)
    BY <1>1, YearsInOrder
  <2> HIDE DEF d, e
  <2>3. d < e
    BY <2>1, <2>2
  <2> QED BY <2>3 DEF d, e
<1>2. CASE y = z /\ m < n
  <2>1. /\ m - 1 \in 0..11 /\ d \in Int /\ NextFirst(y, m - 1) \in Int /\ d < NextFirst(y, m - 1)
        /\ n - 1 \in 0..11 /\ e \in Int /\ FirstDay(y, n - 1) \in Int /\ FirstDay(y, n - 1) <= e
    BY <1>2, DayWithin
  <2>2. NextFirst(y, m - 1) <= FirstDay(y, n - 1)
    <3>1. m - 1 < n - 1
      BY <1>2
    <3> QED BY <2>1, <3>1, MonthsInOrder
  <2> HIDE DEF d, e
  <2>3. d < e
    BY <2>1, <2>2
  <2> QED BY <2>3 DEF d, e
<1>3. CASE y = z /\ m = n /\ k < l
  <2>1. FirstDay(y, m - 1) \in Int
    BY DayWithin
  <2> QED BY <1>3, <2>1, SMT DEF DayNumber
<1> QED BY <1>1, <1>2, <1>3 DEF Earlier

\* The hour, the zone and the day of a written date.
HourOf(w) == IF w.hour = Absent THEN 0 ELSE w.hour
ZoneOf(w) == IF w.zone = Absent THEN 9 ELSE w.zone
NumberOf(w) == DayNumber(w.year, w.month, w.day)

\* What the patterns let through.
LEMMA WrittenParts ==
    ASSUME NEW w \in Written
    PROVE  /\ w.year \in Nat /\ w.month \in Int /\ w.day \in Int
           /\ w.year \in 0..LastYear
           /\ w.hour \in Int \cup {Absent} /\ w.zone \in Int \cup {Absent}
           /\ w.hour = Absent => w.zone = Absent
<1>1. /\ w.year \in 0..LastYear /\ w.month \in 0..99 /\ w.day \in 0..99
      /\ w.hour \in 0..99 \cup {Absent} /\ w.zone \in -99..99 \cup {Absent}
      /\ w.hour = Absent => w.zone = Absent
  BY DEF Written
<1>2. w.year \in Nat
  BY <1>1
<1>3. w.month \in Int /\ w.day \in Int
  BY <1>1
<1>4. w.hour \in Int \cup {Absent} /\ w.zone \in Int \cup {Absent}
  BY <1>1
<1> QED BY <1>1, <1>2, <1>3, <1>4

\* A written date is one of the calendar exactly if Date gives it back.
LEMMA ValidIsCalendar ==
    ASSUME NEW w \in Written
    PROVE  /\ IsCalendarDate(w) <=> /\ assertValidDateParts(w)
                                    /\ w.zone \in -23..23 \cup {Absent}
           /\ IsCalendarDate(w) => /\ Parts(w.year, w.month, w.day)
                                   /\ DateUTC(w.year, w.month - 1, w.day) = NumberOf(w)
<1> DEFINE y == w.year
           m == w.month
           k == w.day
           d == DateUTC(y, m - 1, k)
<1>1. y \in Nat /\ m \in Int /\ k \in Int /\ y \in 0..LastYear
  BY WrittenParts
<1> HIDE DEF y, m, k
<1>2. /\ YearOf(d) = y /\ MonthOf(d) = m - 1 /\ DayOf(d) = k <=> Parts(y, m, k)
      /\ Parts(y, m, k) => d = DayNumber(y, m, k)
  BY <1>1, ValidParts DEF DayNumber
<1>3. Parts(y, m, k) <=> y \in 100..LastYear /\ m \in 1..12 /\ k \in 1..DaysIn(y, m)
  <2>1. LastYear \in Int
    BY DEF LastYear
  <2>2. 100 <= y <=> y \in 100..LastYear
    BY <1>1, <2>1
  <2> QED BY <2>2 DEF Parts
<1> HIDE DEF d
<1> QED BY <1>2, <1>3, Zenon DEF IsCalendarDate, assertValidDateParts, NumberOf, d, y, m, k

\* The hour and the zone parseSeoulDateTime takes.
LEMMA HourAndZone ==
    ASSUME NEW w \in Written
    PROVE  /\ HourOf(w) \in Int /\ ZoneOf(w) \in Int
           /\ (IF w.zone = Absent \/ w.hour = Absent THEN 9 ELSE w.zone) = ZoneOf(w)
           /\ IsCalendarDate(w) => HourOf(w) \in 0..23
<1>1. /\ w.hour \in Int \cup {Absent} /\ w.zone \in Int \cup {Absent}
      /\ w.hour = Absent => w.zone = Absent
  BY WrittenParts
<1>2. HourOf(w) \in Int /\ ZoneOf(w) \in Int
  BY <1>1 DEF HourOf, ZoneOf
<1>3. (IF w.zone = Absent \/ w.hour = Absent THEN 9 ELSE w.zone) = ZoneOf(w)
  BY <1>1, Zenon DEF ZoneOf
<1>4. ASSUME IsCalendarDate(w) PROVE HourOf(w) \in 0..23
  <2>1. w.hour \in 0..23 \cup {Absent}
    BY <1>4, Zenon DEF IsCalendarDate
  <2> QED BY <2>1, SMT DEF HourOf
<1> QED BY <1>2, <1>3, <1>4

\* The instant of a date of the calendar; any other is refused.
LEMMA InstantOf ==
    ASSUME NEW w \in Written
    PROVE  /\ parseSeoulDateTime(w) # Invalid <=> IsCalendarDate(w)
           /\ IsCalendarDate(w) =>
                /\ NumberOf(w) \in Int
                /\ parseSeoulDateTime(w) = 24 * NumberOf(w) + HourOf(w) - ZoneOf(w)
                /\ parseSeoulDateTime(w) \in Int
<1>1. ASSUME IsCalendarDate(w)
      PROVE  /\ NumberOf(w) \in Int
             /\ parseSeoulDateTime(w) = 24 * NumberOf(w) + HourOf(w) - ZoneOf(w)
             /\ parseSeoulDateTime(w) \in Int
  <2>1. /\ assertValidDateParts(w) /\ w.zone \in -23..23 \cup {Absent}
        /\ Parts(w.year, w.month, w.day)
        /\ DateUTC(w.year, w.month - 1, w.day) = NumberOf(w)
    BY <1>1, ValidIsCalendar
  <2>2. NumberOf(w) \in Int
    <3>1. w.year \in Int /\ w.month \in Int /\ w.day \in Int
      BY WrittenParts
    <3> QED BY <2>1, <3>1, DayWithin DEF NumberOf
  <2>3. parseSeoulDateTime(w) = 24 * NumberOf(w) + HourOf(w) - ZoneOf(w)
    BY <2>1, HourAndZone, Zenon DEF parseSeoulDateTime, HourOf
  <2>4. 24 * NumberOf(w) + HourOf(w) - ZoneOf(w) \in Int
    BY <2>2, HourAndZone
  <2> QED BY <2>2, <2>3, <2>4
<1>2. ASSUME ~IsCalendarDate(w) PROVE parseSeoulDateTime(w) = Invalid
  BY <1>2, ValidIsCalendar, Zenon DEF parseSeoulDateTime
<1> QED BY <1>1, <1>2, BannersAssumption

\* In one zone, the earlier date is the earlier instant
LEMMA InstantsInOrder ==
    ASSUME NEW v \in Written, NEW w \in Written, v.zone = w.zone,
           IsCalendarDate(v), IsCalendarDate(w), Before(v, w)
    PROVE  parseSeoulDateTime(v) < parseSeoulDateTime(w)
<1>1. /\ NumberOf(v) \in Int /\ HourOf(v) \in 0..23 /\ ZoneOf(v) \in Int
      /\ NumberOf(w) \in Int /\ HourOf(w) \in 0..23 /\ ZoneOf(w) = ZoneOf(v)
      /\ parseSeoulDateTime(v) = 24 * NumberOf(v) + HourOf(v) - ZoneOf(v)
      /\ parseSeoulDateTime(w) = 24 * NumberOf(w) + HourOf(w) - ZoneOf(w)
  BY InstantOf, HourAndZone DEF ZoneOf
<1>2. /\ v.year \in Int /\ v.month \in Int /\ v.day \in Int
      /\ w.year \in Int /\ w.month \in Int /\ w.day \in Int
      /\ Parts(v.year, v.month, v.day) /\ Parts(w.year, w.month, w.day)
  BY WrittenParts, ValidIsCalendar
<1>3. \/ Earlier(v.year, v.month, v.day, w.year, w.month, w.day)
      \/ /\ v.year = w.year /\ v.month = w.month /\ v.day = w.day
         /\ HourOf(v) < HourOf(w)
  <2>1. /\ HourOf(v) = IF v.hour = Absent THEN 0 ELSE v.hour
        /\ HourOf(w) = IF w.hour = Absent THEN 0 ELSE w.hour
    BY DEF HourOf
  <2>2. \/ v.year < w.year
        \/ v.year = w.year /\ v.month < w.month
        \/ v.year = w.year /\ v.month = w.month /\ v.day < w.day
        \/ v.year = w.year /\ v.month = w.month /\ v.day = w.day /\ HourOf(v) < HourOf(w)
    BY <2>1, Zenon DEF Before
  <2> QED BY <2>2 DEF Earlier
<1>4. \/ NumberOf(v) < NumberOf(w)
      \/ NumberOf(v) = NumberOf(w) /\ HourOf(v) < HourOf(w)
  BY <1>2, <1>3, DaysInOrder DEF NumberOf
<1> QED BY <1>1, <1>4, SMT

\* and the other way round.
LEMMA PeriodIsOrdered ==
    ASSUME NEW v \in Written, NEW w \in Written, v.zone = w.zone,
           IsCalendarDate(v), IsCalendarDate(w)
    PROVE  parseSeoulDateTime(v) < parseSeoulDateTime(w) <=> Before(v, w)
<1>1. /\ v.year \in Int /\ v.month \in Int /\ v.day \in Int /\ HourOf(v) \in Int
      /\ w.year \in Int /\ w.month \in Int /\ w.day \in Int /\ HourOf(w) \in Int
  BY WrittenParts, HourAndZone
<1>2. \/ Before(v, w) \/ Before(w, v)
      \/ /\ v.year = w.year /\ v.month = w.month /\ v.day = w.day
         /\ HourOf(v) = HourOf(w)
  BY <1>1, SMT DEF Before, HourOf
<1>3. /\ parseSeoulDateTime(v) \in Int /\ parseSeoulDateTime(w) \in Int
      /\ parseSeoulDateTime(v) = 24 * NumberOf(v) + HourOf(v) - ZoneOf(v)
      /\ parseSeoulDateTime(w) = 24 * NumberOf(w) + HourOf(w) - ZoneOf(w)
  BY InstantOf
<1>4. CASE Before(v, w)
  BY <1>4, InstantsInOrder
<1>5. CASE Before(w, v)
  <2>1. parseSeoulDateTime(w) < parseSeoulDateTime(v)
    BY <1>5, InstantsInOrder
  <2>2. ~Before(v, w)
    BY <1>1, <1>5, SMT DEF Before, HourOf
  <2> QED BY <1>3, <2>1, <2>2
<1>6. CASE /\ v.year = w.year /\ v.month = w.month /\ v.day = w.day
           /\ HourOf(v) = HourOf(w)
  <2>1. ~Before(v, w)
    BY <1>1, <1>6, SMT DEF Before, HourOf
  <2>2. parseSeoulDateTime(v) = parseSeoulDateTime(w)
    <3>1. NumberOf(v) = NumberOf(w) /\ ZoneOf(v) = ZoneOf(w)
      BY <1>6 DEF NumberOf, ZoneOf
    <3> QED BY <1>3, <1>6, <3>1
  <2> QED BY <1>3, <2>1, <2>2
<1> QED BY <1>2, <1>4, <1>5, <1>6

-----------------------------------------------------------------------------
(* What is decided about a written date                                    *)

\* What was decided about the request to create a banner, and that time passes
\* since a first hour.
Decided ==
    /\ clock \in Nat /\ ticks \in 0..MaxTicks
    /\ \E t \in Clock0 : clock = t + ticks
    /\ form \in [Req -> Forms \cup {Null}]
    /\ pc \in [Req -> {"idle"} \cup Places \cup Ended]
    /\ \A r \in Req : pc[r] # "idle" => form[r] # Null
    /\ \A r \in Req : pc[r] # "idle" /\ form[r].kind = "create" =>
          /\ pc[r] \in {"insert", "done", "refused", "failed"}
          /\ pc[r] = "refused" <=> ~ValidForm(form[r])

\* Decided is an invariant.
LEMMA InitDecided == Init => Decided
BY BannersAssumption DEF Init, Decided

LEMMA DecidedStep == Decided /\ [Next]_vars => Decided'
<1> SUFFICES ASSUME Decided, [Next]_vars PROVE Decided'
  OBVIOUS
<1> USE BannersAssumption
<1>1. CASE Tick
  BY <1>1 DEF Tick, Decided
<1>2. ASSUME NEW r \in Req, NEW f \in Forms, Submit(r, f) PROVE Decided'
  <2>1. /\ First(f) \in Places \cup {"refused"} /\ f # Null
        /\ f.kind = "create" => /\ First(f) \in {"insert", "refused"}
                                /\ First(f) = "refused" <=> ~ValidForm(f)
    BY DEF First, Places, Writes
  <2>2. /\ form' = [form EXCEPT ![r] = f] /\ pc' = [pc EXCEPT ![r] = First(f)]
        /\ clock' = clock /\ ticks' = ticks
    BY <1>2 DEF Submit, Goto
  <2>3. /\ form' \in [Req -> Forms \cup {Null}]
        /\ pc' \in [Req -> {"idle"} \cup Places \cup Ended]
    BY <2>1, <2>2 DEF Decided, Ended
  <2>4. \A q \in Req : pc'[q] # "idle" => form'[q] # Null
    BY <2>1, <2>2 DEF Decided
  <2>5. ASSUME NEW q \in Req, pc'[q] # "idle", form'[q].kind = "create"
        PROVE  /\ pc'[q] \in {"insert", "done", "refused", "failed"}
               /\ pc'[q] = "refused" <=> ~ValidForm(form'[q])
    <3>1. CASE q = r
      <4>1. form'[q] = f /\ pc'[q] = First(f)
        BY <2>2, <3>1 DEF Decided
      <4> QED BY <2>1, <2>5, <4>1
    <3>2. CASE q # r
      <4>1. form'[q] = form[q] /\ pc'[q] = pc[q]
        BY <2>2, <3>2 DEF Decided
      <4> QED BY <2>5, <4>1 DEF Decided
    <3> QED BY <3>1, <3>2
  <2> QED BY <2>2, <2>3, <2>4, <2>5 DEF Decided
<1>3. ASSUME NEW r \in Req,
             Insert(r) \/ Update(r) \/ Reread(r) \/ Remove(r) \/ FindActive(r) \/ Abort(r)
      PROVE  Decided'
  <2>1. /\ clock' = clock /\ ticks' = ticks /\ form' = form
        /\ pc[r] # "idle"
        /\ \/ pc' = [pc EXCEPT ![r] = "done"]
           \/ pc' = [pc EXCEPT ![r] = "failed"]
           \/ form[r].kind # "create" /\ pc' = [pc EXCEPT ![r] = "reread"]
           \/ form[r].kind # "create" /\ pc' = [pc EXCEPT ![r] = "refused"]
    BY <1>3 DEF Insert, Update, Reread, Remove, FindActive, Abort, Goto, Places
  <2>2. pc[r] \in Places
    BY <1>3 DEF Insert, Update, Reread, Remove, FindActive, Abort, Places
  <2>3. PICK p \in {"done", "failed", "reread", "refused"} :
          /\ pc' = [pc EXCEPT ![r] = p]
          /\ form[r].kind = "create" => p \in {"done", "failed"}
    BY <2>1
  <2>4. /\ pc'[r] = p /\ \A q \in Req \ {r} : pc'[q] = pc[q]
        /\ pc' \in [Req -> {"idle"} \cup Places \cup Ended]
    BY <2>3 DEF Decided, Places, Ended
  <2>5. \A q \in Req : pc'[q] # "idle" => form[q] # Null
    BY <2>1, <2>4 DEF Decided
  <2>6. ASSUME NEW q \in Req, pc'[q] # "idle", form[q].kind = "create"
        PROVE  /\ pc'[q] \in {"insert", "done", "refused", "failed"}
               /\ pc'[q] = "refused" <=> ~ValidForm(form[q])
    <3>1. pc[q] # "idle"
      BY <2>1, <2>4, <2>6
    <3>2. /\ pc[q] \in {"insert", "done", "refused", "failed"}
          /\ pc[q] = "refused" <=> ~ValidForm(form[q])
      BY <2>6, <3>1 DEF Decided
    <3>3. CASE q = r
      BY <2>2, <2>3, <2>4, <2>6, <3>2, <3>3 DEF Places
    <3>4. CASE q # r
      BY <2>4, <3>2, <3>4
    <3> QED BY <3>3, <3>4
  <2>7. \A q \in Req : ValidForm(form'[q]) <=> ValidForm(form[q])
    BY <2>1
  <2> QED BY <2>1, <2>4, <2>5, <2>6, <2>7 DEF Decided
<1>4. CASE UNCHANGED vars
  BY <1>4 DEF vars, Decided
<1> QED BY <1>1, <1>2, <1>3, <1>4 DEF Next

\* The body of a request to create.
LEMMA CreateForm ==
    ASSUME Decided, NEW r \in Req, pc[r] # "idle", form[r].kind = "create"
    PROVE  form[r].publish_start_at \in Written /\ form[r].publish_end_at \in Written
<1>1. form[r] \in Form
  BY BannersAssumption DEF Decided
<1> QED BY <1>1 DEF Form

\* A new banner is refused exactly if one of its dates is none of the calendar
\* or its period is empty, whatever is written.
THEOREM RefusalIsExact == Spec => []RefusesExactlyInvalid
<1>1. ASSUME Decided, NEW r \in Req, pc[r] # "idle", form[r].kind = "create",
             form[r].publish_start_at.zone = form[r].publish_end_at.zone
      PROVE  pc[r] = "refused" <=> ~(/\ IsCalendarDate(form[r].publish_start_at)
                                     /\ IsCalendarDate(form[r].publish_end_at)
                                     /\ Before(form[r].publish_start_at, form[r].publish_end_at))
  <2> DEFINE v == form[r].publish_start_at
             w == form[r].publish_end_at
  <2>1. v \in Written /\ w \in Written
    BY <1>1, CreateForm
  <2>2. pc[r] = "refused" <=> ~ValidForm(form[r])
    BY <1>1 DEF Decided
  <2>3. ValidForm(form[r]) <=> /\ parseSeoulDateTime(v) # Invalid
                               /\ parseSeoulDateTime(w) # Invalid
                               /\ parseSeoulDateTime(v) < parseSeoulDateTime(w)
    BY DEF ValidForm, validateDateRange
  <2>4. v.zone = w.zone
    BY <1>1
  <2> HIDE DEF v, w
  <2>5. ValidForm(form[r]) <=> IsCalendarDate(v) /\ IsCalendarDate(w) /\ Before(v, w)
    BY <2>1, <2>3, <2>4, InstantOf, PeriodIsOrdered
  <2>6. pc[r] = "refused" <=> ~(IsCalendarDate(v) /\ IsCalendarDate(w) /\ Before(v, w))
    BY <2>2, <2>5
  <2> QED BY <2>6 DEF v, w
<1>2. Decided => RefusesExactlyInvalid
  BY <1>1 DEF RefusesExactlyInvalid
<1> QED BY <1>2, InitDecided, DecidedStep, PTL DEF Spec

\* A date of the calendar, its month counted from 1, comes back from its day.
LEMMA DayOfParts ==
    ASSUME NEW y \in Int, NEW m \in Int, NEW k \in Int, Parts(y, m, k)
    PROVE  LET d == DayNumber(y, m, k)
           IN  YearOf(d) = y /\ MonthOf(d) + 1 = m /\ DayOf(d) = k
<1>1. m - 1 \in 0..11 /\ (m - 1) + 1 = m
  BY SMT DEF Parts
<1>2. k \in 1..DaysIn(y, (m - 1) + 1)
  BY <1>1 DEF Parts
<1>3. LET d == FirstDay(y, m - 1) + k - 1
      IN  YearOf(d) = y /\ MonthOf(d) = m - 1 /\ DayOf(d) = k
  BY <1>1, <1>2, DayOfDate
<1> QED BY <1>1, <1>3 DEF DayNumber

\* The day and the hour of an instant in Seoul.
LEMMA SeoulDayOf ==
    ASSUME NEW d \in Int, NEW h \in 0..23
    PROVE  /\ SeoulDay(24 * d + h - 9) = d
           /\ ((24 * d + h - 9) + 9) % 24 = h
<1>1. (24 * d + h) \div 24 = d /\ (24 * d + h) % 24 = h
  BY SMT
<1>2. (24 * d + h - 9) + 9 = 24 * d + h
  OBVIOUS
<1> QED BY <1>1, <1>2 DEF SeoulDay

\* A banner starts on the day and at the hour that were written, in Seoul.
THEOREM StartsAsWritten == Spec => []StartsInSeoul
<1>1. ASSUME Decided, NEW r \in Req, NEW w, w = form[r].publish_start_at,
             pc[r] \in {"insert", "done"}, form[r].kind = "create", w.zone = Absent
      PROVE  LET t == parseSeoulDateTime(w)
                 d == SeoulDay(t)
             IN  /\ YearOf(d) = w.year /\ MonthOf(d) + 1 = w.month /\ DayOf(d) = w.day
                 /\ (t + 9) % 24 = IF w.hour = Absent THEN 0 ELSE w.hour
  <2>1. w \in Written
    BY <1>1, CreateForm
  <2>2. IsCalendarDate(w)
    <3>1. ValidForm(form[r])
      BY <1>1 DEF Decided
    <3>2. parseSeoulDateTime(w) # Invalid
      BY <1>1, <3>1 DEF ValidForm
    <3> QED BY <2>1, <3>2, InstantOf
  <2> DEFINE d == NumberOf(w)
             h == HourOf(w)
  <2>3. d \in Int /\ h \in 0..23 /\ ZoneOf(w) = 9
    BY <1>1, <2>1, <2>2, InstantOf, HourAndZone DEF ZoneOf
  <2>4. parseSeoulDateTime(w) = 24 * d + h - 9
    BY <2>1, <2>2, <2>3, InstantOf
  <2>5. /\ Parts(w.year, w.month, w.day)
        /\ w.year \in Int /\ w.month \in Int /\ w.day \in Int
    BY <2>1, <2>2, ValidIsCalendar, WrittenParts
  <2>6. YearOf(d) = w.year /\ MonthOf(d) + 1 = w.month /\ DayOf(d) = w.day
    BY <2>5, DayOfParts DEF NumberOf
  <2>7. h = IF w.hour = Absent THEN 0 ELSE w.hour
    BY DEF HourOf
  <2> HIDE DEF d, h
  <2>8. SeoulDay(24 * d + h - 9) = d /\ ((24 * d + h - 9) + 9) % 24 = h
    BY <2>3, SeoulDayOf
  <2> QED BY <2>4, <2>6, <2>7, <2>8
<1>2. Decided => StartsInSeoul
  BY <1>1 DEF StartsInSeoul
<1> QED BY <1>2, InitDecided, DecidedStep, PTL DEF Spec

-----------------------------------------------------------------------------

\* Later days are not in earlier years.
LEMMA LaterYear ==
    ASSUME NEW d \in Int, NEW e \in Int, d <= e PROVE YearOf(d) <= YearOf(e)
<1> DEFINE y == YearOf(d)
           z == YearOf(e)
<1>1. y \in Int /\ DayInYear(d, y) /\ z \in Int /\ DayInYear(e, z)
  BY YearOfDay
<1> HIDE DEF y, z
<1>2. ASSUME z < y PROVE FALSE
  <2>1. z + 1 \in Int
    BY <1>1
  <2>2. DayFromYear(z + 1) \in Int /\ DayFromYear(y) \in Int /\ DayFromYear(z + 1) <= DayFromYear(y)
    BY <1>1, <1>2, <2>1, YearIsInteger, YearsInOrder
  <2> QED BY <1>1, <2>2 DEF DayInYear
<1>3. y <= z
  BY <1>1, <1>2
<1> QED BY <1>3 DEF y, z

\* The first of a month at midnight in Seoul.
LEMMA FirstOfMonth ==
    ASSUME NEW y \in 100..LastYear, NEW m \in 0..11
    PROVE  FirstOf(y, m) = 24 * FirstDay(y, m) - 9
<1> DEFINE w == [year |-> y, month |-> m + 1, day |-> 1, hour |-> Absent, zone |-> Absent]
<1>1. y \in Int /\ LastYear \in Int /\ ~(y > LastYear) /\ y \in 0..LastYear
  BY DEF LastYear
<1>2. w \in Written
  <2>1. m + 1 \in 0..99 /\ 1 \in 0..99
    BY SMT
  <2> QED BY <1>1, <2>1 DEF Written
<1>3. IsCalendarDate(w)
  <2>1. m + 1 \in 1..12
    BY SMT
  <2>2. DaysIn(y, m + 1) \in 28..31
    BY <1>1, MonthLength
  <2>3. 1 \in 1..DaysIn(y, m + 1)
    BY <2>2
  <2> QED BY <2>1, <2>3 DEF IsCalendarDate
<1>4. HourOf(w) = 0 /\ ZoneOf(w) = 9
  BY DEF HourOf, ZoneOf
<1>6. FirstDay(y, m) \in Int
  BY <1>1, MonthLength
<1>5. NumberOf(w) = FirstDay(y, m)
  <2>1. (m + 1) - 1 = m
    OBVIOUS
  <2>2. NumberOf(w) = FirstDay(y, (m + 1) - 1) + 1 - 1
    BY DEF NumberOf, DayNumber
  <2> QED BY <1>6, <2>1, <2>2
<1>7. FirstOf(y, m) = parseSeoulDateTime(w)
  BY <1>1, Zenon DEF FirstOf
<1> HIDE DEF w
<1> QED BY <1>2, <1>3, <1>4, <1>5, <1>6, <1>7, InstantOf, SMT

\* The clock stays before the year 9999: in its December the next month is one
\* of the year 10000, which parseSeoulDateTime does not read.
FourDigits == \A t \in Clock0 : YearOf(SeoulDay(t + MaxTicks)) < LastYear

\* The year of the present, and the next one, can be written.
LEMMA YearOfClock ==
    ASSUME FourDigits, Decided
    PROVE  /\ SeoulDay(clock) \in Nat
           /\ YearOf(SeoulDay(clock)) \in 100..LastYear
           /\ YearOf(SeoulDay(clock)) + 1 \in 100..LastYear
<1>1. PICK t \in Clock0 : clock = t + ticks
  BY DEF Decided
<1>2. t \in Nat /\ ticks \in Nat /\ MaxTicks \in Nat /\ ticks <= MaxTicks
  BY BannersAssumption DEF Decided
<1> DEFINE d == SeoulDay(clock)
           e == SeoulDay(t + MaxTicks)
<1>3. d \in Nat /\ e \in Nat /\ d <= e
  BY <1>1, <1>2, SMT DEF SeoulDay
<1> HIDE DEF d, e
<1>4. YearOf(d) \in Int /\ YearOf(e) \in Int /\ YearOf(d) <= YearOf(e)
  BY <1>3, YearOfDay, LaterYear
<1>5. YearOf(e) < LastYear /\ LastYear \in Int
  BY DEF FourDigits, LastYear, e
<1>6. 1970 <= YearOf(d)
  <2>1. ASSUME YearOf(d) < 1970 PROVE FALSE
    <3>1. DayInYear(d, YearOf(d)) /\ YearOf(d) + 1 \in Int
      BY <1>3, <1>4, YearOfDay
    <3>2. DayFromYear(YearOf(d) + 1) <= DayFromYear(1970) /\ DayFromYear(YearOf(d) + 1) \in Int
      BY <1>4, <2>1, <3>1, YearsInOrder, YearIsInteger
    <3>3. DayFromYear(1970) = 0
      BY SMT DEF DayFromYear
    <3> QED BY <1>3, <3>1, <3>2, <3>3 DEF DayInYear
  <2> QED BY <1>4, <2>1
<1>7. YearOf(d) \in 100..LastYear /\ YearOf(d) + 1 \in 100..LastYear
  BY <1>4, <1>5, <1>6
<1> QED BY <1>3, <1>7 DEF d

\* The month of the dashboard is the one of the present in Seoul, from its
\* first midnight to the first of the next month.
THEOREM MonthIsThePresent ==
    ASSUME FourDigits PROVE Spec => []MonthHoldsNow
<1>1. ASSUME Decided PROVE MonthHoldsNow
  <2> DEFINE d == SeoulDay(clock)
             y == YearOf(d)
             m == MonthOf(d)
             F == FirstDay(y, m)
             N == NextFirst(y, m)
             month == getCurrentMonthRangeInSeoul(clock)
  <2>1. clock \in Nat
    BY <1>1 DEF Decided
  <2>2. d \in Int /\ y \in Int /\ y \in 100..LastYear /\ y + 1 \in 100..LastYear
    BY <1>1, YearOfClock
  <2>3. m \in 0..11 /\ DayOf(d) \in 1..DaysIn(y, m + 1) /\ d = F + DayOf(d) - 1
    BY <2>2, DayParts
  <2>4. F \in Int /\ N \in Int /\ DaysIn(y, m + 1) \in 28..31 /\ N = F + DaysIn(y, m + 1)
    BY <2>2, <2>3, MonthLength
  <2>5. F <= d /\ d < N
    BY <2>3, <2>4, SMT
  <2>6. 24 * d <= clock + 9 /\ clock + 9 < 24 * (d + 1)
    BY <2>1, SMT DEF SeoulDay
  <2>7. month.from = 24 * F - 9
    BY <2>2, <2>3, FirstOfMonth DEF getCurrentMonthRangeInSeoul
  <2>8. month.to = 24 * N - 9
    <3>1. CASE m = 11
      <4>1. FirstOf(y + 1, 0) = 24 * FirstDay(y + 1, 0) - 9
        BY <2>2, FirstOfMonth, 0 \in 0..11
      <4>2. FirstDay(y + 1, 0) = DayFromYear(y + 1)
        BY <2>2, YearIsInteger, MonthTable DEF FirstDay
      <4>3. N = DayFromYear(y + 1)
        BY <3>1 DEF NextFirst
      <4>4. month.to = FirstOf(y + 1, 0)
        BY <3>1 DEF getCurrentMonthRangeInSeoul
      <4> QED BY <4>1, <4>2, <4>3, <4>4
    <3>2. CASE m # 11
      <4>1. m + 1 \in 0..11
        BY <2>3, <3>2
      <4>2. FirstOf(y, m + 1) = 24 * FirstDay(y, m + 1) - 9
        BY <2>2, <4>1, FirstOfMonth
      <4>3. N = FirstDay(y, m + 1)
        BY <3>2 DEF NextFirst
      <4>4. month.to = FirstOf(y, m + 1)
        BY <3>2 DEF getCurrentMonthRangeInSeoul
      <4> QED BY <4>2, <4>3, <4>4
    <3> QED BY <3>1, <3>2
  <2>9. SeoulDay(month.from) = F /\ (month.from + 9) % 24 = 0
    <3>1. SeoulDay(24 * F + 0 - 9) = F /\ ((24 * F + 0 - 9) + 9) % 24 = 0
      BY <2>4, SeoulDayOf, 0 \in 0..23
    <3>2. 24 * F + 0 - 9 = 24 * F - 9
      BY <2>4
    <3> QED BY <2>7, <3>1, <3>2
  <2>10. YearOf(F) = y /\ MonthOf(F) = m /\ DayOf(F) = 1
    <3>1. 1 \in 1..DaysIn(y, m + 1) /\ F + 1 - 1 = F
      BY <2>4
    <3> QED BY <2>2, <2>3, <3>1, DayOfDate
  <2> HIDE DEF d, y, m, F, N, month
  <2>11. month.from <= clock /\ clock < month.to
    BY <2>1, <2>2, <2>4, <2>5, <2>6, <2>7, <2>8, SMT
  <2>12. month.to - month.from = 24 * DaysIn(y, m + 1)
    BY <2>4, <2>7, <2>8, SMT
  <2> QED BY <2>9, <2>10, <2>11, <2>12 DEF MonthHoldsNow, month
<1>2. Decided => MonthHoldsNow
  BY <1>1
<1> QED BY <1>2, InitDecided, DecidedStep, PTL DEF Spec
=============================================================================
