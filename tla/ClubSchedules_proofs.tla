------------------------ MODULE ClubSchedules_proofs ------------------------
(***************************************************************************)
(* The theorems about ClubSchedules, for any number of requests, clubs and *)
(* schedules, any forms and any number of requests in flight.              *)
(***************************************************************************)
EXTENDS ClubSchedules, TLAPS

\* A handler is at a statement of its own kind of request only.
RightPlaces ==
    \A r \in Req :
        /\ pc[r] \in {"read", "write", "reread"} =>
              form[r] # Null /\ form[r].kind \in {"update", "status", "remove"}
        /\ pc[r] = "insert" => form[r] # Null /\ form[r].kind = "create"
        /\ pc[r] = "reread" => form[r].kind \in Patches
        /\ pc[r] = "done" => form[r] # Null

\* The row that the first read found is there for good and stays in its club.
ReadRowStays ==
    \A r \in Req : pc[r] \in {"write", "reread"} =>
        /\ schedules[form[r].id] # Null
        /\ form[r].by # Null => schedules[form[r].id].club_id = form[r].by

\* An UPDATE that missed its row missed it because the row is deleted.
MissedIsDeleted ==
    \A r \in Req : pc[r] = "reread" /\ ~wrote[r] => schedules[form[r].id].deleted

IInv == /\ TypeOK
        /\ RightPlaces
        /\ ReadRowStays
        /\ MissedIsDeleted
        /\ AnsweredMeansWritten
        /\ RemovedIsGone

\* What no statement ever does to a row: take it away, move it to another
\* club, or touch it once it is deleted.
RowsPersist ==
    \A s \in ScheduleId : schedules[s] # Null =>
        /\ schedules'[s] # Null
        /\ schedules'[s].club_id = schedules[s].club_id
        /\ schedules[s].deleted => schedules'[s] = schedules[s]
-----------------------------------------------------------------------------

\* The fields of a request, by kind.
LEMMA FieldsOfForm ==
    ASSUME TypeOK, NEW r \in Req, form[r] # Null
    PROVE  /\ form[r] \in Form
           /\ form[r].by \in Owner
           /\ form[r].kind \in {"create", "update", "status", "remove"}
           /\ form[r].kind # "create" => form[r].id \in ScheduleId
           /\ form[r].kind \in Patches =>
                 /\ form[r].start_at \in Date \cup {Keep}
                 /\ form[r].end_at \in Date \cup {Keep}
                 /\ form[r].is_public \in BOOLEAN \cup {Keep}
           /\ form[r].kind = "create" =>
                 /\ form[r].start_at \in Date
                 /\ form[r].end_at \in Date
                 /\ form[r].is_public \in BOOLEAN
  <1>1. form[r] \in Form
    BY SchedulesAssumption DEF TypeOK
  <1>2. QED
    BY <1>1 DEF Form, Patches, Owner

\* The row an UPDATE leaves behind is well formed and in the same club.
LEMMA PatchedRow ==
    ASSUME TypeOK, NEW r \in Req, form[r] # Null, form[r].kind \in Patches,
           NEW row \in ScheduleRow, NEW seen
    PROVE  /\ Patched(row, toUpdatePayload(form[r], seen)) \in ScheduleRow
           /\ Patched(row, toUpdatePayload(form[r], seen)).club_id = row.club_id
  <1>1. /\ form[r].start_at \in Date \cup {Keep}
        /\ form[r].end_at \in Date \cup {Keep}
        /\ form[r].is_public \in BOOLEAN \cup {Keep}
    BY FieldsOfForm
  <1>2. /\ Given(form[r].start_at, row.start_at) \in Date
        /\ Given(form[r].end_at, row.end_at) \in Date
    BY <1>1 DEF Given, ScheduleRow
  <1>3. Given(form[r].is_public, row.is_public) \in BOOLEAN
    BY <1>1 DEF Given, ScheduleRow
  <1>4. QED
    BY <1>2, <1>3 DEF Patched, toUpdatePayload, ScheduleRow

\* The new rows an UPDATE statement publishes.
LEMMA WriteRows ==
    ASSUME IInv, NEW r \in Req, Write(r)
    PROVE  /\ schedules' \in [ScheduleId -> ScheduleRow \cup {Null}]
           /\ RowsPersist
           /\ form[r].id \in ScheduleId
           /\ \A s \in ScheduleId : s # form[r].id => schedules'[s] = schedules[s]
           /\ Matches(form[r]) /\ form[r].kind = "remove" => schedules'[form[r].id].deleted
           /\ ~Matches(form[r]) => schedules' = schedules
           /\ Matches(form[r]) /\ form[r].kind # "remove" =>
                 schedules'[form[r].id] =
                    Patched(schedules[form[r].id], toUpdatePayload(form[r], schedule[r]))
  <1> DEFINE id == form[r].id
  <1>1. /\ form[r] # Null /\ id \in ScheduleId
        /\ form[r].kind # "remove" => form[r].kind \in Patches
    BY FieldsOfForm DEF IInv, RightPlaces, Write, Patches
  <1>2. CASE ~Matches(form[r])
    BY <1>1, <1>2 DEF Write, IInv, TypeOK, RowsPersist
  <1>3. CASE Matches(form[r]) /\ form[r].kind = "remove"
    <2>1. schedules[id] \in ScheduleRow /\ ~schedules[id].deleted /\ schedules[id] # Null
      BY <1>1, <1>3 DEF IInv, TypeOK, Matches
    <2>2. schedules' = [schedules EXCEPT ![id] = [schedules[id] EXCEPT !.deleted = TRUE]]
      BY <1>3 DEF Write
    <2>3. [schedules[id] EXCEPT !.deleted = TRUE] \in ScheduleRow
      BY <2>1 DEF ScheduleRow
    <2>4. schedules'[id] = [schedules[id] EXCEPT !.deleted = TRUE]
      BY <1>1, <2>2 DEF IInv, TypeOK
    <2>5. schedules'[id].deleted /\ schedules'[id].club_id = schedules[id].club_id
      BY <2>1, <2>4 DEF ScheduleRow
    <2>6. Null \notin ScheduleRow
      BY SchedulesAssumption
    <2>7. QED
      BY <1>1, <1>3, <2>1, <2>2, <2>3, <2>4, <2>5, <2>6 DEF IInv, TypeOK, RowsPersist
  <1>4. CASE Matches(form[r]) /\ form[r].kind # "remove"
    <2>1. schedules[id] \in ScheduleRow /\ ~schedules[id].deleted /\ schedules[id] # Null
      BY <1>1, <1>4 DEF IInv, TypeOK, Matches
    <2> DEFINE new == Patched(schedules[id], toUpdatePayload(form[r], schedule[r]))
    <2>2. schedules' = [schedules EXCEPT ![id] = new]
      BY <1>4 DEF Write
    <2>3. new \in ScheduleRow /\ new.club_id = schedules[id].club_id
      BY <1>1, <1>4, <2>1, PatchedRow DEF IInv
    <2>4. Null \notin ScheduleRow
      BY SchedulesAssumption
    <2> HIDE DEF new
    <2>5. schedules'[id] = new /\ \A s \in ScheduleId : s # id => schedules'[s] = schedules[s]
      BY <1>1, <2>2 DEF IInv, TypeOK
    <2>6. schedules' \in [ScheduleId -> ScheduleRow \cup {Null}]
      BY <1>1, <2>2, <2>3 DEF IInv, TypeOK
    <2>7. RowsPersist
      BY <1>1, <2>1, <2>3, <2>4, <2>5 DEF RowsPersist
    <2>8. QED
      BY <1>1, <1>4, <2>5, <2>6, <2>7 DEF new
  <1>5. QED
    BY <1>2, <1>3, <1>4

\* The row an INSERT publishes.
LEMMA InsertRows ==
    ASSUME IInv, NEW r \in Req, Insert(r)
    PROVE  /\ schedules' \in [ScheduleId -> ScheduleRow \cup {Null}]
           /\ \A s \in ScheduleId : schedules[s] # Null => schedules'[s] = schedules[s]
  <1>1. /\ form[r].by \in Owner /\ form[r].start_at \in Date
        /\ form[r].end_at \in Date /\ form[r].is_public \in BOOLEAN
    BY FieldsOfForm DEF IInv, RightPlaces, Insert
  <1> DEFINE new == [club_id |-> form[r].by, start_at |-> form[r].start_at,
                     end_at |-> form[r].end_at, is_public |-> form[r].is_public,
                     deleted |-> FALSE]
  <1>2. new \in ScheduleRow
    BY <1>1 DEF ScheduleRow
  <1>3. PICK s \in ScheduleId : schedules[s] = Null
                                /\ schedules' = [schedules EXCEPT ![s] = new]
    BY DEF Insert
  <1> HIDE DEF new
  <1>4. QED
    BY <1>2, <1>3 DEF IInv, TypeOK

\* Every step keeps the rows it finds.
LEMMA StepsPersist ==
    ASSUME IInv, [Next]_vars PROVE RowsPersist
  <1>1. CASE UNCHANGED schedules
    BY <1>1 DEF RowsPersist
  <1>2. ASSUME NEW r \in Req, Insert(r) PROVE RowsPersist
    BY <1>2, InsertRows DEF RowsPersist
  <1>3. ASSUME NEW r \in Req, Write(r) PROVE RowsPersist
    BY <1>3, WriteRows
  <1>4. QED
    BY <1>1, <1>2, <1>3 DEF Next, Serve, Submit, Read, Reread, Abort, DeleteClub, vars
-----------------------------------------------------------------------------

\* What a request relies on survives a step that keeps the rows and leaves the
\* request alone.
LEMMA OthersUndisturbed ==
    ASSUME IInv, RowsPersist, NEW r \in Req,
           form'[r] = form[r], pc'[r] = pc[r], wrote'[r] = wrote[r]
    PROVE  /\ pc'[r] \in {"read", "write", "reread"} =>
                 form'[r] # Null /\ form'[r].kind \in {"update", "status", "remove"}
           /\ pc'[r] = "insert" => form'[r] # Null /\ form'[r].kind = "create"
           /\ pc'[r] = "reread" => form'[r].kind \in Patches
           /\ pc'[r] = "done" => form'[r] # Null
           /\ pc'[r] \in {"write", "reread"} =>
                 /\ schedules'[form'[r].id] # Null
                 /\ form'[r].by # Null => schedules'[form'[r].id].club_id = form'[r].by
           /\ pc'[r] = "reread" /\ ~wrote'[r] => schedules'[form'[r].id].deleted
           /\ pc'[r] = "done" /\ form'[r].kind \in Patches => wrote'[r]
           /\ pc'[r] = "done" /\ form'[r].kind = "remove" =>
                 schedules'[form'[r].id] # Null /\ schedules'[form'[r].id].deleted
  <1>1. pc[r] \in {"write", "reread", "done"} => form[r] # Null
    BY DEF IInv, RightPlaces
  <1>2. pc[r] \in {"write", "reread"} => form[r].id \in ScheduleId
    BY FieldsOfForm DEF IInv, RightPlaces
  <1>3. pc[r] = "done" /\ form[r].kind = "remove" => form[r].id \in ScheduleId
    BY <1>1, FieldsOfForm DEF IInv
  <1>4. QED
    BY <1>2, <1>3 DEF IInv, RightPlaces, ReadRowStays, MissedIsDeleted,
       AnsweredMeansWritten, RemovedIsGone, RowsPersist

LEMMA SubmitStep ==
    ASSUME IInv, RowsPersist, NEW r \in Req, NEW f \in Forms, Submit(r, f) PROVE IInv'
  <1>1. f \in Form /\ f # Null
    BY SchedulesAssumption
  <1>2. f.kind # "create" => f.kind \in {"update", "status", "remove"}
    BY <1>1 DEF Form
  <1>3. form'[r] = f /\ pc'[r] \in {"read", "insert", "refused"}
        /\ (pc'[r] = "read" => f.kind # "create") /\ (pc'[r] = "insert" => f.kind = "create")
    BY DEF Submit, Goto, IInv, TypeOK
  <1>4. \A q \in Req : q # r => form'[q] = form[q] /\ pc'[q] = pc[q] /\ wrote'[q] = wrote[q]
    BY DEF Submit, Goto, IInv, TypeOK
  <1>5. TypeOK'
    BY <1>3 DEF Submit, Goto, IInv, TypeOK, Places, Ended
  <1>6. QED
    BY <1>1, <1>2, <1>3, <1>4, <1>5, OthersUndisturbed DEF IInv, RightPlaces, ReadRowStays,
       MissedIsDeleted, AnsweredMeansWritten, RemovedIsGone

LEMMA InsertStep ==
    ASSUME IInv, RowsPersist, NEW r \in Req, Insert(r) PROVE IInv'
  <1>1. pc'[r] = "done" /\ form'[r] # Null /\ form'[r].kind = "create"
    BY DEF Insert, Goto, IInv, TypeOK, RightPlaces
  <1>2. \A q \in Req : q # r => form'[q] = form[q] /\ pc'[q] = pc[q] /\ wrote'[q] = wrote[q]
    BY DEF Insert, Goto, IInv, TypeOK
  <1>3. TypeOK'
    BY InsertRows DEF Insert, Goto, IInv, TypeOK, Ended
  <1>4. QED
    BY <1>1, <1>2, <1>3, OthersUndisturbed DEF IInv, RightPlaces, ReadRowStays,
       MissedIsDeleted, AnsweredMeansWritten, RemovedIsGone, Patches

LEMMA ReadStep ==
    ASSUME IInv, RowsPersist, NEW r \in Req, Read(r) PROVE IInv'
  <1>1. /\ form'[r] = form[r] /\ form[r] # Null
        /\ form[r].kind \in {"update", "status", "remove"} /\ form[r].id \in ScheduleId
    BY FieldsOfForm DEF Read, IInv, RightPlaces
  <1>2. pc'[r] \in {"write", "refused"} /\ (pc'[r] = "write" => Finds(form[r]))
    BY DEF Read, Goto, IInv, TypeOK
  <1>3. \A q \in Req : q # r => form'[q] = form[q] /\ pc'[q] = pc[q] /\ wrote'[q] = wrote[q]
    BY DEF Read, Goto, IInv, TypeOK
  <1>4. TypeOK'
    <2>1. schedule' \in [Req -> ScheduleRow \cup {Null}]
      BY <1>1 DEF Read, IInv, TypeOK
    <2>2. \A q \in Req : pc'[q] \in {"write", "reread"} => schedule'[q] # Null
      BY <1>1, <1>2 DEF Read, Goto, Finds, IInv, TypeOK
    <2>3. QED
      BY <2>1, <2>2 DEF Read, Goto, IInv, TypeOK, Places, Ended
  <1>5. schedules' = schedules
    BY DEF Read
  <1>6. QED
    BY <1>1, <1>2, <1>3, <1>4, <1>5, OthersUndisturbed DEF IInv, RightPlaces, ReadRowStays,
       MissedIsDeleted, AnsweredMeansWritten, RemovedIsGone, Finds

LEMMA WriteStep ==
    ASSUME IInv, RowsPersist, NEW r \in Req, Write(r) PROVE IInv'
  <1>1. /\ form'[r] = form[r] /\ form[r] # Null
        /\ form[r].kind \in {"update", "status", "remove"} /\ form[r].id \in ScheduleId
    BY FieldsOfForm DEF Write, IInv, RightPlaces
  <1>2. /\ pc'[r] = IF form[r].kind = "remove" THEN "done" ELSE "reread"
        /\ wrote'[r] = Matches(form[r])
    BY DEF Write, Goto, IInv, TypeOK
  <1>3. \A q \in Req : q # r => form'[q] = form[q] /\ pc'[q] = pc[q] /\ wrote'[q] = wrote[q]
    BY DEF Write, Goto, IInv, TypeOK
  <1>4. TypeOK'
    <2>1. schedules' \in [ScheduleId -> ScheduleRow \cup {Null}]
      BY WriteRows
    <2>2. wrote' \in [Req -> BOOLEAN]
      BY DEF Write, IInv, TypeOK, Matches
    <2>3. QED
      BY <2>1, <2>2 DEF Write, Goto, IInv, TypeOK, Places, Ended
  <1>5. /\ schedules[form[r].id] # Null
        /\ form[r].by # Null => schedules[form[r].id].club_id = form[r].by
    BY DEF Write, IInv, ReadRowStays
  <1>6. ~Matches(form[r]) => schedules[form[r].id].deleted
    BY <1>5 DEF Matches
  <1>7. /\ schedules'[form[r].id] # Null
        /\ schedules'[form[r].id].club_id = schedules[form[r].id].club_id
    BY <1>1, <1>5 DEF RowsPersist
  <1>8. (form[r].kind = "remove" \/ ~Matches(form[r])) => schedules'[form[r].id].deleted
    BY <1>1, <1>6, WriteRows
  <1>9. QED
    BY <1>1, <1>2, <1>3, <1>4, <1>5, <1>7, <1>8, OthersUndisturbed DEF IInv, RightPlaces,
       ReadRowStays, MissedIsDeleted, AnsweredMeansWritten, RemovedIsGone, Patches

LEMMA RereadStep ==
    ASSUME IInv, RowsPersist, NEW r \in Req, Reread(r) PROVE IInv'
  <1>1. /\ form'[r] = form[r] /\ form[r] # Null /\ form[r].kind \in Patches
        /\ wrote'[r] = wrote[r]
    BY DEF Reread, IInv, RightPlaces
  <1>2. pc'[r] \in {"done", "refused"} /\ (pc'[r] = "done" => Finds(form[r]))
    BY DEF Reread, Goto, IInv, TypeOK
  <1>3. \A q \in Req : q # r => form'[q] = form[q] /\ pc'[q] = pc[q] /\ wrote'[q] = wrote[q]
    BY DEF Reread, Goto, IInv, TypeOK
  <1>4. TypeOK'
    BY DEF Reread, Goto, IInv, TypeOK, Ended
  <1>5. pc'[r] = "done" => wrote[r]
    BY <1>2 DEF Reread, Finds, IInv, MissedIsDeleted
  <1>6. QED
    BY <1>1, <1>2, <1>3, <1>4, <1>5, OthersUndisturbed DEF IInv, RightPlaces, ReadRowStays,
       MissedIsDeleted, AnsweredMeansWritten, RemovedIsGone, Patches

LEMMA AbortStep ==
    ASSUME IInv, RowsPersist, NEW r \in Req, Abort(r) PROVE IInv'
  <1>1. pc'[r] = "failed"
    BY DEF Abort, Goto, IInv, TypeOK
  <1>2. \A q \in Req : q # r => form'[q] = form[q] /\ pc'[q] = pc[q] /\ wrote'[q] = wrote[q]
    BY DEF Abort, Goto, IInv, TypeOK
  <1>3. TypeOK'
    BY DEF Abort, Goto, IInv, TypeOK, Ended
  <1>4. QED
    BY <1>1, <1>2, <1>3, OthersUndisturbed DEF IInv, RightPlaces, ReadRowStays,
       MissedIsDeleted, AnsweredMeansWritten, RemovedIsGone

LEMMA QuietStep ==
    ASSUME IInv, RowsPersist,
           (\E c \in Club : DeleteClub(c)) \/ UNCHANGED vars
    PROVE  IInv'
  <1>1. \A q \in Req : form'[q] = form[q] /\ pc'[q] = pc[q] /\ wrote'[q] = wrote[q]
    BY DEF DeleteClub, vars
  <1>2. TypeOK'
    BY DEF DeleteClub, vars, IInv, TypeOK
  <1>3. QED
    BY <1>1, <1>2, OthersUndisturbed DEF IInv, RightPlaces, ReadRowStays,
       MissedIsDeleted, AnsweredMeansWritten, RemovedIsGone

\* The invariant holds at the start and in every step.
THEOREM Invariance == Spec => []IInv
  <1>1. Init => IInv
    BY SchedulesAssumption DEF Init, IInv, TypeOK, RightPlaces, ReadRowStays,
       MissedIsDeleted, AnsweredMeansWritten, RemovedIsGone
  <1>2. IInv /\ [Next]_vars => IInv'
    <2> SUFFICES ASSUME IInv, [Next]_vars PROVE IInv'
      OBVIOUS
    <2>1. RowsPersist
      BY StepsPersist
    <2>2. ASSUME NEW r \in Req, NEW f \in Forms, Submit(r, f) PROVE IInv'
      BY <2>1, <2>2, SubmitStep
    <2>3. ASSUME NEW r \in Req, Serve(r) PROVE IInv'
      BY <2>1, <2>3, InsertStep, ReadStep, WriteStep, RereadStep DEF Serve
    <2>4. ASSUME NEW r \in Req, Abort(r) PROVE IInv'
      BY <2>1, <2>4, AbortStep
    <2>5. CASE (\E c \in Club : DeleteClub(c)) \/ UNCHANGED vars
      BY <2>1, <2>5, QuietStep
    <2>6. QED
      BY <2>2, <2>3, <2>4, <2>5 DEF Next
  <1>3. QED
    BY <1>1, <1>2, PTL DEF Spec

\* The table holds well-formed rows whatever requests interleave.
THEOREM TypeCorrect == Spec => []TypeOK
  <1>1. IInv => TypeOK
    BY DEF IInv
  <1>2. QED
    BY <1>1, Invariance, PTL

\* An update that is answered with success has been written.
THEOREM AnswersAreTrue == Spec => []AnsweredMeansWritten
  <1>1. IInv => AnsweredMeansWritten
    BY DEF IInv
  <1>2. QED
    BY <1>1, Invariance, PTL

\* A removal that is answered with success leaves a deleted row.
THEOREM RemovalIsTrue == Spec => []RemovedIsGone
  <1>1. IInv => RemovedIsGone
    BY DEF IInv
  <1>2. QED
    BY <1>1, Invariance, PTL

\* Nobody writes to a deleted schedule.
THEOREM DeletionIsFinal == Spec => DeletedIsFrozen
  <1>1. IInv /\ [Next]_vars =>
          [\A s \in ScheduleId : schedules[s] # Null /\ schedules[s].deleted
                                 => schedules'[s] = schedules[s]]_vars
    BY StepsPersist DEF RowsPersist
  <1>2. QED
    BY <1>1, Invariance, PTL DEF Spec, DeletedIsFrozen

\* A field changes only through a request that gives it: no lost updates.
THEOREM NoLostUpdate == Spec => OnlyGivenFieldsChange
  <1> DEFINE Fields == {"start_at", "end_at", "is_public"}
             Gave(s, field) == \E r \in Req : /\ pc[r] = "write" /\ pc'[r] = "reread"
                                              /\ form[r].id = s /\ form[r][field] # Keep
             Only == \A s \in ScheduleId, field \in Fields :
                        schedules[s] # Null /\ schedules'[s][field] # schedules[s][field]
                        => Gave(s, field)
  <1>1. ASSUME IInv, [Next]_vars PROVE Only
    <2>1. CASE UNCHANGED schedules
      BY <2>1
    <2>2. ASSUME NEW r \in Req, Insert(r) PROVE Only
      BY <1>1, <2>2, InsertRows
    <2>3. ASSUME NEW r \in Req, Write(r) PROVE Only
      <3> SUFFICES ASSUME NEW s \in ScheduleId, NEW field \in Fields, schedules[s] # Null,
                          schedules'[s][field] # schedules[s][field]
                   PROVE  Gave(s, field)
        OBVIOUS
      <3>1. s = form[r].id /\ Matches(form[r])
        BY <1>1, <2>3, WriteRows
      <3>2. schedules[s] \in ScheduleRow
        BY <1>1 DEF IInv, TypeOK
      <3>3. form[r].kind # "remove"
        <4>1. form[r].kind = "remove" =>
                 schedules'[s] = [schedules[s] EXCEPT !.deleted = TRUE]
          BY <1>1, <2>3, <3>1 DEF Write, IInv, TypeOK
        <4>2. QED
          BY <3>2, <4>1 DEF ScheduleRow
      <3>4. pc[r] = "write" /\ pc'[r] = "reread"
        BY <1>1, <2>3, <3>3 DEF Write, Goto, IInv, TypeOK
      <3>5. schedules'[s] = Patched(schedules[s], toUpdatePayload(form[r], schedule[r]))
        BY <1>1, <2>3, <3>1, <3>3, WriteRows
      <3>6. form[r][field] # Keep
        <4>1. CASE field = "start_at"
          BY <3>2, <3>5, <4>1 DEF Patched, toUpdatePayload, Given, ScheduleRow
        <4>2. CASE field = "end_at"
          BY <3>2, <3>5, <4>2 DEF Patched, toUpdatePayload, Given, ScheduleRow
        <4>3. CASE field = "is_public"
          BY <3>2, <3>5, <4>3 DEF Patched, toUpdatePayload, Given, ScheduleRow
        <4>4. QED
          BY <4>1, <4>2, <4>3
      <3>7. QED
        BY <3>1, <3>4, <3>6
    <2>4. QED
      BY <1>1, <2>1, <2>2, <2>3 DEF Next, Serve, Submit, Read, Reread, Abort, DeleteClub, vars
  <1>2. IInv /\ [Next]_vars => [Only]_vars
    BY <1>1
  <1>3. QED
    BY <1>2, Invariance, PTL DEF Spec, OnlyGivenFieldsChange
-----------------------------------------------------------------------------

\* What has been validated when a statement is about to write instants.
Validated ==
    \A r \in Req :
        /\ pc[r] = "insert" => validateDateOrder(form[r].start_at, form[r].end_at)
        /\ pc[r] = "write" /\ form[r].kind = "update" => ValidPatch(form[r], schedule[r])

\* A request keeps what was validated while it waits for its statement.
THEOREM ValidatedBeforeWriting == Spec => []Validated
  <1>1. Init => Validated
    BY DEF Init, Validated
  <1>2. IInv /\ Validated /\ [Next]_vars => Validated'
    <2> SUFFICES ASSUME IInv, Validated, [Next]_vars PROVE Validated'
      OBVIOUS
    <2>1. ASSUME NEW r \in Req, NEW f \in Forms, Submit(r, f) PROVE Validated'
      BY <2>1 DEF Submit, Goto, Validated, ValidPatch, IInv, TypeOK
    <2>2. ASSUME NEW r \in Req, Insert(r) PROVE Validated'
      BY <2>2 DEF Insert, Goto, Validated, ValidPatch, IInv, TypeOK
    <2>3. ASSUME NEW r \in Req, Read(r) PROVE Validated'
      <3>1. pc'[r] = "write" /\ form[r].kind = "update" => ValidPatch(form[r], schedule'[r])
        BY <2>3 DEF Read, Goto, IInv, TypeOK
      <3>2. pc'[r] \in {"write", "refused"} /\ form' = form
        BY <2>3 DEF Read, Goto, IInv, TypeOK
      <3>3. \A q \in Req : q # r => pc'[q] = pc[q] /\ schedule'[q] = schedule[q]
        BY <2>3 DEF Read, Goto, IInv, TypeOK
      <3>4. QED
        BY <3>1, <3>2, <3>3 DEF Validated, ValidPatch
    <2>4. ASSUME NEW r \in Req, Write(r) \/ Reread(r) \/ Abort(r) PROVE Validated'
      <3>1. pc'[r] \in {"done", "reread", "refused", "failed"}
        BY <2>4 DEF Write, Reread, Abort, Goto, IInv, TypeOK
      <3>2. form' = form /\ schedule' = schedule /\ \A q \in Req : q # r => pc'[q] = pc[q]
        BY <2>4 DEF Write, Reread, Abort, Goto, IInv, TypeOK
      <3>3. QED
        BY <3>1, <3>2 DEF Validated, ValidPatch
    <2>5. CASE (\E c \in Club : DeleteClub(c)) \/ UNCHANGED vars
      BY <2>5 DEF DeleteClub, vars, Validated, ValidPatch
    <2>6. QED
      BY <2>1, <2>2, <2>3, <2>4, <2>5 DEF Next, Serve
  <1>3. QED
    BY <1>1, <1>2, Invariance, PTL DEF Spec

\* A patch written over the very row it was validated against leaves that row
\* in order.
LEMMA FreshPatchInOrder ==
    ASSUME IInv, Validated, NEW r \in Req, Write(r), Matches(form[r]),
           schedule[r] = schedules[form[r].id], InOrder(form[r].id)
    PROVE  InOrder(form[r].id)'
  <1> DEFINE id == form[r].id
  <1>1. /\ form[r] # Null /\ id \in ScheduleId
        /\ form[r].kind \in {"update", "status", "remove"}
    BY FieldsOfForm DEF IInv, RightPlaces, Write
  <1>2. schedules[id] \in ScheduleRow
    BY <1>1 DEF IInv, TypeOK, Matches
  <1>3. form' = form
    BY DEF Write
  <1>4. CASE form[r].kind = "remove"
    <2>1. schedules'[id] = [schedules[id] EXCEPT !.deleted = TRUE]
      BY <1>1, <1>4 DEF Write, IInv, TypeOK
    <2>2. schedules'[id].start_at = schedules[id].start_at
          /\ schedules'[id].end_at = schedules[id].end_at
      BY <1>2, <2>1 DEF ScheduleRow
    <2>3. QED
      BY <1>3, <2>2 DEF InOrder, validateDateOrder
  <1>5. CASE form[r].kind # "remove"
    <2>1. schedules'[id] = Patched(schedules[id], toUpdatePayload(form[r], schedule[r]))
      BY <1>5, WriteRows
    <2>2. /\ schedules'[id].start_at = Given(form[r].start_at, schedules[id].start_at)
          /\ schedules'[id].end_at = Given(form[r].end_at, schedules[id].end_at)
      BY <1>2, <2>1 DEF Patched, toUpdatePayload, ScheduleRow
    <2>3. CASE form[r].kind = "update"
      <3>1. validateDateOrder(schedules'[id].start_at, schedules'[id].end_at)
        BY <2>2, <2>3 DEF Validated, ValidPatch, Write
      <3>2. QED
        BY <1>3, <3>1 DEF InOrder
    <2>4. CASE form[r].kind = "status"
      <3>1. form[r].start_at = Keep /\ form[r].end_at = Keep
        BY <1>1, <2>4, FieldsOfForm DEF IInv, Form
      <3>2. QED
        BY <1>3, <2>2, <3>1 DEF InOrder, Given
    <2>5. QED
      BY <1>1, <1>5, <2>3, <2>4
  <1>6. QED
    BY <1>4, <1>5

\* Only a patch whose row changed between its read and its UPDATE can reverse
\* the instants of a schedule.
THEOREM ReversalNeedsARace == Spec => ReversedByRaceOnly
  <1> DEFINE Fresh(s) == \A r \in Req : pc[r] = "write" /\ pc'[r] # "write" /\ form[r].id = s
                                        => schedule[r] = schedules[s]
             Kept == \A s \in ScheduleId :
                        /\ schedules'[s] # Null
                        /\ schedules[s] # Null => InOrder(s)
                        /\ Fresh(s)
                        => InOrder(s)'
  <1>1. ASSUME IInv, Validated, [Next]_vars PROVE Kept
    <2>1. CASE UNCHANGED schedules
      BY <2>1 DEF InOrder, validateDateOrder
    <2>2. ASSUME NEW r \in Req, Insert(r) PROVE Kept
      <3>1. PICK t \in ScheduleId :
               /\ schedules[t] = Null
               /\ schedules' = [schedules EXCEPT ![t] =
                    [club_id |-> form[r].by, start_at |-> form[r].start_at,
                     end_at |-> form[r].end_at, is_public |-> form[r].is_public,
                     deleted |-> FALSE]]
        BY <2>2 DEF Insert
      <3>2. /\ schedules'[t].start_at = form[r].start_at
            /\ schedules'[t].end_at = form[r].end_at
        BY <1>1, <3>1 DEF IInv, TypeOK
      <3>3. \A s \in ScheduleId : s # t => schedules'[s] = schedules[s]
        BY <1>1, <3>1 DEF IInv, TypeOK
      <3>4. validateDateOrder(form[r].start_at, form[r].end_at)
        BY <1>1, <2>2 DEF Insert, Validated
      <3>5. QED
        BY <3>2, <3>3, <3>4 DEF InOrder, validateDateOrder
    <2>3. ASSUME NEW r \in Req, Write(r) PROVE Kept
      <3> SUFFICES ASSUME NEW s \in ScheduleId, schedules'[s] # Null,
                          schedules[s] # Null => InOrder(s), Fresh(s)
                   PROVE  InOrder(s)'
        OBVIOUS
      <3>1. CASE schedules'[s] = schedules[s]
        BY <3>1 DEF InOrder, validateDateOrder
      <3>2. CASE schedules'[s] # schedules[s]
        <4>1. s = form[r].id /\ Matches(form[r])
          BY <1>1, <2>3, <3>2, WriteRows
        <4>2. pc[r] = "write" /\ pc'[r] # "write"
          BY <1>1, <2>3 DEF Write, Goto, IInv, TypeOK
        <4>3. schedule[r] = schedules[form[r].id] /\ InOrder(form[r].id)
          BY <4>1, <4>2 DEF Matches
        <4>4. InOrder(form[r].id)'
          BY <1>1, <2>3, <4>1, <4>3, FreshPatchInOrder
        <4>5. form' = form
          BY <2>3 DEF Write
        <4>6. QED
          BY <4>1, <4>4, <4>5 DEF InOrder
      <3>3. QED
        BY <3>1, <3>2
    <2>4. QED
      BY <1>1, <2>1, <2>2, <2>3 DEF Next, Serve, Submit, Read, Reread, Abort, DeleteClub, vars
  <1>2. IInv /\ Validated /\ [Next]_vars => [Kept]_vars
    BY <1>1
  <1>3. QED
    BY <1>2, Invariance, ValidatedBeforeWriting, PTL DEF Spec, ReversedByRaceOnly

-----------------------------------------------------------------------------
(* The lists                                                               *)

LEMMA StoredRow ==
    ASSUME TypeOK, NEW s \in Stored
    PROVE  /\ s \in ScheduleId /\ schedules[s] \in ScheduleRow
           /\ schedules[s].club_id \in Club \cup {Null}
           /\ schedules[s].start_at \in Date /\ schedules[s].end_at \in Date
           /\ schedules[s].is_public \in BOOLEAN
  BY DEF TypeOK, Stored, ScheduleRow, Owner

\* The public lists show the same schedules, and an administrator sees besides
\* them only private ones and those of deleted clubs.
THEOREM PublicViewsAreTheSame == Spec => []PublicViewsAgree
  <1>1. ASSUME TypeOK PROVE PublicViewsAgree
    <2>1. ASSUME NEW c \in Club, NEW now \in Date
          PROVE  /\ findPublicByClubId(c) = findAllByClubId(c, "public", now)
                 /\ findAllByClubId(c, "all", now) =
                      findAllByClubId(c, "public", now) \cup findAllByClubId(c, "private", now)
      BY DEF findPublicByClubId, findAllByClubId
    <2>2. ASSUME NEW from \in Date, NEW to \in Date
          PROVE  findPublicCalendar(from, to) =
                   findAllForAdmin(TRUE, from, to)
                     \ {s \in Stored : schedules[s].club_id \in deleted}
      <3>1. \A s \in Stored : schedules[s].club_id = Null \/ ClubFound(s)
                              <=> schedules[s].club_id \notin deleted
        BY <1>1, StoredRow, SchedulesAssumption DEF ClubFound, TypeOK
      <3>2. \A s \in Stored : schedules[s].is_public
                              <=> (TRUE # Keep => schedules[s].is_public = TRUE)
        BY <1>1, StoredRow, SchedulesAssumption
      <3>3. QED
        BY <3>1, <3>2 DEF findPublicCalendar, findAllForAdmin
    <2>3. QED
      BY <2>1, <2>2 DEF PublicViewsAgree
  <1>2. QED
    BY <1>1, Invariance, PTL DEF IInv

\* Only a schedule whose instants are reversed can fall between two months of
\* the dashboard, or be past and upcoming at once.
THEOREM OnlyReversedGetLost == Spec => []OnlyReversedIsMissed
  <1>1. ASSUME TypeOK PROVE OnlyReversedIsMissed
    <2>1. \A s \in Stored : schedules[s].start_at \in Nat /\ schedules[s].end_at \in Nat
      BY <1>1, StoredRow, SchedulesAssumption DEF Date
    <2>2. ASSUME NEW from \in Date, NEW mid \in Date, NEW to \in Date, from < mid, mid < to
          PROVE  LET counted  == getScheduleSummary(from, mid) \cup getScheduleSummary(mid, to)
                     calendar == {s \in findCalendarForAdmin(from, to) :
                                    schedules[s].start_at # to}
                 IN  /\ counted \subseteq calendar
                     /\ \A s \in calendar \ counted : ~InOrder(s)
      <3>1. from \in Nat /\ mid \in Nat /\ to \in Nat /\ to # Null /\ from # Null
        BY SchedulesAssumption DEF Date
      <3>2. QED
        BY <2>1, <2>2, <3>1 DEF getScheduleSummary, findCalendarForAdmin, Overlaps,
                                 InOrder, validateDateOrder
    <2>3. ASSUME NEW c \in Club, NEW now \in Date,
                 NEW s \in findAllByClubId(c, "upcoming", now)
                             \cap findAllByClubId(c, "past", now)
          PROVE  ~InOrder(s)
      <3>1. s \in Stored /\ now \in Nat
        BY SchedulesAssumption DEF findAllByClubId, Date
      <3>2. QED
        BY <2>1, <3>1 DEF findAllByClubId, InOrder, validateDateOrder
    <2>4. QED
      BY <2>2, <2>3 DEF OnlyReversedIsMissed
  <1>2. QED
    BY <1>1, Invariance, PTL DEF IInv
-----------------------------------------------------------------------------
(* The promise: the statements implement schedules that change in one step *)

\* A handler has written nothing before its UPDATE, and nothing is asked of
\* it before its request comes.
NothingYet ==
    \A r \in Req : /\ pc[r] = "idle" => form[r] = Null
                   /\ pc[r] \in {"idle", "insert", "read", "write"} => ~wrote[r]

\* The flags of a request are untouched until its UPDATE.
LEMMA NothingBeforehand == Spec => []NothingYet
  <1>1. Init => NothingYet
    BY DEF Init, NothingYet
  <1>2. IInv /\ NothingYet /\ [Next]_vars => NothingYet'
    <2> SUFFICES ASSUME IInv, NothingYet, [Next]_vars PROVE NothingYet'
      OBVIOUS
    <2>1. ASSUME NEW r \in Req, NEW f \in Forms, Submit(r, f) PROVE NothingYet'
      BY <2>1 DEF Submit, Goto, NothingYet, IInv, TypeOK
    <2>2. ASSUME NEW r \in Req, Insert(r) \/ Read(r) \/ Reread(r) \/ Abort(r)
          PROVE  NothingYet'
      <3>1. wrote' = wrote /\ form' = form /\ \A q \in Req : q # r => pc'[q] = pc[q]
        BY <2>2 DEF Insert, Read, Reread, Abort, Goto, IInv, TypeOK
      <3>2. pc'[r] # "idle" /\ (pc'[r] = "write" => pc[r] = "read")
            /\ pc'[r] \notin {"insert", "read"}
        BY <2>2 DEF Insert, Read, Reread, Abort, Goto, IInv, TypeOK
      <3>3. QED
        BY <3>1, <3>2 DEF NothingYet
    <2>3. ASSUME NEW r \in Req, Write(r) PROVE NothingYet'
      <3>1. pc'[r] \in {"done", "reread"} /\ form' = form
            /\ \A q \in Req : q # r => pc'[q] = pc[q] /\ wrote'[q] = wrote[q]
        BY <2>3 DEF Write, Goto, IInv, TypeOK
      <3>2. QED
        BY <3>1 DEF NothingYet
    <2>4. CASE (\E c \in Club : DeleteClub(c)) \/ UNCHANGED vars
      BY <2>4 DEF DeleteClub, vars, NothingYet
    <2>5. QED
      BY <2>1, <2>2, <2>3, <2>4 DEF Next, Serve
  <1>3. QED
    BY <1>1, <1>2, Invariance, PTL DEF Spec

\* What the abstract specification calls served and answered.
Served == {r \in Req : wrote[r] \/ (pc[r] = "done" /\ form[r].kind = "create")}
Answered == {r \in Req : pc[r] = "done"}

\* Steps that write no schedule and end no request well are invisible.
LEMMA Unseen ==
    ASSUME UNCHANGED <<schedules, form, wrote>>, NEW r \in Req,
           pc[r] # "done", pc'[r] # "done",
           \A q \in Req : q # r => pc'[q] = pc[q]
    PROVE  UNCHANGED OneStep!ovars
  <1>1. Served' = Served
    BY DEF Served
  <1>2. Answered' = Answered
    BY DEF Answered
  <1>3. QED
    BY <1>1, <1>2 DEF OneStep!ovars, Served, Answered

\* A request that comes in is asked for, accepted or not.
LEMMA SubmitAsks ==
    ASSUME IInv, NothingYet, NEW r \in Req, NEW f \in Forms, Submit(r, f)
    PROVE  OneStep!Ask(r, f)
  <1>1. form[r] = Null /\ form' = [form EXCEPT ![r] = f]
    BY DEF Submit, NothingYet
  <1>2. pc[r] # "done" /\ pc'[r] # "done"
        /\ \A q \in Req : q # r => pc'[q] = pc[q] /\ form'[q] = form[q]
    BY DEF Submit, Goto, IInv, TypeOK
  <1>3. UNCHANGED <<schedules, wrote>>
    BY DEF Submit
  <1>4. Served' = Served
    BY <1>2, <1>3 DEF Served
  <1>5. Answered' = Answered
    BY <1>2 DEF Answered
  <1>6. QED
    BY <1>1, <1>3, <1>4, <1>5 DEF OneStep!Ask, Served, Answered

\* An INSERT is the effect of a creation and its answer.
LEMMA InsertTakesEffect ==
    ASSUME IInv, Validated, NothingYet, NEW r \in Req, Insert(r)
    PROVE  OneStep!Effect(r)
  <1>1. /\ form[r] # Null /\ form[r].kind = "create"
        /\ form[r].start_at <= form[r].end_at
    BY DEF Insert, IInv, RightPlaces, Validated, validateDateOrder
  <1>2. pc[r] # "done" /\ ~wrote[r] /\ pc'[r] = "done"
        /\ \A q \in Req : q # r => pc'[q] = pc[q]
    BY DEF Insert, Goto, NothingYet, IInv, TypeOK
  <1>3. UNCHANGED <<form, wrote>>
    BY DEF Insert
  <1>4. r \notin Served /\ Served' = Served \cup {r}
    BY <1>1, <1>2, <1>3 DEF Served
  <1>5. Answered' = Answered \cup {r}
    BY <1>2 DEF Answered
  <1>6. OneStep!Create(form[r])
    BY <1>1 DEF Insert, OneStep!Create
  <1>7. QED
    BY <1>1, <1>3, <1>4, <1>5, <1>6 DEF OneStep!Effect, Served, Answered

\* The row an UPDATE writes is the one the patch of the promise describes.
LEMMA UpdateIsPatch ==
    ASSUME IInv, Validated, NEW r \in Req, Write(r), Matches(form[r]),
           form[r].kind # "remove"
    PROVE  OneStep!Patch(form[r])
  <1>1. /\ form[r] # Null /\ form[r].id \in ScheduleId
        /\ form[r].kind \in {"update", "status"}
    BY FieldsOfForm DEF Write, IInv, RightPlaces
  <1>2. ASSUME form[r].start_at # Keep, form[r].end_at # Keep
        PROVE  form[r].start_at <= form[r].end_at
    <2>1. form[r].kind = "update"
      BY <1>1, <1>2, FieldsOfForm DEF IInv, Form
    <2>2. ValidPatch(form[r], schedule[r])
      BY <2>1 DEF Write, Validated
    <2>3. QED
      BY <1>2, <2>2 DEF ValidPatch, Given, validateDateOrder
  <1>3. schedules[form[r].id] \in ScheduleRow
    BY <1>1 DEF Matches, IInv, TypeOK
  <1>4. \A row \in ScheduleRow :
          Patched(row, toUpdatePayload(form[r], schedule[r])) = OneStep!Changed(form[r], row)
    BY DEF Patched, toUpdatePayload, Given, ScheduleRow, OneStep!Changed
  <1>5. schedules' = [schedules EXCEPT ![form[r].id] = OneStep!Changed(form[r], @)]
    BY <1>3, <1>4 DEF Write
  <1>6. OneStep!MayChange(form[r])
    BY DEF Matches, OneStep!MayChange
  <1>7. QED
    BY <1>1, <1>2, <1>5, <1>6 DEF OneStep!Patch

\* An UPDATE that finds its row is the effect of the request, for a removal the
\* answer, too; one that misses it is the answer of a removal, or unseen.
LEMMA WriteTakesEffect ==
    ASSUME IInv, Validated, NothingYet, NEW r \in Req, Write(r)
    PROVE  OneStep!Effect(r) \/ OneStep!Answer(r) \/ UNCHANGED OneStep!ovars
  <1>1. /\ form[r] # Null /\ form[r].id \in ScheduleId
        /\ form[r].kind \in {"update", "status", "remove"}
    BY FieldsOfForm DEF Write, IInv, RightPlaces
  <1>2. /\ pc[r] # "done" /\ ~wrote[r] /\ wrote'[r] = Matches(form[r])
        /\ pc'[r] = IF form[r].kind = "remove" THEN "done" ELSE "reread"
        /\ \A q \in Req : q # r => pc'[q] = pc[q] /\ wrote'[q] = wrote[q]
    BY DEF Write, Goto, NothingYet, IInv, TypeOK
  <1>3. form' = form
    BY DEF Write
  <1>4. Answered' = IF form[r].kind = "remove" THEN Answered \cup {r} ELSE Answered
    BY <1>2 DEF Answered
  <1>5. r \notin Served
    BY <1>2 DEF Served
  <1>6. CASE Matches(form[r])
    <2>1. Served' = Served \cup {r}
      BY <1>2, <1>3, <1>6 DEF Served
    <2>2. OneStep!Patch(form[r]) \/ OneStep!Remove(form[r])
      <3>1. CASE form[r].kind = "remove"
        BY <1>6, <3>1 DEF Write, Matches, OneStep!Remove, OneStep!MayChange
      <3>2. CASE form[r].kind # "remove"
        BY <1>6, <3>2, UpdateIsPatch
      <3>3. QED
        BY <3>1, <3>2
    <2>3. QED
      BY <1>1, <1>3, <1>4, <1>5, <2>1, <2>2 DEF OneStep!Effect, Served, Answered
  <1>7. CASE ~Matches(form[r])
    <2>1. Served' = Served
      BY <1>1, <1>2, <1>3, <1>7 DEF Served
    <2>2. schedules' = schedules
      BY <1>7, WriteRows
    <2>3. CASE form[r].kind = "remove"
      <3>1. schedules[form[r].id] # Null /\ schedules[form[r].id].deleted
        BY <1>7 DEF Write, Matches, IInv, ReadRowStays
      <3>2. QED
        BY <1>1, <1>3, <1>4, <2>1, <2>2, <2>3, <3>1
           DEF OneStep!Answer, OneStep!Removed, Served, Answered
    <2>4. CASE form[r].kind # "remove"
      BY <1>3, <1>4, <2>1, <2>2, <2>4 DEF OneStep!ovars, Served, Answered
    <2>5. QED
      BY <2>3, <2>4
  <1>8. QED
    BY <1>6, <1>7

\* The second read answers a request that took effect, or refuses unseen.
LEMMA RereadAnswers ==
    ASSUME IInv, NEW r \in Req, Reread(r)
    PROVE  OneStep!Answer(r) \/ UNCHANGED OneStep!ovars
  <1>1. /\ form[r] # Null /\ form[r].kind # "create" /\ pc[r] = "reread"
    BY DEF Reread, IInv, RightPlaces, Patches
  <1>2. /\ pc'[r] \in {"done", "refused"}
        /\ pc'[r] = "done" => Finds(form[r])
        /\ \A q \in Req : q # r => pc'[q] = pc[q]
    BY DEF Reread, Goto, IInv, TypeOK
  <1>3. UNCHANGED <<schedules, form, wrote>>
    BY DEF Reread
  <1>4. CASE pc'[r] = "done"
    <2>1. wrote[r]
      BY <1>1, <1>2, <1>4 DEF Finds, IInv, MissedIsDeleted
    <2>2. Served' = Served /\ r \in Served
      BY <1>1, <1>2, <1>3, <2>1 DEF Served
    <2>3. Answered' = Answered \cup {r}
      BY <1>2, <1>4 DEF Answered
    <2>4. QED
      BY <1>1, <1>3, <2>2, <2>3 DEF OneStep!Answer, Served, Answered
  <1>5. CASE pc'[r] = "refused"
    BY <1>1, <1>2, <1>3, <1>5, Unseen
  <1>6. QED
    BY <1>2, <1>4, <1>5

\* To its clients every schedule changes in one step, by requests that may
\* change it, and no answer is a lie: the handlers of ClubSchedulesService
\* implement OneStepSchedules.
THEOREM Refinement == Spec => SchedulesChangeInOneStep
  <1>1. Init => OneStep!Init
    BY DEF Init, OneStep!Init
  <1>2. IInv /\ Validated /\ NothingYet /\ [Next]_vars => [OneStep!Next]_OneStep!ovars
    <2> SUFFICES ASSUME IInv, Validated, NothingYet, [Next]_vars
                 PROVE  [OneStep!Next]_OneStep!ovars
      OBVIOUS
    <2>1. ASSUME NEW r \in Req, NEW f \in Forms, Submit(r, f) PROVE OneStep!Next
      BY <2>1, SubmitAsks DEF OneStep!Next
    <2>2. ASSUME NEW r \in Req, Insert(r) PROVE OneStep!Next
      BY <2>2, InsertTakesEffect DEF OneStep!Next
    <2>3. ASSUME NEW r \in Req, Write(r) PROVE [OneStep!Next]_OneStep!ovars
      BY <2>3, WriteTakesEffect DEF OneStep!Next
    <2>4. ASSUME NEW r \in Req, Reread(r) PROVE [OneStep!Next]_OneStep!ovars
      BY <2>4, RereadAnswers DEF OneStep!Next
    <2>5. ASSUME NEW r \in Req, Read(r) \/ Abort(r) PROVE UNCHANGED OneStep!ovars
      <3>1. UNCHANGED <<schedules, form, wrote>> /\ pc[r] # "done" /\ pc'[r] # "done"
            /\ \A q \in Req : q # r => pc'[q] = pc[q]
        BY <2>5 DEF Read, Abort, Goto, Places, IInv, TypeOK
      <3>2. QED
        BY <3>1, Unseen
    <2>6. CASE (\E c \in Club : DeleteClub(c)) \/ UNCHANGED vars
      <3>1. UNCHANGED <<schedules, form, wrote, pc>>
        BY <2>6 DEF DeleteClub, vars
      <3>2. Served' = Served /\ Answered' = Answered
        BY <3>1 DEF Served, Answered
      <3>3. QED
        BY <3>1, <3>2 DEF OneStep!ovars, Served, Answered
    <2>7. QED
      BY <2>1, <2>2, <2>3, <2>4, <2>5, <2>6 DEF Next, Serve
  <1>3. QED
    BY <1>1, <1>2, Invariance, ValidatedBeforeWriting, NothingBeforehand, PTL
       DEF Spec, SchedulesChangeInOneStep, OneStep!Spec
=============================================================================
