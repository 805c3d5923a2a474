-------------------------- MODULE OneStepSchedules --------------------------
(***************************************************************************)
(* What the schedules promise their users, without statements: a request   *)
(* takes effect in one step, at most once and on a row it may change, and  *)
(* whoever is answered finds that it did.  A request may also take effect  *)
(* and never be answered; that two patches of one row are checked against  *)
(* each other is not promised.                                             *)
(***************************************************************************)
EXTENDS Integers

CONSTANTS Req, ScheduleId, Forms, Schedules0, Null, Keep

VARIABLES
    rows,     \* the schedules
    asked,    \* what each client asked for
    served,   \* the requests that took effect
    answered  \* the requests that were answered with success

ovars == <<rows, asked, served, answered>>

Init ==
    /\ rows = Schedules0
    /\ asked = [r \in Req |-> Null]
    /\ served = {}
    /\ answered = {}

Ask(r, f) ==
    /\ asked[r] = Null
    /\ asked' = [asked EXCEPT ![r] = f]
    /\ UNCHANGED <<rows, served, answered>>

\* A president changes the schedules of the own club, an administrator all.
MayChange(f) ==
    /\ rows[f.id] # Null /\ ~rows[f.id].deleted
    /\ f.by # Null => rows[f.id].club_id = f.by

Create(f) ==
    /\ f.kind = "create" /\ f.start_at <= f.end_at
    /\ \E s \in ScheduleId :
          /\ rows[s] = Null
          /\ rows' = [rows EXCEPT ![s] =
                [club_id |-> f.by, start_at |-> f.start_at, end_at |-> f.end_at,
                 is_public |-> f.is_public, deleted |-> FALSE]]

\* Only what the client gives.
Changed(f, row) ==
    [row EXCEPT !.start_at = IF f.start_at = Keep THEN @ ELSE f.start_at,
                !.end_at = IF f.end_at = Keep THEN @ ELSE f.end_at,
                !.is_public = IF f.is_public = Keep THEN @ ELSE f.is_public]

\* A period that the client itself reverses is never accepted.
Patch(f) ==
    /\ f.kind \in {"update", "status"} /\ MayChange(f)
    /\ f.start_at # Keep /\ f.end_at # Keep => f.start_at <= f.end_at
    /\ rows' = [rows EXCEPT ![f.id] = Changed(f, @)]

Remove(f) ==
    /\ f.kind = "remove" /\ MayChange(f)
    /\ rows' = [rows EXCEPT ![f.id] = [@ EXCEPT !.deleted = TRUE]]

\* The answer may come with the effect or later.
Effect(r) ==
    /\ asked[r] # Null /\ r \notin served
    /\ Create(asked[r]) \/ Patch(asked[r]) \/ Remove(asked[r])
    /\ served' = served \cup {r}
    /\ answered' \in {answered, answered \cup {r}}
    /\ UNCHANGED asked

\* What a removal asked for may also be the work of another one.
Removed(f) == f.kind = "remove" /\ rows[f.id] # Null /\ rows[f.id].deleted

Answer(r) ==
    /\ asked[r] # Null
    /\ r \in served \/ Removed(asked[r])
    /\ answered' = answered \cup {r}
    /\ UNCHANGED <<rows, asked, served>>

Next == \E r \in Req : (\E f \in Forms : Ask(r, f)) \/ Effect(r) \/ Answer(r)

Spec == Init /\ [][Next]_ovars
=============================================================================
