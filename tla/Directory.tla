----------------------------- MODULE Directory -----------------------------
(***************************************************************************)
(* UsersService and ClubsService at work on the same two tables.           *)
(***************************************************************************)
EXTENDS Users, Clubs

Init == /\ \E t \in Start : users = t.users /\ clubs = t.clubs
        /\ form = [r \in Req |-> Null]
        /\ pc = [r \in Req |-> "idle"]
        /\ early = [r \in Req |-> FALSE]
        /\ serial = TRUE
        /\ met = [r \in Req |-> {}]

InFlight == {q \in Req : pc[q] \in Places}

\* The first statement of each handler; a new club with an impossible period
\* is turned away without one.
First(f) ==
    CASE f.kind = "createUser" -> "guard"
      [] f.kind \in {"updateUser", "removeUser"} -> "read"
      [] f.kind \in {"register", "createClub"} ->
            IF ~InOrder(f.recruit_start, f.recruit_end) THEN "refused"
            ELSE IF f.kind = "register" THEN "login" ELSE "ensure"
      [] f.kind = "deleteClub" -> "erase"
      [] f.kind = "updateClub" ->
            IF f.recruit_start # Keep \/ f.recruit_end # Keep
            THEN "dates" ELSE AfterDates(f)

Submit(r, f) ==
    /\ pc[r] = "idle"
    /\ Cardinality(InFlight) < MaxConcurrent
    /\ form' = [form EXCEPT ![r] = f]
    /\ early' = [early EXCEPT ![r] = ~hasAnyUser]
    /\ serial' = (serial /\ InFlight = {})
    /\ met' = [q \in Req |-> IF q = r THEN InFlight
                             ELSE IF q \in InFlight THEN met[q] \cup {r} ELSE met[q]]
    /\ Goto(r, First(f))
    /\ UNCHANGED <<users, clubs>>

\* A statement fails, validation rejects the body, or the process is
\* restarted: the statements already executed stay.
Abort(r) ==
    /\ pc[r] \in Places
    /\ Goto(r, "failed")
    /\ UNCHANGED <<users, clubs, form, early, serial, met>>

Next == \E r \in Req :
          \/ \E f \in Forms : Submit(r, f)
          \/ UserStep(r)
          \/ ClubStep(r)
          \/ Abort(r)

Spec == Init /\ [][Next]_tables
-----------------------------------------------------------------------------
(* Properties of any interleaving                                          *)

\* Rows and requests are well formed, and a request works on rows that exist.
TypeOK ==
    /\ users \in [UserId -> UserRow \cup {Null}]
    /\ clubs \in [ClubId -> ClubRow \cup {Null}]
    /\ form \in [Req -> Forms \cup {Null}]
    /\ pc \in [Req -> {"idle"} \cup Places \cup Ended]
    /\ early \in [Req -> BOOLEAN]
    /\ serial \in BOOLEAN
    /\ met \in [Req -> SUBSET Req]
    /\ \A r \in Req : pc[r] # "idle" => form[r] # Null

\* The system accounts of bootstrap-admin.md: no request, in whatever order
\* the statements interleave, changes or deletes such a row, or makes one.
SystemAccountsUntouched ==
    [][\A u \in UserId :
          /\ users[u] # Null /\ users[u].is_system => users'[u] = users[u]
          /\ users[u] = Null /\ users'[u] # Null => ~users'[u].is_system]_tables

\* Rows are never removed, hence the anonymous creation of users, once over,
\* is over for good: whoever creates a user without a token arrived when the
\* table was empty, even if all users have been deleted since.
BootstrapStaysClosed ==
    \A r \in Req : /\ pc[r] = "done" /\ form[r].kind = "createUser"
                   /\ form[r].token = Null
                   => early[r]

\* What has been deleted stays deleted, and a deleted club is frozen: neither
\* a late update nor the removal of its president writes to it.
DeletedIsFinal ==
    [][/\ \A u \in UserId : users[u] # Null /\ users[u].deleted => users'[u].deleted
       /\ \A c \in ClubId : clubs[c] # Null /\ clubs[c].deleted => clubs'[c] = clubs[c]
      ]_tables

-----------------------------------------------------------------------------
(* What the checks keep as long as no two requests overlap, however often  *)
(* one is cut off between two of its statements                            *)

\* The president of a live club is a live ordinary user, as it is said of
\* UsersService.remove that it lifts the link; nothing keeps two requests from
\* breaking it together.
NoDeletedPresident ==
    \A c \in ClubId :
        LiveClub(c) /\ clubs[c].president_id # Null => Findable(clubs[c].president_id)

\* One after the other, and with a crash between the unlinking and the erasing
\* of a user, the handlers keep it.
PresidentsAreLive == serial => NoDeletedPresident

-----------------------------------------------------------------------------
(* A check and the write that relies on it are two statements, and no index *)
(* and no lock stands behind the checks below.  Only a request that was     *)
(* answered while another was past its check can undo what it found.        *)

\* q has been answered with success, and r is in this step, after the two have
\* been in flight together.
Overtook(q, r) == q \in met[r] /\ pc[q] = "done" /\ pc[r] # "done" /\ pc'[r] = "done"

\* The requests of these kinds write a value of their body to an account.
WritesAccount == {"createUser", "updateUser", "register"}

Share(u, v, field) == Live(u) /\ Live(v) /\ users[u][field] = users[v][field]

\* Two live users come to share a login_id or a phone in one way: two requests
\* that give it overlap.
AccountsClashByRaceOnly ==
    [][\A u, v \in UserId, field \in {"login_id", "phone"} :
          u # v /\ ~Share(u, v, field) /\ Share(u, v, field)' =>
             \E q, r \in Req :
                /\ Overtook(q, r)
                /\ form[q].kind \in WritesAccount /\ form[q][field] = users'[u][field]
                /\ form[r].kind \in WritesAccount /\ form[r][field] = users'[u][field]
      ]_tables

\* A period that ends before it starts comes from an update that checked the
\* date it leaves alone before another update wrote that date.
Reversed(c) == clubs[c] # Null /\ ~InOrder(clubs[c].recruit_start, clubs[c].recruit_end)

PeriodsReversedByRaceOnly ==
    [][\A c \in ClubId : ~Reversed(c) /\ Reversed(c)' =>
          \E q, r \in Req :
             /\ Overtook(q, r)
             /\ {form[q].kind, form[r].kind} = {"updateClub"} /\ {form[q].id, form[r].id} = {c}
             /\ \/ form[r].recruit_start = Keep /\ form[q].recruit_start # Keep
                \/ form[r].recruit_end = Keep /\ form[q].recruit_end # Keep]_tables

\* The account of a removed user is written by an update that read the user
\* before the removal, and by nothing else.
RemovedUserWrittenByRaceOnly ==
    [][\A u \in UserId : users[u] # Null /\ users[u].deleted /\ users'[u] # users[u] =>
          \E q, r \in Req :
             /\ Overtook(q, r)
             /\ form[q].kind = "removeUser" /\ form[r].kind = "updateUser"
             /\ form[q].id = u /\ form[r].id = u]_tables
=============================================================================
