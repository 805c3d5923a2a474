------------------------ MODULE OneShotRegistration ------------------------
(***************************************************************************)
(* What club registration promises, without transactions: an issued key    *)
(* turns into exactly one club, in one step that also creates the account  *)
(* of the new president when there is one.  Nothing else is ever visible.  *)
(***************************************************************************)
CONSTANTS Key, Req

VARIABLES
    issued,     \* keys that were handed out
    spent,      \* keys marked as used
    registered, \* <<key, request>> of every registered club
    accounts    \* requests whose president got a new account

ovars == <<issued, spent, registered, accounts>>

Init == issued = {} /\ spent = {} /\ registered = {} /\ accounts = {}

Issue(k) ==
    /\ k \notin issued
    /\ issued' = issued \cup {k}
    /\ UNCHANGED <<spent, registered, accounts>>

Register(r, k) ==
    /\ k \in issued \ spent
    /\ \A p \in registered : p[2] # r
    /\ spent' = spent \cup {k}
    /\ registered' = registered \cup {<<k, r>>}
    /\ accounts' \in {accounts, accounts \cup {r}}
    /\ UNCHANGED issued

Next == \/ \E k \in Key : Issue(k)
        \/ \E r \in Req, k \in Key : Register(r, k)

Spec == Init /\ [][Next]_ovars
=============================================================================
