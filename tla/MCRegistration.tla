--------------------------- MODULE MCRegistration ---------------------------
EXTENDS Registration, TLC

CONSTANTS k1, k2, r1, r2, r3, s1, loginA, loginB, phoneA, phoneB

OneKey == {k1}
TwoKeys == {k1, k2}
TwoReqs == {r1, r2}
ThreeReqs == {r1, r2, r3}
OneStaff == {s1}
MCLoginId == {loginA, loginB}
MCPhone == {phoneA, phoneB}
MCAccount == [s \in OneStaff |-> [login_id |-> loginA, phone |-> phoneA]]

WithAccount(k, l, p) ==
    [key |-> k, president_id |-> Null, newPresident |-> [login_id |-> l, phone |-> p]]
WithUser(k, u) == [key |-> k, president_id |-> u, newPresident |-> Null]

\* A fresh account, one whose login_id or phone is taken, the existing user,
\* and a user that exists only once r1 registered with an account.
RaceForms ==
    {WithAccount(k1, loginB, phoneB), WithAccount(k1, loginB, phoneA),
     WithAccount(k1, loginA, phoneB), WithUser(k1, s1), WithUser(k1, r1)}

\* Two keys whose holders name the same president.
SamePresidentForms ==
    {WithUser(k1, s1), WithUser(k2, s1), WithAccount(k1, loginB, phoneB),
     WithUser(k2, r1), WithAccount(k2, loginB, phoneA)}

ReqSymmetry == Permutations({r2, r3})
=============================================================================
