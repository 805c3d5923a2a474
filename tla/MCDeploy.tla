------------------------------ MODULE MCDeploy ------------------------------
EXTENDS Deploy, TLC

CONSTANTS w1, w2

TwoWorkers == {w1, w2}
WorkerSymmetry == Permutations(TwoWorkers)

\* Bound: the kinds of trouble that come together, fewer the more runs there are:
\* three in the first run, one when it comes to a third run, which no script that
\* has lost its runner accompanies.
FewTroubles == /\ job.run + Cardinality(upset) <= 4
               /\ job.run = 3 => left = {}
=============================================================================
