---------------------------- MODULE MCFtDownload ----------------------------
\* A file whose meta data are asked for and that is then accepted or rejected.
\* The requests are alike until they are made: their symmetry is sound, as the
\* run checks no liveness.
EXTENDS FtDownload, TLC

Symmetry == Permutations(Requests)

\* Bound: only one request at a time is in its second attempt.
OneRetry == \A p, q \in Requests : tries[p] > 0 /\ tries[q] > 0 => p = q
=============================================================================
