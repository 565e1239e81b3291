--------------------------- MODULE MCReleaseAdmission --------------------------
(* A small instance of ReleaseAdmission for TLC. *)
EXTENDS ReleaseAdmission, TLC

CONSTANTS m0, m1, m2, r1, r2

AnyRelease == Permutations({r1, r2})

=============================================================================
