---------------------------- MODULE MCEnrollment ----------------------------
(***************************************************************************)
(* Small instances of Enrollment.                                          *)
(***************************************************************************)
EXTENDS EnrollmentRefinement, TLC

\* Requests, employees and links are interchangeable.
Symmetry == Permutations(Handlers) \cup Permutations(Employees) \cup Permutations(Tokens)
=============================================================================
