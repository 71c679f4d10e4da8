--------------------------- MODULE MCHttpSession ---------------------------
(***************************************************************************)
(* Bounds for checking HttpSession.  A header takes one unit of a buffer   *)
(* of three, so a file of 0 or 2 units needs one part (2 exactly), one of  *)
(* 5 needs a second that is full, and one of 7 a third that is not.        *)
(***************************************************************************)
EXTENDS HttpSession, TLC

\* Timer ids are interchangeable (safety runs only).
Symmetry == Permutations(TimerIds)
=============================================================================
