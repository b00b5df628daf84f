------------------------------- MODULE MClab8 -------------------------------
(* A screen of 9 by 9 pixels for a ball of radius 1, with short blanking.  *)
EXTENDS lab8

MCH_SYNC == {10}
MCV_SYNC == {10, 11}
=============================================================================
