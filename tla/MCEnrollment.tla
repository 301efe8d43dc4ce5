---------------------------- MODULE MCEnrollment -----------------------------
(***************************************************************************)
(* Operations on one identity: two of one spec on one host, one of another *)
(* spec there, and one for another host.                                   *)
(***************************************************************************)
EXTENDS Enrollment

MCIdOf   == [o \in Ops |-> "sensor"]
MCHostOf == [o \in Ops |-> IF o = "o4" THEN "h2" ELSE "h1"]
MCSpecOf == [o \in Ops |-> IF o = "o3" THEN "s2" ELSE "s1"]

=============================================================================
