---------------------------- MODULE MCTrustRollout ---------------------------
(***************************************************************************)
(* Two generations, the second in a newer manifest format, and agents that *)
(* decode the launch format only, both, or the newer one only.             *)
(***************************************************************************)
EXTENDS TrustRollout

MCFormatOf == [e \in 1 .. MaxEpoch |-> IF e = 1 THEN 1 ELSE 2]
MCRanges   == {[min |-> 1, max |-> 1], [min |-> 1, max |-> 2],
               [min |-> 2, max |-> 2]}

=============================================================================
