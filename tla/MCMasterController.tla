-------------------------- MODULE MCMasterController --------------------------
(* The automatic sequence, with and without --no-auto, and the symmetry of *)
(* the slaves for the runs without liveness.                               *)
EXTENDS MasterController, TLC

MCAuto == <<"scan", "preop", "op">>
MCNoAuto == <<>>
MCSymmetry == Permutations(Nodes)
=============================================================================
