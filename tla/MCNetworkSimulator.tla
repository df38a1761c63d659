-------------------------- MODULE MCNetworkSimulator --------------------------
EXTENDS NetworkSimulator, TLC

(* Symmetry of the slave identities, for the runs without liveness.        *)
MCSymmetry == Permutations(Ids)

(* A download to an object of the device.                                  *)
MCDownload == {[service |-> "DOWNLOAD", object |-> "dev", count |-> 0]}
=============================================================================
