---------------------------- MODULE MCTransports ----------------------------
(* Transports with its peers interchangeable.                              *)
EXTENDS Transports, TLC

PeerSymmetry == Permutations(Peers)
=============================================================================
