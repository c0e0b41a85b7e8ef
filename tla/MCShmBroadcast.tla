--------------------------- MODULE MCShmBroadcast ---------------------------
(* ShmBroadcast on small instances; readers of one kind are interchangeable. *)
EXTENDS ShmBroadcast, TLC

ReaderSymmetry == Permutations(LocalReaders) \cup Permutations(RemoteReaders)
=============================================================================
