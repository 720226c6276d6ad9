------------------------ MODULE MCNotificationQueue -------------------------
(* Small instances of NotificationQueue for TLC. *)
EXTENDS NotificationQueue, TLC

Symmetry == Permutations(Workers) \cup Permutations(Ids)

WorkerSymmetry == Permutations(Workers)

=============================================================================
