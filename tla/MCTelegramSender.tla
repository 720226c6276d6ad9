-------------------------- MODULE MCTelegramSender --------------------------
(* Small instances of TelegramSender for TLC. *)
EXTENDS TelegramSender, TLC

CONSTANTS c1, c2, s1, s2, d1

Symmetry == Permutations(Senders) \cup Permutations(Chats)

=============================================================================
