----------------------- MODULE MCNotificationPipeline -----------------------
(* Small instances of NotificationPipeline for TLC. *)
EXTENDS NotificationPipeline, TLC

MCWindow == [t \in Triggers |-> IF t = "serial_reached" THEN 0 ELSE DayTicks]

TelegramEffective == [u \in Users |-> "telegram"]

BothEffective == [u \in Users |-> "both"]

Symmetry == Permutations(Ids) \cup Permutations(Workers) \cup Permutations(Producers)

=============================================================================
