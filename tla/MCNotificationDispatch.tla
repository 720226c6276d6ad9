----------------------- MODULE MCNotificationDispatch -----------------------
(* Small instances of NotificationDispatch for TLC. *)
EXTENDS NotificationDispatch, TLC

\* Two ticks to a day: "hearing_date_changed" has the 24 h window,
\* "display_board_active" one that is shorter, "serial_reached" none.
MCWindow == [t \in Triggers |->
               CASE t = "serial_reached" -> 0
                 [] t = "display_board_active" -> 1
                 [] OTHER -> DayTicks]

BothEffective == [u \in Users |-> "both"]

TelegramEffective == [u \in Users |-> "telegram"]

WhatsAppEffective == [u \in Users |-> "whatsapp"]

Symmetry == Permutations(Producers) \cup Permutations(Ids)

=============================================================================
