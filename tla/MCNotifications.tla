-------------------------- MODULE MCNotifications --------------------------
(* Notifications for TLC: a shoutrrr channel before one over plain HTTP,   *)
(* which is broken in one way or another or not, or listens to one kind of *)
(* alert only.                                                             *)
EXTENDS Notifications

Good(provider) == [provider |-> provider, enabled |-> TRUE, notify_offline |-> TRUE,
                   notify_online |-> TRUE, parses |-> TRUE, readable |-> TRUE]
Second == LET g == Good("greenapi")
          IN {g, [g EXCEPT !.parses = FALSE], [g EXCEPT !.readable = FALSE],
              [g EXCEPT !.notify_online = FALSE]}
TwoChannels == {[c \in Channels |-> IF c = 1 THEN Good("shoutrrr")
                                    ELSE IF c = 2 THEN row ELSE None] : row \in Second}
               \union {[c \in Channels |-> IF c = 1 THEN row
                                           ELSE IF c = 2 THEN Good("whatsapp_web")
                                           ELSE None] : row \in Second}
SomeRows == {Good("greenapi"), [Good("shoutrrr") EXCEPT !.enabled = FALSE],
             [Good("whatsapp_web") EXCEPT !.notify_offline = FALSE, !.parses = FALSE],
             [Good("greenapi") EXCEPT !.readable = FALSE]}
=============================================================================
