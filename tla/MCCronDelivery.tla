--------------------------- MODULE MCCronDelivery ---------------------------
(* Instances of CronDelivery: a chat with one thread, and another chat.    *)
EXTENDS CronDelivery, TLC

CONSTANTS channel, thread, elsewhere

Channel   == [r \in Routes |-> IF r = thread THEN channel ELSE r]
Jobs      == {{channel, thread}, {elsewhere}}
=============================================================================
