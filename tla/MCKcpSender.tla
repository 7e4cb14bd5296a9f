----------------------------- MODULE MCKcpSender -----------------------------
(* Instances of KcpSender for TLC. *)
EXTENDS KcpSender

\* Never more than this under way: the peer's network.
CONSTANT MaxNet

Driving(preset, driver, flushing, steps, start, windows, writes, lasts) ==
    [kcp |-> Applied(preset), driver |-> driver, flushing |-> flushing, steps |-> steps,
     start |-> start, windows |-> windows, writes |-> writes, lasts |-> lasts]

\* Clocks that wrap after 30 and after 150 ms are among them, and a pause that
\* is longer than SlapLimit.
MCUses ==
    { Driving(Default, "recv", FALSE, {50, 100}, 0, {128}, 2, 600),
      Driving(Fast, "recv", TRUE, {10}, 0, {128}, 2, 60),
      Driving(Fast, "recv", FALSE, {10}, Clock - 30, {128}, 3, 50),
      Driving([Fast EXCEPT !.resend = 1], "recv", FALSE, {10}, Clock - 30, {128}, 3, 50),
      Driving(Normal, "check", FALSE, {20}, Clock - 150, {128}, 2, 300),
      Driving(Default, "recv", FALSE, {100}, Clock - 150, {0, 128}, 1, 1500),
      Driving(Default, "idle", FALSE, {5500}, 0, {128}, 2, 22000) }

StaleUses == { Driving(Default, "idle", TRUE, {50, 300}, 0, {128}, 2, 600) }

CheckUses == { Driving(Default, "check", FALSE, {20}, 0, {128}, 1, 600) }

NetBound == Cardinality(net) <= MaxNet
=============================================================================
