--------------------------- MODULE MCServicePump ---------------------------
(* Small instances of ServicePump for TLC.                                   *)
EXTENDS ServicePump, TLC

CONSTANTS s1, s2

TwoServices == {s1, s2}
OneService == {s1}
AllMacros == {[decrease |-> TRUE, guard |-> TRUE, multi |-> FALSE],
              [decrease |-> FALSE, guard |-> TRUE, multi |-> TRUE],
              [decrease |-> FALSE, guard |-> FALSE, multi |-> FALSE]}
Decreasing == {[decrease |-> TRUE, guard |-> TRUE, multi |-> FALSE]}
=============================================================================
