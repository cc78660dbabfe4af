--------------------------- MODULE MCEngineApply ---------------------------
(* Instances of EngineApply: two configurations that differ only in what   *)
(* cannot be seen on the sockets, one that listens elsewhere, and one that *)
(* sing-box check refuses.                                                 *)
EXTENDS EngineApply

CONSTANTS c1, c2, c3, bad, p1, p2

MCConfigs == {c1, c2, c3, bad}
MCRefused == {bad}
MCSockets == {p1, p2}
MCListenersOf ==
    [c \in MCConfigs |-> CASE c \in {c1, c2} -> {p1}
                           [] c = c3         -> {p1, p2}
                           [] c = bad        -> {p2}]
=============================================================================
