---------------------------- MODULE MCNodePorts ----------------------------
\* Two requests or commands over three node ids.  Node 1 takes ports in
\* sequence, node 2 is an Argo or a WS node, on or off; a program of the host
\* has port 4.
EXTENDS NodePorts, TLC

CONSTANTS d1, d2

MCDomains == {d1, d2}
MCCloudflare == <<3, 2>>
Node(proto, port, on, d) == [proto |-> proto, port |-> port, on |-> on, domain |-> d, odd |-> FALSE]
Two(a, b) == [i \in Ids |-> IF i = 1 THEN a ELSE IF i = 2 THEN b ELSE None]
Ready(ws, argo) == [t \in Gated |-> IF t \in {ws, argo}
    THEN [on |-> TRUE, domain |-> d1, port |-> IF t = "argo" THEN 2 ELSE 0] ELSE Cleared]
MCStates ==
    {<<Two(Node("plain", 1, TRUE, None), Node("argo", 2, on, d1)), Ready("argo", "argo")>> : on \in BOOLEAN}
    \cup {<<Two(Node("plain", 3, FALSE, None), Node("ws", 2, on, d1)), Ready("ws", w)>> : on \in BOOLEAN, w \in {"ws", "argo"}}
MCInputs ==
    {Ask("verify", 0, "ws", 0, d2), Ask("clear", 0, "ws", 0, None), Ask("clear", 0, "argo", 0, None)}
    \cup {Ask("verify", 0, "argo", p, d) : p \in {2, 3}, d \in MCDomains}
    \cup {Ask("create", 0, "ws", 3, d1), Ask("create", 0, "argo", 2, d1), Ask("create", 0, "plain", 0, None)}
    \cup {Ask(op, 2, "plain", 3, d2) : op \in {"update_on", "update_off"}}
    \cup {Ask("update_off", 2, "plain", 1, d1), Ask("update_on", 1, "plain", 2, None)}
    \cup {Ask(op, 2, "plain", 0, None) : op \in {"enable", "disable", "delete", "clone"}}
    \cup {Ask("start", 0, "plain", p, None) : p \in {2, 3}}
    \cup {Ask("configure", 0, "argo", 3, d2), Ask("install", 0, "ws", 0, d2)}
Interchangeable == Permutations(Requests)
=============================================================================
