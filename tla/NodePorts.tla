----------------------------- MODULE NodePorts -----------------------------
(***************************************************************************)
(* What a node may listen on, and what has to be verified before it may.   *)
(*                                                                         *)
(* VLESS-WS and Argo nodes need a prerequisite: a domain that was verified *)
(* from outside and is kept, with the Tunnel's origin port, in one setting *)
(* for both.  A request that enables a node takes the panel's settings     *)
(* lock, verifies the prerequisite again - which takes seconds, and binds  *)
(* the origin port - and then calls the node service.  Requests that leave *)
(* a node off take no lock; commands of the shell take none either and     *)
(* write the setting from another process.                                 *)
(*                                                                         *)
(* The node service has a mutex of its own.  It writes its rows, reconciles *)
(* and puts the rows back when that fails; others read them meanwhile.     *)
(*                                                                         *)
(* Simplifications:                                                        *)
(*  - a request is served once; a node that is created is on; every node   *)
(*    listens on TCP, an Argo node on loopback, others on all addresses;   *)
(*  - verification from outside succeeds or fails without a reason, unless *)
(*    the origin port cannot be bound; that port is tested, not held, for  *)
(*    as long as the verification takes;                                   *)
(*  - names, certificates and the simulated mode are left out, and so are  *)
(*    the settings an installation writes beside the prerequisites;        *)
(*  - a process that listens is a node that is on, or foreign;             *)
(*  - the residential copies of a node (CloneTemporary), which are on from  *)
(*    the start with the check of the node they copy, are left out: they   *)
(*    would count as odd, and ResidentialNodes is about them.              *)
(***************************************************************************)
EXTENDS Naturals, Sequences, FiniteSets

CONSTANTS
    Requests,   \* requests of the panel and commands of the shell
    MaxId,      \* bound on node ids
    MaxPort,    \* the largest port
    Cloudflare, \* sequence of the ports Cloudflare serves, by preference
    Foreign,    \* ports that other programs listen on
    Domains,    \* public domains
    None,       \* no row, no domain, no holder
    InitStates, \* pairs of a nodes table and a setting that a behaviour may start with
    Inputs      \* what may be asked for

Ids == 1..MaxId
Ports == 1..MaxPort
CloudflarePorts == {Cloudflare[k] : k \in 1..Len(Cloudflare)}
Gated == {"ws", "argo"}
Protocols == Gated \cup {"plain"}

\* odd (history): the node came on otherwise than by passing the check with
\* the domain and the port it has.
Rows == [proto : Protocols, port : Ports, on : BOOLEAN, domain : Domains \cup {None}, odd : BOOLEAN]
Entries == [on : BOOLEAN, domain : Domains \cup {None}, port : Ports \cup {0}]
Ops == {"verify", "clear", "create", "update_on", "update_off", "enable", "disable", "delete",
        "clone", "start", "configure", "install"}
Cleared == [on |-> FALSE, domain |-> None, port |-> 0]

ASSUME PortsAssumption ==
    /\ MaxId \in Nat \ {0} /\ MaxPort \in Nat \ {0}
    /\ Cloudflare \in Seq(Ports)
    /\ Foreign \subseteq Ports
    /\ None \notin Domains \cup Requests \cup Rows
    /\ InitStates \subseteq [Ids -> Rows \cup {None}] \X [Gated -> Entries]
    /\ \A a \in Inputs : /\ a.op \in Ops /\ a.id \in Ids \cup {0} /\ a.proto \in Protocols
                         /\ a.port \in Ports \cup {0} /\ a.domain \in Domains \cup {None}

VARIABLES
    nodes,    \* the nodes table
    start,    \* the start port
    pre,      \* the prerequisites setting: an entry for "ws", one for "argo"
    settings, \* holder of the panel's settings lock
    mu,       \* holder of the node service's mutex
    req,      \* what each request asks for
    at,       \* where it is
    seen,     \* the setting as it read it
    vet,      \* the node as it was when it was checked
    saved,    \* rows and start port that a failure puts back
    shell     \* a command has written the setting (history)

tables == <<nodes, start>>
vars == <<tables, pre, settings, mu, req, at, seen, vet, saved, shell>>

Used(t) == {i \in Ids : t[i] # None}
On(t) == {i \in Used(t) : t[i].on}
Fresh == {i \in Ids : (\A j \in Used(nodes) : j < i) /\ (i = 1 \/ i - 1 \in Used(nodes))}
InUse(proto) == \E i \in On(nodes) : nodes[i].proto = proto

\* A test bind of the port succeeds: no node that is on has it, nor a stranger.
Bindable(p) == p \notin Foreign /\ \A i \in On(nodes) : nodes[i].port # p

\* UNIQUE(listen, port).
Unique(t) ==
    \A i, j \in Used(t) :
        (i # j /\ (t[i].proto = "argo") = (t[j].proto = "argo")) => t[i].port # t[j].port

Fit(t) ==
    /\ \A i, j \in On(t) : i # j => t[i].port # t[j].port
    /\ \A i \in On(t) : t[i].port \notin Foreign
    /\ \A i \in Used(t) : t[i].proto = "ws" => t[i].port \in CloudflarePorts

\* Nodes that came on through the check.
Checked(t) == {i \in On(t) : t[i].proto \in Gated /\ ~t[i].odd}
Matches(t, e) ==
    \A i \in Checked(t) : t[i].domain # None /\ e[t[i].proto].domain = t[i].domain

\* A behaviour starts with nodes that passed the check and ports they could
\* bind; requests are well formed.
ASSUME StatesAssumption ==
    \A c \in InitStates : /\ Fit(c[1]) /\ Matches(c[1], c[2])
                          /\ \A g \in Gated : c[2][g].on => c[2][g].domain # None
ASSUME InputsAssumption ==
    \A a \in Inputs :
        /\ a.op \notin {"verify", "clear", "create", "start", "configure", "install"} => a.id \in Ids
        /\ a.op = "start" => a.port \in Ports
        /\ a.op \in {"verify", "clear"} => a.proto \in Gated
        /\ a.op = "verify" => a.domain \in Domains

----------------------------------------------------------------------------
(* Choosing ports.                                                         *)

\* nextProtocolPort: the first port in the protocol's order that is neither
\* used nor unavailable, 0 when there is none.
Offered(proto, s, used, free) ==
    IF proto = "ws" THEN {Cloudflare[k] : k \in {k \in 1..Len(Cloudflare) :
                            /\ Cloudflare[k] \notin used /\ Cloudflare[k] \in free
                            /\ \A l \in 1..(k - 1) : Cloudflare[l] \in used \/ Cloudflare[l] \notin free}}
    ELSE {p \in s..MaxPort : p \notin used /\ p \in free
                            /\ \A q \in s..(p - 1) : q \in used \/ q \notin free}
NextPort(proto, s, used, free) ==
    LET o == Offered(proto, s, used, free) IN IF o = {} THEN 0 ELSE CHOOSE p \in o : TRUE

\* nextAvailablePort, for a new node.
NewPort(proto) ==
    NextPort(proto, start, {nodes[i].port : i \in Used(nodes)}, {p \in Ports : Bindable(p)})

\* SetStartPort goes through the nodes by id.  Argo nodes keep their ports,
\* which are reserved before any other is given; a port that a node listens on
\* counts as available, for it is moved as well.
ReservedNone == {}
Reserved == {nodes[i].port : i \in {j \in Used(nodes) : nodes[j].proto = "argo"}}
ArgoClash == \E i, j \in Used(nodes) :
    i # j /\ nodes[i].proto = "argo" /\ nodes[j].proto = "argo" /\ nodes[i].port = nodes[j].port

\* A node's turn, after those with smaller ids.
Allot(s, i, before) ==
    LET port == IF nodes[i] = None THEN 0
                ELSE IF nodes[i].proto = "argo" THEN nodes[i].port
                ELSE NextPort(nodes[i].proto, s, before.used, Ports \ Foreign)
    IN [ports |-> [before.ports EXCEPT ![i] = port], used |-> before.used \cup {port}]
Allotments(s) ==
    LET turn[i \in 0..MaxId] ==
          IF i = 0 THEN [ports |-> [j \in Ids |-> 0], used |-> Reserved]
          ELSE Allot(s, i, turn[i - 1])
    IN turn
Allotted(s) == Allotments(s)[MaxId].ports

Allottable(s) == ~ArgoClash /\ \A i \in Used(nodes) : Allotted(s)[i] # 0
Moved(s) == [i \in Ids |-> IF nodes[i] = None THEN None ELSE [nodes[i] EXCEPT !.port = Allotted(s)[i]]]

----------------------------------------------------------------------------
(* Requests arrive.                                                        *)

\* op; id: the node; proto: its protocol, or whose prerequisite; port, domain.
Ask(op, i, proto, port, domain) ==
    [op |-> op, id |-> i, proto |-> proto, port |-> port, domain |-> domain]
Nothing == Ask("none", 0, "plain", 0, None)

PortsOf(proto) == IF proto = "ws" THEN CloudflarePorts ELSE Ports

\* What takes the settings lock.
Locking == {"verify", "clear", "create", "update_on", "enable"}

\* Clone reads the row before it asks for the mutex.
Arrive(r) ==
    /\ at[r] = "idle"
    /\ \E a \in Inputs :
        /\ req' = [req EXCEPT ![r] = a]
        /\ at' = [at EXCEPT ![r] = IF a.op \in Locking THEN "lock"
                                   ELSE IF a.op \in {"configure", "install"} THEN a.op ELSE "apply"]
        /\ vet' = [vet EXCEPT ![r] = IF a.op = "clone" THEN nodes[a.id] ELSE None]
    /\ UNCHANGED <<tables, pre, settings, mu, seen, saved, shell>>

Unlocked(r) == IF settings = r THEN None ELSE settings
Goto(r, step) ==
    /\ at' = [at EXCEPT ![r] = step]
    /\ settings' = IF step = "done" THEN Unlocked(r) ELSE settings
    /\ req' = IF step = "done" THEN [req EXCEPT ![r] = Nothing] ELSE req
    /\ seen' = IF step = "done" THEN [seen EXCEPT ![r] = None] ELSE seen
    /\ vet' = IF step = "done" THEN [vet EXCEPT ![r] = None] ELSE vet

----------------------------------------------------------------------------
(* The panel's handlers, with the settings lock.                           *)

\* setProtocolPrerequisites: refused when a node that is on depends on what
\* would change.
DependedOnClear(a, entry) == InUse(a.proto) /\ a.op = "clear"
Depended(a, entry) ==
    /\ InUse(a.proto)
    /\ a.op = "clear" \/ (entry.domain # None /\ entry.domain # a.domain)

\* The node that will be enabled, as the handler knows it before the check.
Candidate(a) ==
    IF a.op = "enable" THEN nodes[a.id]
    ELSE IF a.op = "update_on" THEN [nodes[a.id] EXCEPT !.port = a.port, !.domain = a.domain]
    ELSE [proto |-> a.proto, port |-> a.port, on |-> TRUE, domain |-> a.domain, odd |-> FALSE]

Lock(r) ==
    /\ at[r] = "lock" /\ settings = None
    /\ LET a == req[r]
           missing == a.op \in {"update_on", "enable"} /\ nodes[a.id] = None
           refused == a.op \in {"verify", "clear"} /\ Depended(a, pre[a.proto])
       IN /\ at' = [at EXCEPT ![r] = IF missing \/ refused THEN "done"
                                     ELSE IF Candidate(a).proto \in Gated THEN "check" ELSE "apply"]
          /\ settings' = IF missing \/ refused THEN None ELSE r
          /\ req' = IF missing \/ refused THEN [req EXCEPT ![r] = Nothing] ELSE req
          /\ seen' = [seen EXCEPT ![r] = IF missing \/ refused THEN None ELSE pre]
          /\ vet' = [vet EXCEPT ![r] = IF missing \/ refused \/ a.op \in {"verify", "clear"} THEN None
                                       ELSE Candidate(a)]
    /\ UNCHANGED <<tables, pre, mu, saved, shell>>

Verifiable(proto, port) == proto = "argo" => Bindable(port)

\* The setting is written as it was read, but for the one entry.
WriteEntry(r, proto, entry) == pre' = [seen[r] EXCEPT ![proto] = entry]

SetPrerequisite(r) ==
    /\ at[r] = "check" /\ req[r].op \in {"verify", "clear"}
    /\ LET a == req[r] IN
        \/ a.op = "clear" /\ WriteEntry(r, a.proto, Cleared)
        \/ /\ a.op = "verify" /\ Verifiable(a.proto, a.port)
           /\ WriteEntry(r, a.proto, [on |-> TRUE, domain |-> a.domain, port |-> a.port])
        \/ UNCHANGED pre
    /\ Goto(r, "done")
    /\ UNCHANGED <<tables, mu, saved, shell>>

\* checkProtocolPrerequisite: a verification that fails turns the entry off.
CheckPrerequisite(r) ==
    /\ at[r] = "check" /\ req[r].op \notin {"verify", "clear"}
    /\ LET v == vet[r]
           entry == seen[r][v.proto]
           ready == entry.on /\ entry.domain = v.domain
                    /\ (v.proto = "ws" => v.port \in CloudflarePorts)
       IN \/ ~ready /\ Goto(r, "done") /\ UNCHANGED pre
          \/ /\ ready /\ Verifiable(v.proto, entry.port)
             /\ Goto(r, IF v.proto = "argo" /\ entry.port # v.port THEN "done" ELSE "apply")
             /\ UNCHANGED pre
          \/ /\ ready
             /\ UNCHANGED pre \/ WriteEntry(r, v.proto, [entry EXCEPT !.on = FALSE, !.port = 0])
             /\ Goto(r, "done")
    /\ UNCHANGED <<tables, mu, saved, shell>>

----------------------------------------------------------------------------
(* The node service.                                                       *)

\* The rows are written, and the mutex is kept until they are in force.
Write(r, t, s) ==
    /\ Unique(t)
    /\ nodes' = t
    /\ start' = s
    /\ mu' = r
    /\ saved' = [saved EXCEPT ![r] = <<nodes, start>>]
    /\ at' = [at EXCEPT ![r] = "busy"]
    /\ UNCHANGED <<pre, settings, req, seen, vet, shell>>

Refuse(r) == Goto(r, "done") /\ UNCHANGED <<tables, pre, mu, saved, shell>>

\* A WS node whose port cannot be had gets another one, others are refused.
CreateAt(a) == IF a.port = 0 \/ (a.proto = "ws" /\ ~Bindable(a.port)) THEN NewPort(a.proto) ELSE a.port

\* Create, of a row with the given port; 0 stands for no port.
Insert(r, row, port) ==
    LET t(i) == [nodes EXCEPT ![i] = [row EXCEPT !.port = port]]
    IN \/ port # 0 /\ Bindable(port) /\ \E i \in Fresh : Write(r, t(i), start)
       \/ (port = 0 \/ ~Bindable(port) \/ \A i \in Fresh : ~Unique(t(i))) /\ Refuse(r)

Create(r) == req[r].op = "create" /\ Insert(r, Candidate(req[r]), CreateAt(req[r]))

Clone(r) ==
    /\ req[r].op = "clone"
    /\ \/ vet[r] = None /\ Refuse(r)
       \/ /\ vet[r] # None
          /\ Insert(r, [vet[r] EXCEPT !.on = FALSE, !.odd = FALSE], NewPort(vet[r].proto))

ChangeUntested(r, i, row) ==
    LET t == [nodes EXCEPT ![i] = row]
    IN \/ (row.port # nodes[i].port => Bindable(row.port)) /\ Write(r, t, start)
       \/ ((row.port # nodes[i].port /\ ~Bindable(row.port)) \/ ~Unique(t)) /\ Refuse(r)
\* updateLocked: a new port, or a node that comes on, has to pass a test bind.
Change(r, i, row) ==
    LET tested == row.port # nodes[i].port \/ (row.on /\ ~nodes[i].on)
        t == [nodes EXCEPT ![i] = row]
    IN \/ (tested => Bindable(row.port)) /\ Write(r, t, start)
       \/ ((tested /\ ~Bindable(row.port)) \/ ~Unique(t)) /\ Refuse(r)

\* SetEnabled takes the row as it is now, whatever the check was about.
Enabled(r, row) ==
    [row EXCEPT !.on = TRUE, !.odd = row.proto \in Gated
        /\ <<row.proto, row.domain, row.port>> # <<vet[r].proto, vet[r].domain, vet[r].port>>]

Updated(r, row) ==
    LET a == req[r]
    IN [row EXCEPT !.port = a.port, !.domain = IF row.proto \in Gated THEN a.domain ELSE None,
                   !.on = a.op = "update_on",
                   !.odd = a.op = "update_on" /\ row.proto # vet[r].proto]

Update(r) ==
    LET a == req[r]
        row == nodes[a.id]
    IN /\ a.op \in {"update_on", "update_off", "enable", "disable"}
       /\ \/ row = None /\ Refuse(r)
          \/ /\ row # None
             /\ \/ /\ a.op \in {"update_on", "update_off"}
                   /\ IF a.port \in PortsOf(row.proto) /\ (row.proto \in Gated => a.domain # None)
                      THEN Change(r, a.id, Updated(r, row)) ELSE Refuse(r)
                \/ a.op = "enable" /\ Change(r, a.id, Enabled(r, row))
                \/ a.op = "disable" /\ Change(r, a.id, [row EXCEPT !.on = FALSE])

Delete(r) ==
    /\ req[r].op = "delete"
    /\ \/ nodes[req[r].id] = None /\ Refuse(r)
       \/ nodes[req[r].id] # None /\ Write(r, [nodes EXCEPT ![req[r].id] = None], start)

SetStartPort(r) ==
    /\ req[r].op = "start"
    /\ \/ Allottable(req[r].port) /\ Write(r, Moved(req[r].port), req[r].port)
       \/ ~Allottable(req[r].port) /\ Refuse(r)

Apply(r) ==
    /\ at[r] = "apply" /\ mu = None
    /\ Create(r) \/ Clone(r) \/ Update(r) \/ Delete(r) \/ SetStartPort(r)

\* reconcile; when it fails, the rows are put back, or not even that.
PutBack(old) == [i \in Ids |-> IF old[i] # None /\ old[i].on /\ (nodes[i] = None \/ ~nodes[i].on)
                               THEN [old[i] EXCEPT !.odd = TRUE] ELSE old[i]]

Reconcile(r) ==
    /\ at[r] = "busy"
    /\ \/ UNCHANGED tables
       \/ nodes' = PutBack(saved[r][1]) /\ start' = saved[r][2]
    /\ mu' = None
    /\ saved' = [saved EXCEPT ![r] = None]
    /\ Goto(r, "done")
    /\ UNCHANGED <<pre, shell>>

----------------------------------------------------------------------------
(* Commands of the shell: no lock of the panel.                            *)

\* configure-argo verifies first, then reads, looks for nodes, and writes.
Configure(r) ==
    /\ at[r] = "configure"
    /\ \/ Verifiable("argo", req[r].port) /\ Goto(r, "read")
       \/ Goto(r, "done")
    /\ UNCHANGED <<tables, pre, mu, saved, shell>>

ReadArgo(r) ==
    /\ at[r] = "read"
    /\ LET a == req[r]
           changes == pre["argo"].on /\ (pre["argo"].domain # a.domain \/ pre["argo"].port # a.port)
       IN IF changes /\ InUse("argo") THEN Goto(r, "done")
          ELSE /\ seen' = [seen EXCEPT ![r] = pre]
               /\ at' = [at EXCEPT ![r] = "write"]
               /\ UNCHANGED <<settings, req, vet>>
    /\ UNCHANGED <<tables, pre, mu, saved, shell>>

WriteArgo(r) ==
    /\ at[r] = "write"
    /\ WriteEntry(r, "argo", [on |-> TRUE, domain |-> req[r].domain, port |-> req[r].port])
    /\ shell' = TRUE
    /\ Goto(r, "done")
    /\ UNCHANGED <<tables, mu, saved>>

\* configure-install reads the setting, verifies, and writes: the WS entry is
\* left, cleared or given the management host, the Argo entry left or verified.
\* When a step fails, it puts back what it read, or cannot write at all; and
\* without a host of either kind it leaves the setting alone.
ReadInstall(r) ==
    /\ at[r] = "install"
    /\ seen' = [seen EXCEPT ![r] = pre]
    /\ at' = [at EXCEPT ![r] = "installing"]
    /\ UNCHANGED <<tables, pre, settings, mu, req, vet, saved, shell>>

Install(r) ==
    /\ at[r] = "installing"
    /\ LET d == req[r].domain
           ws == {seen[r]["ws"], Cleared, [on |-> TRUE, domain |-> d, port |-> 0]}
           argo == {[on |-> TRUE, domain |-> d, port |-> p] : p \in {q \in Ports : Verifiable("argo", q)}}
       IN \/ /\ \E w \in ws, a \in argo \cup {seen[r]["argo"]} :
                   pre' = [t \in Gated |-> IF t = "ws" THEN w ELSE a]
             /\ shell' = TRUE
          \/ UNCHANGED <<pre, shell>>
    /\ Goto(r, "done")
    /\ UNCHANGED <<tables, mu, saved>>

----------------------------------------------------------------------------

Init ==
    /\ \E c \in InitStates : nodes = c[1] /\ pre = c[2]
    /\ start = 1
    /\ settings = None /\ mu = None
    /\ req = [r \in Requests |-> Nothing]
    /\ at = [r \in Requests |-> "idle"]
    /\ seen = [r \in Requests |-> None]
    /\ vet = [r \in Requests |-> None]
    /\ saved = [r \in Requests |-> None]
    /\ shell = FALSE

Panel(r) == Lock(r) \/ SetPrerequisite(r) \/ CheckPrerequisite(r) \/ Apply(r) \/ Reconcile(r)
Shell(r) == Configure(r) \/ ReadArgo(r) \/ WriteArgo(r) \/ ReadInstall(r) \/ Install(r)
\* All have been served; any other state without a step is a deadlock.
Served == (\A r \in Requests : at[r] = "done") /\ UNCHANGED vars
Next == Served \/ \E r \in Requests : Arrive(r) \/ Panel(r) \/ Shell(r)
Spec == Init /\ [][Next]_vars

----------------------------------------------------------------------------

Steps == {"idle", "lock", "check", "apply", "busy", "configure", "read", "write", "install",
          "installing", "done"}

\* The shape of the state, on which the properties below rely.
TypeOK ==
    /\ nodes \in [Ids -> Rows \cup {None}]
    /\ start \in Ports
    /\ pre \in [Gated -> Entries]
    /\ settings \in Requests \cup {None} /\ mu \in Requests \cup {None}
    /\ at \in [Requests -> Steps]
    /\ \A r \in Requests :
        /\ vet[r] = None \/ vet[r].port = 0 \/ vet[r] \in Rows
        /\ seen[r] = None \/ seen[r] \in [Gated -> Entries]
        /\ saved[r] = None <=> mu # r
    /\ shell \in BOOLEAN

\* As long as only the panel writes the setting, a WS or Argo node that is on
\* has the domain that is stored as verified - though a verification takes
\* seconds, during which other requests run.  (A node that a failed request
\* turned on again, or that was changed between its check and its enabling, is
\* odd and is left out.)
EnabledMatches == ~shell => Matches(nodes, pre)

\* Two nodes that are on never have the same port, nor one of a stranger, and
\* WS nodes have ports that Cloudflare serves - whatever was moved by a new
\* start port, created, enabled or put back.
PortsFit == Fit(nodes)

\* What SetStartPort hands out, for the nodes there are and any start port:
\* Argo nodes keep their ports, no two nodes get the same one, and no ordinary
\* node gets one past a port that is free.
StartPortPacks ==
    \A s \in Ports : Allottable(s) =>
        LET a == Allotted(s) IN
        /\ \A i \in Used(nodes) : nodes[i].proto = "argo" => a[i] = nodes[i].port
        /\ \A i, j \in Used(nodes) : i # j => a[i] # a[j]
        /\ \A i \in Used(nodes) : nodes[i].proto = "plain" =>
            \A q \in s..(a[i] - 1) : q \in Foreign \/ \E j \in Used(nodes) : a[j] = q
=============================================================================
