-------------------------- MODULE NodePortsProofs --------------------------
(***************************************************************************)
(* For any number of requests, nodes and ports: what SetStartPort hands    *)
(* out, that nodes which are on have ports of their own, and that they     *)
(* have the domain that was verified for their protocol.                   *)
(***************************************************************************)
EXTENDS NodePorts, WellFoundedInduction, TLAPS

----------------------------------------------------------------------------
(* The inductive invariant.                                                *)

Tables == [Ids -> Rows \cup {None}]
Settings == [Gated -> Entries]
\* A row that is asked for may still be without a port.
Drafts == [proto : Protocols, port : Ports \cup {0}, on : BOOLEAN,
           domain : Domains \cup {None}, odd : BOOLEAN]

Typed ==
    /\ nodes \in Tables /\ start \in Ports /\ pre \in Settings
    /\ settings \in Requests \cup {None} /\ mu \in Requests \cup {None} /\ shell \in BOOLEAN
    /\ req \in [Requests -> Inputs \cup {Nothing}] /\ at \in [Requests -> Steps]
    /\ seen \in [Requests -> Settings \cup {None}] /\ vet \in [Requests -> Drafts \cup {None}]
    /\ saved \in [Requests -> (Tables \X Ports) \cup {None}]

Setting == {"verify", "clear"}
\* What a request that has arrived carries along, and which locks it holds.
Carries(r) ==
    /\ at[r] \notin {"idle", "done"} => req[r] \in Inputs
    /\ at[r] \in {"lock", "check"} => req[r].op \in Locking
    /\ at[r] = "check" => seen[r] \in Settings
    /\ at[r] \in {"check", "apply", "busy"} /\ req[r].op \in Locking => settings = r
    /\ at[r] = "check" /\ req[r].op \notin Setting => vet[r] \in Drafts /\ vet[r].proto \in Gated
    /\ at[r] \in {"check", "apply"} /\ req[r].op \in Locking \ Setting => vet[r] \in Drafts
    /\ at[r] \in {"check", "apply"} /\ req[r].op = "create" =>
        vet[r].proto = req[r].proto /\ vet[r].port = req[r].port /\ vet[r].domain = req[r].domain
    /\ at[r] \in {"check", "apply"} /\ req[r].op = "update_on" => vet[r].domain = req[r].domain
    /\ at[r] = "apply" => req[r].op \notin Setting
    /\ at[r] = "apply" /\ req[r].op = "create" /\ req[r].proto = "ws" => req[r].port \in CloudflarePorts
    /\ at[r] = "apply" /\ req[r].op = "clone" => vet[r] \in Rows \cup {None}
    /\ at[r] \in {"write", "installing"} => seen[r] \in Settings
    /\ at[r] = "busy" => mu = r /\ saved[r] \in Tables \X Ports /\ Fit(saved[r][1])

\* No node comes on, and one that stays on stays the same.
Kept(old, t) ==
    /\ Checked(t) = Checked(old) \cap On(t)
    /\ \A i \in Checked(t) : t[i].proto = old[i].proto /\ t[i].domain = old[i].domain
MatchesBoth(old, t, e) ==
    \A i \in Checked(old) \cap On(t) : old[i].domain # None /\ e[old[i].proto].domain = old[i].domain

\* What a request relies on while only the panel writes the setting.
Relies(r) ==
    /\ at[r] = "check" => seen[r] = pre
    /\ at[r] = "check" /\ req[r].op \in Setting =>
        \A i \in Checked(nodes) :
            nodes[i].proto = req[r].proto => req[r].op = "verify" /\ nodes[i].domain = req[r].domain
    /\ at[r] = "apply" /\ req[r].op \in Locking /\ vet[r].proto \in Gated =>
        vet[r].domain # None /\ pre[vet[r].proto].domain = vet[r].domain
    /\ at[r] = "busy" =>
        /\ MatchesBoth(saved[r][1], nodes, pre)
        /\ req[r].op \notin Locking => Kept(saved[r][1], nodes)

PortsInv ==
    /\ Typed
    /\ \A r \in Requests : Carries(r)
    /\ Fit(nodes)

DomainsInv ==
    ~shell => /\ Matches(nodes, pre)
              /\ \A g \in Gated : pre[g].on => pre[g].domain # None
              /\ \A r \in Requests : Relies(r)

----------------------------------------------------------------------------
(* What SetStartPort hands out.  The function of Allotments is reached by   *)
(* the least natural number for which something would not hold.            *)

LEMMA Least ==
    ASSUME NEW T \in SUBSET Nat, T # {}
    PROVE  \E m \in T : \A k \in T : m <= k
<1> DEFINE R == {p \in Nat \X Nat : p[1] < p[2]}
<1>1. IsWellFoundedOn(R, Nat)
  BY NatLessThanWellFounded DEF OpToRel
<1> HIDE DEF R
<1>2. PICK m \in T : \A k \in T : ~(<<k, m>> \in R)
  BY <1>1, WFMin
<1>3. \A k \in T : ~(k < m)
  BY <1>2 DEF R
<1> QED
  BY <1>3

First == [ports |-> [j \in Ids |-> 0], used |-> Reserved]
Turns(s, n, g) == g = [i \in 0..n |-> IF i = 0 THEN First ELSE Allot(s, i, g[i - 1])]

LEMMA TurnsChosen ==
    ASSUME NEW s, \E g : Turns(s, MaxId, g)
    PROVE  Turns(s, MaxId, Allotments(s))
BY DEF Turns, Allotments, First

LEMMA TurnsExist ==
    ASSUME NEW s
    PROVE  \A n \in Nat : \E g : Turns(s, n, g)
<1> DEFINE Bad == {n \in Nat : ~\E g : Turns(s, n, g)}
<1>1. SUFFICES Bad = {}
  OBVIOUS
<1>2. SUFFICES ASSUME Bad # {} PROVE FALSE
  OBVIOUS
<1>3. PICK m \in Bad : \A k \in Bad : m <= k
  <2>1. Bad \in SUBSET Nat
    OBVIOUS
  <2> HIDE DEF Bad
  <2> QED
    BY <1>2, <2>1, Least
<1>4. m # 0
  <2>1. Turns(s, 0, [i \in 0..0 |-> First])
    BY DEF Turns
  <2> QED
    BY <2>1
<1>5. m - 1 \in Nat /\ m - 1 \notin Bad
  BY <1>3, <1>4
<1>6. PICK g : Turns(s, m - 1, g)
  BY <1>5
<1> DEFINE h == [i \in 0..m |-> IF i = m THEN Allot(s, m, g[m - 1]) ELSE g[i]]
<1>7. Turns(s, m, h)
  <2>1. \A i \in 0..(m - 1) : h[i] = g[i]
    BY <1>5
  <2>2. ASSUME NEW i \in 0..m
        PROVE  h[i] = IF i = 0 THEN First ELSE Allot(s, i, h[i - 1])
    <3>1. CASE i = m
      BY <3>1, <1>4, <1>5, <2>1
    <3>2. CASE i # m
      <4>1. g[i] = IF i = 0 THEN First ELSE Allot(s, i, g[i - 1])
        BY <3>2, <1>6, <1>5 DEF Turns
      <4> QED
        BY <3>2, <4>1, <2>1, <1>5
    <3> QED
      BY <3>1, <3>2
  <2> QED
    BY <2>2 DEF Turns
<1> QED
  BY <1>3, <1>7

\* What nextProtocolPort returns.
LEMMA NextPortIs ==
    ASSUME NEW proto \in Protocols, NEW s \in Ports, NEW used, NEW free \in SUBSET Ports,
           NEW p, p = NextPort(proto, s, used, free)
    PROVE  /\ p \in Ports \cup {0}
           /\ p # 0 => /\ p \notin used /\ p \in free
                       /\ proto = "ws" => p \in CloudflarePorts
                       /\ proto # "ws" => p \in s..MaxPort /\ \A q \in s..(p - 1) : q \in used \/ q \notin free
<1>1. p = 0 \/ p \in Offered(proto, s, used, free)
  BY DEF NextPort
<1>2. CASE p \in Offered(proto, s, used, free) /\ proto = "ws"
  BY <1>2 DEF Offered, CloudflarePorts
<1>3. CASE p \in Offered(proto, s, used, free) /\ proto # "ws"
  BY <1>3 DEF Offered
<1> QED
  BY <1>1, <1>2, <1>3

\* Where the nodes up to n are put.
Placed(s, a, i) ==
    IF nodes[i] = None THEN a[i] = 0
    ELSE IF nodes[i].proto = "argo" THEN a[i] = nodes[i].port
    ELSE a[i] # 0 => /\ a[i] \notin Reserved \cup Foreign
                     /\ \A k \in 1..(i - 1) : a[k] # a[i]
                     /\ nodes[i].proto = "ws" => a[i] \in CloudflarePorts
                     /\ nodes[i].proto = "plain" => \A q \in s..(a[i] - 1) :
                            q \in Foreign \cup Reserved \/ \E k \in 1..(i - 1) : a[k] = q

Dealt(s, n, b) ==
    /\ b.ports \in [Ids -> Ports \cup {0}]
    /\ b.used = Reserved \cup {b.ports[k] : k \in 1..n}
    /\ \A i \in 1..n : Placed(s, b.ports, i)

LEMMA DealtNext ==
    ASSUME nodes \in Tables, NEW s \in Ports, NEW i \in Ids, NEW b, Dealt(s, i - 1, b)
    PROVE  Dealt(s, i, Allot(s, i, b))
<1> DEFINE port == IF nodes[i] = None THEN 0
                   ELSE IF nodes[i].proto = "argo" THEN nodes[i].port
                   ELSE NextPort(nodes[i].proto, s, b.used, Ports \ Foreign)
           c == Allot(s, i, b)
<1>1. c.ports = [b.ports EXCEPT ![i] = port] /\ c.used = b.used \cup {port}
  BY DEF Allot
<1>2. nodes[i] # None => nodes[i] \in Rows
  BY DEF Tables
<1>3. port \in Ports \cup {0}
  <2>1. CASE nodes[i] # None /\ nodes[i].proto # "argo"
    BY <1>2, <2>1, NextPortIs DEF Rows
  <2> QED
    BY <1>2, <2>1 DEF Rows
<1>4. nodes[i] # None /\ nodes[i].proto # "argo" /\ port # 0 =>
        /\ port \notin b.used /\ port \notin Foreign
        /\ nodes[i].proto = "ws" => port \in CloudflarePorts
        /\ nodes[i].proto # "ws" => \A q \in s..(port - 1) : q \in b.used \/ q \notin Ports \ Foreign
  <2> SUFFICES ASSUME nodes[i] # None, nodes[i].proto # "argo", port # 0
               PROVE  /\ port \notin b.used /\ port \notin Foreign
                      /\ nodes[i].proto = "ws" => port \in CloudflarePorts
                      /\ nodes[i].proto # "ws" =>
                            \A q \in s..(port - 1) : q \in b.used \/ q \notin Ports \ Foreign
    OBVIOUS
  <2>1. port = NextPort(nodes[i].proto, s, b.used, Ports \ Foreign) /\ nodes[i].proto \in Protocols
    BY <1>2 DEF Rows
  <2> HIDE DEF port
  <2>2. Ports \ Foreign \in SUBSET Ports
    OBVIOUS
  <2> QED
    BY <2>1, <2>2, NextPortIs
<1> HIDE DEF port, c
<1>5. /\ c.ports \in [Ids -> Ports \cup {0}] /\ c.ports[i] = port
      /\ \A k \in 1..(i - 1) : k \in Ids /\ c.ports[k] = b.ports[k]
  <2>1. b.ports \in [Ids -> Ports \cup {0}]
    BY DEF Dealt
  <2>2. \A k \in 1..(i - 1) : k \in Ids /\ k # i
    BY PortsAssumption DEF Ids
  <2> QED
    BY <1>1, <1>3, <2>1, <2>2
<1>6. c.used = Reserved \cup {c.ports[k] : k \in 1..i}
  <2>1. b.used = Reserved \cup {b.ports[k] : k \in 1..(i - 1)}
    BY DEF Dealt
  <2>2. {c.ports[k] : k \in 1..i} = {b.ports[k] : k \in 1..(i - 1)} \cup {port}
    BY <1>5 DEF Ids
  <2> QED
    BY <1>1, <2>1, <2>2
<1>7. ASSUME NEW k \in 1..(i - 1) PROVE Placed(s, c.ports, k)
  <2>1. Placed(s, b.ports, k) /\ \A l \in 1..k : c.ports[l] = b.ports[l]
    BY <1>5 DEF Dealt, Ids
  <2> QED
    BY <2>1 DEF Placed, Ids
<1>8. Placed(s, c.ports, i)
  <2>1. CASE nodes[i] = None \/ nodes[i].proto = "argo"
    BY <1>5, <2>1 DEF Placed, port
  <2>2. CASE nodes[i] # None /\ nodes[i].proto # "argo" /\ port # 0
    <3>1. port \notin Reserved \cup Foreign
      BY <1>4, <2>2 DEF Dealt
    <3>2. \A k \in 1..(i - 1) : c.ports[k] # port
      BY <1>4, <1>5, <2>2 DEF Dealt
    <3>3. ASSUME nodes[i].proto = "plain", NEW q \in s..(port - 1)
          PROVE  q \in Foreign \cup Reserved \/ \E k \in 1..(i - 1) : c.ports[k] = q
      <4>1. q \in Ports
        BY <1>3, <2>2, PortsAssumption DEF Ports
      <4>2. q \in b.used \/ q \in Foreign
        BY <1>4, <2>2, <3>3, <4>1
      <4> QED
        BY <1>5, <4>2 DEF Dealt
    <3> QED
      BY <1>4, <1>5, <2>2, <3>1, <3>2, <3>3 DEF Placed
  <2>3. CASE nodes[i] # None /\ nodes[i].proto # "argo" /\ port = 0
    BY <1>5, <2>3 DEF Placed
  <2> QED
    BY <2>1, <2>2, <2>3
<1>9. \A k \in 1..i : Placed(s, c.ports, k)
  BY <1>7, <1>8 DEF Ids
<1> QED
  BY <1>5, <1>6, <1>9 DEF Dealt, c

LEMMA AllDealt ==
    ASSUME nodes \in Tables, NEW s \in Ports
    PROVE  Dealt(s, MaxId, Allotments(s)[MaxId])
<1> DEFINE f == Allotments(s)
           Bad == {n \in 0..MaxId : ~Dealt(s, n, f[n])}
<1>1. f = [i \in 0..MaxId |-> IF i = 0 THEN First ELSE Allot(s, i, f[i - 1])]
  <2>1. \E g : Turns(s, MaxId, g)
    BY TurnsExist, PortsAssumption
  <2> QED
    BY <2>1, TurnsChosen DEF Turns
<1> HIDE DEF f
<1>2. SUFFICES ASSUME Bad # {} PROVE FALSE
  BY PortsAssumption DEF f
<1>3. PICK m \in Bad : \A k \in Bad : m <= k
  <2>1. Bad \in SUBSET Nat
    BY PortsAssumption
  <2> HIDE DEF Bad
  <2> QED
    BY <1>2, <2>1, Least
<1>4. m \in 0..MaxId /\ ~Dealt(s, m, f[m])
  OBVIOUS
<1>5. m # 0
  <2>1. f[0] = First
    BY <1>1, PortsAssumption
  <2>2. Dealt(s, 0, First)
    BY DEF Dealt, First
  <2> QED
    BY <1>4, <2>1, <2>2
<1>6. m \in Ids /\ m - 1 \in 0..MaxId /\ f[m] = Allot(s, m, f[m - 1])
  BY <1>1, <1>4, <1>5, PortsAssumption DEF Ids
<1>7. Dealt(s, m - 1, f[m - 1])
  BY <1>3, <1>6, PortsAssumption DEF Ids
<1> QED
  BY <1>4, <1>6, <1>7, DealtNext

LEMMA AllottedPlaces ==
    ASSUME nodes \in Tables, NEW s \in Ports
    PROVE  /\ Allotted(s) \in [Ids -> Ports \cup {0}]
           /\ \A i \in Ids : Placed(s, Allotted(s), i)
BY AllDealt DEF Dealt, Allotted, Ids

\* No two nodes get the same port.
LEMMA AllottedApart ==
    ASSUME nodes \in Tables, NEW s \in Ports, Allottable(s),
           NEW i \in Used(nodes), NEW j \in Used(nodes), i # j
    PROVE  Allotted(s)[i] # Allotted(s)[j]
<1> DEFINE a == Allotted(s)
<1> SUFFICES a[i] # a[j]
  OBVIOUS
<1>1. /\ i \in Ids /\ j \in Ids /\ nodes[i] # None /\ nodes[j] # None
      /\ a[i] # 0 /\ a[j] # 0 /\ ~ArgoClash
  BY DEF Used, Allottable
<1>2. \A k \in Ids : Placed(s, a, k)
  BY AllottedPlaces
<1> HIDE DEF a
<1>3. CASE nodes[i].proto = "argo" /\ nodes[j].proto = "argo"
  BY <1>1, <1>2, <1>3 DEF Placed, ArgoClash
<1>4. ASSUME NEW k \in Used(nodes), NEW l \in Used(nodes), k \in Ids, l \in Ids,
             nodes[k].proto = "argo", nodes[l].proto # "argo", a[l] # 0
      PROVE  a[k] # a[l]
  <2>1. a[k] = nodes[k].port /\ a[k] \in Reserved
    BY <1>2, <1>4 DEF Placed, Reserved, Used
  <2>2. a[l] \notin Reserved
    BY <1>2, <1>4 DEF Placed, Used
  <2> QED
    BY <2>1, <2>2
<1>5. CASE nodes[i].proto # "argo" /\ nodes[j].proto # "argo"
  <2>1. i \in 1..(j - 1) \/ j \in 1..(i - 1)
    BY <1>1, PortsAssumption DEF Ids
  <2> QED
    BY <1>1, <1>2, <1>5, <2>1 DEF Placed
<1> QED
  BY <1>1, <1>3, <1>4, <1>5

LEMMA Packs == nodes \in Tables => StartPortPacks
<1> SUFFICES ASSUME nodes \in Tables, NEW s \in Ports, Allottable(s)
             PROVE  LET a == Allotted(s) IN
                    /\ \A i \in Used(nodes) : nodes[i].proto = "argo" => a[i] = nodes[i].port
                    /\ \A i, j \in Used(nodes) : i # j => a[i] # a[j]
                    /\ \A i \in Used(nodes) : nodes[i].proto = "plain" =>
                        \A q \in s..(a[i] - 1) : q \in Foreign \/ \E j \in Used(nodes) : a[j] = q
  BY DEF StartPortPacks
<1> DEFINE a == Allotted(s)
<1>1. \A k \in Ids : Placed(s, a, k)
  BY AllottedPlaces
<1>2. \A k \in Used(nodes) : k \in Ids /\ nodes[k] # None /\ a[k] # 0
  BY DEF Used, Allottable
<1>3. \A i, j \in Used(nodes) : i # j => a[i] # a[j]
  BY AllottedApart
<1> HIDE DEF a
<1>4. \A i \in Used(nodes) : nodes[i].proto = "argo" => a[i] = nodes[i].port
  BY <1>1, <1>2 DEF Placed
<1>5. ASSUME NEW i \in Used(nodes), nodes[i].proto = "plain", NEW q \in s..(a[i] - 1)
      PROVE  q \in Foreign \/ \E j \in Used(nodes) : a[j] = q
  <2>1. q \in Foreign \cup Reserved \/ \E k \in 1..(i - 1) : a[k] = q
    BY <1>1, <1>2, <1>5 DEF Placed
  <2>2. CASE q \in Reserved
    BY <1>4, <2>2 DEF Reserved
  <2>3. ASSUME NEW k \in 1..(i - 1), a[k] = q
        PROVE  \E j \in Used(nodes) : a[j] = q
    <3>1. k \in Ids /\ q # 0
      BY <1>2, <1>5, PortsAssumption DEF Ids, Ports
    <3>2. k \in Used(nodes)
      BY <1>1, <2>3, <3>1 DEF Placed, Used
    <3> QED
      BY <2>3, <3>2
  <2> QED
    BY <2>1, <2>2, <2>3
<1> QED
  BY <1>3, <1>4, <1>5 DEF a

\* A new start port keeps what the nodes have but their ports, and those fit.
LEMMA MovedFits ==
    ASSUME nodes \in Tables, Fit(nodes), NEW s \in Ports, Allottable(s)
    PROVE  /\ Moved(s) \in Tables /\ Fit(Moved(s)) /\ On(Moved(s)) = On(nodes)
           /\ \A i \in Used(nodes) : /\ Moved(s)[i].proto = nodes[i].proto
                                     /\ Moved(s)[i].domain = nodes[i].domain
                                     /\ Moved(s)[i].odd = nodes[i].odd
<1> DEFINE a == Allotted(s)
           t == Moved(s)
<1>1. a \in [Ids -> Ports \cup {0}] /\ \A k \in Ids : Placed(s, a, k)
  BY AllottedPlaces
<1>2. \A k \in Used(nodes) : k \in Ids /\ nodes[k] # None /\ nodes[k] \in Rows /\ a[k] # 0 /\ a[k] \in Ports
  BY <1>1 DEF Used, Allottable, Tables
<1>3. \A i, j \in Used(nodes) : i # j => a[i] # a[j]
  BY AllottedApart
<1>4. t = [i \in Ids |-> IF nodes[i] = None THEN None ELSE [nodes[i] EXCEPT !.port = a[i]]]
  BY DEF Moved
<1> HIDE DEF a, t
<1>5. ASSUME NEW i \in Used(nodes)
      PROVE  /\ t[i] \in Rows /\ t[i] # None /\ t[i].port = a[i] /\ t[i].proto = nodes[i].proto
             /\ t[i].domain = nodes[i].domain /\ t[i].odd = nodes[i].odd /\ t[i].on = nodes[i].on
  <2>1. t[i] = [nodes[i] EXCEPT !.port = a[i]]
    BY <1>2, <1>4
  <2> QED
    BY <1>2, <2>1, PortsAssumption DEF Rows
<1>6. \A i \in Ids : i \notin Used(nodes) => t[i] = None
  BY <1>4 DEF Used
<1>7. t \in Tables
  BY <1>4, <1>5, <1>6 DEF Tables
<1>8. Used(t) = Used(nodes) /\ On(t) = On(nodes)
  BY <1>5, <1>6 DEF Used, On
<1>9. Fit(t)
  <2>1. \A i, j \in On(t) : i # j => t[i].port # t[j].port
    BY <1>3, <1>5, <1>8 DEF On
  <2>2. \A i \in On(t) : t[i].port \notin Foreign
    BY <1>1, <1>2, <1>5, <1>8 DEF On, Fit, Placed
  <2>3. \A i \in Used(t) : t[i].proto = "ws" => t[i].port \in CloudflarePorts
    BY <1>1, <1>2, <1>5, <1>8 DEF Placed
  <2> QED
    BY <2>1, <2>2, <2>3 DEF Fit
<1> QED
  BY <1>5, <1>7, <1>8, <1>9 DEF t

----------------------------------------------------------------------------
(* Steps of one request.                                                   *)

\* The step is r's: others keep what they carry, and the locks they hold.
Alone(r) ==
    /\ \A q \in Requests \ {r} :
        /\ at'[q] = at[q] /\ req'[q] = req[q] /\ seen'[q] = seen[q] /\ vet'[q] = vet[q] /\ saved'[q] = saved[q]
        /\ settings = q => settings' = q
        /\ mu = q => mu' = q

LEMMA CarriesAlone ==
    ASSUME PortsInv, NEW r \in Requests, Alone(r), Typed', Carries(r)', Fit(nodes)'
    PROVE  PortsInv'
<1>1. ASSUME NEW q \in Requests \ {r} PROVE Carries(q)'
  <2>1. Carries(q)
    BY DEF PortsInv
  <2> QED
    BY <2>1 DEF Carries, Alone
<1> QED
  BY <1>1 DEF PortsInv

\* A request that moves on without the end, and one that ends.
LEMMA GoesOn ==
    ASSUME Typed, NEW r \in Requests, NEW step \in Steps \ {"done"}, Goto(r, step), mu' = mu, saved' = saved
    PROVE  /\ Alone(r) /\ at'[r] = step /\ at' \in [Requests -> Steps]
           /\ UNCHANGED <<settings, req, seen, vet>>
BY DEF Goto, Typed, Alone

LEMMA Ends ==
    ASSUME Typed, NEW r \in Requests, Goto(r, "done"),
           mu' = mu \/ mu = r, \A q \in Requests \ {r} : saved'[q] = saved[q]
    PROVE  /\ Alone(r) /\ at'[r] = "done" /\ at' \in [Requests -> Steps]
           /\ settings' \in Requests \cup {None}
           /\ req' \in [Requests -> Inputs \cup {Nothing}]
           /\ seen' \in [Requests -> Settings \cup {None}] /\ vet' \in [Requests -> Drafts \cup {None}]
<1>1. /\ at' = [at EXCEPT ![r] = "done"] /\ req' = [req EXCEPT ![r] = Nothing]
      /\ seen' = [seen EXCEPT ![r] = None] /\ vet' = [vet EXCEPT ![r] = None]
      /\ settings' = IF settings = r THEN None ELSE settings
  BY DEF Goto, Unlocked
<1>2. "done" \in Steps
  BY DEF Steps
<1> QED
  BY <1>1, <1>2 DEF Typed, Alone

LEMMA PortsEnds ==
    ASSUME PortsInv, NEW r \in Requests, Goto(r, "done"), UNCHANGED <<nodes, start, mu, saved>>,
           pre' \in Settings, shell' \in BOOLEAN
    PROVE  PortsInv'
<1>1. Typed
  BY DEF PortsInv
<1>2. /\ Alone(r) /\ at'[r] = "done" /\ at' \in [Requests -> Steps]
      /\ settings' \in Requests \cup {None}
      /\ req' \in [Requests -> Inputs \cup {Nothing}]
      /\ seen' \in [Requests -> Settings \cup {None}] /\ vet' \in [Requests -> Drafts \cup {None}]
  BY <1>1, Ends
<1>3. Typed'
  BY <1>1, <1>2 DEF Typed
<1>4. Carries(r)' /\ Fit(nodes)'
  BY <1>2 DEF Carries, PortsInv
<1> QED
  BY <1>2, <1>3, <1>4, CarriesAlone

\* A request that has the mutex writes rows that fit.
LEMMA PortsWrite ==
    ASSUME PortsInv, NEW r \in Requests, at[r] = "apply", mu = None,
           NEW t \in Tables, NEW s \in Ports, Fit(t), Write(r, t, s)
    PROVE  PortsInv'
<1>1. Typed /\ Carries(r) /\ Fit(nodes) /\ None \notin Requests
  BY PortsAssumption DEF PortsInv
<1>2. /\ nodes' = t /\ start' = s /\ mu' = r
      /\ saved' = [saved EXCEPT ![r] = <<nodes, start>>]
      /\ at' = [at EXCEPT ![r] = "busy"]
      /\ UNCHANGED <<pre, settings, req, seen, vet, shell>>
  BY DEF Write
<1>3. <<nodes, start>> \in Tables \X Ports /\ "busy" \in Steps
  BY <1>1 DEF Typed, Steps
<1>4. Typed'
  BY <1>1, <1>2, <1>3 DEF Typed
<1>5. at'[r] = "busy" /\ saved'[r] = <<nodes, start>>
  BY <1>1, <1>2 DEF Typed
<1>6. Alone(r)
  BY <1>1, <1>2 DEF Typed, Alone
<1>7. Carries(r)'
  BY <1>1, <1>2, <1>3, <1>5 DEF Carries
<1> QED
  BY <1>2, <1>4, <1>6, <1>7, CarriesAlone

----------------------------------------------------------------------------
(* The rows that a request writes.                                         *)

\* What makes a table that r writes a good one.
Sound(r, t) ==
    /\ t \in Tables /\ Fit(t)
    /\ ~shell => Matches(t, pre)
    /\ req[r].op \notin Locking => Kept(nodes, t)

LEMMA RowSound ==
    ASSUME PortsInv, DomainsInv, NEW r \in Requests, NEW i \in Ids, NEW row \in Rows,
           row.on => \/ Bindable(row.port)
                     \/ nodes[i] # None /\ nodes[i].on /\ nodes[i].port = row.port,
           row.proto = "ws" => row.port \in CloudflarePorts,
           ~shell /\ row.on /\ row.proto \in Gated /\ ~row.odd =>
                row.domain # None /\ pre[row.proto].domain = row.domain,
           req[r].op \notin Locking => ~row.on
    PROVE  Sound(r, [nodes EXCEPT ![i] = row])
<1> DEFINE t == [nodes EXCEPT ![i] = row]
<1>1. nodes \in Tables /\ Fit(nodes) /\ row # None
  BY PortsAssumption DEF PortsInv, Typed
<1>2. t \in Tables /\ t[i] = row /\ \A j \in Ids \ {i} : t[j] = nodes[j]
  BY <1>1 DEF Tables
<1> HIDE DEF t
<1>3. Used(t) \ {i} = Used(nodes) \ {i} /\ On(t) \ {i} = On(nodes) \ {i}
  BY <1>2 DEF Used, On
<1>4. /\ i \in On(t) <=> row.on
      /\ \A j \in On(t) : j \in Ids /\ (j # i => j \in On(nodes))
      /\ \A j \in Used(t) : j \in Ids /\ (j # i => j \in Used(nodes))
  BY <1>1, <1>2, <1>3 DEF On, Used
<1>5. Fit(t)
  <2>1. ASSUME NEW j \in On(t), NEW k \in On(t), j # k PROVE t[j].port # t[k].port
    <3>1. ASSUME NEW l \in On(t), l # i, i \in On(t) PROVE t[l].port # t[i].port
      BY <1>1, <1>2, <1>4, <3>1 DEF Fit, Bindable, On, Used
    <3>2. CASE j # i /\ k # i
      BY <1>1, <1>2, <1>4, <2>1, <3>2 DEF Fit
    <3> QED
      BY <2>1, <3>1, <3>2
  <2>2. ASSUME NEW j \in On(t) PROVE t[j].port \notin Foreign
    BY <1>1, <1>2, <1>4 DEF Fit, Bindable, On, Used
  <2>3. \A j \in Used(t) : t[j].proto = "ws" => t[j].port \in CloudflarePorts
    BY <1>1, <1>2, <1>4 DEF Fit
  <2> QED
    BY <2>1, <2>2, <2>3 DEF Fit
<1>6. ~shell => Matches(t, pre)
  BY <1>1, <1>2, <1>4 DEF DomainsInv, Matches, Checked
<1>7. req[r].op \notin Locking => Kept(nodes, t)
  BY <1>2, <1>4 DEF Kept, Checked
<1> QED
  BY <1>2, <1>5, <1>6, <1>7 DEF Sound, t

LEMMA NewPortIs ==
    ASSUME Typed, NEW proto \in Protocols
    PROVE  /\ NewPort(proto) \in Ports \cup {0}
           /\ NewPort(proto) # 0 => Bindable(NewPort(proto))
           /\ NewPort(proto) # 0 /\ proto = "ws" => NewPort(proto) \in CloudflarePorts
<1> DEFINE used == {nodes[i].port : i \in Used(nodes)}
           free == {p \in Ports : Bindable(p)}
           p == NewPort(proto)
<1>1. p = NextPort(proto, start, used, free) /\ free \in SUBSET Ports /\ start \in Ports
  BY DEF NewPort, Typed
<1>2. \A q \in free : Bindable(q)
  OBVIOUS
<1> HIDE DEF used, free, p
<1>3. /\ p \in Ports \cup {0} /\ (p # 0 => p \in free)
      /\ p # 0 /\ proto = "ws" => p \in CloudflarePorts
  BY <1>1, NextPortIs
<1> QED
  BY <1>2, <1>3 DEF p

\* Create and Clone write a row with a port that could be bound.
LEMMA InsertSound ==
    ASSUME PortsInv, DomainsInv, NEW r \in Requests, NEW row \in Drafts, NEW port \in Ports \cup {0},
           row.proto = "ws" /\ port # 0 => port \in CloudflarePorts,
           ~shell /\ row.on /\ row.proto \in Gated /\ ~row.odd =>
                row.domain # None /\ pre[row.proto].domain = row.domain,
           req[r].op \notin Locking => ~row.on,
           Insert(r, row, port)
    PROVE  Refuse(r) \/ \E t, s : s \in Ports /\ Write(r, t, s) /\ Sound(r, t)
<1>1. CASE Refuse(r)
  BY <1>1
<1>2. CASE port # 0 /\ Bindable(port) /\ \E i \in Fresh :
             Write(r, [nodes EXCEPT ![i] = [row EXCEPT !.port = port]], start)
  <2>1. PICK i \in Fresh : Write(r, [nodes EXCEPT ![i] = [row EXCEPT !.port = port]], start)
    BY <1>2
  <2> DEFINE new == [row EXCEPT !.port = port]
  <2>2. /\ new \in Rows /\ new.port = port /\ new.proto = row.proto /\ new.on = row.on
        /\ new.odd = row.odd /\ new.domain = row.domain
    BY <1>2 DEF Drafts, Rows
  <2>3. i \in Ids /\ start \in Ports
    BY DEF Fresh, PortsInv, Typed
  <2> HIDE DEF new
  <2>4. Sound(r, [nodes EXCEPT ![i] = new])
    BY <1>2, <2>2, <2>3, RowSound
  <2> QED
    BY <2>1, <2>3, <2>4 DEF new
<1> QED
  BY <1>1, <1>2 DEF Insert

LEMMA CreateSound ==
    ASSUME PortsInv, DomainsInv, NEW r \in Requests, at[r] = "apply", Create(r)
    PROVE  Refuse(r) \/ \E t, s : s \in Ports /\ Write(r, t, s) /\ Sound(r, t)
<1> DEFINE a == req[r]
           row == Candidate(a)
           port == CreateAt(a)
<1>1. Typed /\ Carries(r) /\ a.op = "create" /\ Insert(r, row, port)
  BY DEF PortsInv, Create
<1>2. /\ a \in Inputs /\ a.proto \in Protocols /\ a.port \in Ports \cup {0} /\ a.domain \in Domains \cup {None}
      /\ vet[r].proto = a.proto /\ vet[r].domain = a.domain
      /\ a.proto = "ws" => a.port \in CloudflarePorts
  BY <1>1, PortsAssumption DEF Carries
<1>3. row \in Drafts /\ row.proto = a.proto /\ row.domain = a.domain
  BY <1>1, <1>2 DEF Candidate, Drafts
<1>4. port \in Ports \cup {0} /\ (row.proto = "ws" /\ port # 0 => port \in CloudflarePorts)
  BY <1>1, <1>2, <1>3, NewPortIs DEF CreateAt
<1>5. ~shell /\ row.proto \in Gated => row.domain # None /\ pre[row.proto].domain = row.domain
  BY <1>1, <1>2, <1>3 DEF DomainsInv, Relies, Locking
<1> HIDE DEF a, row, port
<1> QED
  BY <1>1, <1>3, <1>4, <1>5, InsertSound DEF a, Locking

LEMMA CloneSound ==
    ASSUME PortsInv, DomainsInv, NEW r \in Requests, at[r] = "apply", Clone(r)
    PROVE  Refuse(r) \/ \E t, s : s \in Ports /\ Write(r, t, s) /\ Sound(r, t)
<1>1. CASE Refuse(r)
  BY <1>1
<1>2. CASE vet[r] # None
  <2> DEFINE row == [vet[r] EXCEPT !.on = FALSE, !.odd = FALSE]
             port == NewPort(vet[r].proto)
  <2>1. Typed /\ vet[r] \in Rows /\ req[r].op = "clone" /\ Insert(r, row, port)
    BY <1>2 DEF PortsInv, Carries, Clone
  <2>2. row \in Drafts /\ row.proto = vet[r].proto /\ row.on = FALSE /\ vet[r].proto \in Protocols
    BY <2>1 DEF Rows, Drafts
  <2>3. port \in Ports \cup {0} /\ (row.proto = "ws" /\ port # 0 => port \in CloudflarePorts)
    BY <2>1, <2>2, NewPortIs
  <2> HIDE DEF row, port
  <2> QED
    BY <2>1, <2>2, <2>3, InsertSound
<1> QED
  BY <1>1, <1>2 DEF Clone

\* updateLocked: a port that is new, or that comes into use, was tested.
LEMMA ChangeSound ==
    ASSUME PortsInv, DomainsInv, NEW r \in Requests, NEW i \in Ids, nodes[i] # None, NEW row \in Rows,
           row.proto = "ws" => row.port \in CloudflarePorts,
           ~shell /\ row.on /\ row.proto \in Gated /\ ~row.odd =>
                row.domain # None /\ pre[row.proto].domain = row.domain,
           req[r].op \notin Locking => ~row.on,
           Change(r, i, row)
    PROVE  Refuse(r) \/ \E t, s : s \in Ports /\ Write(r, t, s) /\ Sound(r, t)
<1>1. CASE Refuse(r)
  BY <1>1
<1>2. CASE /\ row.port # nodes[i].port \/ (row.on /\ ~nodes[i].on) => Bindable(row.port)
           /\ Write(r, [nodes EXCEPT ![i] = row], start)
  <2>1. start \in Ports
    BY DEF PortsInv, Typed
  <2>2. Sound(r, [nodes EXCEPT ![i] = row])
    BY <1>2, RowSound
  <2> QED
    BY <1>2, <2>1, <2>2
<1> QED
  BY <1>1, <1>2 DEF Change

LEMMA UpdateSound ==
    ASSUME PortsInv, DomainsInv, NEW r \in Requests, at[r] = "apply", Update(r)
    PROVE  Refuse(r) \/ \E t, s : s \in Ports /\ Write(r, t, s) /\ Sound(r, t)
<1> DEFINE a == req[r]
           row == nodes[a.id]
<1>1. Typed /\ Carries(r) /\ a \in Inputs /\ Fit(nodes)
  BY DEF PortsInv, Carries
<1>2. /\ a.op \in {"update_on", "update_off", "enable", "disable"} /\ a.id \in Ids
      /\ a.port \in Ports \cup {0} /\ a.domain \in Domains \cup {None}
  BY <1>1, PortsAssumption, InputsAssumption DEF Update
<1>3. CASE row = None
  BY <1>2, <1>3 DEF Update
<1>4. CASE row # None
  <2>1. row \in Rows /\ (row.proto = "ws" => row.port \in CloudflarePorts)
    BY <1>1, <1>2, <1>4 DEF Typed, Tables, Fit, Used
  <2>2. a.op \in {"update_on", "enable"} => /\ vet[r] \in Drafts
                                            /\ a.op = "update_on" => vet[r].domain = a.domain
    BY <1>1 DEF Carries, Locking, Setting
  <2>3. ~shell /\ a.op \in {"update_on", "enable"} /\ vet[r].proto \in Gated =>
            vet[r].domain # None /\ pre[vet[r].proto].domain = vet[r].domain
    BY DEF DomainsInv, Relies, Locking
  <2>4. CASE a.op \in {"update_on", "update_off"} /\ ~Refuse(r)
    <3> DEFINE new == Updated(r, row)
    <3>1. /\ a.port \in PortsOf(row.proto) /\ (row.proto \in Gated => a.domain # None)
          /\ Change(r, a.id, new)
      BY <1>4, <2>4 DEF Update
    <3>2. a.port \in Ports /\ (row.proto = "ws" => a.port \in CloudflarePorts)
      BY <3>1, PortsAssumption DEF PortsOf, CloudflarePorts
    <3>3. /\ new = [row EXCEPT !.port = a.port, !.domain = IF row.proto \in Gated THEN a.domain ELSE None,
                               !.on = (a.op = "update_on"),
                               !.odd = (a.op = "update_on" /\ row.proto # vet[r].proto)]
      BY DEF Updated
    <3> HIDE DEF new, row
    <3>4. /\ new \in Rows /\ new.proto = row.proto /\ new.port = a.port
          /\ row.proto \in Gated => new.domain = a.domain
          /\ new.on <=> a.op = "update_on"
          /\ new.on => (new.odd <=> row.proto # vet[r].proto)
      BY <1>2, <2>1, <3>2, <3>3 DEF Rows
    <3> QED
      BY <1>2, <1>4, <2>1, <2>2, <2>3, <3>1, <3>2, <3>4, ChangeSound DEF row, Locking
  <2>5. CASE a.op = "enable" /\ ~Refuse(r)
    <3> DEFINE new == Enabled(r, row)
    <3>1. Change(r, a.id, new)
      BY <1>4, <2>5 DEF Update
    <3>2. new = [row EXCEPT !.on = TRUE, !.odd = (row.proto \in Gated
                    /\ <<row.proto, row.domain, row.port>> # <<vet[r].proto, vet[r].domain, vet[r].port>>)]
      BY DEF Enabled
    <3> HIDE DEF new, row
    <3>3. /\ new \in Rows /\ new.proto = row.proto /\ new.port = row.port /\ new.domain = row.domain
          /\ row.proto \in Gated /\ ~new.odd => row.proto = vet[r].proto /\ row.domain = vet[r].domain
      BY <2>1, <3>2 DEF Rows
    <3> QED
      BY <1>2, <1>4, <2>1, <2>3, <2>5, <3>1, <3>3, ChangeSound DEF row, Locking
  <2>6. CASE a.op = "disable" /\ ~Refuse(r)
    <3> DEFINE new == [row EXCEPT !.on = FALSE]
    <3>1. Change(r, a.id, new)
      BY <1>4, <2>6 DEF Update
    <3> HIDE DEF row
    <3>2. new \in Rows /\ new.on = FALSE /\ new.proto = row.proto /\ new.port = row.port
      BY <2>1 DEF Rows
    <3> HIDE DEF new
    <3> QED
      BY <1>2, <1>4, <2>1, <3>1, <3>2, ChangeSound DEF row
  <2> QED
    BY <1>2, <2>4, <2>5, <2>6
<1> QED
  BY <1>3, <1>4

LEMMA DeleteSound ==
    ASSUME PortsInv, DomainsInv, NEW r \in Requests, at[r] = "apply", Delete(r)
    PROVE  Refuse(r) \/ \E t, s : s \in Ports /\ Write(r, t, s) /\ Sound(r, t)
<1> DEFINE i == req[r].id
           t == [nodes EXCEPT ![i] = None]
<1>1. Typed /\ Fit(nodes) /\ i \in Ids
  BY InputsAssumption DEF PortsInv, Carries, Delete
<1>2. t \in Tables /\ t[i] = None /\ \A j \in Ids \ {i} : t[j] = nodes[j]
  BY <1>1 DEF Typed, Tables
<1>3. Refuse(r) \/ Write(r, t, start)
  BY DEF Delete
<1> HIDE DEF t
<1>4. /\ \A j \in Used(t) : j \in Used(nodes) /\ t[j] = nodes[j]
      /\ \A j \in On(t) : j \in On(nodes) /\ t[j] = nodes[j]
  BY <1>2 DEF Used, On
<1>5. Fit(t)
  BY <1>1, <1>4 DEF Fit
<1>6. (~shell => Matches(t, pre)) /\ Kept(nodes, t)
  BY <1>4 DEF DomainsInv, Matches, Kept, Checked
<1> QED
  BY <1>1, <1>2, <1>3, <1>5, <1>6 DEF Sound, Typed

LEMMA StartSound ==
    ASSUME PortsInv, DomainsInv, NEW r \in Requests, at[r] = "apply", SetStartPort(r)
    PROVE  Refuse(r) \/ \E t, s : s \in Ports /\ Write(r, t, s) /\ Sound(r, t)
<1> DEFINE s == req[r].port
           t == Moved(s)
<1>1. nodes \in Tables /\ Fit(nodes) /\ s \in Ports
  BY InputsAssumption DEF PortsInv, Typed, Carries, SetStartPort
<1>2. CASE Refuse(r)
  BY <1>2
<1>3. CASE Allottable(s) /\ Write(r, t, s)
  <2>1. /\ t \in Tables /\ Fit(t) /\ On(t) = On(nodes)
        /\ \A i \in Used(nodes) : t[i].proto = nodes[i].proto /\ t[i].domain = nodes[i].domain /\ t[i].odd = nodes[i].odd
    BY <1>1, <1>3, MovedFits
  <2> HIDE DEF t
  <2>2. (~shell => Matches(t, pre)) /\ Kept(nodes, t)
    BY <2>1 DEF DomainsInv, Matches, Kept, Checked, On
  <2> QED
    BY <1>1, <1>3, <2>1, <2>2 DEF Sound
<1> QED
  BY <1>2, <1>3 DEF SetStartPort

LEMMA ApplySound ==
    ASSUME PortsInv, DomainsInv, NEW r \in Requests, Apply(r)
    PROVE  Refuse(r) \/ \E t, s : s \in Ports /\ Write(r, t, s) /\ Sound(r, t)
BY CreateSound, CloneSound, UpdateSound, DeleteSound, StartSound DEF Apply

\* The rows that a failed reconcile puts back.
LEMMA PutBackIs ==
    ASSUME nodes \in Tables, NEW old \in Tables, Fit(old)
    PROVE  /\ PutBack(old) \in Tables /\ Fit(PutBack(old))
           /\ \A i \in Checked(PutBack(old)) : i \in Checked(old) \cap On(nodes) /\ PutBack(old)[i] = old[i]
<1> DEFINE t == PutBack(old)
<1>1. t = [i \in Ids |-> IF old[i] # None /\ old[i].on /\ (nodes[i] = None \/ ~nodes[i].on)
                         THEN [old[i] EXCEPT !.odd = TRUE] ELSE old[i]]
  BY DEF PutBack
<1> HIDE DEF t
<1>2. ASSUME NEW i \in Used(old)
      PROVE  /\ t[i] \in Rows /\ t[i].port = old[i].port /\ t[i].proto = old[i].proto /\ t[i].on = old[i].on
             /\ t[i] = old[i] \/ t[i].odd
             /\ t[i].on /\ ~t[i].odd => i \in On(nodes)
  <2>1. i \in Ids /\ old[i] \in Rows /\ old[i] # None
    BY DEF Used, Tables
  <2> QED
    BY <1>1, <2>1 DEF Rows, On, Used
<1>3. \A i \in Ids : i \notin Used(old) => t[i] = None
  BY <1>1 DEF Used
<1>4. t \in Tables
  BY <1>1, <1>2, <1>3 DEF Tables, Used
<1>5. Used(t) = Used(old) /\ On(t) = On(old)
  BY <1>2, <1>3, PortsAssumption DEF Used, On
<1>6. Fit(t)
  BY <1>2, <1>5 DEF Fit, On
<1>7. \A i \in Checked(t) : i \in Checked(old) \cap On(nodes) /\ t[i] = old[i]
  BY <1>2, <1>5 DEF Checked, On
<1> QED
  BY <1>4, <1>6, <1>7 DEF t

----------------------------------------------------------------------------
(* Every step keeps PortsInv.                                              *)

LEMMA PortsArrive ==
    ASSUME PortsInv, NEW r \in Requests, Arrive(r)
    PROVE  PortsInv'
<1>1. Typed
  BY DEF PortsInv
<1>2. PICK a \in Inputs :
        /\ req' = [req EXCEPT ![r] = a]
        /\ at' = [at EXCEPT ![r] = IF a.op \in Locking THEN "lock"
                                   ELSE IF a.op \in {"configure", "install"} THEN a.op ELSE "apply"]
        /\ vet' = [vet EXCEPT ![r] = IF a.op = "clone" THEN nodes[a.id] ELSE None]
  BY DEF Arrive
<1>3. UNCHANGED <<nodes, start, pre, settings, mu, seen, saved, shell>>
  BY DEF Arrive, tables
<1>4. a.op = "clone" => nodes[a.id] \in Rows \cup {None}
  BY <1>1, InputsAssumption DEF Typed, Tables
<1>5. Rows \subseteq Drafts
  BY DEF Rows, Drafts
<1>6. /\ req'[r] = a /\ at'[r] \in {"lock", "configure", "install", "apply"}
      /\ at'[r] = "lock" => a.op \in Locking
      /\ at'[r] = "apply" => a.op \notin Locking
      /\ a.op = "clone" => vet'[r] \in Rows \cup {None}
      /\ vet'[r] \in Drafts \cup {None}
  BY <1>1, <1>2, <1>4, <1>5 DEF Typed
<1>7. Typed'
  <2>1. vet' \in [Requests -> Drafts \cup {None}]
    BY <1>1, <1>2, <1>6 DEF Typed
  <2>2. at' \in [Requests -> Steps]
    BY <1>1, <1>2, <1>6 DEF Typed, Steps
  <2>3. req' \in [Requests -> Inputs \cup {Nothing}]
    BY <1>1, <1>2 DEF Typed
  <2> QED
    BY <1>1, <1>3, <2>1, <2>2, <2>3 DEF Typed
<1>8. Alone(r)
  BY <1>1, <1>2, <1>3 DEF Alone, Typed
<1>9. Carries(r)' /\ Fit(nodes)'
  BY <1>3, <1>6 DEF Carries, PortsInv, Locking, Setting
<1> QED
  BY <1>7, <1>8, <1>9, CarriesAlone

\* The node that a handler is about to check.
LEMMA CandidateIs ==
    ASSUME Typed, NEW a \in Inputs, a.op \in Locking, a.op \in {"update_on", "enable"} => nodes[a.id] # None
    PROVE  /\ Candidate(a) \in Drafts
           /\ a.op \in Setting => Candidate(a).proto \in Gated
           /\ a.op \in {"create"} \cup Setting => /\ Candidate(a).proto = a.proto
                                                  /\ Candidate(a).port = a.port
                                                  /\ Candidate(a).domain = a.domain
           /\ a.op = "update_on" => Candidate(a).domain = a.domain
<1>1. /\ a.proto \in Protocols /\ a.port \in Ports \cup {0} /\ a.domain \in Domains \cup {None}
      /\ a.op \in Setting => a.proto \in Gated
  BY PortsAssumption, InputsAssumption DEF Setting
<1>2. CASE a.op \in {"create"} \cup Setting
  BY <1>1, <1>2 DEF Candidate, Drafts, Setting
<1>3. CASE a.op \in {"update_on", "enable"}
  <2>1. nodes[a.id] \in Rows
    BY <1>3, InputsAssumption DEF Typed, Tables
  <2> QED
    BY <1>1, <1>3, <2>1 DEF Candidate, Drafts, Rows, Setting
<1> QED
  BY <1>2, <1>3 DEF Locking, Setting

LEMMA PortsLock ==
    ASSUME PortsInv, NEW r \in Requests, Lock(r)
    PROVE  PortsInv'
<1> DEFINE a == req[r]
           missing == a.op \in {"update_on", "enable"} /\ nodes[a.id] = None
           refused == a.op \in {"verify", "clear"} /\ Depended(a, pre[a.proto])
<1>1. Typed /\ Carries(r) /\ at[r] = "lock" /\ settings = None /\ a \in Inputs /\ a.op \in Locking
      /\ None \notin Requests
  BY PortsAssumption DEF PortsInv, Carries, Lock
<1>2. /\ at' = [at EXCEPT ![r] = IF missing \/ refused THEN "done"
                                 ELSE IF Candidate(a).proto \in Gated THEN "check" ELSE "apply"]
      /\ settings' = IF missing \/ refused THEN None ELSE r
      /\ req' = IF missing \/ refused THEN [req EXCEPT ![r] = Nothing] ELSE req
      /\ seen' = [seen EXCEPT ![r] = IF missing \/ refused THEN None ELSE pre]
      /\ vet' = [vet EXCEPT ![r] = IF missing \/ refused \/ a.op \in {"verify", "clear"} THEN None
                                   ELSE Candidate(a)]
      /\ UNCHANGED <<nodes, start, pre, mu, saved, shell>>
  BY DEF Lock, tables
<1> HIDE DEF refused
<1>3. CASE missing \/ refused
  <2>1. Typed'
    BY <1>1, <1>2, <1>3 DEF Typed, Steps
  <2>2. Alone(r)
    BY <1>1, <1>2, <1>3 DEF Typed, Alone
  <2>3. at'[r] = "done"
    BY <1>1, <1>2, <1>3 DEF Typed
  <2>4. Carries(r)' /\ Fit(nodes)'
    BY <1>2, <2>3 DEF Carries, PortsInv
  <2> QED
    BY <2>1, <2>2, <2>4, CarriesAlone
<1>4. CASE ~(missing \/ refused)
  <2>1. /\ Candidate(a) \in Drafts
        /\ a.op \in Setting => Candidate(a).proto \in Gated
        /\ a.op = "create" => /\ Candidate(a).proto = a.proto /\ Candidate(a).port = a.port
                              /\ Candidate(a).domain = a.domain
        /\ a.op = "update_on" => Candidate(a).domain = a.domain
    BY <1>1, <1>4, CandidateIs
  <2> DEFINE c == Candidate(a)
  <2> HIDE DEF c
  <2>2. /\ at' = [at EXCEPT ![r] = IF c.proto \in Gated THEN "check" ELSE "apply"]
        /\ settings' = r /\ req' = req /\ seen' = [seen EXCEPT ![r] = pre]
        /\ vet' = [vet EXCEPT ![r] = IF a.op \in Setting THEN None ELSE c]
    BY <1>2, <1>4 DEF c, Setting
  <2>3. /\ at'[r] = IF c.proto \in Gated THEN "check" ELSE "apply"
        /\ seen'[r] = pre /\ vet'[r] = IF a.op \in Setting THEN None ELSE c
    BY <1>1, <2>2 DEF Typed
  <2>4. Typed'
    BY <1>1, <1>2, <2>1, <2>2 DEF Typed, Steps, c
  <2>5. Alone(r)
    BY <1>1, <1>2, <2>2 DEF Typed, Alone
  <2>6. "ws" \in Gated /\ pre \in Settings
    BY <1>1 DEF Gated, Typed
  <2>7. Carries(r)'
    BY <1>1, <2>1, <2>2, <2>3, <2>6 DEF Carries, c, Setting, Locking
  <2> QED
    BY <1>2, <2>4, <2>5, <2>7, CarriesAlone DEF PortsInv
<1> QED
  BY <1>3, <1>4

\* The entries that requests write are entries.
LEMMA EntryWritten ==
    ASSUME NEW r \in Requests, seen[r] \in Settings, NEW proto \in Gated, NEW entry \in Entries,
           WriteEntry(r, proto, entry)
    PROVE  pre' \in Settings /\ pre'[proto] = entry /\ \A g \in Gated \ {proto} : pre'[g] = seen[r][g]
BY DEF WriteEntry, Settings

LEMMA SetWrites ==
    ASSUME PortsInv, NEW r \in Requests, SetPrerequisite(r)
    PROVE  /\ req[r].proto \in Gated /\ seen[r] \in Settings /\ pre' \in Settings
           /\ \/ pre' = pre
              \/ /\ \A g \in Gated \ {req[r].proto} : pre'[g] = seen[r][g]
                 /\ \/ req[r].op = "clear" /\ pre'[req[r].proto] = Cleared
                    \/ /\ req[r].op = "verify" /\ req[r].domain \in Domains
                       /\ pre'[req[r].proto].domain = req[r].domain
<1> DEFINE a == req[r]
<1>1. /\ Typed /\ a \in Inputs /\ a.op \in Setting /\ seen[r] \in Settings
      /\ a.proto \in Gated /\ (a.op = "verify" => a.domain \in Domains) /\ a.port \in Ports \cup {0}
  BY PortsAssumption, InputsAssumption DEF PortsInv, Carries, SetPrerequisite, Setting
<1>3. CASE a.op = "clear" /\ WriteEntry(r, a.proto, Cleared)
  <2>1. Cleared \in Entries
    BY DEF Cleared, Entries
  <2> QED
    BY <1>1, <1>3, <2>1, EntryWritten
<1>4. CASE a.op = "verify" /\ WriteEntry(r, a.proto, [on |-> TRUE, domain |-> a.domain, port |-> a.port])
  <2> DEFINE e == [on |-> TRUE, domain |-> a.domain, port |-> a.port]
  <2>1. e \in Entries /\ e.domain = a.domain
    BY <1>1, <1>4 DEF Entries
  <2>2. WriteEntry(r, a.proto, e)
    BY <1>4
  <2> HIDE DEF e
  <2> QED
    BY <1>1, <1>4, <2>1, <2>2, EntryWritten
<1>5. CASE pre' = pre
  BY <1>1, <1>5 DEF Typed
<1> QED
  BY <1>3, <1>4, <1>5 DEF SetPrerequisite

LEMMA CheckWrites ==
    ASSUME PortsInv, NEW r \in Requests, CheckPrerequisite(r)
    PROVE  /\ seen[r] \in Settings /\ vet[r].proto \in Gated /\ pre' \in Settings
           /\ \/ pre' = pre
              \/ /\ \A g \in Gated \ {vet[r].proto} : pre'[g] = seen[r][g]
                 /\ pre'[vet[r].proto].domain = seen[r][vet[r].proto].domain
                 /\ ~pre'[vet[r].proto].on
           /\ \/ Goto(r, "done")
              \/ /\ Goto(r, "apply") /\ pre' = pre
                 /\ vet[r].proto = "ws" => vet[r].port \in CloudflarePorts
                 /\ seen[r][vet[r].proto].on /\ seen[r][vet[r].proto].domain = vet[r].domain
<1> DEFINE v == vet[r]
           entry == seen[r][v.proto]
           e == [entry EXCEPT !.on = FALSE, !.port = 0]
<1>1. Typed /\ seen[r] \in Settings /\ v.proto \in Gated
  BY DEF PortsInv, Carries, CheckPrerequisite, Setting
<1>2. \/ Goto(r, "done") /\ pre' = pre
      \/ /\ Goto(r, "apply") /\ pre' = pre /\ entry.on /\ entry.domain = v.domain
         /\ v.proto = "ws" => v.port \in CloudflarePorts
      \/ Goto(r, "done") /\ WriteEntry(r, v.proto, e)
  BY DEF CheckPrerequisite
<1>3. CASE pre' = pre
  BY <1>1, <1>2, <1>3 DEF Typed
<1>4. CASE Goto(r, "done") /\ WriteEntry(r, v.proto, e)
  <2>1. entry \in Entries
    BY <1>1 DEF Settings
  <2>2. e \in Entries /\ e.domain = entry.domain /\ e.on = FALSE
    BY <2>1 DEF Entries
  <2> HIDE DEF e, entry, v
  <2> QED
    BY <1>1, <1>4, <2>2, EntryWritten DEF entry, v
<1> QED
  BY <1>2, <1>3, <1>4

LEMMA PortsSet ==
    ASSUME PortsInv, NEW r \in Requests, SetPrerequisite(r)
    PROVE  PortsInv'
<1>1. pre' \in Settings
  BY SetWrites
<1> QED
  BY <1>1, PortsEnds DEF SetPrerequisite, tables, PortsInv, Typed

LEMMA PortsCheck ==
    ASSUME PortsInv, NEW r \in Requests, CheckPrerequisite(r)
    PROVE  PortsInv'
<1>1. Typed /\ Carries(r) /\ UNCHANGED <<nodes, start, mu, saved, shell>> /\ pre' \in Settings
      /\ at[r] = "check" /\ req[r].op \notin Setting /\ req[r].op \in Locking
  BY CheckWrites DEF PortsInv, CheckPrerequisite, tables, Carries, Setting
<1>2. CASE Goto(r, "done")
  BY <1>1, <1>2, PortsEnds DEF Typed
<1>3. CASE Goto(r, "apply") /\ (vet[r].proto = "ws" => vet[r].port \in CloudflarePorts)
  <2>1. /\ Alone(r) /\ at'[r] = "apply" /\ at' \in [Requests -> Steps]
        /\ UNCHANGED <<settings, req, seen, vet>>
    BY <1>1, <1>3, GoesOn DEF Steps
  <2>2. Typed'
    BY <1>1, <2>1 DEF Typed
  <2>3. Carries(r)'
    BY <1>1, <1>3, <2>1 DEF Carries, Setting, Locking
  <2> QED
    BY <1>1, <2>1, <2>2, <2>3, CarriesAlone DEF PortsInv
<1> QED
  BY <1>2, <1>3, CheckWrites

LEMMA PortsApply ==
    ASSUME PortsInv, DomainsInv, NEW r \in Requests, Apply(r)
    PROVE  PortsInv'
<1>1. CASE Refuse(r)
  BY <1>1, PortsEnds DEF Refuse, tables, PortsInv, Typed
<1>2. CASE \E t, s : s \in Ports /\ Write(r, t, s) /\ Sound(r, t)
  BY <1>2, PortsWrite DEF Sound, Apply
<1> QED
  BY <1>1, <1>2, ApplySound

LEMMA PortsReconcile ==
    ASSUME PortsInv, NEW r \in Requests, Reconcile(r)
    PROVE  PortsInv'
<1>1. Typed /\ Carries(r) /\ Fit(nodes) /\ at[r] = "busy" /\ mu = r
      /\ saved[r] \in Tables \X Ports /\ Fit(saved[r][1])
  BY DEF PortsInv, Carries, Reconcile
<1>2. /\ saved' = [saved EXCEPT ![r] = None] /\ mu' = None
      /\ Goto(r, "done") /\ UNCHANGED <<pre, shell>>
  BY DEF Reconcile
<1>3. nodes' \in Tables /\ start' \in Ports /\ Fit(nodes')
  BY <1>1, PutBackIs DEF Reconcile, tables, Typed
<1>4. /\ Alone(r) /\ at'[r] = "done" /\ at' \in [Requests -> Steps]
      /\ settings' \in Requests \cup {None}
      /\ req' \in [Requests -> Inputs \cup {Nothing}]
      /\ seen' \in [Requests -> Settings \cup {None}] /\ vet' \in [Requests -> Drafts \cup {None}]
  <2>1. \A q \in Requests \ {r} : saved'[q] = saved[q]
    BY <1>1, <1>2 DEF Typed
  <2> QED
    BY <1>1, <1>2, <2>1, Ends
<1>5. Typed'
  BY <1>1, <1>2, <1>3, <1>4 DEF Typed
<1>6. Carries(r)'
  BY <1>4 DEF Carries
<1> QED
  BY <1>3, <1>4, <1>5, <1>6, CarriesAlone

LEMMA PortsShell ==
    ASSUME PortsInv, NEW r \in Requests, Shell(r)
    PROVE  PortsInv'
<1>1. Typed /\ Carries(r)
  BY DEF PortsInv
<1>2. ASSUME NEW step \in {"read"}, at[r] = "configure", Goto(r, step), UNCHANGED <<nodes, start, pre, mu, saved, shell>>
      PROVE  PortsInv'
  <2>1. /\ Alone(r) /\ at'[r] = "read" /\ at' \in [Requests -> Steps]
        /\ UNCHANGED <<settings, req, seen, vet>>
    BY <1>1, <1>2, GoesOn DEF Steps
  <2>2. Typed' /\ Carries(r)'
    BY <1>1, <1>2, <2>1 DEF Typed, Carries
  <2> QED
    BY <1>2, <2>1, <2>2, CarriesAlone DEF PortsInv
<1>3. CASE Configure(r)
  BY <1>2, <1>3, PortsEnds DEF Configure, tables, PortsInv, Typed
<1>4. ASSUME NEW step \in {"write", "installing"}, at[r] \in {"read", "install"},
             at' = [at EXCEPT ![r] = step], seen' = [seen EXCEPT ![r] = pre],
             UNCHANGED <<nodes, start, pre, settings, mu, req, vet, saved, shell>>
      PROVE  PortsInv'
  <2>1. Typed'
    BY <1>1, <1>4 DEF Typed, Steps
  <2>2. Alone(r) /\ at'[r] = step /\ seen'[r] = pre
    BY <1>1, <1>4 DEF Alone, Typed
  <2>3. Carries(r)'
    BY <1>1, <1>4, <2>2 DEF Carries, Typed
  <2> QED
    BY <1>4, <2>1, <2>2, <2>3, CarriesAlone DEF PortsInv
<1>5. CASE ReadArgo(r)
  <2>1. CASE Goto(r, "done")
    BY <1>5, <2>1, PortsEnds DEF ReadArgo, tables, PortsInv, Typed
  <2> QED
    BY <1>4, <1>5, <2>1 DEF ReadArgo, tables
<1>6. CASE ReadInstall(r)
  BY <1>4, <1>6 DEF ReadInstall, tables
<1>7. CASE WriteArgo(r)
  <2> DEFINE e == [on |-> TRUE, domain |-> req[r].domain, port |-> req[r].port]
  <2>1. e \in Entries /\ seen[r] \in Settings /\ "argo" \in Gated /\ WriteEntry(r, "argo", e)
    BY <1>1, <1>7, PortsAssumption DEF Carries, WriteArgo, Entries, Gated
  <2> HIDE DEF e
  <2>2. pre' \in Settings
    BY <2>1, EntryWritten
  <2> QED
    BY <1>7, <2>2, PortsEnds DEF WriteArgo, tables
<1>8. CASE Install(r)
  <2> DEFINE d == req[r].domain
             ws == {seen[r]["ws"], Cleared, [on |-> TRUE, domain |-> d, port |-> 0]}
             argo == {[on |-> TRUE, domain |-> d, port |-> p] : p \in {q \in Ports : Verifiable("argo", q)}}
  <2>1. seen[r] \in Settings /\ d \in Domains \cup {None}
    BY <1>1, <1>8, PortsAssumption DEF Carries, Install
  <2>2. ws \subseteq Entries /\ argo \cup {seen[r]["argo"]} \subseteq Entries
    <3>1. seen[r]["ws"] \in Entries /\ seen[r]["argo"] \in Entries
      BY <2>1 DEF Settings, Gated
    <3> HIDE DEF d
    <3>2. Cleared \in Entries /\ [on |-> TRUE, domain |-> d, port |-> 0] \in Entries
      BY <2>1 DEF Cleared, Entries
    <3>3. \A p \in Ports : [on |-> TRUE, domain |-> d, port |-> p] \in Entries
      BY <2>1 DEF Entries
    <3> QED
      BY <3>1, <3>2, <3>3
  <2>3. \/ \E w \in ws, x \in argo \cup {seen[r]["argo"]} : pre' = [t \in Gated |-> IF t = "ws" THEN w ELSE x]
        \/ UNCHANGED pre
    BY <1>8 DEF Install
  <2> HIDE DEF ws, argo
  <2>4. pre' \in Settings
    BY <1>1, <2>2, <2>3 DEF Settings, Typed
  <2>5. shell' \in BOOLEAN /\ Goto(r, "done") /\ UNCHANGED <<tables, mu, saved>>
    BY <1>1, <1>8 DEF Install, Typed
  <2> QED
    BY <2>4, <2>5, PortsEnds DEF tables
<1> QED
  BY <1>3, <1>5, <1>6, <1>7, <1>8 DEF Shell

LEMMA PortsNext == PortsInv /\ DomainsInv /\ [Next]_vars => PortsInv'
<1> SUFFICES ASSUME PortsInv, DomainsInv, [Next]_vars PROVE PortsInv'
  OBVIOUS
<1>1. CASE UNCHANGED vars
  BY <1>1 DEF vars, tables, PortsInv, Typed, Carries
<1>2. ASSUME NEW r \in Requests, Arrive(r) \/ Panel(r) \/ Shell(r) PROVE PortsInv'
  BY <1>2, PortsArrive, PortsLock, PortsSet, PortsCheck, PortsApply, PortsReconcile, PortsShell DEF Panel
<1> QED
  BY <1>1, <1>2 DEF Next, Served

----------------------------------------------------------------------------
(* Every step keeps DomainsInv.                                            *)

\* A step of r that changes neither the rows nor the setting.
LEMMA DomainsAlone ==
    ASSUME DomainsInv, NEW r \in Requests, Alone(r), UNCHANGED <<nodes, pre, shell>>,
           ~shell => Relies(r)'
    PROVE  DomainsInv'
<1> SUFFICES ASSUME ~shell PROVE /\ Matches(nodes, pre)' /\ \A g \in Gated : pre'[g].on => pre'[g].domain # None
                                 /\ \A q \in Requests : Relies(q)'
  BY DEF DomainsInv
<1>1. ASSUME NEW q \in Requests \ {r} PROVE Relies(q)'
  <2>1. Relies(q)
    BY DEF DomainsInv
  <2> QED
    BY <2>1 DEF Relies, Alone
<1> QED
  BY <1>1 DEF DomainsInv

LEMMA DomainsEnds ==
    ASSUME PortsInv, DomainsInv, NEW r \in Requests, Goto(r, "done"), UNCHANGED <<nodes, pre, shell, mu, saved>>
    PROVE  DomainsInv'
<1>1. Alone(r) /\ at'[r] = "done"
  BY Ends DEF PortsInv
<1>2. Relies(r)'
  BY <1>1 DEF Relies
<1> QED
  BY <1>1, <1>2, DomainsAlone

\* The holder of the settings lock writes the setting: no other request relies
\* on the entry, and the nodes that are on still match it.
LEMMA DomainsSetting ==
    ASSUME PortsInv, DomainsInv, NEW r \in Requests, settings = r, Goto(r, "done"),
           UNCHANGED <<nodes, shell, mu, saved>>,
           ~shell => Matches(nodes, pre') /\ \A g \in Gated : pre'[g].on => pre'[g].domain # None
    PROVE  DomainsInv'
<1> SUFFICES ASSUME ~shell PROVE \A q \in Requests : Relies(q)'
  BY DEF DomainsInv
<1>1. Alone(r) /\ at'[r] = "done"
  BY Ends DEF PortsInv
<1>2. Relies(r)'
  BY <1>1 DEF Relies
<1>3. ASSUME NEW q \in Requests \ {r} PROVE Relies(q)'
  <2>1. Relies(q) /\ Carries(q)
    BY DEF DomainsInv, PortsInv
  <2>2. /\ at'[q] = at[q] /\ req'[q] = req[q] /\ seen'[q] = seen[q] /\ vet'[q] = vet[q] /\ saved'[q] = saved[q]
    BY <1>1 DEF Alone
  <2>3. at[q] # "check" /\ (at[q] \in {"apply", "busy"} => req[q].op \notin Locking)
    BY <2>1 DEF Carries
  <2>4. ASSUME at[q] = "busy" PROVE MatchesBoth(saved[q][1], nodes, pre') /\ Kept(saved[q][1], nodes)
    <3>1. Kept(saved[q][1], nodes) /\ Matches(nodes, pre')
      BY <2>1, <2>3, <2>4 DEF Relies
    <3> QED
      BY <3>1 DEF Kept, Matches, MatchesBoth
  <2> QED
    BY <2>2, <2>3, <2>4 DEF Relies
<1> QED
  BY <1>2, <1>3

\* Another request writes rows, or puts rows back, while r is at its check.
Unshaken(t) ==
    \A i \in Checked(t) : i \in Checked(nodes) /\ t[i].proto = nodes[i].proto /\ t[i].domain = nodes[i].domain

LEMMA DomainsRows ==
    ASSUME PortsInv, DomainsInv, NEW r \in Requests, NEW t, nodes' = t, UNCHANGED <<pre, shell>>, Alone(r),
           mu \in {r, None}, at[r] \in {"apply", "busy"}, ~shell => Matches(t, pre) /\ Relies(r)',
           ~shell /\ req[r].op \notin Locking => Unshaken(t)
    PROVE  DomainsInv'
<1> SUFFICES ASSUME ~shell PROVE \A q \in Requests \ {r} : Relies(q)'
  BY DEF DomainsInv
<1>1. ASSUME NEW q \in Requests \ {r} PROVE Relies(q)'
  <2>1. Relies(q) /\ Carries(q) /\ Carries(r) /\ None \notin Requests
    BY PortsAssumption DEF DomainsInv, PortsInv
  <2>2. /\ at'[q] = at[q] /\ req'[q] = req[q] /\ seen'[q] = seen[q] /\ vet'[q] = vet[q] /\ saved'[q] = saved[q]
    BY DEF Alone
  <2>3. at[q] # "busy"
    BY <2>1 DEF Carries
  <2>4. at[q] = "check" => Unshaken(t)
    BY <2>1 DEF Carries
  <2> QED
    BY <2>1, <2>2, <2>3, <2>4 DEF Relies, Unshaken
<1> QED
  BY <1>1

LEMMA DomainsWrite ==
    ASSUME PortsInv, DomainsInv, NEW r \in Requests, at[r] = "apply", mu = None,
           NEW t, NEW s, Write(r, t, s), Sound(r, t)
    PROVE  DomainsInv'
<1>1. Typed /\ None \notin Requests
  BY PortsAssumption DEF PortsInv
<1>2. /\ nodes' = t /\ start' = s /\ mu' = r
      /\ saved' = [saved EXCEPT ![r] = <<nodes, start>>]
      /\ at' = [at EXCEPT ![r] = "busy"]
      /\ UNCHANGED <<pre, settings, req, seen, vet, shell>>
  BY DEF Write
<1>3. at'[r] = "busy" /\ saved'[r][1] = nodes /\ Alone(r)
  BY <1>1, <1>2 DEF Typed, Alone
<1>4. ~shell => MatchesBoth(nodes, t, pre)
  BY DEF DomainsInv, Matches, MatchesBoth
<1>5. ~shell => Relies(r)'
  BY <1>2, <1>3, <1>4 DEF Relies, Sound
<1>6. req[r].op \notin Locking => Unshaken(t)
  BY DEF Sound, Kept, Unshaken
<1>7. ~shell => Matches(t, pre)
  BY DEF Sound
<1> QED
  BY <1>2, <1>3, <1>5, <1>6, <1>7, DomainsRows

LEMMA DomainsReconcile ==
    ASSUME PortsInv, DomainsInv, NEW r \in Requests, Reconcile(r)
    PROVE  DomainsInv'
<1>1. Typed /\ at[r] = "busy" /\ mu = r /\ saved[r] \in Tables \X Ports /\ Fit(saved[r][1])
  BY DEF PortsInv, Carries, Reconcile
<1>2. /\ saved' = [saved EXCEPT ![r] = None] /\ mu' = None
      /\ Goto(r, "done") /\ UNCHANGED <<pre, shell>>
  BY DEF Reconcile
<1>3. Alone(r) /\ at'[r] = "done"
  <2>1. \A q \in Requests \ {r} : saved'[q] = saved[q]
    BY <1>1, <1>2 DEF Typed
  <2> QED
    BY <1>1, <1>2, <2>1, Ends
<1>4. Relies(r)'
  BY <1>3 DEF Relies
<1>5. CASE nodes' = nodes
  BY <1>2, <1>3, <1>4, <1>5, DomainsAlone
<1>6. CASE nodes' = PutBack(saved[r][1])
  <2> DEFINE old == saved[r][1]
             t == PutBack(old)
  <2>1. \A i \in Checked(t) : i \in Checked(old) \cap On(nodes) /\ t[i] = old[i]
    BY <1>1, PutBackIs DEF Typed
  <2>2. ~shell => /\ MatchesBoth(old, nodes, pre)
                  /\ req[r].op \notin Locking => Kept(old, nodes)
    BY <1>1 DEF DomainsInv, Relies
  <2> HIDE DEF t, old
  <2>3. ~shell => Matches(t, pre)
    BY <2>1, <2>2 DEF Matches, MatchesBoth
  <2>4. ~shell /\ req[r].op \notin Locking => Unshaken(t)
    BY <2>1, <2>2 DEF Kept, Unshaken
  <2>5. nodes' = t
    BY <1>6 DEF t, old
  <2> QED
    BY <1>1, <1>2, <1>3, <1>4, <2>3, <2>4, <2>5, DomainsRows
<1> QED
  BY <1>5, <1>6 DEF Reconcile, tables

LEMMA DomainsArrive ==
    ASSUME PortsInv, DomainsInv, NEW r \in Requests, Arrive(r)
    PROVE  DomainsInv'
<1>1. Typed
  BY DEF PortsInv
<1>2. PICK a \in Inputs :
        /\ req' = [req EXCEPT ![r] = a]
        /\ at' = [at EXCEPT ![r] = IF a.op \in Locking THEN "lock"
                                   ELSE IF a.op \in {"configure", "install"} THEN a.op ELSE "apply"]
        /\ vet' = [vet EXCEPT ![r] = IF a.op = "clone" THEN nodes[a.id] ELSE None]
  BY DEF Arrive
<1>3. UNCHANGED <<nodes, start, pre, settings, mu, seen, saved, shell>>
  BY DEF Arrive, tables
<1>4. /\ req'[r] = a /\ at'[r] \in {"lock", "configure", "install", "apply"}
      /\ at'[r] = "apply" => a.op \notin Locking
  BY <1>1, <1>2 DEF Typed
<1>5. Alone(r)
  BY <1>1, <1>2, <1>3 DEF Alone, Typed
<1>6. Relies(r)'
  BY <1>4 DEF Relies
<1> QED
  BY <1>3, <1>5, <1>6, DomainsAlone

LEMMA DomainsLock ==
    ASSUME PortsInv, DomainsInv, NEW r \in Requests, Lock(r)
    PROVE  DomainsInv'
<1> DEFINE a == req[r]
           missing == a.op \in {"update_on", "enable"} /\ nodes[a.id] = None
           refused == a.op \in {"verify", "clear"} /\ Depended(a, pre[a.proto])
           c == Candidate(a)
<1>1. /\ Typed /\ at[r] = "lock" /\ settings = None /\ a \in Inputs /\ a.op \in Locking
      /\ None \notin Requests
  BY PortsAssumption DEF PortsInv, Carries, Lock
<1>2. /\ at' = [at EXCEPT ![r] = IF missing \/ refused THEN "done"
                                 ELSE IF c.proto \in Gated THEN "check" ELSE "apply"]
      /\ settings' = IF missing \/ refused THEN None ELSE r
      /\ req' = IF missing \/ refused THEN [req EXCEPT ![r] = Nothing] ELSE req
      /\ seen' = [seen EXCEPT ![r] = IF missing \/ refused THEN None ELSE pre]
      /\ vet' = [vet EXCEPT ![r] = IF missing \/ refused \/ a.op \in {"verify", "clear"} THEN None
                                   ELSE c]
      /\ UNCHANGED <<nodes, start, pre, mu, saved, shell>>
  BY DEF Lock, tables
<1>3. ~(missing \/ refused) => (a.op \in Setting => c.proto \in Gated)
  BY <1>1, CandidateIs
<1>4. ~shell /\ ~refused /\ a.op \in Setting =>
        \A i \in Checked(nodes) :
          nodes[i].proto = a.proto => (a.op = "verify" /\ nodes[i].domain = a.domain)
  BY DEF DomainsInv, Matches, Depended, InUse, Checked, Setting
<1> HIDE DEF missing, refused, c
<1>5. Alone(r)
  BY <1>1, <1>2 DEF Typed, Alone
<1>6. CASE missing \/ refused
  <2>1. at'[r] = "done"
    BY <1>1, <1>2, <1>6 DEF Typed
  <2> QED
    BY <1>2, <1>5, <2>1, DomainsAlone DEF Relies
<1>7. CASE ~(missing \/ refused)
  <2>1. /\ at'[r] = IF c.proto \in Gated THEN "check" ELSE "apply"
        /\ seen'[r] = pre /\ vet'[r] = (IF a.op \in {"verify", "clear"} THEN None ELSE c) /\ req' = req
    BY <1>1, <1>2, <1>7 DEF Typed
  <2>2. ~shell => Relies(r)'
    BY <1>2, <1>3, <1>4, <1>7, <2>1 DEF Relies, Setting
  <2> QED
    BY <1>2, <1>5, <2>2, DomainsAlone
<1> QED
  BY <1>6, <1>7

LEMMA DomainsSet ==
    ASSUME PortsInv, DomainsInv, NEW r \in Requests, SetPrerequisite(r)
    PROVE  DomainsInv'
<1> DEFINE a == req[r]
<1>1. /\ settings = r /\ at[r] = "check" /\ a.op \in Setting /\ Goto(r, "done")
      /\ UNCHANGED <<nodes, shell, mu, saved>> /\ None \notin Domains
  BY PortsAssumption DEF PortsInv, Carries, SetPrerequisite, tables, Setting, Locking
<1>2. /\ a.proto \in Gated
      /\ \/ pre' = pre
         \/ /\ \A g \in Gated \ {a.proto} : pre'[g] = seen[r][g]
            /\ \/ a.op = "clear" /\ pre'[a.proto] = Cleared
               \/ a.op = "verify" /\ a.domain \in Domains /\ pre'[a.proto].domain = a.domain
  BY SetWrites
<1>3. ASSUME ~shell PROVE Matches(nodes, pre') /\ \A g \in Gated : pre'[g].on => pre'[g].domain # None
  <2>1. /\ seen[r] = pre /\ Matches(nodes, pre) /\ \A g \in Gated : pre[g].on => pre[g].domain # None
        /\ \A i \in Checked(nodes) : nodes[i].proto = a.proto => a.op = "verify" /\ nodes[i].domain = a.domain
    BY <1>1, <1>3 DEF DomainsInv, Relies
  <2>2. Cleared.on = FALSE
    BY DEF Cleared
  <2>3. \A g \in Gated : pre'[g].on => pre'[g].domain # None
    BY <1>1, <1>2, <2>1, <2>2
  <2>4. Matches(nodes, pre')
    BY <1>2, <2>1 DEF Matches, Checked
  <2> QED
    BY <2>3, <2>4
<1> QED
  BY <1>1, <1>3, DomainsSetting

LEMMA DomainsCheck ==
    ASSUME PortsInv, DomainsInv, NEW r \in Requests, CheckPrerequisite(r)
    PROVE  DomainsInv'
<1> DEFINE v == vet[r]
<1>1. /\ settings = r /\ at[r] = "check" /\ UNCHANGED <<nodes, shell, mu, saved>> /\ Typed
  BY DEF PortsInv, Carries, CheckPrerequisite, tables
<1>2. /\ v.proto \in Gated
      /\ \/ pre' = pre
         \/ /\ \A g \in Gated \ {v.proto} : pre'[g] = seen[r][g]
            /\ pre'[v.proto].domain = seen[r][v.proto].domain /\ ~pre'[v.proto].on
      /\ \/ Goto(r, "done")
         \/ /\ Goto(r, "apply") /\ pre' = pre
            /\ seen[r][v.proto].on /\ seen[r][v.proto].domain = v.domain
  BY CheckWrites
<1>3. ~shell => /\ seen[r] = pre /\ Matches(nodes, pre)
                /\ \A g \in Gated : pre[g].on => pre[g].domain # None
  BY <1>1 DEF DomainsInv, Relies
<1>4. CASE Goto(r, "done")
  <2>1. ASSUME ~shell PROVE Matches(nodes, pre') /\ \A g \in Gated : pre'[g].on => pre'[g].domain # None
    <3>1. \A g \in Gated : pre'[g].domain = pre[g].domain /\ (pre'[g].on => pre[g].on)
      BY <1>2, <1>3, <2>1
    <3> QED
      BY <1>3, <2>1, <3>1 DEF Matches, Checked
  <2> QED
    BY <1>1, <1>4, <2>1, DomainsSetting
<1>5. CASE Goto(r, "apply") /\ pre' = pre /\ seen[r][v.proto].on /\ seen[r][v.proto].domain = v.domain
  <2>1. Alone(r) /\ at'[r] = "apply" /\ UNCHANGED <<settings, req, seen, vet>>
    BY <1>1, <1>5, GoesOn DEF Steps
  <2>2. ~shell => Relies(r)'
    BY <1>1, <1>2, <1>3, <1>5, <2>1 DEF Relies
  <2> QED
    BY <1>1, <1>5, <2>1, <2>2, DomainsAlone
<1> QED
  BY <1>2, <1>4, <1>5

LEMMA DomainsApply ==
    ASSUME PortsInv, DomainsInv, NEW r \in Requests, Apply(r)
    PROVE  DomainsInv'
<1>1. CASE Refuse(r)
  BY <1>1, DomainsEnds DEF Refuse, tables
<1>2. CASE \E t, s : s \in Ports /\ Write(r, t, s) /\ Sound(r, t)
  BY <1>2, DomainsWrite DEF Apply
<1> QED
  BY <1>1, <1>2, ApplySound

LEMMA DomainsShell ==
    ASSUME PortsInv, DomainsInv, NEW r \in Requests, Shell(r)
    PROVE  DomainsInv'
<1>1. Typed
  BY DEF PortsInv
<1>2. CASE (WriteArgo(r) \/ Install(r)) /\ shell'
  BY <1>2 DEF DomainsInv
<1>t. WriteArgo(r) => shell'
  BY DEF WriteArgo
<1>u. (Install(r) /\ ~shell') => (Goto(r, "done") /\ UNCHANGED <<nodes, pre, mu, saved, shell>>)
  BY <1>1 DEF Install, tables, Typed
<1>v. (Install(r) /\ ~shell') => DomainsInv'
  BY <1>u, DomainsEnds
<1>3. CASE Configure(r) \/ ReadArgo(r) \/ ReadInstall(r)
  <2>1. UNCHANGED <<nodes, pre, mu, saved, shell>>
    BY <1>3 DEF Configure, ReadArgo, ReadInstall, tables
  <2>2. CASE Goto(r, "done")
    BY <2>1, <2>2, DomainsEnds
  <2>3. CASE Goto(r, "read")
    <3>1. Alone(r) /\ at'[r] = "read"
      BY <1>1, <2>1, <2>3, GoesOn DEF Steps
    <3> QED
      BY <2>1, <3>1, DomainsAlone DEF Relies
  <2>4. CASE /\ at' = [at EXCEPT ![r] = "write"] \/ at' = [at EXCEPT ![r] = "installing"]
             /\ seen' = [seen EXCEPT ![r] = pre] /\ UNCHANGED <<settings, req, vet>>
    <3>1. Alone(r) /\ at'[r] \in {"write", "installing"}
      BY <1>1, <2>1, <2>4 DEF Alone, Typed
    <3> QED
      BY <2>1, <3>1, DomainsAlone DEF Relies
  <2> QED
    BY <1>3, <2>2, <2>3, <2>4 DEF Configure, ReadArgo, ReadInstall
<1> QED
  BY <1>2, <1>3, <1>t, <1>v DEF Shell

LEMMA DomainsNext == PortsInv /\ DomainsInv /\ [Next]_vars => DomainsInv'
<1> SUFFICES ASSUME PortsInv, DomainsInv, [Next]_vars PROVE DomainsInv'
  OBVIOUS
<1>1. CASE UNCHANGED vars
  BY <1>1 DEF vars, tables, DomainsInv, Relies
<1>2. ASSUME NEW r \in Requests, Arrive(r) \/ Panel(r) \/ Shell(r) PROVE DomainsInv'
  BY <1>2, DomainsArrive, DomainsLock, DomainsSet, DomainsCheck, DomainsApply, DomainsReconcile, DomainsShell
  DEF Panel
<1> QED
  BY <1>1, <1>2 DEF Next, Served

LEMMA PortsInit == Init => PortsInv /\ DomainsInv
<1> SUFFICES ASSUME Init PROVE PortsInv /\ DomainsInv
  OBVIOUS
<1>1. PICK c \in InitStates : nodes = c[1] /\ pre = c[2]
  BY DEF Init
<1>2. nodes \in Tables /\ pre \in Settings
  BY <1>1, PortsAssumption DEF Tables, Settings
<1>3. Fit(nodes) /\ Matches(nodes, pre) /\ \A g \in Gated : pre[g].on => pre[g].domain # None
  BY <1>1, StatesAssumption
<1>4. Typed
  <2>1. 1 \in Ports /\ "idle" \in Steps
    BY PortsAssumption DEF Ports, Steps
  <2> QED
    BY <1>2, <2>1 DEF Init, Typed
<1>5. ASSUME NEW r \in Requests PROVE Carries(r) /\ Relies(r)
  <2>1. at[r] = "idle"
    BY DEF Init
  <2> QED
    BY <2>1 DEF Carries, Relies
<1> QED
  BY <1>3, <1>4, <1>5 DEF PortsInv, DomainsInv

----------------------------------------------------------------------------
(* The theorems.                                                           *)

\* The types, what each request carries and holds, that ports fit, and that
\* nodes and requests agree with the setting, at every moment.
THEOREM PortsHold == Spec => [](PortsInv /\ DomainsInv)
BY PortsInit, PortsNext, DomainsNext, PTL DEF Spec

\* For any requests that come in any order and fail anywhere, nodes that are on
\* have ports of their own that no stranger has, and WS nodes ports that
\* Cloudflare serves.
THEOREM PortsFitHolds == Spec => []PortsFit
<1>1. PortsInv => PortsFit
  BY DEF PortsInv, PortsFit
<1> QED
  BY <1>1, PortsHold, PTL

\* As long as only the panel writes the setting, a WS or Argo node that came on
\* through checkProtocolPrerequisite has the domain that is stored as verified.
THEOREM EnabledMatchesHolds == Spec => []EnabledMatches
<1>1. DomainsInv => EnabledMatches
  BY DEF DomainsInv, EnabledMatches
<1> QED
  BY <1>1, PortsHold, PTL

\* Whatever nodes there are, SetStartPort gives no port twice, leaves Argo
\* nodes where they are and skips no free port.
THEOREM StartPortPacksHolds == Spec => []StartPortPacks
<1>1. PortsInv => StartPortPacks
  BY Packs DEF PortsInv, Typed
<1> QED
  BY <1>1, PortsHold, PTL
=============================================================================
