------------------------ MODULE AdminSessionsProofs ------------------------
(***************************************************************************)
(* Three properties of AdminSessions for any number of logins, sources,    *)
(* sessions and streams, and for any limits: the panel's change of the     *)
(* password revokes, the limiter's counters are exact, and no source has   *)
(* more wrong passwords compared within the window than its limit.         *)
(***************************************************************************)
EXTENDS AdminSessions, FiniteSetTheorems, SequenceTheorems, WellFoundedInduction, TLAPS

Places == {"idle", "reserved", "locked", "right", "closing"}

----------------------------------------------------------------------------
(* Revocation.  The write lock keeps a change of the password away from    *)
(* the logins between their comparison and their session, so what such a   *)
(* login matched is at least as new as the panel's last change.            *)

RowsTyped ==
    /\ clock \in 0..MaxTime /\ pwd \in Gens /\ panel \in Gens /\ issued \in 0..MaxToken
    /\ sessions \in [Tokens -> Sessions \cup {None}]
    /\ pc \in [Attempts -> Places] /\ seen \in [Attempts -> Gens]
Excluded == writer => \A a \in Attempts : pc[a] \notin {"locked", "right"}
MatchedIsNew == \A a \in Attempts : pc[a] = "right" => panel <= seen[a]
RevokeInv == RowsTyped /\ panel <= pwd /\ Excluded /\ MatchedIsNew /\ PanelRevokes

LEMMA RevokeInit == Init => RevokeInv
BY SessionAssumption DEF Init, RevokeInv, RowsTyped, Excluded, MatchedIsNew, PanelRevokes,
    NoSessions, Places, Gens

LEMMA RevokeStep == RevokeInv /\ [Next]_vars => RevokeInv'
<1> SUFFICES ASSUME RevokeInv, [Next]_vars PROVE RevokeInv'
  OBVIOUS
<1> USE SessionAssumption, NoneAssumption DEF RevokeInv, RowsTyped, Places
<1>1. ASSUME NEW a \in Attempts, NEW s \in Sources, Reserve(a, s) PROVE RevokeInv'
  <2>1. /\ UNCHANGED <<clock, pwd, panel, sessions, issued, seen, writer>>
        /\ pc[a] = "idle"
        /\ pc' = pc \/ pc' = [pc EXCEPT ![a] = "reserved"]
    BY <1>1 DEF Reserve, table, login
  <2>2. RowsTyped' /\ Excluded' /\ MatchedIsNew'
    BY <2>1 DEF Excluded, MatchedIsNew
  <2> QED
    BY <2>1, <2>2 DEF PanelRevokes
<1>2. ASSUME NEW a \in Attempts, Lock(a) PROVE RevokeInv'
  <2>1. RowsTyped' /\ Excluded' /\ MatchedIsNew'
    BY <1>2 DEF Lock, table, Excluded, MatchedIsNew
  <2> QED
    BY <1>2, <2>1 DEF Lock, table, PanelRevokes
<1>3. ASSUME NEW a \in Attempts, Compare(a) PROVE RevokeInv'
  <2>1. RowsTyped' /\ Excluded'
    BY <1>3 DEF Compare, table, Excluded
  <2>2. MatchedIsNew'
    BY <1>3 DEF Compare, table, MatchedIsNew
  <2> QED
    BY <1>3, <2>1, <2>2 DEF Compare, table, PanelRevokes
<1>4. ASSUME NEW a \in Attempts, CreateSession(a) PROVE RevokeInv'
  <2>1. Excluded' /\ MatchedIsNew'
    BY <1>4 DEF CreateSession, Excluded, MatchedIsNew
  <2>2. [gen |-> seen[a], exp |-> clock + TTL] \in Sessions
    BY DEF Sessions
  <2>3. RowsTyped'
    BY <1>4, <2>2 DEF CreateSession, Tokens, Gens
  <2>4. PanelRevokes'
    BY <1>4, <2>2 DEF CreateSession, PanelRevokes, MatchedIsNew
  <2> QED
    BY <1>4, <2>1, <2>3, <2>4 DEF CreateSession
<1>5. ASSUME NEW a \in Attempts, Finish(a) PROVE RevokeInv'
  <2>1. UNCHANGED <<clock, pwd, panel, sessions, issued, seen, writer>> /\ pc' = [pc EXCEPT ![a] = "idle"]
    BY <1>5 DEF Finish, Forget, table
  <2>2. RowsTyped' /\ Excluded' /\ MatchedIsNew'
    BY <2>1 DEF Excluded, MatchedIsNew
  <2> QED
    BY <2>1, <2>2 DEF PanelRevokes
<1>6. ASSUME BeginChange PROVE RevokeInv'
  <2>1. UNCHANGED <<clock, pwd, panel, sessions, issued, seen, pc>> /\ Readers = {}
    BY <1>6 DEF BeginChange, table, login
  <2>2. Excluded'
    BY <2>1 DEF Excluded, Readers
  <2> QED
    BY <2>1, <2>2 DEF PanelRevokes, MatchedIsNew
<1>7. ASSUME ChangePassword PROVE RevokeInv'
  <2>1. Excluded'
    BY <1>7 DEF ChangePassword, Excluded
  <2>2. MatchedIsNew'
    BY <1>7 DEF ChangePassword, Excluded, MatchedIsNew, login
  <2>3. RowsTyped' /\ (panel <= pwd)' /\ PanelRevokes'
    BY <1>7 DEF ChangePassword, NoSessions, PanelRevokes, login, Gens
  <2> QED
    BY <2>1, <2>2, <2>3
<1>8. ASSUME ResetPassword PROVE RevokeInv'
  <2>1. RowsTyped' /\ (panel <= pwd)' /\ PanelRevokes'
    BY <1>8 DEF ResetPassword, NoSessions, PanelRevokes, login, Gens
  <2> QED
    BY <1>8, <2>1 DEF ResetPassword, Excluded, MatchedIsNew, login
<1>9. ASSUME Logout PROVE RevokeInv'
  <2>1. RowsTyped' /\ PanelRevokes'
    BY <1>9 DEF Logout, PanelRevokes, login
  <2> QED
    BY <1>9, <2>1 DEF Logout, Excluded, MatchedIsNew, login
<1>10. ASSUME UNCHANGED <<pwd, panel, sessions, issued, seen, pc, writer>>, clock' \in 0..MaxTime
       PROVE RevokeInv'
  BY <1>10 DEF Excluded, MatchedIsNew, PanelRevokes
<1>11. ASSUME NEW e \in Streams, OpenStream(e) \/ Poll(e) PROVE RevokeInv'
  BY <1>10, <1>11 DEF OpenStream, Poll, table, login
<1>12. ASSUME Tick PROVE RevokeInv'
  BY <1>10, <1>12 DEF Tick, table, login
<1>13. ASSUME Restart PROVE RevokeInv'
  BY <1>13 DEF Restart, table, Excluded, MatchedIsNew, PanelRevokes, Gens
<1>14. ASSUME UNCHANGED vars PROVE RevokeInv'
  BY <1>10, <1>14 DEF vars, table, login
<1> QED
  BY <1>1, <1>2, <1>3, <1>4, <1>5, <1>6, <1>7, <1>8, <1>9, <1>11, <1>12, <1>13, <1>14 DEF Next, Proceed

\* No session made with a password that the panel has replaced exists, however
\* logins, changes, commands and restarts interleave (Service.Login,
\* Service.ChangePassword).
THEOREM PanelChangeRevokes == Spec => []PanelRevokes
<1>1. RevokeInv => PanelRevokes
  BY DEF RevokeInv
<1> QED
  BY RevokeInit, RevokeStep, <1>1, PTL DEF Spec

----------------------------------------------------------------------------
(* The limiter.  A source's logins in flight are exactly those whose place *)
(* is not idle and whose source it is; each step changes one of them.      *)

Of(s) == {a \in InFlight : src[a] = s}
CountersTyped ==
    /\ pc \in [Attempts -> Places] /\ src \in [Attempts -> Sources]
    /\ busy \in [Sources -> Nat] /\ active \in Nat
CountInv == CountersTyped /\ Accounted

LEMMA AnySourceIsOne == AnySource \in Sources
BY SessionAssumption DEF AnySource

LEMMA FiniteFlight == IsFiniteSet(InFlight) /\ \A s \in Sources : IsFiniteSet(Of(s))
<1>1. InFlight \subseteq Attempts /\ \A s \in Sources : Of(s) \subseteq Attempts
  BY DEF InFlight, Of
<1> QED
  BY <1>1, FS_Subset, SessionAssumption

LEMMA CountInit == Init => CountInv
<1> SUFFICES ASSUME Init PROVE CountInv
  OBVIOUS
<1>1. CountersTyped
  BY AnySourceIsOne DEF Init, CountersTyped, Places
<1>2. InFlight = {}
  BY DEF Init, InFlight
<1>3. \A s \in Sources : {a \in InFlight : src[a] = s} = {}
  BY <1>2
<1> QED
  BY <1>1, <1>2, <1>3, FS_EmptySet DEF Init, CountInv, Accounted

\* A step that moves no login in or out of flight.
LEMMA SameFlight ==
    ASSUME CountInv, UNCHANGED <<src, busy, active>>, pc' \in [Attempts -> Places],
           \A a \in Attempts : pc'[a] = "idle" <=> pc[a] = "idle"
    PROVE  CountInv'
<1>1. InFlight' = InFlight
  BY DEF InFlight
<1> QED
  BY <1>1 DEF CountInv, CountersTyped, Accounted

LEMMA CountStep == CountInv /\ [Next]_vars => CountInv'
<1> SUFFICES ASSUME CountInv, [Next]_vars PROVE CountInv'
  OBVIOUS
<1> USE DEF CountInv, CountersTyped
<1>1. ASSUME NEW a \in Attempts, NEW s \in Sources, Reserve(a, s) PROVE CountInv'
  <2>1. CASE UNCHANGED <<busy, active, login>>
    BY <2>1, SameFlight DEF login
  <2>2. CASE /\ pc[a] = "idle"
             /\ busy' = [busy EXCEPT ![s] = @ + 1] /\ active' = active + 1
             /\ pc' = [pc EXCEPT ![a] = "reserved"] /\ src' = [src EXCEPT ![a] = s]
    <3>1. CountersTyped'
      BY <2>2 DEF Places
    <3>2. a \notin InFlight /\ InFlight' = InFlight \cup {a}
      BY <2>2 DEF InFlight
    <3>3. Cardinality(InFlight') = active'
      BY <2>2, <3>2, FiniteFlight, FS_AddElement DEF Accounted
    <3>4. ASSUME NEW x \in Sources PROVE busy'[x] = Cardinality(Of(x)')
      <4>1. CASE x = s
        <5>1. a \notin Of(x) /\ Of(x)' = Of(x) \cup {a}
          BY <2>2, <3>2, <4>1 DEF Of, InFlight
        <5>2. Cardinality(Of(x)') = Cardinality(Of(x)) + 1
          BY <5>1, FiniteFlight, FS_AddElement
        <5> QED
          BY <2>2, <4>1, <5>2 DEF Accounted, Of
      <4>2. CASE x # s
        <5>1. Of(x)' = Of(x)
          BY <2>2, <3>2, <4>2 DEF Of, InFlight
        <5> QED
          BY <2>2, <4>2, <5>1 DEF Accounted, Of
      <4> QED
        BY <4>1, <4>2
    <3> QED
      BY <3>1, <3>3, <3>4 DEF Accounted, Of
  <2> QED
    BY <1>1, <2>1, <2>2 DEF Reserve
<1>2. ASSUME NEW a \in Attempts, Lock(a) \/ Compare(a) \/ CreateSession(a) PROVE CountInv'
  <2>1. /\ UNCHANGED <<src, busy, active>> /\ pc[a] # "idle"
        /\ \E p \in Places \ {"idle"} : pc' = [pc EXCEPT ![a] = p]
    BY <1>2 DEF Lock, Compare, CreateSession, limiter, Places
  <2>2. /\ pc' \in [Attempts -> Places]
        /\ \A x \in Attempts : pc'[x] = "idle" <=> pc[x] = "idle"
    BY <2>1
  <2> QED
    BY <2>1, <2>2, SameFlight
<1>3. ASSUME NEW a \in Attempts, Finish(a) PROVE CountInv'
  <2> DEFINE s == src[a]
  <2>1. /\ pc[a] = "closing" /\ pc' = [pc EXCEPT ![a] = "idle"]
        /\ busy' = [busy EXCEPT ![s] = @ - 1] /\ active' = active - 1
        /\ src' = [src EXCEPT ![a] = AnySource]
    BY <1>3, Zenon DEF Finish, Forget
  <2>2. s \in Sources /\ a \in InFlight /\ a \in Of(s) /\ InFlight' = InFlight \ {a}
    BY <2>1 DEF InFlight, Of
  <2>3. /\ Cardinality(InFlight') = active' /\ active' \in Nat
    <3>1. /\ Cardinality(InFlight \ {a}) = Cardinality(InFlight) - 1
          /\ Cardinality(InFlight \ {a}) \in Nat
      BY <2>2, FiniteFlight, FS_RemoveElement, FS_CardinalityType
    <3> QED
      BY <2>1, <2>2, <3>1 DEF Accounted
  <2>4. ASSUME NEW x \in Sources PROVE busy'[x] = Cardinality(Of(x)') /\ busy'[x] \in Nat
    <3>1. CASE x = s
      <4>1. Of(x)' = Of(x) \ {a}
        BY <2>1, <2>2, <3>1 DEF Of, InFlight
      <4>2. /\ Cardinality(Of(x) \ {a}) = Cardinality(Of(x)) - 1
            /\ Cardinality(Of(x) \ {a}) \in Nat
        BY <2>2, <3>1, FiniteFlight, FS_RemoveElement, FS_CardinalityType
      <4> QED
        BY <2>1, <2>2, <3>1, <4>1, <4>2 DEF Accounted, Of
    <3>2. CASE x # s
      <4>1. Of(x)' = Of(x)
        BY <2>1, <2>2, <3>2 DEF Of, InFlight
      <4> QED
        BY <2>1, <2>2, <3>2, <4>1 DEF Accounted, Of
    <3> QED
      BY <3>1, <3>2
  <2>5. CountersTyped'
    BY <2>1, <2>2, <2>3, <2>4, AnySourceIsOne DEF Places
  <2> QED
    BY <2>3, <2>4, <2>5 DEF Accounted, Of
<1>4. ASSUME BeginChange \/ ChangePassword \/ ResetPassword \/ Logout \/ Tick PROVE CountInv'
  BY <1>4, SameFlight DEF BeginChange, ChangePassword, ResetPassword, Logout, Tick, limiter, login
<1>5. ASSUME NEW e \in Streams, OpenStream(e) \/ Poll(e) PROVE CountInv'
  BY <1>5, SameFlight DEF OpenStream, Poll, limiter, login
<1>6. ASSUME Restart PROVE CountInv'
  <2>1. CountersTyped'
    BY <1>6, AnySourceIsOne DEF Restart, Places
  <2>2. InFlight' = {}
    BY <1>6 DEF Restart, InFlight
  <2>3. \A s \in Sources : Of(s)' = {}
    BY <2>2 DEF Of
  <2> QED
    BY <1>6, <2>1, <2>2, <2>3, FS_EmptySet DEF Restart, Accounted, Of
<1>7. ASSUME UNCHANGED vars PROVE CountInv'
  BY <1>7, SameFlight DEF vars, limiter, login
<1> QED
  BY <1>1, <1>2, <1>3, <1>4, <1>5, <1>6, <1>7 DEF Next, Proceed

\* The limiter counts every login in flight once, for its source and in all,
\* however it ends (reserveAttempt, finishAttempt).
THEOREM CountersExact == Spec => []Accounted
<1>1. CountInv => Accounted
  BY DEF CountInv
<1> QED
  BY CountInit, CountStep, <1>1, PTL DEF Spec

----------------------------------------------------------------------------
(* The failures within the window.  RecentAt is a recursion over the        *)
(* sequence; what is needed of it is its value for <<>> and for Append,     *)
(* found by the least number for which it would not hold.                   *)

LEMMA Least ==
    ASSUME NEW T \in SUBSET Nat, T # {}
    PROVE  \E m \in T : \A k \in T : m <= k
<1> DEFINE R == {p \in Nat \X Nat : p[1] < p[2]}
<1>1. IsWellFoundedOn(R, Nat)
  BY NatLessThanWellFounded DEF OpToRel
<1> HIDE DEF R
<1>2. PICK m \in T : \A k \in T : ~(<<k, m>> \in R)
  BY <1>1, WFMin
<1>3. \A k \in T : ~(k < m)
  BY <1>2 DEF R
<1> QED
  BY <1>3


\* What the function in RecentAt is after n elements.
Turn(q, c, g, i) ==
    IF i = 0 THEN << >> ELSE IF q[i] + Window > c THEN Append(g[i - 1], q[i]) ELSE g[i - 1]
Turns(q, c, n, g) == g = [i \in 0..n |-> Turn(q, c, g, i)]

LEMMA RecentAtTurns ==
    ASSUME NEW q, NEW c, \E g : Turns(q, c, Len(q), g)
    PROVE  \E g : Turns(q, c, Len(q), g) /\ RecentAt(q, c) = g[Len(q)]
BY DEF Turns, Turn, RecentAt

LEMMA TurnsAre ==
    ASSUME NEW q, NEW c, NEW n \in Nat, NEW g, Turns(q, c, n, g)
    PROVE  \A i \in 0..n : g[i] = Turn(q, c, g, i)
BY DEF Turns

LEMMA TurnsExist ==
    ASSUME NEW q, NEW c
    PROVE  \A n \in Nat : \E g : Turns(q, c, n, g)
<1> DEFINE Bad == {n \in Nat : ~\E g : Turns(q, c, n, g)}
<1>1. SUFFICES ASSUME Bad # {} PROVE FALSE
  OBVIOUS
<1>2. PICK m \in Bad : \A k \in Bad : m <= k
  <2>1. Bad \in SUBSET Nat
    OBVIOUS
  <2> HIDE DEF Bad
  <2> QED
    BY <1>1, <2>1, Least
<1>3. m # 0
  <2>1. Turns(q, c, 0, [i \in 0..0 |-> << >>])
    BY DEF Turns, Turn
  <2> QED
    BY <2>1
<1>4. m - 1 \in Nat /\ m - 1 \notin Bad
  BY <1>2, <1>3
<1>5. PICK g : Turns(q, c, m - 1, g)
  BY <1>4
<1> DEFINE h == [i \in 0..m |-> IF i = m THEN Turn(q, c, g, m) ELSE g[i]]
<1>6. \A i \in 0..(m - 1) : h[i] = g[i] /\ g[i] = Turn(q, c, g, i)
  BY <1>4, <1>5, TurnsAre
<1>7. \A i \in 0..m : h[i] = Turn(q, c, h, i)
  <2>1. \A i \in 0..m : Turn(q, c, h, i) = Turn(q, c, g, i)
    BY <1>3, <1>4, <1>6 DEF Turn
  <2> QED
    BY <1>4, <1>6, <2>1
<1>8. Turns(q, c, m, h)
  BY <1>7 DEF Turns
<1> QED
  BY <1>8

\* One more element leaves what was there before it alone.
LEMMA TurnsAgree ==
    ASSUME NEW p, NEW q, NEW c, NEW n \in Nat, \A i \in 1..n : p[i] = q[i],
           NEW g, Turns(q, c, n, g), NEW h, Turns(p, c, n + 1, h)
    PROVE  g[n] = h[n]
<1> DEFINE Bad == {i \in 0..n : g[i] # h[i]}
<1>1. Bad = {}
  <2>1. SUFFICES ASSUME Bad # {} PROVE FALSE
    OBVIOUS
  <2>2. PICK k \in Bad : \A i \in Bad : k <= i
    <3>1. Bad \in SUBSET Nat
      OBVIOUS
    <3> HIDE DEF Bad
    <3> QED
      BY <2>1, <3>1, Least
  <2>3. g[k] = Turn(q, c, g, k)
    BY TurnsAre
  <2>4. h[k] = Turn(p, c, h, k)
    <3>1. n + 1 \in Nat /\ k \in 0..(n + 1)
      OBVIOUS
    <3> QED
      BY <3>1, TurnsAre
  <2>5. k # 0 => g[k - 1] = h[k - 1] /\ p[k] = q[k]
    BY <2>2
  <2> QED
    BY <2>3, <2>4, <2>5 DEF Turn
<1> QED
  BY <1>1

LEMMA RecentOfNone == \A c : RecentAt(<< >>, c) = << >>
<1> SUFFICES ASSUME NEW c PROVE RecentAt(<< >>, c) = << >>
  OBVIOUS
<1>1. Len(<< >>) = 0
  OBVIOUS
<1>2. PICK g : Turns(<< >>, c, 0, g) /\ RecentAt(<< >>, c) = g[0]
  BY <1>1, TurnsExist, RecentAtTurns
<1>3. 0 \in Nat /\ 0 \in 0..0
  OBVIOUS
<1>4. g[0] = Turn(<< >>, c, g, 0)
  BY <1>2, <1>3, TurnsAre
<1> QED
  BY <1>2, <1>4 DEF Turn

\* One more failure is kept, or not, after those before it.
LEMMA RecentOfAppend ==
    ASSUME NEW q \in Seq(Nat), NEW x \in Nat, NEW c
    PROVE  RecentAt(Append(q, x), c) =
               IF x + Window > c THEN Append(RecentAt(q, c), x) ELSE RecentAt(q, c)
<1>0. PICK n \in Nat : n = Len(q)
  OBVIOUS
<1>1. PICK p : p = Append(q, x)
  OBVIOUS
<1>2. Len(p) = n + 1 /\ n + 1 \in Nat /\ p[n + 1] = x /\ \A i \in 1..n : p[i] = q[i]
  BY <1>0, <1>1
<1>3. PICK g : Turns(q, c, n, g) /\ RecentAt(q, c) = g[n]
  BY <1>0, TurnsExist, RecentAtTurns
<1>4. PICK h : Turns(p, c, n + 1, h) /\ RecentAt(p, c) = h[n + 1]
  <2>1. \E h : Turns(p, c, n + 1, h)
    BY <1>2, TurnsExist
  <2>2. \E h : Turns(p, c, Len(p), h)
    BY <1>2, <2>1
  <2> QED
    BY <1>2, <2>2, RecentAtTurns
<1>5. g[n] = h[n]
  BY <1>2, <1>3, <1>4, TurnsAgree
<1>6. h[n + 1] = Turn(p, c, h, n + 1)
  BY <1>2, <1>4, TurnsAre
<1> QED
  BY <1>1, <1>2, <1>3, <1>4, <1>5, <1>6 DEF Turn

\* Sequences are made by appending.
LEMMA ByAppending ==
    ASSUME NEW S, NEW T, << >> \in T, \A q \in T, x \in S : Append(q, x) \in T
    PROVE  Seq(S) \subseteq T
<1> DEFINE Bad == {n \in Nat : \E q \in Seq(S) : Len(q) = n /\ q \notin T}
<1>1. Bad = {}
  <2>1. SUFFICES ASSUME Bad # {} PROVE FALSE
    OBVIOUS
  <2>2. PICK m \in Bad : \A k \in Bad : m <= k
    <3>1. Bad \in SUBSET Nat
      OBVIOUS
    <3> HIDE DEF Bad
    <3> QED
      BY <2>1, <3>1, Least
  <2>3. PICK q \in Seq(S) : Len(q) = m /\ q \notin T
    OBVIOUS
  <2>4. m # 0
    BY <2>3
  <2>5. PICK p : p = SubSeq(q, 1, m - 1)
    OBVIOUS
  <2>6. p \in Seq(S) /\ Len(p) = m - 1 /\ \A i \in 1..(m - 1) : p[i] = q[i]
    BY <2>3, <2>4, <2>5
  <2>7. q[m] \in S /\ Append(p, q[m]) \in Seq(S) /\ q = Append(p, q[m])
    <3>1. q[m] \in S
      BY <2>3, <2>4
    <3>2. PICK r : r = Append(p, q[m])
      OBVIOUS
    <3>3. r \in Seq(S) /\ Len(r) = m /\ r[m] = q[m] /\ \A i \in 1..(m - 1) : r[i] = p[i]
      BY <2>4, <2>6, <3>1, <3>2
    <3>4. ASSUME NEW i \in 1..m PROVE r[i] = q[i]
      <4>1. i = m \/ i \in 1..(m - 1)
        BY <2>4
      <4> QED
        BY <2>6, <3>3, <4>1
    <3>5. r = q
      BY <2>3, <3>3, <3>4, SeqEqual
    <3> QED
      BY <3>1, <3>2, <3>3, <3>5
  <2>8. p \in T
    BY <2>2, <2>4, <2>6
  <2> QED
    BY <2>3, <2>7, <2>8
<1> QED
  BY <1>1

\* What is recent was there; it is fewer as time passes; and looking at what
\* was recent before makes no difference.
LEMMA RecentKeeps ==
    ASSUME NEW S \in SUBSET Nat, NEW q \in Seq(S), NEW c \in Nat, NEW d \in Nat, c <= d
    PROVE  /\ RecentAt(q, c) \in Seq(S)
           /\ Len(RecentAt(q, d)) <= Len(RecentAt(q, c))
           /\ RecentAt(RecentAt(q, c), d) = RecentAt(q, d)
           /\ q = << >> => RecentAt(q, c) = << >>
<1> DEFINE Good(p) == /\ RecentAt(p, c) \in Seq(S) /\ RecentAt(p, d) \in Seq(S)
                      /\ Len(RecentAt(p, d)) <= Len(RecentAt(p, c))
                      /\ RecentAt(RecentAt(p, c), d) = RecentAt(p, d)
           T == {p \in Seq(S) : Good(p)}
<1>1. << >> \in T
  <2>1. RecentAt(<< >>, c) = << >> /\ RecentAt(<< >>, d) = << >>
    BY RecentOfNone
  <2>2. Len(<< >>) = 0 /\ << >> \in Seq(S)
    OBVIOUS
  <2>3. PICK z : z = << >>
    OBVIOUS
  <2>4. RecentAt(z, c) = z /\ RecentAt(z, d) = z /\ Len(z) <= Len(z) /\ z \in Seq(S)
    BY <2>1, <2>2, <2>3
  <2>5. Good(z)
    BY <2>4
  <2> QED
    BY <2>3, <2>4, <2>5
<1>2. ASSUME NEW p \in T, NEW x \in S PROVE Append(p, x) \in T
  <2>1. p \in Seq(S) /\ Good(p) /\ p \in Seq(Nat) /\ x \in Nat /\ RecentAt(p, c) \in Seq(Nat)
    <3>1. p \in Seq(S) /\ Good(p)
      OBVIOUS
    <3>2. Seq(S) \subseteq Seq(Nat)
      BY SeqMonotonic
    <3> QED
      BY <3>1, <3>2
  <2>2. RecentAt(Append(p, x), c) = IF x + Window > c THEN Append(RecentAt(p, c), x) ELSE RecentAt(p, c)
    BY <2>1, RecentOfAppend
  <2>3. RecentAt(Append(p, x), d) = IF x + Window > d THEN Append(RecentAt(p, d), x) ELSE RecentAt(p, d)
    BY <2>1, RecentOfAppend
  <2>4. RecentAt(Append(RecentAt(p, c), x), d) =
            IF x + Window > d THEN Append(RecentAt(RecentAt(p, c), d), x) ELSE RecentAt(RecentAt(p, c), d)
    BY <2>1, RecentOfAppend
  <2>5. x + Window > d => x + Window > c
    BY <2>1, SessionAssumption
  <2>6. RecentAt(Append(p, x), c) \in Seq(S) /\ RecentAt(Append(p, x), d) \in Seq(S)
    BY <2>1, <2>2, <2>3
  <2>7. Len(RecentAt(Append(p, x), d)) <= Len(RecentAt(Append(p, x), c))
    BY <2>1, <2>2, <2>3, <2>5
  <2>8. RecentAt(RecentAt(Append(p, x), c), d) = RecentAt(Append(p, x), d)
    BY <2>1, <2>2, <2>3, <2>4, <2>5
  <2> QED
    BY <2>1, <2>6, <2>7, <2>8
<1> HIDE DEF T
<1>3. q \in T
  BY <1>1, <1>2, ByAppending
<1> QED
  BY <1>3, RecentOfNone DEF T

\* After a window without one, none is recent.
LEMMA RecentEnds ==
    ASSUME NEW e \in Nat, NEW q \in Seq(0..e), NEW c \in Nat, e + Window <= c
    PROVE  RecentAt(q, c) = << >>
<1> DEFINE T == {p \in Seq(0..e) : RecentAt(p, c) = << >>}
<1>1. << >> \in T
  BY RecentOfNone, EmptySeq
<1>2. ASSUME NEW p \in T, NEW x \in 0..e PROVE Append(p, x) \in T
  <2>1. p \in Seq(0..e) /\ RecentAt(p, c) = << >> /\ Seq(0..e) \subseteq Seq(Nat)
    BY SeqMonotonic
  <2>2. p \in Seq(Nat) /\ x \in Nat /\ ~(x + Window > c)
    BY <2>1, SessionAssumption
  <2>3. Append(p, x) \in Seq(0..e)
    BY <2>1
  <2> QED
    BY <2>1, <2>2, <2>3, RecentOfAppend
<1> HIDE DEF T
<1>3. q \in T
  BY <1>1, <1>2, ByAppending
<1> QED
  BY <1>3 DEF T


----------------------------------------------------------------------------
(* The limit.  A wrong password is counted twice over: it is in the history *)
(* wrong when it is compared, and in fails when its login ends; between the *)
(* two its login is Closing, and the source's slot is still taken.  A wrong *)
(* password that is recorded counts at least as long as it should, since it *)
(* is recorded at the end.  Recorded never finds the table full, because    *)
(* the source of a login in flight has its place there.                     *)

Closing(s) == {a \in Attempts : pc[a] = "closing" /\ outcome[a] = 1 /\ src[a] = s}
TimesTyped ==
    /\ clock \in Nat /\ outcome \in [Attempts -> 0..2]
    /\ fails \in [Sources -> Seq(0..clock)] /\ wrong \in [Sources -> Seq(0..clock)]
WrongIsCounted == \A s \in Sources, c \in Nat : c >= clock =>
    Len(RecentAt(wrong[s], c)) <= Len(RecentAt(fails[s], c)) + Cardinality(Closing(s))
WithinLimit == \A s \in Sources : Len(Recent(fails[s])) + busy[s] <= Limit
TableFits == Cardinality(Failing \cup Busy) <= MaxSources
GuessInv == TimesTyped /\ WrongIsCounted /\ WithinLimit /\ TableFits

LEMMA FiniteTable == IsFiniteSet(Failing) /\ IsFiniteSet(Busy) /\ IsFiniteSet(Failing \cup Busy)
<1>1. Failing \subseteq Sources /\ Busy \subseteq Sources
  BY DEF Failing, Busy
<1> QED
  BY <1>1, FS_Subset, FS_Union, SessionAssumption

LEMMA ClosingIsInFlight ==
    ASSUME CountInv, NEW s \in Sources
    PROVE  /\ IsFiniteSet(Closing(s)) /\ Cardinality(Closing(s)) \in Nat
           /\ Cardinality(Closing(s)) <= busy[s]
<1>1. Closing(s) \subseteq Of(s)
  BY DEF Closing, Of, InFlight
<1>2. busy[s] = Cardinality(Of(s))
  BY DEF CountInv, Accounted, Of
<1>3. /\ IsFiniteSet(Closing(s))
      /\ Cardinality(Closing(s)) <= Cardinality(Of(s))
  BY <1>1, FiniteFlight, FS_Subset
<1> QED
  BY <1>2, <1>3, FS_CardinalityType

\* What RecentKeeps says of what the limiter keeps, with numbers for lengths.
LEMMA TimesKeep ==
    ASSUME TimesTyped, NEW q \in Seq(0..clock), NEW c \in Nat, c >= clock
    PROVE  /\ RecentAt(q, c) \in Seq(0..clock) /\ Recent(q) \in Seq(0..clock)
           /\ Len(RecentAt(q, c)) \in Nat /\ Len(RecentAt(q, c)) <= Len(Recent(q))
           /\ RecentAt(Recent(q), c) = RecentAt(q, c)
<1>1. 0..clock \in SUBSET Nat /\ clock \in Nat
  BY DEF TimesTyped
<1>2. /\ RecentAt(q, c) \in Seq(0..clock) /\ RecentAt(q, clock) \in Seq(0..clock)
      /\ Len(RecentAt(q, c)) <= Len(RecentAt(q, clock))
      /\ RecentAt(RecentAt(q, clock), c) = RecentAt(q, c)
  BY <1>1, RecentKeeps
<1>3. Len(RecentAt(q, c)) \in Nat
  BY <1>2
<1> QED
  BY <1>2, <1>3 DEF Recent

\* One more time, this one, after those that are recent.
LEMMA OneMore ==
    ASSUME TimesTyped, NEW q \in Seq(0..clock), NEW c \in Nat, c >= clock
    PROVE  /\ Append(Recent(q), clock) \in Seq(0..clock)
           /\ clock + Window > c =>
                Len(RecentAt(Append(Recent(q), clock), c)) = Len(RecentAt(q, c)) + 1
           /\ ~(clock + Window > c) => RecentAt(Append(Recent(q), clock), c) = RecentAt(q, c)
<1>1. clock \in Nat /\ Recent(q) \in Seq(0..clock) /\ Seq(0..clock) \subseteq Seq(Nat)
  <2>1. clock \in Nat /\ 0..clock \subseteq Nat
    BY DEF TimesTyped
  <2>2. Seq(0..clock) \subseteq Seq(Nat)
    BY <2>1, SeqMonotonic
  <2> QED
    BY <2>1, <2>2, TimesKeep
<1>2. RecentAt(Append(Recent(q), clock), c) =
          IF clock + Window > c THEN Append(RecentAt(q, c), clock) ELSE RecentAt(q, c)
  BY <1>1, RecentOfAppend, TimesKeep
<1>3. RecentAt(q, c) \in Seq(0..clock) /\ clock \in 0..clock
  BY <1>1, TimesKeep
<1> QED
  BY <1>1, <1>2, <1>3

LEMMA GuessInit == Init => GuessInv
<1> SUFFICES ASSUME Init PROVE GuessInv
  OBVIOUS
<1>1. PICK z : z = << >>
  OBVIOUS
<1>2. clock = 0 /\ z \in Seq(0..clock) /\ Len(z) = 0
  BY <1>1 DEF Init
<1>3. fails = [s \in Sources |-> z] /\ wrong = [s \in Sources |-> z] /\ busy = [s \in Sources |-> 0]
  BY <1>1 DEF Init
<1>4. TimesTyped
  BY <1>2, <1>3 DEF Init, TimesTyped
<1>5. \A s \in Sources, c \in Nat : RecentAt(fails[s], c) = z /\ RecentAt(wrong[s], c) = z
  BY <1>1, <1>3, RecentOfNone
<1>6. \A s \in Sources : Closing(s) = {}
  BY DEF Init, Closing
<1>7. WrongIsCounted /\ WithinLimit
  <2>1. Cardinality({}) = 0
    BY FS_EmptySet
  <2>2. \A s \in Sources : Cardinality(Closing(s)) = 0
    BY <1>6, <2>1
  <2>3. WrongIsCounted
    BY <1>2, <1>5, <2>2 DEF WrongIsCounted
  <2>4. \A s \in Sources : Recent(fails[s]) = z
    <3>1. clock \in Nat
      BY <1>2
    <3>2. \A s \in Sources : RecentAt(fails[s], clock) = z
      BY <1>5, <3>1
    <3> QED
      BY <3>2 DEF Recent
  <2> QED
    BY <1>2, <1>3, <2>3, <2>4, SessionAssumption DEF WithinLimit
<1>8. Failing \cup Busy = {}
  BY <1>1, <1>3 DEF Failing, Busy
<1> QED
  BY <1>4, <1>7, <1>8, FS_EmptySet, SessionAssumption DEF GuessInv, TableFits

\* A step that only prunes, and opens, closes and records nothing.
LEMMA PruningStep ==
    ASSUME GuessInv, UNCHANGED <<clock, wrong, busy>>, outcome' \in [Attempts -> 0..2],
           fails' \in [Sources -> Seq(0..clock)],
           \A s \in Sources : fails'[s] \in {fails[s], Recent(fails[s])},
           \A s \in Sources : Closing(s)' = Closing(s)
    PROVE  GuessInv'
<1>1. TimesTyped'
  BY DEF GuessInv, TimesTyped
<1>2. ASSUME NEW s \in Sources, NEW c \in Nat, c >= clock
      PROVE  RecentAt(fails'[s], c) = RecentAt(fails[s], c)
  BY <1>2, TimesKeep DEF GuessInv, TimesTyped
<1>3. WrongIsCounted'
  <2>1. ASSUME NEW s \in Sources, NEW c \in Nat, c >= clock'
        PROVE  Len(RecentAt(wrong'[s], c)) <= Len(RecentAt(fails'[s], c)) + Cardinality(Closing(s)')
    BY <1>2, <2>1 DEF GuessInv, WrongIsCounted
  <2> QED
    BY <2>1 DEF WrongIsCounted
<1>4. WithinLimit'
  <2>1. clock \in Nat /\ clock >= clock
    BY DEF GuessInv, TimesTyped
  <2>2. \A s \in Sources : RecentAt(fails'[s], clock') = Recent(fails[s])
    BY <1>2, <2>1 DEF Recent
  <2> QED
    BY <2>2 DEF GuessInv, WithinLimit, Recent
<1>5. TableFits'
  <2>1. Failing' \cup Busy' \subseteq Failing \cup Busy
    <3>1. \A s \in Sources : fails[s] = << >> => fails'[s] = << >>
      BY RecentOfNone DEF Recent
    <3> QED
      BY <3>1 DEF Failing, Busy
  <2>2. /\ Cardinality(Failing' \cup Busy') <= Cardinality(Failing \cup Busy)
        /\ Cardinality(Failing' \cup Busy') \in Nat /\ Cardinality(Failing \cup Busy) \in Nat
    BY <2>1, FiniteTable, FS_Subset, FS_CardinalityType
  <2> QED
    BY <2>2, SessionAssumption DEF GuessInv, TableFits
<1> QED
  BY <1>1, <1>3, <1>4, <1>5 DEF GuessInv

\* A step that does not concern the limiter.
LEMMA OtherStep ==
    ASSUME GuessInv, UNCHANGED <<clock, wrong, busy, fails>>, outcome' \in [Attempts -> 0..2],
           \A s \in Sources : Closing(s)' = Closing(s)
    PROVE  GuessInv'
<1>1. fails' \in [Sources -> Seq(0..clock)] /\ \A s \in Sources : fails'[s] \in {fails[s], Recent(fails[s])}
  BY DEF GuessInv, TimesTyped
<1> QED
  BY <1>1, PruningStep

\* What an attempt finds after it has pruned.
LEMMA PrunedIs ==
    ASSUME GuessInv, NEW s \in Sources
    PROVE  /\ Pruned(s) \in [Sources -> Seq(0..clock)]
           /\ Pruned(s)[s] = Recent(fails[s])
           /\ \A x \in Sources : Pruned(s)[x] \in {fails[x], Recent(fails[x])}
<1>1. clock \in Nat /\ clock >= clock /\ fails \in [Sources -> Seq(0..clock)]
  BY DEF GuessInv, TimesTyped
<1>2. \A x \in Sources : /\ Recent(fails[x]) \in Seq(0..clock)
                         /\ Recent(Recent(fails[x])) = Recent(fails[x])
  BY <1>1, TimesKeep DEF GuessInv, Recent
<1>3. CASE Sweeping
  BY <1>1, <1>2, <1>3 DEF Pruned, Prune, PruneAll
<1>4. CASE ~Sweeping
  BY <1>1, <1>2, <1>4 DEF Pruned, Prune
<1> QED
  BY <1>3, <1>4

LEMMA GuessReserve ==
    ASSUME GuessInv, CountInv, NEW a \in Attempts, NEW s \in Sources, Reserve(a, s)
    PROVE  GuessInv'
<1>1. /\ pc[a] = "idle" /\ fails' = Pruned(s) /\ UNCHANGED <<clock, wrong, outcome>>
      /\ \/ UNCHANGED <<busy, pc, src>>
         \/ /\ ~Denied(s) /\ busy' = [busy EXCEPT ![s] = @ + 1]
            /\ pc' = [pc EXCEPT ![a] = "reserved"] /\ src' = [src EXCEPT ![a] = s]
  BY DEF Reserve, login
<1>2. \A x \in Sources : Closing(x)' = Closing(x)
  BY <1>1 DEF Closing, CountInv, CountersTyped
<1>3. outcome' \in [Attempts -> 0..2]
  BY <1>1 DEF GuessInv, TimesTyped
<1>4. CASE UNCHANGED <<busy, pc, src>>
  BY <1>1, <1>2, <1>3, <1>4, PrunedIs, PruningStep
<1>5. CASE ~Denied(s) /\ busy' = [busy EXCEPT ![s] = @ + 1]
  <2>1. TimesTyped' /\ clock \in Nat /\ clock >= clock
    BY <1>1, <1>3, PrunedIs DEF GuessInv, TimesTyped
  <2>2. ASSUME NEW x \in Sources, NEW c \in Nat, c >= clock
        PROVE  RecentAt(fails'[x], c) = RecentAt(fails[x], c)
    BY <1>1, <2>2, PrunedIs, TimesKeep DEF GuessInv, TimesTyped
  <2>3. WrongIsCounted'
    <3>1. ASSUME NEW x \in Sources, NEW c \in Nat, c >= clock'
          PROVE  Len(RecentAt(wrong'[x], c)) <= Len(RecentAt(fails'[x], c)) + Cardinality(Closing(x)')
      BY <1>1, <1>2, <2>2, <3>1 DEF GuessInv, WrongIsCounted
    <3> QED
      BY <3>1 DEF WrongIsCounted
  <2>4. WithinLimit'
    <3>1. \A x \in Sources : RecentAt(fails'[x], clock') = Recent(fails[x])
      BY <1>1, <2>1, <2>2 DEF Recent
    <3>2. ASSUME NEW x \in Sources PROVE Len(Recent(fails[x])) + busy'[x] <= Limit
      <4>1. /\ Len(Recent(fails[x])) \in Nat /\ busy \in [Sources -> Nat]
            /\ Len(Recent(fails[x])) + busy[x] <= Limit
        BY <2>1, TimesKeep DEF GuessInv, TimesTyped, WithinLimit, CountInv, CountersTyped, Recent
      <4>2. CASE x = s
        BY <1>5, <4>1, <4>2, PrunedIs, SessionAssumption DEF Denied
      <4>3. CASE x # s
        BY <1>5, <4>1, <4>3
      <4> QED
        BY <4>2, <4>3
    <3> QED
      BY <3>1, <3>2 DEF WithinLimit, Recent
  <2>5. TableFits'
    <3> DEFINE kept == {x \in Sources : Pruned(s)[x] # << >>}
    <3>1. Failing' = kept /\ kept \subseteq Failing
      BY <1>1, PrunedIs, RecentOfNone DEF Failing, Recent
    <3>2. Busy' \subseteq Busy \cup {s}
      BY <1>5 DEF Busy, CountInv, CountersTyped
    <3>3. s \in kept \cup Busy \/ Cardinality(kept) + Cardinality(Busy) < MaxSources
      <4>1. Cardinality(kept) \in Nat /\ Cardinality(Busy) \in Nat
        BY <3>1, FiniteTable, FS_Subset, FS_CardinalityType
      <4> QED
        BY <1>5, <4>1, SessionAssumption DEF Denied
    <3> HIDE DEF kept
    <3>4. CASE s \in kept \cup Busy
      <4>1. Failing' \cup Busy' \subseteq Failing \cup Busy
        BY <3>1, <3>2, <3>4
      <4>2. /\ Cardinality(Failing' \cup Busy') <= Cardinality(Failing \cup Busy)
            /\ Cardinality(Failing' \cup Busy') \in Nat /\ Cardinality(Failing \cup Busy) \in Nat
        BY <4>1, FiniteTable, FS_Subset, FS_CardinalityType
      <4> QED
        BY <4>2, SessionAssumption DEF GuessInv, TableFits
    <3>5. CASE s \notin kept \cup Busy /\ Cardinality(kept) + Cardinality(Busy) < MaxSources
      <4>1. Failing' \cup Busy' \subseteq (kept \cup Busy) \cup {s}
        BY <3>1, <3>2
      <4>2. IsFiniteSet(kept) /\ IsFiniteSet(Busy) /\ IsFiniteSet(kept \cup Busy)
        BY <3>1, FiniteTable, FS_Subset, FS_Union
      <4>3. /\ Cardinality(kept \cup Busy) <= Cardinality(kept) + Cardinality(Busy)
            /\ Cardinality(kept) \in Nat /\ Cardinality(Busy) \in Nat
            /\ Cardinality(kept \cup Busy) \in Nat
        <5>1. Cardinality(kept \cup Busy) =
                  Cardinality(kept) + Cardinality(Busy) - Cardinality(kept \cap Busy)
          BY <4>2, FS_Union
        <5>2. Cardinality(kept \cap Busy) \in Nat
          BY <4>2, FS_Intersection, FS_CardinalityType
        <5> QED
          BY <4>2, <5>1, <5>2, FS_CardinalityType
      <4>4. /\ IsFiniteSet((kept \cup Busy) \cup {s})
            /\ Cardinality((kept \cup Busy) \cup {s}) = Cardinality(kept \cup Busy) + 1
        BY <3>5, <4>2, FS_AddElement
      <4>5. /\ Cardinality(Failing' \cup Busy') <= Cardinality((kept \cup Busy) \cup {s})
            /\ Cardinality(Failing' \cup Busy') \in Nat
        BY <4>1, <4>4, FS_Subset, FS_CardinalityType
      <4> QED
        BY <3>5, <4>3, <4>4, <4>5, SessionAssumption DEF TableFits
    <3> QED
      BY <3>3, <3>4, <3>5
  <2> QED
    BY <2>1, <2>3, <2>4, <2>5 DEF GuessInv
<1> QED
  BY <1>1, <1>4, <1>5

LEMMA GuessCompare ==
    ASSUME GuessInv, CountInv, NEW a \in Attempts, Compare(a)
    PROVE  GuessInv'
<1>1. /\ pc[a] = "locked" /\ UNCHANGED <<clock, fails, busy, src>>
      /\ \/ UNCHANGED <<outcome, wrong>> /\ pc' = [pc EXCEPT ![a] = "right"]
         \/ /\ outcome' = [outcome EXCEPT ![a] = 1] /\ pc' = [pc EXCEPT ![a] = "closing"]
            /\ wrong' = [wrong EXCEPT ![src[a]] = Append(Recent(@), clock)]
  BY DEF Compare, limiter
<1>2. CASE UNCHANGED <<outcome, wrong>> /\ pc' = [pc EXCEPT ![a] = "right"]
  <2>1. \A x \in Sources : Closing(x)' = Closing(x)
    BY <1>1, <1>2 DEF Closing, CountInv, CountersTyped
  <2>2. outcome' \in [Attempts -> 0..2]
    BY <1>2 DEF GuessInv, TimesTyped
  <2> QED
    BY <1>1, <1>2, <2>1, <2>2, OtherStep
<1>3. CASE /\ outcome' = [outcome EXCEPT ![a] = 1] /\ pc' = [pc EXCEPT ![a] = "closing"]
           /\ wrong' = [wrong EXCEPT ![src[a]] = Append(Recent(@), clock)]
  <2>1. PICK s \in Sources : s = src[a]
    BY DEF CountInv, CountersTyped
  <2>2. /\ clock \in Nat /\ clock >= clock /\ wrong \in [Sources -> Seq(0..clock)]
        /\ outcome \in [Attempts -> 0..2]
        /\ wrong'[s] = Append(Recent(wrong[s]), clock)
        /\ \A x \in Sources \ {s} : wrong'[x] = wrong[x]
    BY <1>3, <2>1 DEF GuessInv, TimesTyped
  <2>3. TimesTyped'
    <3>1. Append(Recent(wrong[s]), clock) \in Seq(0..clock)
      BY <2>2, OneMore DEF GuessInv
    <3>2. wrong' \in [Sources -> Seq(0..clock)]
      BY <1>3, <2>1, <2>2, <3>1
    <3> QED
      BY <1>1, <1>3, <2>2, <3>2 DEF GuessInv, TimesTyped
  <2>4. a \notin Closing(s) /\ Closing(s)' = Closing(s) \cup {a}
    BY <1>1, <1>3, <2>1, <2>2 DEF Closing, CountInv, CountersTyped
  <2>5. Cardinality(Closing(s)') = Cardinality(Closing(s)) + 1
    BY <2>4, ClosingIsInFlight, FS_AddElement
  <2>6. \A x \in Sources \ {s} : Closing(x)' = Closing(x)
    BY <1>1, <1>3, <2>1, <2>2 DEF Closing, CountInv, CountersTyped
  <2>7. WrongIsCounted'
    <3>1. ASSUME NEW x \in Sources, NEW c \in Nat, c >= clock'
          PROVE  Len(RecentAt(wrong'[x], c)) <= Len(RecentAt(fails'[x], c)) + Cardinality(Closing(x)')
      <4>1. /\ Len(RecentAt(wrong[x], c)) <= Len(RecentAt(fails[x], c)) + Cardinality(Closing(x))
            /\ fails'[x] = fails[x]
        BY <1>1, <3>1 DEF GuessInv, WrongIsCounted
      <4>2. CASE x # s
        BY <2>2, <2>6, <4>1, <4>2
      <4>3. CASE x = s
        <5>1. /\ Len(RecentAt(wrong[s], c)) \in Nat /\ Len(RecentAt(fails[s], c)) \in Nat
              /\ Cardinality(Closing(s)) \in Nat
          BY <1>1, <2>2, <3>1, TimesKeep, ClosingIsInFlight DEF GuessInv, TimesTyped
        <5>2. \/ Len(RecentAt(wrong'[s], c)) = Len(RecentAt(wrong[s], c)) + 1
              \/ Len(RecentAt(wrong'[s], c)) = Len(RecentAt(wrong[s], c))
          BY <1>1, <2>2, <3>1, OneMore DEF GuessInv
        <5> QED
          BY <2>5, <4>1, <4>3, <5>1, <5>2
      <4> QED
        BY <4>2, <4>3
    <3> QED
      BY <3>1 DEF WrongIsCounted
  <2>8. WithinLimit' /\ TableFits'
    BY <1>1 DEF GuessInv, WithinLimit, TableFits, Recent, Failing, Busy
  <2> QED
    BY <2>3, <2>7, <2>8 DEF GuessInv
<1> QED
  BY <1>1, <1>2, <1>3

\* The source of a login in flight has a place, so its failure is recorded.
LEMMA RecordedIs ==
    ASSUME GuessInv, CountInv, NEW s \in Sources, s \in Busy
    PROVE  Recorded(s) = [fails EXCEPT ![s] = Append(Recent(fails[s]), clock)]
<1> DEFINE f == Prune(fails, s)
           others == {x \in Sources : f[x] # << >>}
<1>1. /\ fails \in [Sources -> Seq(0..clock)]
      /\ f = [fails EXCEPT ![s] = Recent(fails[s])]
  BY DEF GuessInv, TimesTyped, Prune
<1>2. Recorded(s) = IF f[s] # << >> \/ Cardinality(others) < MaxSources
                    THEN [f EXCEPT ![s] = Append(f[s], clock)] ELSE f
  BY <1>1 DEF Recorded
<1>3. f[s] = << >> => Cardinality(others) < MaxSources
  <2>1. SUFFICES ASSUME f[s] = << >> PROVE Cardinality(others) < MaxSources
    OBVIOUS
  <2>2. others \subseteq (Failing \cup Busy) \ {s}
    BY <1>1, <2>1 DEF Failing
  <2> HIDE DEF others
  <2>3. /\ Cardinality((Failing \cup Busy) \ {s}) = Cardinality(Failing \cup Busy) - 1
        /\ IsFiniteSet((Failing \cup Busy) \ {s})
    BY FiniteTable, FS_RemoveElement
  <2>4. /\ Cardinality(others) <= Cardinality((Failing \cup Busy) \ {s})
        /\ Cardinality(others) \in Nat
    BY <2>2, <2>3, FS_Subset, FS_CardinalityType
  <2>5. Cardinality(Failing \cup Busy) \in Nat /\ Cardinality(Failing \cup Busy) <= MaxSources
    BY FiniteTable, FS_CardinalityType DEF GuessInv, TableFits
  <2> QED
    BY <2>3, <2>4, <2>5, SessionAssumption
<1>4. Recorded(s) = [f EXCEPT ![s] = Append(f[s], clock)]
  BY <1>2, <1>3
<1> QED
  BY <1>1, <1>4

LEMMA GuessFinish ==
    ASSUME GuessInv, CountInv, CountInv', NEW a \in Attempts, Finish(a)
    PROVE  GuessInv'
<1>1. PICK s \in Sources : s = src[a]
  BY DEF CountInv, CountersTyped
<1>2. /\ pc[a] = "closing" /\ pc' = [pc EXCEPT ![a] = "idle"] /\ UNCHANGED clock
      /\ busy' = [busy EXCEPT ![s] = @ - 1]
      /\ src' = [src EXCEPT ![a] = AnySource]
      /\ outcome' = [outcome EXCEPT ![a] = 0]
      /\ wrong' = IF outcome[a] = 2 THEN [wrong EXCEPT ![s] = << >>] ELSE wrong
      /\ fails' = CASE outcome[a] = 0 -> fails
                    [] outcome[a] = 1 -> Recorded(s)
                    [] outcome[a] = 2 -> [fails EXCEPT ![s] = << >>]
  BY <1>1, Zenon DEF Finish, Forget
<1>3. /\ clock \in Nat /\ clock >= clock /\ outcome \in [Attempts -> 0..2]
      /\ fails \in [Sources -> Seq(0..clock)] /\ wrong \in [Sources -> Seq(0..clock)]
      /\ outcome[a] \in {0, 1, 2}
  BY DEF GuessInv, TimesTyped
<1>4. s \in Busy /\ busy \in [Sources -> Nat] /\ busy[s] \in Nat \ {0}
  <2>1. a \in Of(s)
    BY <1>1, <1>2 DEF Of, InFlight
  <2>2. Cardinality(Of(s)) # 0
    BY <2>1, FiniteFlight, FS_EmptySet
  <2>3. busy[s] = Cardinality(Of(s)) /\ busy \in [Sources -> Nat]
    BY DEF CountInv, CountersTyped, Accounted, Of
  <2> QED
    BY <2>2, <2>3 DEF Busy
<1>5. \A x \in Sources \ {s} : Closing(x)' = Closing(x) /\ busy'[x] = busy[x]
  BY <1>1, <1>2, <1>3, <1>4 DEF Closing, CountInv, CountersTyped
<1>6. Closing(s)' = Closing(s) \ {a} /\ (a \in Closing(s) <=> outcome[a] = 1)
  BY <1>1, <1>2, <1>3 DEF Closing, CountInv, CountersTyped
<1>7. Busy' \subseteq Busy
  BY <1>2, <1>4 DEF Busy
<1>8. ASSUME Failing' \subseteq Failing \cup Busy PROVE TableFits'
  <2>1. /\ Cardinality(Failing' \cup Busy') <= Cardinality(Failing \cup Busy)
        /\ Cardinality(Failing' \cup Busy') \in Nat /\ Cardinality(Failing \cup Busy) \in Nat
    BY <1>7, <1>8, FiniteTable, FS_Subset, FS_CardinalityType
  <2> QED
    BY <2>1, SessionAssumption DEF GuessInv, TableFits
<1>9. ASSUME NEW x \in Sources, NEW c \in Nat, c >= clock
      PROVE  /\ Len(RecentAt(wrong[x], c)) \in Nat /\ Len(RecentAt(fails[x], c)) \in Nat
             /\ Len(Recent(fails[x])) \in Nat
             /\ Cardinality(Closing(x)) \in Nat
             /\ Len(RecentAt(wrong[x], c)) <= Len(RecentAt(fails[x], c)) + Cardinality(Closing(x))
             /\ Len(Recent(fails[x])) + busy[x] <= Limit
  <2>1. Len(RecentAt(fails[x], clock)) \in Nat
    BY <1>3, TimesKeep DEF GuessInv
  <2> QED
    BY <1>3, <1>9, <2>1, TimesKeep, ClosingIsInFlight
       DEF GuessInv, WrongIsCounted, WithinLimit, Recent
<1>10. Limit \in Nat /\ busy'[s] = busy[s] - 1 /\ busy'[s] \in Nat
  BY <1>2, <1>4, SessionAssumption
<1>11. \A x \in Sources : Len(RecentAt(fails[x], clock)) + busy[x] <= Limit
  BY <1>3, <1>9 DEF Recent
<1>12. CASE outcome[a] = 0
  <2>1. fails' = fails /\ wrong' = wrong
    <3>1. outcome[a] # 1 /\ outcome[a] # 2
      BY <1>12
    <3>2. fails' = fails
      BY <1>2, <1>12, <3>1, Zenon
    <3> QED
      BY <1>2, <1>12, <3>2
  <2>2. TimesTyped'
    BY <1>2, <1>3, <2>1 DEF TimesTyped
  <2>3. \A x \in Sources : Closing(x)' = Closing(x)
    BY <1>5, <1>6, <1>12
  <2>4. WrongIsCounted'
    BY <1>2, <2>1, <2>3 DEF GuessInv, WrongIsCounted
  <2>5. WithinLimit'
    <3>1. ASSUME NEW x \in Sources PROVE Len(Recent(fails[x])) + busy'[x] <= Limit
      BY <1>2, <1>3, <1>4, <1>5, <1>9, <1>10
    <3> QED
      BY <1>2, <2>1, <3>1 DEF WithinLimit, Recent
  <2>6. TableFits'
    BY <1>8, <2>1 DEF Failing
  <2> QED
    BY <2>2, <2>4, <2>5, <2>6 DEF GuessInv
<1>13. CASE outcome[a] = 1
  <2>1. fails' = Recorded(s)
    <3>1. outcome[a] # 0 /\ outcome[a] # 2
      BY <1>13
    <3> QED
      BY <1>2, <1>13, <3>1, Zenon
  <2>2. fails' = [fails EXCEPT ![s] = Append(Recent(fails[s]), clock)] /\ wrong' = wrong
    BY <1>2, <1>4, <1>13, <2>1, RecordedIs
  <2>3. Append(Recent(fails[s]), clock) \in Seq(0..clock)
    BY <1>3, OneMore DEF GuessInv
  <2>4. /\ fails' \in [Sources -> Seq(0..clock)]
        /\ fails'[s] = Append(Recent(fails[s]), clock)
        /\ \A x \in Sources \ {s} : fails'[x] = fails[x]
    BY <1>3, <2>2, <2>3
  <2>5. TimesTyped'
    BY <1>2, <1>3, <2>2, <2>4 DEF TimesTyped
  <2>6. Cardinality(Closing(s)') = Cardinality(Closing(s)) - 1
    BY <1>6, <1>13, ClosingIsInFlight, FS_RemoveElement
  <2>7. WrongIsCounted'
    <3>1. ASSUME NEW x \in Sources, NEW c \in Nat, c >= clock'
          PROVE  Len(RecentAt(wrong'[x], c)) <= Len(RecentAt(fails'[x], c)) + Cardinality(Closing(x)')
      <4>1. c >= clock
        BY <1>2, <3>1
      <4>2. CASE x # s
        BY <1>5, <1>9, <2>2, <2>4, <4>1, <4>2
      <4>3. CASE x = s /\ clock + Window > c
        <5>1. Len(RecentAt(fails'[s], c)) = Len(RecentAt(fails[s], c)) + 1
          BY <1>3, <2>4, <4>1, <4>3, OneMore DEF GuessInv
        <5> QED
          BY <1>9, <2>2, <2>6, <4>1, <4>3, <5>1
      <4>4. CASE x = s /\ ~(clock + Window > c)
        <5>1. RecentAt(wrong[s], c) = << >>
          BY <1>3, <4>4, RecentEnds, SessionAssumption
        <5>2. RecentAt(fails'[s], c) = RecentAt(fails[s], c)
          BY <1>3, <2>4, <4>1, <4>4, OneMore DEF GuessInv
        <5>3. Len(<< >>) = 0
          OBVIOUS
        <5>4. Cardinality(Closing(s)') \in Nat /\ Len(RecentAt(fails[s], c)) \in Nat
          BY <1>9, <4>1, ClosingIsInFlight, <1>6, FS_RemoveElement, FS_CardinalityType
        <5>5. Len(RecentAt(wrong'[s], c)) = 0
          BY <2>2, <5>1, <5>3
        <5> QED
          BY <4>4, <5>2, <5>4, <5>5
      <4> QED
        BY <4>2, <4>3, <4>4
    <3> QED
      BY <3>1 DEF WrongIsCounted
  <2>8. WithinLimit'
    <3>1. ASSUME NEW x \in Sources PROVE Len(RecentAt(fails'[x], clock)) + busy'[x] <= Limit
      <4>1. CASE x # s
        <5>1. fails'[x] = fails[x] /\ busy'[x] = busy[x]
          BY <1>5, <2>4, <4>1
        <5>2. Len(RecentAt(fails[x], clock)) + busy[x] <= Limit
          BY <1>11
        <5> QED
          BY <5>1, <5>2
      <4>2. CASE x = s
        <5>1. \/ Len(RecentAt(fails'[s], clock)) = Len(RecentAt(fails[s], clock)) + 1
              \/ Len(RecentAt(fails'[s], clock)) = Len(RecentAt(fails[s], clock))
          BY <1>3, <2>4, OneMore DEF GuessInv
        <5>2. /\ Len(RecentAt(fails[s], clock)) \in Nat
              /\ Len(RecentAt(fails[s], clock)) + busy[s] <= Limit
          BY <1>3, <1>9 DEF Recent
        <5> QED
          BY <1>4, <1>10, <4>2, <5>1, <5>2
      <4> QED
        BY <4>1, <4>2
    <3> QED
      BY <1>2, <3>1 DEF WithinLimit, Recent
  <2>9. TableFits'
    <3>1. Failing' \subseteq Failing \cup Busy
      BY <1>4, <2>4 DEF Failing
    <3> QED
      BY <1>8, <3>1
  <2> QED
    BY <2>5, <2>7, <2>8, <2>9 DEF GuessInv
<1>14. CASE outcome[a] = 2
  <2>1. PICK z : z = << >>
    OBVIOUS
  <2>2. fails' = [fails EXCEPT ![s] = z]
    <3>1. outcome[a] # 0 /\ outcome[a] # 1
      BY <1>14
    <3> QED
      BY <1>2, <1>14, <2>1, <3>1, Zenon
  <2>3. wrong' = [wrong EXCEPT ![s] = z]
    BY <1>2, <1>14, <2>1
  <2>4. z \in Seq(0..clock) /\ Len(z) = 0 /\ \A c \in Nat : RecentAt(z, c) = z
    BY <2>1, RecentOfNone
  <2>5. TimesTyped'
    <3>1. fails' \in [Sources -> Seq(0..clock)] /\ wrong' \in [Sources -> Seq(0..clock)]
      BY <1>3, <2>2, <2>3, <2>4
    <3> QED
      BY <1>2, <1>3, <3>1 DEF TimesTyped
  <2>6. \A x \in Sources : Closing(x)' = Closing(x)
    BY <1>5, <1>6, <1>14
  <2>7. WrongIsCounted'
    <3>1. ASSUME NEW x \in Sources, NEW c \in Nat, c >= clock'
          PROVE  Len(RecentAt(wrong'[x], c)) <= Len(RecentAt(fails'[x], c)) + Cardinality(Closing(x)')
      <4>1. c >= clock
        BY <1>2, <3>1
      <4>2. CASE x # s
        BY <1>3, <1>9, <2>2, <2>3, <2>6, <4>1, <4>2
      <4>3. CASE x = s
        <5>1. wrong'[s] = z /\ fails'[s] = z
          BY <1>3, <2>2, <2>3
        <5> QED
          BY <1>9, <2>4, <2>6, <4>1, <4>3, <5>1
      <4> QED
        BY <4>2, <4>3
    <3> QED
      BY <3>1 DEF WrongIsCounted
  <2>8. WithinLimit'
    <3>1. ASSUME NEW x \in Sources PROVE Len(RecentAt(fails'[x], clock)) + busy'[x] <= Limit
      <4>1. CASE x # s
        <5>1. fails'[x] = fails[x] /\ busy'[x] = busy[x]
          BY <1>3, <1>5, <2>2, <4>1
        <5>2. Len(RecentAt(fails[x], clock)) + busy[x] <= Limit
          BY <1>11
        <5> QED
          BY <5>1, <5>2
      <4>2. CASE x = s
        <5>1. RecentAt(fails'[s], clock) = z
          BY <1>3, <2>2, <2>4
        <5>2. Len(Recent(fails[s])) \in Nat /\ Len(Recent(fails[s])) + busy[s] <= Limit
          BY <1>3, <1>9
        <5> QED
          BY <1>4, <1>10, <2>4, <4>2, <5>1, <5>2
      <4> QED
        BY <4>1, <4>2
    <3> QED
      BY <1>2, <3>1 DEF WithinLimit, Recent
  <2>9. TableFits'
    <3>1. Failing' \subseteq Failing \cup Busy
      BY <1>3, <2>1, <2>2 DEF Failing
    <3> QED
      BY <1>8, <3>1
  <2> QED
    BY <2>5, <2>7, <2>8, <2>9 DEF GuessInv
<1> QED
  BY <1>3, <1>12, <1>13, <1>14

LEMMA GuessTick ==
    ASSUME GuessInv, CountInv, Tick
    PROVE  GuessInv'
<1>1. clock \in Nat /\ clock' = clock + 1 /\ UNCHANGED <<fails, wrong, busy, active, pc, src, outcome>>
  BY DEF Tick, limiter, login, GuessInv, TimesTyped
<1>2. TimesTyped'
  <2>1. 0..clock \subseteq 0..clock'
    BY <1>1
  <2>2. Seq(0..clock) \subseteq Seq(0..clock')
    BY <2>1, SeqMonotonic
  <2> QED
    BY <1>1, <2>2 DEF GuessInv, TimesTyped
<1>3. WrongIsCounted'
  <2>1. \A s \in Sources : Closing(s)' = Closing(s)
    BY <1>1 DEF Closing
  <2> QED
    BY <1>1, <2>1 DEF GuessInv, WrongIsCounted
<1>4. WithinLimit'
  <2>1. ASSUME NEW s \in Sources PROVE Len(RecentAt(fails[s], clock')) + busy[s] <= Limit
    <3>1. fails[s] \in Seq(0..clock) /\ clock' \in Nat /\ clock' >= clock /\ clock >= clock
      BY <1>1 DEF GuessInv, TimesTyped
    <3>2. /\ Len(RecentAt(fails[s], clock')) \in Nat
          /\ Len(RecentAt(fails[s], clock')) <= Len(Recent(fails[s]))
          /\ Len(RecentAt(fails[s], clock)) \in Nat
      BY <1>1, <3>1, TimesKeep DEF GuessInv
    <3>3. Len(Recent(fails[s])) + busy[s] <= Limit /\ busy[s] \in Nat /\ Len(Recent(fails[s])) \in Nat
      BY <3>2 DEF GuessInv, WithinLimit, CountInv, CountersTyped, Recent
    <3> QED
      BY <3>2, <3>3, SessionAssumption
  <2> QED
    BY <1>1, <2>1 DEF WithinLimit, Recent
<1>5. TableFits'
  BY <1>1 DEF GuessInv, TableFits, Failing, Busy
<1> QED
  BY <1>2, <1>3, <1>4, <1>5 DEF GuessInv

LEMMA GuessRestart ==
    ASSUME GuessInv, Restart
    PROVE  GuessInv'
<1>1. PICK z : z = << >>
  OBVIOUS
<1>2. clock \in Nat /\ clock' = clock /\ z \in Seq(0..clock) /\ Len(z) = 0
  BY <1>1 DEF Restart, GuessInv, TimesTyped
<1>3. /\ fails' = [s \in Sources |-> z] /\ wrong' = [s \in Sources |-> z]
      /\ busy' = [s \in Sources |-> 0] /\ outcome' = [a \in Attempts |-> 0]
  BY <1>1 DEF Restart
<1>4. TimesTyped'
  BY <1>2, <1>3 DEF TimesTyped
<1>5. \A s \in Sources, c \in Nat : RecentAt(fails'[s], c) = z /\ RecentAt(wrong'[s], c) = z
  BY <1>1, <1>3, RecentOfNone
<1>6. Cardinality({}) = 0
  BY FS_EmptySet
<1>7. \A s \in Sources : Cardinality(Closing(s)') = 0
  <2>1. \A s \in Sources : Closing(s)' = {}
    BY DEF Restart, Closing
  <2> QED
    BY <1>6, <2>1
<1>8. WrongIsCounted'
  BY <1>2, <1>5, <1>7 DEF WrongIsCounted
<1>9. WithinLimit'
  <2>1. clock' \in Nat
    BY <1>2
  <2>2. \A s \in Sources : RecentAt(fails'[s], clock') = z
    BY <1>5, <2>1
  <2> QED
    BY <1>2, <1>3, <2>2, SessionAssumption DEF WithinLimit, Recent
<1>10. TableFits'
  <2>1. Failing' \cup Busy' = {}
    BY <1>1, <1>3 DEF Failing, Busy
  <2> QED
    BY <1>6, <2>1, SessionAssumption DEF TableFits
<1> QED
  BY <1>4, <1>8, <1>9, <1>10 DEF GuessInv

LEMMA GuessStep == GuessInv /\ CountInv /\ CountInv' /\ [Next]_vars => GuessInv'
<1> SUFFICES ASSUME GuessInv, CountInv, CountInv', [Next]_vars PROVE GuessInv'
  OBVIOUS
<1>1. outcome \in [Attempts -> 0..2]
  BY DEF GuessInv, TimesTyped
<1>2. ASSUME NEW a \in Attempts, Lock(a) PROVE GuessInv'
  <2>1. UNCHANGED <<clock, wrong, busy, fails, outcome, src>>
        /\ pc[a] = "reserved" /\ pc' = [pc EXCEPT ![a] = "locked"]
    BY <1>2 DEF Lock, limiter
  <2>2. \A s \in Sources : Closing(s)' = Closing(s)
    BY <2>1 DEF Closing, CountInv, CountersTyped
  <2> QED
    BY <1>1, <2>1, <2>2, OtherStep
<1>3. ASSUME NEW a \in Attempts, CreateSession(a) PROVE GuessInv'
  <2>1. /\ UNCHANGED <<clock, wrong, busy, fails, src>>
        /\ pc[a] = "right" /\ pc' = [pc EXCEPT ![a] = "closing"]
        /\ \/ outcome' = [outcome EXCEPT ![a] = 2]
           \/ outcome' = [outcome EXCEPT ![a] = 0]
    BY <1>3 DEF CreateSession, limiter
  <2>2. outcome' \in [Attempts -> 0..2]
    BY <1>1, <2>1
  <2>3. \A s \in Sources : Closing(s)' = Closing(s)
    BY <1>1, <2>1 DEF Closing, CountInv, CountersTyped
  <2> QED
    BY <2>1, <2>2, <2>3, OtherStep
<1>4. ASSUME UNCHANGED <<clock, wrong, busy, fails, pc, src, outcome>> PROVE GuessInv'
  <2>1. \A s \in Sources : Closing(s)' = Closing(s)
    BY <1>4 DEF Closing
  <2> QED
    BY <1>1, <1>4, <2>1, OtherStep
<1>5. ASSUME BeginChange \/ ChangePassword \/ ResetPassword \/ Logout PROVE GuessInv'
  BY <1>4, <1>5 DEF BeginChange, ChangePassword, ResetPassword, Logout, limiter, login
<1>6. ASSUME NEW e \in Streams, OpenStream(e) \/ Poll(e) PROVE GuessInv'
  BY <1>4, <1>6 DEF OpenStream, Poll, limiter, login
<1>7. ASSUME UNCHANGED vars PROVE GuessInv'
  BY <1>4, <1>7 DEF vars, limiter, login
<1> QED
  BY <1>2, <1>3, <1>5, <1>6, <1>7, GuessReserve, GuessCompare, GuessFinish, GuessTick, GuessRestart
     DEF Next, Proceed

\* However logins overlap, no source has more than Limit wrong passwords
\* compared within the window, and none of its failures is forgotten because
\* the table is full (reserveAttempt, finishAttempt).
THEOREM GuessesStayBounded == Spec => []GuessesBounded
<1>1. GuessInv /\ CountInv => GuessesBounded
  <2> SUFFICES ASSUME GuessInv, CountInv, NEW s \in Sources
               PROVE  Len(Recent(wrong[s])) <= Limit
    BY DEF GuessesBounded
  <2>1. clock \in Nat /\ clock >= clock /\ fails[s] \in Seq(0..clock) /\ wrong[s] \in Seq(0..clock)
    BY DEF GuessInv, TimesTyped
  <2>2. Len(RecentAt(wrong[s], clock)) \in Nat /\ Len(RecentAt(fails[s], clock)) \in Nat
    BY <2>1, TimesKeep DEF GuessInv
  <2>3. Len(RecentAt(wrong[s], clock)) <= Len(RecentAt(fails[s], clock)) + Cardinality(Closing(s))
    BY <2>1 DEF GuessInv, WrongIsCounted
  <2>4. Len(RecentAt(fails[s], clock)) + busy[s] <= Limit
    BY DEF GuessInv, WithinLimit, Recent
  <2>5. Cardinality(Closing(s)) \in Nat /\ Cardinality(Closing(s)) <= busy[s] /\ busy[s] \in Nat
    BY ClosingIsInFlight DEF CountInv, CountersTyped
  <2>6. Len(RecentAt(wrong[s], clock)) <= Limit
    BY <2>2, <2>3, <2>4, <2>5, SessionAssumption
  <2> QED
    BY <2>6 DEF Recent
<1> QED
  BY CountInit, CountStep, GuessInit, GuessStep, <1>1, PTL DEF Spec
=============================================================================
