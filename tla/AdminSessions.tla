---------------------------- MODULE AdminSessions ----------------------------
(***************************************************************************)
(* auth.Service and the sessions table: logins under an attempt limiter,   *)
(* sessions, event streams, and the three ways to change the password.     *)
(*                                                                         *)
(* The limiter and the table have locks of their own and a login is spread *)
(* over both.  A login keeps a read lock from the read of the password     *)
(* hash to the insertion of its session; the panel changes the password    *)
(* under the write lock of the same process; the commands reset-password   *)
(* and set-credentials are processes of their own and take no lock.        *)
(*                                                                         *)
(* Simplifications:                                                        *)
(*  - a password is its generation; a hash is matched by its own password; *)
(*  - a token is a number, given once (in the code, 32 random bytes);      *)
(*  - a waiting writer does not hold up readers, which only adds           *)
(*    interleavings;                                                       *)
(*  - the limit of 5 failures, 4 active logins, 4096 sources and a sweep   *)
(*    every 64 attempts are constants.                                     *)
(***************************************************************************)
EXTENDS Naturals, Sequences, FiniteSets

CONSTANTS
    Attempts,       \* login requests that may be in flight at once
    Sources,        \* client addresses
    Streams,        \* event streams
    Limit,          \* failures of a source within the window
    MaxActive,      \* logins in flight
    MaxSources,     \* sources the limiter keeps
    SweepInterval,  \* attempts between two sweeps of all sources
    Window,         \* how long a failure counts
    TTL,            \* life of a session
    MaxTime,        \* bound on the clock
    MaxGen,         \* bound on password changes
    MaxToken,       \* bound on sessions
    None            \* no session, or no stream

ASSUME SessionAssumption ==
    /\ Limit \in Nat \ {0} /\ MaxActive \in Nat \ {0} /\ MaxSources \in Nat \ {0}
    /\ SweepInterval \in Nat \ {0} /\ Window \in Nat /\ TTL \in Nat
    /\ MaxTime \in Nat /\ MaxGen \in Nat /\ MaxToken \in Nat
    /\ IsFiniteSet(Attempts) /\ IsFiniteSet(Sources) /\ Sources # {}

Tokens == 1..MaxToken
Gens == 0..MaxGen
Sessions == [gen : Gens, exp : 0..(MaxTime + TTL)]

ASSUME NoneAssumption == None \notin Sessions \cup Tokens

VARIABLES
    clock,     \* time
    pwd,       \* generation of the stored password
    panel,     \* generation set by the last change through the panel (history)
    sessions,  \* the sessions table
    issued,    \* tokens given so far
    fails,     \* of each source, the times of its recorded failures
    busy,      \* of each source, its logins in flight
    active,    \* logins in flight
    sweeps,    \* attempts since the last sweep
    pc,        \* where each login is
    src,       \* its source
    seen,      \* the generation its password matched
    outcome,   \* 0: none, 1: wrong password, 2: logged in
    writer,    \* the panel's change: holds the write lock?
    stream,    \* the token each event stream was opened with
    wrong      \* of each source, when it gave wrong passwords (history)

limiter == <<fails, busy, active, sweeps>>
table == <<pwd, panel, sessions, issued>>
login == <<pc, src, seen, outcome>>
vars == <<clock, table, limiter, login, writer, stream, wrong>>

InFlight == {a \in Attempts : pc[a] # "idle"}
Readers == {a \in Attempts : pc[a] \in {"locked", "right"}}
Failing == {s \in Sources : fails[s] # <<>>}
Busy == {s \in Sources : busy[s] # 0}

\* Store.Session: there is a row and it has not expired.
Valid(t) == sessions[t] # None /\ sessions[t].exp > clock

\* The failures within the window: the loop of prune.
RecentAt(times, now) ==
    LET kept[i \in 0..Len(times)] ==
          IF i = 0 THEN <<>>
          ELSE IF times[i] + Window > now THEN Append(kept[i - 1], times[i]) ELSE kept[i - 1]
    IN kept[Len(times)]
Recent(times) == RecentAt(times, clock)
Prune(f, s) == [f EXCEPT ![s] = Recent(@)]
PruneAll(f) == [s \in Sources |-> Recent(f[s])]

----------------------------------------------------------------------------
(* Login.                                                                  *)

\* reserveAttempt.
Sweeping == (sweeps + 1) % SweepInterval = 0 \/ Cardinality(Failing) >= MaxSources
Pruned(s) == Prune(IF Sweeping THEN PruneAll(fails) ELSE fails, s)
\* Mutant: the logins in flight do not count.
DeniedByFailures(s) == Len(Pruned(s)[s]) >= Limit \/ active >= MaxActive
Denied(s) ==
    LET kept == {x \in Sources : Pruned(s)[x] # <<>>} IN
    \/ Len(Pruned(s)[s]) + busy[s] >= Limit
    \/ active >= MaxActive
    \/ s \notin kept \cup Busy /\ Cardinality(kept) + Cardinality(Busy) >= MaxSources

Reserve(a, s) ==
    /\ pc[a] = "idle"
    /\ sweeps' = (sweeps + 1) % SweepInterval
    /\ fails' = Pruned(s)
    /\ \/ /\ Denied(s)
          /\ UNCHANGED <<busy, active, login>>
       \/ /\ ~Denied(s)
          /\ busy' = [busy EXCEPT ![s] = @ + 1]
          /\ active' = active + 1
          /\ pc' = [pc EXCEPT ![a] = "reserved"]
          /\ src' = [src EXCEPT ![a] = s]
          /\ UNCHANGED <<seen, outcome>>
    /\ UNCHANGED <<clock, table, writer, stream, wrong>>

\* Mutant: no read lock.
LockNothing(a) ==
    /\ pc[a] = "reserved"
    /\ pc' = [pc EXCEPT ![a] = "locked"]
    /\ UNCHANGED <<clock, table, limiter, src, seen, outcome, writer, stream, wrong>>
Lock(a) ==
    /\ pc[a] = "reserved" /\ ~writer
    /\ pc' = [pc EXCEPT ![a] = "locked"]
    /\ UNCHANGED <<clock, table, limiter, src, seen, outcome, writer, stream, wrong>>

\* The hash is read and the password compared with it: a right one, or a wrong
\* one - an earlier password, or a guess - after which the lock is given back.
Compare(a) ==
    /\ pc[a] = "locked"
    /\ \/ /\ seen' = [seen EXCEPT ![a] = pwd]
          /\ pc' = [pc EXCEPT ![a] = "right"]
          /\ UNCHANGED <<outcome, wrong>>
       \/ /\ outcome' = [outcome EXCEPT ![a] = 1]
          /\ pc' = [pc EXCEPT ![a] = "closing"]
          /\ wrong' = [wrong EXCEPT ![src[a]] = Append(Recent(@), clock)]
          /\ UNCHANGED seen
    /\ UNCHANGED <<clock, table, limiter, src, writer, stream>>

\* CreateSession, which removes expired rows; or it fails and nothing is kept.
CreateSession(a) ==
    /\ pc[a] = "right"
    /\ pc' = [pc EXCEPT ![a] = "closing"]
    /\ \/ /\ issued < MaxToken
          /\ issued' = issued + 1
          /\ sessions' = [t \in Tokens |->
                IF t = issued + 1 THEN [gen |-> seen[a], exp |-> clock + TTL]
                ELSE IF Valid(t) THEN sessions[t] ELSE None]
          /\ outcome' = [outcome EXCEPT ![a] = 2]
       \/ outcome' = [outcome EXCEPT ![a] = 0] /\ UNCHANGED <<sessions, issued>>
    /\ seen' = [seen EXCEPT ![a] = 0]
    /\ UNCHANGED <<clock, pwd, panel, limiter, src, writer, stream, wrong>>

\* finishAttempt.
Recorded(s) ==
    LET f == Prune(fails, s)
        others == {x \in Sources : f[x] # <<>>} IN
    IF f[s] # <<>> \/ Cardinality(others) < MaxSources
    THEN [f EXCEPT ![s] = Append(@, clock)] ELSE f

\* The locals of a request that has ended.
AnySource == CHOOSE s \in Sources : TRUE
Forget(a) ==
    /\ src' = [src EXCEPT ![a] = AnySource]
    /\ outcome' = [outcome EXCEPT ![a] = 0]
    /\ UNCHANGED seen

\* Mutant: the slot is given back only by logins that were refused.
FinishKeeping(a) ==
    LET s == src[a] IN
    /\ pc[a] = "closing"
    /\ pc' = [pc EXCEPT ![a] = "idle"]
    /\ busy' = [busy EXCEPT ![s] = @ - 1]
    /\ active' = IF outcome[a] = 1 THEN active - 1 ELSE active
    /\ fails' = IF outcome[a] = 1 THEN Recorded(s) ELSE [fails EXCEPT ![s] = <<>>]
    /\ Forget(a)
    /\ UNCHANGED <<clock, table, sweeps, writer, stream, wrong>>
Finish(a) ==
    LET s == src[a] IN
    /\ pc[a] = "closing"
    /\ pc' = [pc EXCEPT ![a] = "idle"]
    /\ busy' = [busy EXCEPT ![s] = @ - 1]
    /\ active' = active - 1
    /\ fails' = CASE outcome[a] = 0 -> fails
                  [] outcome[a] = 1 -> Recorded(s)
                  [] outcome[a] = 2 -> [fails EXCEPT ![s] = <<>>]
    /\ wrong' = IF outcome[a] = 2 THEN [wrong EXCEPT ![s] = <<>>] ELSE wrong
    /\ Forget(a)
    /\ UNCHANGED <<clock, table, sweeps, writer, stream>>

----------------------------------------------------------------------------
(* Changes of the password, sessions and streams.                          *)

NoSessions == [t \in Tokens |-> None]

\* ChangePassword of a logged-in administrator: under the write lock the hash
\* is read, compared, and replaced together with all sessions, or nothing is.
BeginChange ==
    /\ ~writer /\ Readers = {}
    /\ \E t \in Tokens : Valid(t)
    /\ writer' = TRUE
    /\ UNCHANGED <<clock, table, limiter, login, stream, wrong>>

ChangePassword ==
    /\ writer
    /\ writer' = FALSE
    /\ \/ /\ pwd < MaxGen
          /\ pwd' = pwd + 1
          /\ panel' = pwd + 1
          /\ sessions' = NoSessions
       \/ UNCHANGED <<pwd, panel, sessions>>
    /\ UNCHANGED <<clock, issued, limiter, login, stream, wrong>>

\* reset-password and set-credentials: one transaction of another process.
ResetPassword ==
    /\ pwd < MaxGen
    /\ pwd' = pwd + 1
    /\ sessions' = NoSessions
    /\ UNCHANGED <<clock, panel, issued, limiter, login, writer, stream, wrong>>

\* A request that requireAuth let through.
Logout ==
    /\ \E t \in Tokens : Valid(t) /\ sessions' = [sessions EXCEPT ![t] = None]
    /\ UNCHANGED <<clock, pwd, panel, issued, limiter, login, writer, stream, wrong>>

OpenStream(e) ==
    /\ stream[e] = None
    /\ \E t \in Tokens : Valid(t) /\ stream' = [stream EXCEPT ![e] = t]
    /\ UNCHANGED <<clock, table, limiter, login, writer, wrong>>

\* The session is looked up again before each event.
\* Mutant: it is looked up when the stream opens, and only then.
PollTrusting(e) == stream[e] # None /\ UNCHANGED vars
Poll(e) ==
    /\ stream[e] # None
    /\ stream' = IF Valid(stream[e]) THEN stream ELSE [stream EXCEPT ![e] = None]
    /\ UNCHANGED <<clock, table, limiter, login, writer, wrong>>

Tick ==
    /\ clock < MaxTime
    /\ clock' = clock + 1
    /\ UNCHANGED <<table, limiter, login, writer, stream, wrong>>

\* The panel is restarted: sessions stay, the limiter begins anew.
Restart ==
    /\ fails' = [s \in Sources |-> <<>>]
    /\ busy' = [s \in Sources |-> 0]
    /\ active' = 0 /\ sweeps' = 0
    /\ pc' = [a \in Attempts |-> "idle"]
    /\ writer' = FALSE
    /\ stream' = [e \in Streams |-> None]
    /\ wrong' = [s \in Sources |-> <<>>]
    /\ src' = [a \in Attempts |-> AnySource]
    /\ seen' = [a \in Attempts |-> 0] /\ outcome' = [a \in Attempts |-> 0]
    /\ UNCHANGED <<clock, table>>

----------------------------------------------------------------------------
Init ==
    /\ clock = 0 /\ pwd = 0 /\ panel = 0 /\ sessions = NoSessions /\ issued = 0
    /\ fails = [s \in Sources |-> <<>>] /\ busy = [s \in Sources |-> 0]
    /\ active = 0 /\ sweeps = 0
    /\ pc = [a \in Attempts |-> "idle"]
    /\ src = [a \in Attempts |-> AnySource]
    /\ seen = [a \in Attempts |-> 0] /\ outcome = [a \in Attempts |-> 0]
    /\ writer = FALSE
    /\ stream = [e \in Streams |-> None]
    /\ wrong = [s \in Sources |-> <<>>]

Proceed(a) == Lock(a) \/ Compare(a) \/ CreateSession(a) \/ Finish(a)

Next ==
    \/ \E a \in Attempts : (\E s \in Sources : Reserve(a, s)) \/ Proceed(a)
    \/ BeginChange \/ ChangePassword \/ ResetPassword \/ Logout
    \/ \E e \in Streams : OpenStream(e) \/ Poll(e)
    \/ Tick \/ Restart

\* Goroutines that can run do, and the ticker of a stream keeps ticking.  A
\* sync.RWMutex lets the readers that wait in before the next writer.
Fairness ==
    /\ \A a \in Attempts : WF_vars(Proceed(a)) /\ SF_vars(Lock(a))
    /\ WF_vars(ChangePassword)
    /\ \A e \in Streams : WF_vars(Poll(e))

Spec == Init /\ [][Next]_vars /\ Fairness

----------------------------------------------------------------------------
(* Properties.                                                             *)

\* The shape of the state, on which the properties below rely.
TypeOK ==
    /\ clock \in 0..MaxTime /\ pwd \in Gens /\ panel \in Gens /\ issued \in 0..MaxToken
    /\ sessions \in [Tokens -> Sessions \cup {None}]
    /\ fails \in [Sources -> Seq(0..MaxTime)] /\ wrong \in [Sources -> Seq(0..MaxTime)]
    /\ busy \in [Sources -> 0..Limit] /\ active \in 0..MaxActive
    /\ sweeps \in 0..(SweepInterval - 1)
    /\ pc \in [Attempts -> {"idle", "reserved", "locked", "right", "closing"}]
    /\ src \in [Attempts -> Sources] /\ seen \in [Attempts -> Gens]
    /\ outcome \in [Attempts -> 0..2] /\ writer \in BOOLEAN
    /\ stream \in [Streams -> Tokens \cup {None}]

\* The counters of the limiter are exact however a login ends, so that no slot
\* is lost to the logins that come after it (reserveAttempt, finishAttempt).
Accounted ==
    /\ active = Cardinality(InFlight)
    /\ \A s \in Sources : busy[s] = Cardinality({a \in InFlight : src[a] = s})

\* No source has more than Limit wrong passwords compared within the window
\* since it last logged in, logins side by side included: none is forgotten
\* because the table of sources is full (finishAttempt's second condition).
GuessesBounded == \A s \in Sources : Len(Recent(wrong[s])) <= Limit

\* A session made with a password that the panel has since replaced does not
\* exist: a login that overlaps the change is either before it, and its session
\* is deleted with the others, or compared with the new hash.
PanelRevokes == \A t \in Tokens : sessions[t] # None => sessions[t].gen >= panel

\* A session made with any replaced password does not exist, as the comment on
\* ChangeAdministrator has it: "the previous credentials stop working
\* immediately".
CommandRevokes == \A t \in Tokens : sessions[t] # None => sessions[t].gen = pwd

\* A stream whose session was revoked or has expired is closed.
StreamsEnd == \A e \in Streams, t \in Tokens :
    (stream[e] = t /\ ~Valid(t)) ~> stream[e] # t
=============================================================================
