----------------------------- MODULE UDPSession -----------------------------
(***************************************************************************)
(* The UDP proxy of one listener: handleUDPPacket, getOrCreateUDPSession,  *)
(* roundTripUDPSession, the session reaper and what Shutdown does to them  *)
(* (internal/traffic/server.go).                                           *)
(*                                                                         *)
(* Every packet is handled by a goroutine of its own, named here by the    *)
(* packet.  It tries its candidates in turn; a try finds or dials the      *)
(* session of (client, upstream), writes, and reads one answer.  A         *)
(* session is an upstream socket with a mutex for the round trip; the map  *)
(* of sessions has its own mutex, udpSessionMu, which Shutdown does not    *)
(* take.                                                                   *)
(*                                                                         *)
(* Time is kept as ages: idle[k] is time.Since(lastUsed), counted up to    *)
(* the first value that exceeds every TTL.                                 *)
(***************************************************************************)
EXTENDS Integers, Sequences, FiniteSets

CONSTANTS
    Packet,      \* packets that arrive at the listener
    Client,      \* client addresses
    Senders,     \* which clients may have sent which packets
    Upstream,    \* upstream addresses
    MaxAttempts, \* the most candidates a packet is given
    Candidates,  \* what ResolveDestinationsForAttempts gives a packet
    TTLs,        \* values of udp.session_ttl_ms that a configuration may have
    DefaultTTL,  \* of the reaper, where the plan has no binding
    NoBinding,   \* the plan has no UDP binding for this listener
    NoConn,      \* no such session
    NoPacket     \* no answer; mutex free

ASSUME SendersAssumption == Senders \subseteq [Packet -> Client]
ASSUME AttemptsAssumption == MaxAttempts \in Nat \ {0}
ASSUME CandidatesAssumption ==
    Candidates \in [Packet -> UNION {[1..n -> Upstream] : n \in 1..MaxAttempts}]
ASSUME TTLAssumption ==
    /\ TTLs \subseteq Nat
    /\ DefaultTTL \in Nat
    /\ NoBinding \notin Nat
    /\ \E t \in TTLs \cup {DefaultTTL} : \A u \in TTLs \cup {DefaultTTL} : u <= t
ASSUME NoPacketAssumption == NoPacket \notin Packet

\* Sockets: a packet's i-th try dials at most one.
Conn == Packet \X (1..MaxAttempts)

ASSUME NoConnAssumption == NoConn \notin Conn

VARIABLES
    client,    \* client[p]: the client that sent p
    binding,   \* session TTL of the listener's binding in the current plan
    phase,     \* how far Server.Shutdown is
    pc,        \* pc[p]: where the goroutine of p is
    try,       \* try[p]: index of the candidate it is trying
    ttl,       \* ttl[p]: the SessionTTL of the plan it was started with
    asked,     \* asked[p]: age of the time it read in getOrCreateUDPSession
    use,       \* use[p]: the session it uses
    sessions,  \* Server.udpSessions
    open,      \* sockets dialled and not closed
    idle,      \* idle[k]: age of the session's lastUsed
    mu,        \* mu[k]: the packet that holds the session's mutex
    flight,    \* <<k, p, i>>: p, written to k by its i-th try, is not answered
    inbox,     \* inbox[k]: answers waiting in the socket, by the packet they answer
    taken,     \* sockets Shutdown has collected
    reply      \* reply[p]: the packet whose answer p's goroutine is about to send back

goVars == <<pc, try, ttl, asked, use, reply>>
sessionVars == <<sessions, open, idle, mu>>
netVars == <<flight, inbox>>
vars == <<client, binding, phase, goVars, sessionVars, netVars, taken>>

Key == Client \X Upstream

----------------------------------------------------------------------------
\* Ages.  Cap is the first age at which every session has expired.
Cap == 1 + (CHOOSE t \in TTLs \cup {DefaultTTL} :
               \A u \in TTLs \cup {DefaultTTL} : u <= t)

Older(age) == IF age < Cap THEN age + 1 ELSE age

(***************************************************************************)
(* The types; in particular a goroutine tries no more candidates than it   *)
(* was given (server.go:512).                                              *)
(***************************************************************************)
TypeOK ==
    /\ client \in Senders
    /\ binding \in TTLs \cup {NoBinding}
    /\ phase \in {"running", "collected", "swapped", "closed"}
    /\ pc \in [Packet -> {"new", "lookup", "dial", "insert", "write", "read",
                          "touch", "done"}]
    /\ try \in [Packet -> Nat]
    /\ \A p \in Packet : try[p] \in 1..Len(Candidates[p])
    /\ ttl \in [Packet -> TTLs \cup {NoBinding}]
    /\ asked \in [Packet -> 0..Cap]
    /\ use \in [Packet -> Conn \cup {NoConn}]
    /\ sessions \in [Key -> Conn \cup {NoConn}]
    /\ open \subseteq Conn
    /\ idle \in [Conn -> 0..Cap]
    /\ mu \in [Conn -> Packet \cup {NoPacket}]
    /\ flight \subseteq Conn \X Packet \X (1..MaxAttempts)
    /\ inbox \in [Conn -> Seq(Packet)]
    /\ taken \subseteq Conn
    /\ reply \in [Packet -> Packet \cup {NoPacket}]

----------------------------------------------------------------------------
\* Mutant: one session for all clients of an upstream.
udpSessionKeyShared(p, u) == <<CHOOSE c \in Client : TRUE, u>>

\* udpSessionKey (server.go:556); there is one listener here.
udpSessionKey(p, u) == <<client[p], u>>

\* The key of p's current try.
KeyFor(p) == udpSessionKey(p, Candidates[p][try[p]])

\* The key a socket was dialled for.
KeyOf(k) == udpSessionKey(k[1], Candidates[k[1]][k[2]])

\* Sockets that are closed lose what is under way to them; nobody reads their
\* lastUsed again.
Close(K) ==
    /\ open' = open \ K
    /\ idle' = [k \in Conn |-> IF k \in K THEN 0 ELSE idle[k]]
    /\ flight' = {f \in flight : f[1] \notin K}
    /\ inbox' = [k \in Conn |-> IF k \in K THEN <<>> ELSE inbox[k]]

Init ==
    /\ client \in Senders
    /\ binding \in TTLs
    /\ phase = "running"
    /\ pc = [p \in Packet |-> "new"]
    /\ try = [p \in Packet |-> 1]
    /\ ttl = [p \in Packet |-> NoBinding]
    /\ asked = [p \in Packet |-> 0]
    /\ use = [p \in Packet |-> NoConn]
    /\ sessions = [x \in Key |-> NoConn]
    /\ open = {}
    /\ idle = [k \in Conn |-> 0]
    /\ mu = [k \in Conn |-> NoPacket]
    /\ flight = {}
    /\ inbox = [k \in Conn |-> <<>>]
    /\ taken = {}
    /\ reply = [p \in Packet |-> NoPacket]

----------------------------------------------------------------------------
\* The goroutine of a packet.

\* acceptUDPLoop reads a packet and starts its goroutine, which takes the plan
\* in force.  A packet that was read just before the listener was closed finds
\* no binding and is dropped, and so is one whose destination leads nowhere.
Receive(p) ==
    /\ pc[p] = "new"
    /\ phase # "closed"
    /\ \/ pc' = [pc EXCEPT ![p] = "done"] /\ UNCHANGED ttl
       \/ /\ binding # NoBinding
          /\ ttl' = [ttl EXCEPT ![p] = binding]
          /\ pc' = [pc EXCEPT ![p] = "lookup"]
    /\ UNCHANGED <<client, binding, phase, try, asked, use, reply, sessionVars, netVars, taken>>

\* The goroutine ends, and its variables with it.
Done(p) ==
    /\ pc' = [pc EXCEPT ![p] = "done"]
    /\ try' = [try EXCEPT ![p] = 1]
    /\ ttl' = [ttl EXCEPT ![p] = NoBinding]

\* Mutant: a candidate more than there are.
NextCandidatePast(p) ==
    /\ IF try[p] <= Len(Candidates[p])
       THEN /\ try' = [try EXCEPT ![p] = @ + 1]
            /\ pc' = [pc EXCEPT ![p] = "lookup"]
            /\ UNCHANGED ttl
       ELSE Done(p)
    /\ use' = [use EXCEPT ![p] = NoConn]

\* The try has failed: on to the next candidate, if there is one.
NextCandidate(p) ==
    /\ IF try[p] < Len(Candidates[p])
       THEN /\ try' = [try EXCEPT ![p] = @ + 1]
            /\ pc' = [pc EXCEPT ![p] = "lookup"]
            /\ UNCHANGED ttl
       ELSE Done(p)
    /\ use' = [use EXCEPT ![p] = NoConn]

\* getOrCreateUDPSession up to the dial: a session that has not expired is
\* taken and its lastUsed refreshed, one that has is removed and closed even
\* where other goroutines use it.
Lookup(p) ==
    LET k == sessions[KeyFor(p)]
    IN  /\ pc[p] = "lookup"
        /\ IF k # NoConn /\ idle[k] <= ttl[p]
           THEN /\ idle' = [idle EXCEPT ![k] = 0]
                /\ use' = [use EXCEPT ![p] = k]
                /\ pc' = [pc EXCEPT ![p] = "write"]
                /\ UNCHANGED <<asked, sessions, open, netVars>>
           ELSE /\ sessions' = [sessions EXCEPT ![KeyFor(p)] = NoConn]
                /\ Close({k} \cap Conn)
                /\ asked' = [asked EXCEPT ![p] = 0]
                /\ pc' = [pc EXCEPT ![p] = "dial"]
                /\ UNCHANGED use
        /\ UNCHANGED <<client, binding, phase, try, ttl, reply, mu, taken>>

\* net.DialTimeout, outside of any lock.
Dial(p) ==
    /\ pc[p] = "dial"
    /\ open' = open \cup {<<p, try[p]>>}
    /\ pc' = [pc EXCEPT ![p] = "insert"]
    /\ UNCHANGED <<client, binding, phase, try, ttl, asked, use, reply, sessions,
                   idle, mu, netVars, taken>>

DialFails(p) ==
    /\ pc[p] = "dial"
    /\ NextCandidate(p)
    /\ asked' = [asked EXCEPT ![p] = 0]
    /\ UNCHANGED <<client, binding, phase, reply, sessionVars, netVars, taken>>

\* Mutant: the socket that was not needed stays open.
InsertKeepsBoth(p) ==
    LET mine == <<p, try[p]>>
        k == sessions[KeyFor(p)]
    IN  /\ pc[p] = "insert"
        /\ IF k # NoConn
           THEN /\ use' = [use EXCEPT ![p] = k]
                /\ UNCHANGED <<sessions, idle>>
           ELSE /\ sessions' = [sessions EXCEPT ![KeyFor(p)] = mine]
                /\ idle' = [idle EXCEPT ![mine] = asked[p]]
                /\ use' = [use EXCEPT ![p] = mine]
        /\ pc' = [pc EXCEPT ![p] = "write"]
        /\ asked' = [asked EXCEPT ![p] = 0]
        /\ UNCHANGED <<client, binding, phase, try, ttl, reply, mu, taken, open, netVars>>

\* getOrCreateUDPSession after the dial: if another goroutine has made the
\* session meanwhile, use that one, as it is, and close one's own.  lastUsed of
\* a new session is the time read before the dial.
Insert(p) ==
    LET mine == <<p, try[p]>>
        k == sessions[KeyFor(p)]
    IN  /\ pc[p] = "insert"
        /\ IF k # NoConn
           THEN /\ Close({mine})
                /\ use' = [use EXCEPT ![p] = k]
                /\ UNCHANGED sessions
           ELSE /\ sessions' = [sessions EXCEPT ![KeyFor(p)] = mine]
                /\ idle' = [idle EXCEPT ![mine] = asked[p]]
                /\ use' = [use EXCEPT ![p] = mine]
                /\ UNCHANGED <<open, netVars>>
        /\ pc' = [pc EXCEPT ![p] = "write"]
        /\ asked' = [asked EXCEPT ![p] = 0]
        /\ UNCHANGED <<client, binding, phase, try, ttl, reply, mu, taken>>

\* roundTripUDPSession takes the session's mutex and writes.
Write(p) ==
    /\ pc[p] = "write"
    /\ mu[use[p]] = NoPacket
    /\ use[p] \in open
    /\ mu' = [mu EXCEPT ![use[p]] = p]
    /\ flight' = flight \cup {<<use[p], p, try[p]>>}
    /\ pc' = [pc EXCEPT ![p] = "read"]
    /\ UNCHANGED <<client, binding, phase, try, ttl, asked, use, reply, sessions,
                   open, idle, inbox, taken>>

\* The socket was closed, or the write fails: unlock, next candidate.
WriteFails(p) ==
    /\ pc[p] = "write"
    /\ mu[use[p]] = NoPacket
    /\ NextCandidate(p)
    /\ UNCHANGED <<client, binding, phase, asked, reply, sessionVars, netVars, taken>>

\* An answer is there.
Read(p) ==
    /\ pc[p] = "read"
    /\ use[p] \in open
    /\ inbox[use[p]] # <<>>
    /\ reply' = [reply EXCEPT ![p] = Head(inbox[use[p]])]
    /\ inbox' = [inbox EXCEPT ![use[p]] = Tail(@)]
    /\ pc' = [pc EXCEPT ![p] = "touch"]
    /\ UNCHANGED <<client, binding, phase, try, ttl, asked, use, sessionVars, flight, taken>>

\* Mutant: the mutex is not released on an error.
GiveUpLocked(p) ==
    /\ pc[p] = "read"
    /\ NextCandidate(p)
    /\ UNCHANGED <<client, binding, phase, asked, reply, sessions, open, idle, mu,
                   flight, taken>>

\* Unlock the session and try the next candidate.
GiveUp(p) ==
    /\ pc[p] = "read"
    /\ mu' = [mu EXCEPT ![use[p]] = NoPacket]
    /\ NextCandidate(p)
    /\ UNCHANGED <<client, binding, phase, asked, reply, sessions, open, idle, flight,
                   taken>>

\* The read timed out, or the socket was closed or refused.
ReadFails(p) ==
    /\ use[p] \in open => inbox[use[p]] = <<>>
    /\ GiveUp(p)
    /\ UNCHANGED inbox

\* The answer is an empty datagram, which counts for nothing.
ReadEmpty(p) ==
    /\ use[p] \in open
    /\ inbox[use[p]] # <<>>
    /\ GiveUp(p)
    /\ inbox' = [inbox EXCEPT ![use[p]] = Tail(@)]

\* Refresh lastUsed, unlock, and write the answer back to p's client.
Touch(p) ==
    /\ pc[p] = "touch"
    /\ idle' = IF use[p] \in open THEN [idle EXCEPT ![use[p]] = 0] ELSE idle
    /\ mu' = [mu EXCEPT ![use[p]] = NoPacket]
    /\ use' = [use EXCEPT ![p] = NoConn]
    /\ reply' = [reply EXCEPT ![p] = NoPacket]
    /\ Done(p)
    /\ UNCHANGED <<client, binding, phase, asked, sessions, open, netVars, taken>>

----------------------------------------------------------------------------
\* Network, clock and configuration.

\* An upstream answers a packet, soon or late, in any order.
Answer(f) ==
    /\ f \in flight
    /\ flight' = flight \ {f}
    /\ inbox' = [inbox EXCEPT ![f[1]] = Append(@, f[2])]
    /\ UNCHANGED <<client, binding, phase, goVars, sessionVars, taken>>

\* The packet or its answer is lost.
Lose(f) ==
    /\ f \in flight
    /\ flight' = flight \ {f}
    /\ UNCHANGED <<client, binding, phase, goVars, sessionVars, inbox, taken>>

Tick ==
    /\ idle' = [k \in Conn |-> IF k \in open THEN Older(idle[k]) ELSE idle[k]]
    /\ asked' = [p \in Packet |->
                    IF pc[p] \in {"dial", "insert"} THEN Older(asked[p]) ELSE asked[p]]
    /\ UNCHANGED <<client, binding, phase, pc, try, ttl, use, reply, sessions, open,
                   mu, netVars, taken>>

\* A refresh replaces the plan: another TTL, or no binding any more.
Refresh(t) ==
    /\ phase = "running"
    /\ t # binding
    /\ binding' = t
    /\ UNCHANGED <<client, phase, goVars, sessionVars, netVars, taken>>

\* Mutant: sessions of listeners that are not in the plan are left alone.
ReaperTTLBound == IF binding = NoBinding THEN Cap ELSE binding

\* The TTL by which the reaper judges this listener's sessions.
ReaperTTL == IF binding = NoBinding THEN DefaultTTL ELSE binding

\* reapUDPSessions, every five seconds until Shutdown stops the reaper.
Reap ==
    LET expired == {x \in Key : sessions[x] # NoConn /\ idle[sessions[x]] > ReaperTTL}
    IN  /\ phase # "closed"
        /\ expired # {}
        /\ sessions' = [x \in Key |-> IF x \in expired THEN NoConn ELSE sessions[x]]
        /\ Close({sessions[x] : x \in expired})
        /\ UNCHANGED <<client, binding, phase, goVars, mu, taken>>

\* Shutdown reads the map, then replaces it, both under Server.mu only, so that
\* a goroutine under udpSessionMu may write to it in between or at the same time;
\* then it closes the listener and the sockets and stops the reaper.
ShutdownCollect ==
    /\ phase = "running"
    /\ phase' = "collected"
    /\ taken' = {sessions[x] : x \in Key} \ {NoConn}
    /\ UNCHANGED <<client, binding, goVars, sessionVars, netVars>>

ShutdownSwap ==
    /\ phase = "collected"
    /\ phase' = "swapped"
    /\ sessions' = [x \in Key |-> NoConn]
    /\ UNCHANGED <<client, binding, goVars, open, idle, mu, netVars, taken>>

ShutdownClose ==
    /\ phase = "swapped"
    /\ phase' = "closed"
    /\ Close(taken)
    /\ taken' = {}
    /\ UNCHANGED <<client, binding, goVars, sessions, mu>>

\* What the goroutine of a packet does once it is started.
Handle(p) ==
    \/ Lookup(p)
    \/ Dial(p)
    \/ DialFails(p)
    \/ Insert(p)
    \/ Write(p)
    \/ WriteFails(p)
    \/ Read(p)
    \/ ReadFails(p)
    \/ ReadEmpty(p)
    \/ Touch(p)

Next ==
    \/ \E p \in Packet : Receive(p) \/ Handle(p)
    \/ \E f \in flight : Answer(f) \/ Lose(f)
    \/ \E t \in TTLs \cup {NoBinding} : Refresh(t)
    \/ Tick
    \/ Reap
    \/ ShutdownCollect
    \/ ShutdownSwap
    \/ ShutdownClose

Spec == Init /\ [][Next]_vars

(***************************************************************************)
(* Fairness.  Goroutines run, reads and dials have deadlines, mutexes are  *)
(* handed on; the clock ticks and the reaper has a ticker.  Nothing is     *)
(* assumed of upstreams, of clients or of the configuration.               *)
(***************************************************************************)
LiveSpec ==
    /\ Spec
    /\ \A p \in Packet : WF_vars(Handle(p))
    /\ WF_vars(Tick)
    /\ WF_vars(Reap)
    /\ WF_vars(ShutdownSwap)
    /\ WF_vars(ShutdownClose)

----------------------------------------------------------------------------
(***************************************************************************)
(* Until Shutdown no socket leaks and no closed one is found: the sockets  *)
(* that are open are those of the map, each under the key it was dialled   *)
(* for, and those a goroutine has just dialled (server.go:560-600, 661).   *)
(***************************************************************************)
SessionsAreOpen ==
    phase = "running" =>
        /\ \A x \in Key : sessions[x] # NoConn =>
               sessions[x] \in open /\ KeyOf(sessions[x]) = x
        /\ \A k \in open :
               \/ sessions[KeyOf(k)] = k
               \/ pc[k[1]] = "insert" /\ k[2] = try[k[1]]

(***************************************************************************)
(* What is written back to a client answers a packet of that client, also  *)
(* when the answer comes after the read it was meant for has timed out and *)
(* the session was taken over by a later packet (server.go:556, 602).      *)
(***************************************************************************)
AnswersStayWithClient ==
    \A p \in Packet : reply[p] # NoPacket => client[reply[p]] = client[p]

(***************************************************************************)
(* Once no packets come any more every session is closed, even when its    *)
(* service is no longer configured (server.go:632-681).                    *)
(***************************************************************************)
IdleIsClosed == <>[](phase = "running" => open = {})

(***************************************************************************)
(* Every packet is done with after finitely many tries, whatever upstreams *)
(* do and whoever else waits for the session (server.go:493-544).          *)
(***************************************************************************)
PacketsEnd == <>[](\A p \in Packet : pc[p] \in {"new", "done"})

=============================================================================
