-------------------------- MODULE UDPSessionProofs --------------------------
(***************************************************************************)
(* Proofs about UDPSession, for any packets, clients, upstreams and        *)
(* configurations: the types, that answers stay with their client, and     *)
(* that no socket leaks before Shutdown.                                   *)
(***************************************************************************)
EXTENDS UDPSession, TLAPS

\* There is a largest TTL, so that Cap is a number.
LEMMA CapNat == Cap \in Nat
  <1> DEFINE S == TTLs \cup {DefaultTTL}
             P(t) == \A u \in S : u <= t
             m == CHOOSE t \in S : P(t)
  <1>1. \E t \in S : P(t)
    BY TTLAssumption
  <1>2. S \subseteq Nat
    BY TTLAssumption
  <1>3. Cap = 1 + m
    BY DEF Cap
  <1> HIDE DEF S, P
  <1>4. m \in S
    BY <1>1
  <1> HIDE DEF m
  <1> QED
    BY <1>2, <1>3, <1>4

LEMMA OlderType == ASSUME NEW age \in 0..Cap PROVE Older(age) \in 0..Cap
  BY CapNat DEF Older

\* Every packet has at least one candidate, and no more than MaxAttempts.
LEMMA CandidateCount ==
    ASSUME NEW p \in Packet
    PROVE  /\ Len(Candidates[p]) \in 1..MaxAttempts
           /\ \A i \in 1..Len(Candidates[p]) : Candidates[p][i] \in Upstream
  <1>1. PICK n \in 1..MaxAttempts : Candidates[p] \in [1..n -> Upstream]
    BY CandidatesAssumption
  <1>2. n \in Nat
    BY AttemptsAssumption
  <1>3. Len(Candidates[p]) = n
    BY <1>1, <1>2
  <1> QED
    BY <1>1, <1>3

\* The socket that the current try of p dials, and the key it is dialled for.
LEMMA TryType ==
    ASSUME TypeOK, NEW p \in Packet
    PROVE  /\ try[p] \in 1..MaxAttempts
           /\ <<p, try[p]>> \in Conn
           /\ KeyFor(p) \in Key
           /\ KeyFor(p)[1] = client[p]
           /\ KeyOf(<<p, try[p]>>) = KeyFor(p)
  <1>1. try[p] \in 1..Len(Candidates[p]) /\ Len(Candidates[p]) \in 1..MaxAttempts
    BY CandidateCount DEF TypeOK
  <1>2. try[p] \in 1..MaxAttempts
    BY <1>1, AttemptsAssumption
  <1>3. client[p] \in Client
    BY SendersAssumption DEF TypeOK
  <1>4. Candidates[p][try[p]] \in Upstream
    BY <1>1, CandidateCount
  <1> QED
    BY <1>2, <1>3, <1>4 DEF Conn, KeyFor, KeyOf, udpSessionKey, Key

----------------------------------------------------------------------------
\* Types.

\* The types of what Close changes.
LEMMA CloseType ==
    ASSUME TypeOK, NEW K, Close(K)
    PROVE  /\ open' \subseteq Conn /\ open' = open \ K
           /\ idle' \in [Conn -> 0..Cap]
           /\ flight' \subseteq Conn \X Packet \X (1..MaxAttempts)
           /\ inbox' \in [Conn -> Seq(Packet)]
  <1>1. idle' \in [Conn -> 0..Cap]
    BY CapNat DEF Close, TypeOK
  <1>2. inbox' \in [Conn -> Seq(Packet)]
    BY DEF Close, TypeOK
  <1> QED
    BY <1>1, <1>2 DEF Close, TypeOK

\* The types of what the end of a try changes.
LEMMA NextCandidateType ==
    ASSUME TypeOK, NEW p \in Packet, NextCandidate(p)
    PROVE  /\ pc' \in [Packet -> {"new", "lookup", "dial", "insert", "write", "read",
                                  "touch", "done"}]
           /\ try' \in [Packet -> Nat]
           /\ \A q \in Packet : try'[q] \in 1..Len(Candidates[q])
           /\ ttl' \in [Packet -> TTLs \cup {NoBinding}]
           /\ use' \in [Packet -> Conn \cup {NoConn}]
  <1>1. \A q \in Packet : Len(Candidates[q]) \in Nat /\ Len(Candidates[q]) >= 1
    BY CandidateCount, AttemptsAssumption
  <1>2. use' \in [Packet -> Conn \cup {NoConn}]
    BY DEF NextCandidate, TypeOK
  <1>3. CASE try[p] < Len(Candidates[p])
    <2>1. /\ try' = [try EXCEPT ![p] = try[p] + 1] /\ ttl' = ttl
          /\ pc' = [pc EXCEPT ![p] = "lookup"]
      BY <1>3 DEF NextCandidate
    <2>2. try[p] + 1 \in 1..Len(Candidates[p])
      BY <1>1, <1>3 DEF TypeOK
    <2>3. \A q \in Packet : try'[q] \in 1..Len(Candidates[q])
      BY <2>1, <2>2 DEF TypeOK
    <2> QED
      BY <1>2, <2>1, <2>2, <2>3 DEF TypeOK
  <1>4. CASE ~(try[p] < Len(Candidates[p]))
    <2>1. Done(p)
      BY <1>4 DEF NextCandidate
    <2>2. 1 \in 1..Len(Candidates[p])
      BY <1>1
    <2>3. \A q \in Packet : try'[q] \in 1..Len(Candidates[q])
      BY <2>1, <2>2 DEF Done, TypeOK
    <2>4. try' \in [Packet -> Nat]
      BY <2>1 DEF Done, TypeOK
    <2> QED
      BY <1>2, <2>1, <2>3, <2>4 DEF Done, TypeOK
  <1> QED
    BY <1>3, <1>4

\* A goroutine that goes on, or ends, with the rest of its variables as they are.
LEMMA PcType ==
    ASSUME TypeOK, NEW p \in Packet,
           NEW at \in {"new", "lookup", "dial", "insert", "write", "read", "touch", "done"},
           pc' = [pc EXCEPT ![p] = at]
    PROVE  pc' \in [Packet -> {"new", "lookup", "dial", "insert", "write", "read",
                               "touch", "done"}]
  BY DEF TypeOK

\* The steps of a goroutine keep the types.
LEMMA HandleType ==
    ASSUME TypeOK, NEW p \in Packet, Receive(p) \/ Handle(p)
    PROVE  TypeOK'
  <1>1. CASE Receive(p)
    BY <1>1 DEF Receive, sessionVars, netVars, TypeOK
  <1>2. CASE Lookup(p)
    <2> DEFINE k == sessions[KeyFor(p)]
    <2>1. k \in Conn \cup {NoConn}
      BY TryType DEF TypeOK
    <2>2. CASE k # NoConn /\ idle[k] <= ttl[p]
      <3>1. /\ idle' = [idle EXCEPT ![k] = 0]
            /\ use' = [use EXCEPT ![p] = k]
            /\ pc' = [pc EXCEPT ![p] = "write"]
            /\ UNCHANGED <<asked, sessions, open, netVars>>
        BY <1>2, <2>2 DEF Lookup
      <3>2. 0 \in 0..Cap /\ idle \in [Conn -> 0..Cap]
        BY CapNat DEF TypeOK
      <3>3. idle' \in [Conn -> 0..Cap]
        BY <3>1, <3>2
      <3>4. use' \in [Packet -> Conn \cup {NoConn}]
        BY <2>1, <3>1 DEF TypeOK
      <3> QED
        BY <1>2, <3>1, <3>3, <3>4, PcType DEF Lookup, netVars, TypeOK
    <2>3. CASE ~(k # NoConn /\ idle[k] <= ttl[p])
      <3>1. /\ sessions' = [sessions EXCEPT ![KeyFor(p)] = NoConn]
            /\ Close({k} \cap Conn)
            /\ asked' = [asked EXCEPT ![p] = 0]
            /\ pc' = [pc EXCEPT ![p] = "dial"]
            /\ UNCHANGED use
        BY <1>2, <2>3 DEF Lookup
      <3>2. asked' \in [Packet -> 0..Cap]
        BY <3>1, CapNat DEF TypeOK
      <3>3. sessions' \in [Key -> Conn \cup {NoConn}]
        BY <3>1 DEF TypeOK
      <3> QED
        BY <1>2, <3>1, <3>2, <3>3, PcType, CloseType DEF Lookup, TypeOK
    <2> QED
      BY <2>2, <2>3
  <1>3. CASE Dial(p)
    BY <1>3, TryType DEF Dial, netVars, TypeOK
  <1>4. CASE DialFails(p)
    <2>1. asked' \in [Packet -> 0..Cap]
      BY <1>4, CapNat DEF DialFails, TypeOK
    <2> QED
      BY <1>4, <2>1, NextCandidateType DEF DialFails, sessionVars, netVars, TypeOK
  <1>5. CASE Insert(p)
    <2> DEFINE mine == <<p, try[p]>>
               k == sessions[KeyFor(p)]
    <2>1. k \in Conn \cup {NoConn} /\ mine \in Conn /\ KeyFor(p) \in Key
      BY TryType DEF TypeOK
    <2>2. /\ asked' \in [Packet -> 0..Cap]
          /\ pc' = [pc EXCEPT ![p] = "write"]
          /\ UNCHANGED <<client, binding, phase, try, ttl, reply, mu, taken>>
      BY <1>5, CapNat DEF Insert, TypeOK
    <2>3. CASE k # NoConn
      <3>1. Close({mine}) /\ use' = [use EXCEPT ![p] = k] /\ UNCHANGED sessions
        BY <1>5, <2>3 DEF Insert
      <3>2. use' \in [Packet -> Conn \cup {NoConn}]
        BY <2>1, <3>1 DEF TypeOK
      <3> QED
        BY <2>2, <3>1, <3>2, PcType, CloseType DEF TypeOK
    <2>4. CASE k = NoConn
      <3>1. /\ sessions' = [sessions EXCEPT ![KeyFor(p)] = mine]
            /\ idle' = [idle EXCEPT ![mine] = asked[p]]
            /\ use' = [use EXCEPT ![p] = mine]
            /\ UNCHANGED <<open, netVars>>
        BY <1>5, <2>4 DEF Insert
      <3>2. /\ use' \in [Packet -> Conn \cup {NoConn}]
            /\ sessions' \in [Key -> Conn \cup {NoConn}]
        BY <2>1, <3>1 DEF TypeOK
      <3>3. idle' \in [Conn -> 0..Cap]
        BY <3>1 DEF TypeOK
      <3> QED
        BY <2>2, <3>1, <3>2, <3>3, PcType DEF netVars, TypeOK
    <2> QED
      BY <2>3, <2>4
  <1>6. CASE Write(p)
    <2>1. use[p] \in Conn /\ try[p] \in 1..MaxAttempts
      BY <1>6, TryType DEF Write, TypeOK
    <2>2. flight' \subseteq Conn \X Packet \X (1..MaxAttempts)
      BY <1>6, <2>1 DEF Write, TypeOK
    <2>3. mu' \in [Conn -> Packet \cup {NoPacket}]
      BY <1>6 DEF Write, TypeOK
    <2> QED
      BY <1>6, <2>2, <2>3, PcType DEF Write, TypeOK
  <1>7. CASE WriteFails(p)
    BY <1>7, NextCandidateType DEF WriteFails, sessionVars, netVars, TypeOK
  <1>8. CASE Read(p)
    <2>1. inbox[use[p]] \in Seq(Packet) /\ inbox[use[p]] # <<>> /\ use[p] \in Conn
      BY <1>8 DEF Read, TypeOK
    <2>2. Head(inbox[use[p]]) \in Packet /\ Tail(inbox[use[p]]) \in Seq(Packet)
      BY <2>1
    <2>3. reply' \in [Packet -> Packet \cup {NoPacket}] /\ inbox' \in [Conn -> Seq(Packet)]
      BY <1>8, <2>2 DEF Read, TypeOK
    <2> QED
      BY <1>8, <2>3, PcType DEF Read, sessionVars, TypeOK
  <1>9. CASE ReadFails(p)
    <2>1. mu' \in [Conn -> Packet \cup {NoPacket}]
      BY <1>9 DEF ReadFails, GiveUp, TypeOK
    <2> QED
      BY <1>9, <2>1, NextCandidateType DEF ReadFails, GiveUp, TypeOK
  <1>10. CASE ReadEmpty(p)
    <2>1. mu' \in [Conn -> Packet \cup {NoPacket}]
      BY <1>10 DEF ReadEmpty, GiveUp, TypeOK
    <2>2. inbox[use[p]] \in Seq(Packet) /\ inbox[use[p]] # <<>> /\ use[p] \in Conn
      BY <1>10 DEF ReadEmpty, TypeOK
    <2>3. Tail(inbox[use[p]]) \in Seq(Packet)
      BY <2>2
    <2>4. inbox' \in [Conn -> Seq(Packet)]
      BY <1>10, <2>3 DEF ReadEmpty, TypeOK
    <2> QED
      BY <1>10, <2>1, <2>4, NextCandidateType DEF ReadEmpty, GiveUp, TypeOK
  <1>11. CASE Touch(p)
    <2>1. idle' \in [Conn -> 0..Cap]
      BY <1>11, CapNat DEF Touch, TypeOK
    <2>2. /\ mu' \in [Conn -> Packet \cup {NoPacket}]
          /\ use' \in [Packet -> Conn \cup {NoConn}]
          /\ reply' \in [Packet -> Packet \cup {NoPacket}]
      BY <1>11 DEF Touch, TypeOK
    <2>3. 1 \in 1..Len(Candidates[p])
      BY CandidateCount, AttemptsAssumption
    <2>4. /\ try' \in [Packet -> Nat]
          /\ \A q \in Packet : try'[q] \in 1..Len(Candidates[q])
          /\ ttl' \in [Packet -> TTLs \cup {NoBinding}]
      BY <1>11, <2>3 DEF Touch, Done, TypeOK
    <2> QED
      BY <1>11, <2>1, <2>2, <2>4, PcType DEF Touch, Done, netVars, TypeOK
  <1> QED
    BY <1>1, <1>2, <1>3, <1>4, <1>5, <1>6, <1>7, <1>8, <1>9, <1>10, <1>11 DEF Handle

\* The steps of everybody else keep the types.
LEMMA OtherType ==
    ASSUME TypeOK,
           \/ \E f \in flight : Answer(f) \/ Lose(f)
           \/ \E t \in TTLs \cup {NoBinding} : Refresh(t)
           \/ Tick \/ Reap \/ ShutdownCollect \/ ShutdownSwap \/ ShutdownClose
    PROVE  TypeOK'
  <1>1. ASSUME NEW f \in flight, Answer(f)
        PROVE  TypeOK'
    <2>1. f[1] \in Conn /\ f[2] \in Packet
      BY DEF TypeOK
    <2>2. inbox[f[1]] \in Seq(Packet)
      BY <2>1 DEF TypeOK
    <2>3. Append(inbox[f[1]], f[2]) \in Seq(Packet)
      BY <2>1, <2>2
    <2>4. inbox' \in [Conn -> Seq(Packet)]
      BY <1>1, <2>3 DEF Answer, TypeOK
    <2> QED
      BY <1>1, <2>4 DEF Answer, goVars, sessionVars, TypeOK
  <1>2. ASSUME NEW f \in flight, Lose(f)
        PROVE  TypeOK'
    BY <1>2 DEF Lose, goVars, sessionVars, TypeOK
  <1>3. ASSUME NEW t \in TTLs \cup {NoBinding}, Refresh(t)
        PROVE  TypeOK'
    BY <1>3 DEF Refresh, goVars, sessionVars, netVars, TypeOK
  <1>4. CASE Tick
    <2>1. idle' \in [Conn -> 0..Cap] /\ asked' \in [Packet -> 0..Cap]
      BY <1>4, OlderType DEF Tick, TypeOK
    <2> QED
      BY <1>4, <2>1 DEF Tick, netVars, TypeOK
  <1>5. CASE Reap
    <2>1. PICK K : Close(K)
      BY <1>5 DEF Reap
    <2>2. sessions' \in [Key -> Conn \cup {NoConn}]
      BY <1>5 DEF Reap, TypeOK
    <2> QED
      BY <1>5, <2>1, <2>2, CloseType DEF Reap, goVars, TypeOK
  <1>6. CASE ShutdownCollect
    BY <1>6, SMTT(30) DEF ShutdownCollect, goVars, sessionVars, netVars, TypeOK
  <1>7. CASE ShutdownSwap
    BY <1>7 DEF ShutdownSwap, goVars, netVars, TypeOK
  <1>8. CASE ShutdownClose
    BY <1>8, CloseType DEF ShutdownClose, goVars, TypeOK
  <1> QED
    BY <1>1, <1>2, <1>3, <1>4, <1>5, <1>6, <1>7, <1>8

\* The types hold initially.
LEMMA InitType == Init => TypeOK
  <1>1. SUFFICES ASSUME Init PROVE TypeOK
    OBVIOUS
  <1>2. \A p \in Packet : 1 \in 1..Len(Candidates[p])
    BY CandidateCount, AttemptsAssumption
  <1>3. 0 \in 0..Cap
    BY CapNat
  <1>4. inbox \in [Conn -> Seq(Packet)]
    BY <1>1 DEF Init
  <1> QED
    BY <1>1, <1>2, <1>3, <1>4 DEF Init, TypeOK

(***************************************************************************)
(* The types of UDPSession hold for any packets, candidates and TTLs; in   *)
(* particular no goroutine goes past its last candidate (server.go:512).   *)
(***************************************************************************)
THEOREM TypeCorrect == Spec => []TypeOK
  <1>1. TypeOK /\ [Next]_vars => TypeOK'
    <2>1. SUFFICES ASSUME TypeOK, [Next]_vars PROVE TypeOK'
      OBVIOUS
    <2>2. CASE UNCHANGED vars
      <3>1. UNCHANGED <<client, binding, phase, pc, try, ttl, asked, use, reply, sessions,
                        open, idle, mu, flight, inbox, taken>>
        BY <2>2 DEF vars, goVars, sessionVars, netVars
      <3> QED
        BY <2>1, <3>1 DEF TypeOK
    <2>3. CASE Next
      <3>1. CASE \E p \in Packet : Receive(p) \/ Handle(p)
        BY <2>1, <3>1, HandleType
      <3>2. CASE ~\E p \in Packet : Receive(p) \/ Handle(p)
        BY <2>1, <2>3, <3>2, OtherType DEF Next
      <3> QED
        BY <3>1, <3>2
    <2> QED
      BY <2>1, <2>2, <2>3
  <1> QED
    BY <1>1, InitType, PTL DEF Spec

----------------------------------------------------------------------------
(***************************************************************************)
(* Answers stay with their client because a socket serves one client only: *)
(* that of the packet which dialled it.  The sessions, the goroutines that *)
(* use them, what is under way and what has come back all agree on it.     *)
(***************************************************************************)
Owner(k) == client[k[1]]

SessionsOwned == \A x \in Key : sessions[x] # NoConn => Owner(sessions[x]) = x[1]
UsersOwn == \A p \in Packet : use[p] # NoConn => Owner(use[p]) = client[p]
FlightOwned == \A f \in flight : Owner(f[1]) = client[f[2]]
InboxOwned == \A k \in Conn : \A i \in DOMAIN inbox[k] : client[inbox[k][i]] = Owner(k)

ClientInv ==
    SessionsOwned /\ UsersOwn /\ FlightOwned /\ InboxOwned /\ AnswersStayWithClient

\* Closing sockets only makes less of what is under way.
LEMMA CloseOwned ==
    ASSUME TypeOK, ClientInv, NEW K, Close(K), UNCHANGED client
    PROVE  FlightOwned' /\ InboxOwned'
  <1>1. FlightOwned'
    BY DEF Close, ClientInv, FlightOwned, Owner
  <1>2. \A k \in Conn : inbox'[k] = <<>> \/ inbox'[k] = inbox[k]
    BY DEF Close, TypeOK
  <1>3. InboxOwned'
    BY <1>2 DEF ClientInv, InboxOwned, Owner
  <1> QED
    BY <1>1, <1>3

\* So does a step that leaves the network alone.
LEMMA NetOwned ==
    ASSUME ClientInv, UNCHANGED <<client, flight, inbox>>
    PROVE  FlightOwned' /\ InboxOwned'
  BY DEF ClientInv, FlightOwned, InboxOwned, Owner

\* A goroutine lets its session go, and nobody else is concerned.
LEMMA ReleaseOwned ==
    ASSUME TypeOK, ClientInv, NEW p \in Packet, use' = [use EXCEPT ![p] = NoConn],
           UNCHANGED <<client, sessions>>
    PROVE  SessionsOwned' /\ UsersOwn'
  BY DEF TypeOK, ClientInv, SessionsOwned, UsersOwn, Owner

\* An answer is taken off a socket.
LEMMA InboxTail ==
    ASSUME TypeOK, InboxOwned, NEW k \in Conn, inbox[k] # <<>>,
           inbox' = [inbox EXCEPT ![k] = Tail(@)], UNCHANGED client
    PROVE  InboxOwned'
  <1>1. inbox[k] \in Seq(Packet)
    BY DEF TypeOK
  <1>2. \A i \in DOMAIN Tail(inbox[k]) :
            i + 1 \in DOMAIN inbox[k] /\ Tail(inbox[k])[i] = inbox[k][i + 1]
    BY <1>1
  <1>3. SUFFICES ASSUME NEW j \in Conn, NEW i \in DOMAIN inbox'[j]
                 PROVE  client[inbox'[j][i]] = Owner(j)
    BY DEF InboxOwned, Owner
  <1>4. CASE j = k
    BY <1>2, <1>4 DEF InboxOwned, TypeOK
  <1>5. CASE j # k
    BY <1>5 DEF InboxOwned, TypeOK
  <1> QED
    BY <1>4, <1>5

\* The steps of a goroutine.
LEMMA HandleOwned ==
    ASSUME TypeOK, ClientInv, NEW p \in Packet, Receive(p) \/ Handle(p)
    PROVE  ClientInv'
  <1>1. CASE Receive(p)
    <2>1. UNCHANGED <<client, sessions, use, flight, inbox, reply>>
      BY <1>1 DEF Receive, sessionVars, netVars
    <2> QED
      BY <2>1 DEF ClientInv, SessionsOwned, UsersOwn, FlightOwned, InboxOwned, Owner,
                  AnswersStayWithClient
  <1>2. CASE Lookup(p)
    <2> DEFINE k == sessions[KeyFor(p)]
    <2>0. UNCHANGED <<client, reply>>
      BY <1>2 DEF Lookup
    <2>1. AnswersStayWithClient'
      BY <2>0 DEF ClientInv, AnswersStayWithClient
    <2>2. CASE k # NoConn /\ idle[k] <= ttl[p]
      <3>1. use' = [use EXCEPT ![p] = k] /\ UNCHANGED <<sessions, flight, inbox>>
        BY <1>2, <2>2 DEF Lookup, netVars
      <3>2. Owner(k) = client[p]
        BY <2>2, TryType DEF ClientInv, SessionsOwned
      <3>3. UsersOwn'
        BY <2>0, <3>1, <3>2 DEF ClientInv, UsersOwn, Owner, TypeOK
      <3>4. SessionsOwned'
        BY <2>0, <3>1 DEF ClientInv, SessionsOwned, Owner
      <3> QED
        BY <2>0, <2>1, <3>1, <3>3, <3>4, NetOwned DEF ClientInv
    <2>3. CASE ~(k # NoConn /\ idle[k] <= ttl[p])
      <3>1. /\ sessions' = [sessions EXCEPT ![KeyFor(p)] = NoConn]
            /\ Close({k} \cap Conn)
            /\ UNCHANGED use
        BY <1>2, <2>3 DEF Lookup
      <3>2. SessionsOwned'
        BY <2>0, <3>1 DEF ClientInv, SessionsOwned, Owner, TypeOK
      <3>3. UsersOwn'
        BY <2>0, <3>1 DEF ClientInv, UsersOwn, Owner
      <3> QED
        BY <2>0, <2>1, <3>1, <3>2, <3>3, CloseOwned DEF ClientInv
    <2> QED
      BY <2>2, <2>3
  <1>3. CASE Dial(p)
    <2>1. UNCHANGED <<client, sessions, use, flight, inbox, reply>>
      BY <1>3 DEF Dial, netVars
    <2> QED
      BY <2>1 DEF ClientInv, SessionsOwned, UsersOwn, FlightOwned, InboxOwned, Owner,
                  AnswersStayWithClient
  <1>4. CASE DialFails(p) \/ WriteFails(p)
    <2>1. /\ UNCHANGED <<client, sessions, flight, inbox, reply>>
          /\ use' = [use EXCEPT ![p] = NoConn]
      BY <1>4 DEF DialFails, WriteFails, NextCandidate, sessionVars, netVars
    <2>2. AnswersStayWithClient'
      BY <2>1 DEF ClientInv, AnswersStayWithClient
    <2> QED
      BY <2>1, <2>2, NetOwned, ReleaseOwned DEF ClientInv
  <1>5. CASE Insert(p)
    <2> DEFINE mine == <<p, try[p]>>
               k == sessions[KeyFor(p)]
    <2>0. UNCHANGED <<client, reply>>
      BY <1>5 DEF Insert
    <2>1. AnswersStayWithClient'
      BY <2>0 DEF ClientInv, AnswersStayWithClient
    <2>2. CASE k # NoConn
      <3>1. Close({mine}) /\ use' = [use EXCEPT ![p] = k] /\ UNCHANGED sessions
        BY <1>5, <2>2 DEF Insert
      <3>2. Owner(k) = client[p]
        BY <2>2, TryType DEF ClientInv, SessionsOwned
      <3>3. UsersOwn'
        BY <2>0, <3>1, <3>2 DEF ClientInv, UsersOwn, Owner, TypeOK
      <3>4. SessionsOwned'
        BY <2>0, <3>1 DEF ClientInv, SessionsOwned, Owner
      <3> QED
        BY <2>0, <2>1, <3>1, <3>3, <3>4, CloseOwned DEF ClientInv
    <2>3. CASE k = NoConn
      <3>1. /\ sessions' = [sessions EXCEPT ![KeyFor(p)] = mine]
            /\ use' = [use EXCEPT ![p] = mine]
            /\ UNCHANGED <<flight, inbox>>
        BY <1>5, <2>3 DEF Insert, netVars
      <3>2. Owner(mine) = client[p] /\ KeyFor(p)[1] = client[p]
        BY TryType DEF Owner
      <3>3. UsersOwn'
        BY <2>0, <3>1, <3>2 DEF ClientInv, UsersOwn, Owner, TypeOK
      <3>4. SessionsOwned'
        BY <2>0, <3>1, <3>2 DEF ClientInv, SessionsOwned, Owner, TypeOK
      <3> QED
        BY <2>0, <2>1, <3>1, <3>3, <3>4, NetOwned DEF ClientInv
    <2> QED
      BY <2>2, <2>3
  <1>6. CASE Write(p)
    <2>1. UNCHANGED <<client, sessions, use, inbox, reply>>
      BY <1>6 DEF Write
    <2>2. use[p] # NoConn
      BY <1>6, NoConnAssumption DEF Write, TypeOK
    <2>3. FlightOwned'
      BY <1>6, <2>1, <2>2 DEF Write, ClientInv, FlightOwned, UsersOwn, Owner
    <2> QED
      BY <2>1, <2>3 DEF ClientInv, SessionsOwned, UsersOwn, InboxOwned, Owner,
                        AnswersStayWithClient
  <1>7. CASE Read(p)
    <2>1. /\ UNCHANGED <<client, sessions, use, flight>>
          /\ use[p] \in Conn /\ inbox[use[p]] # <<>>
          /\ reply' = [reply EXCEPT ![p] = Head(inbox[use[p]])]
          /\ inbox' = [inbox EXCEPT ![use[p]] = Tail(@)]
      BY <1>7 DEF Read, sessionVars, TypeOK
    <2>2. inbox[use[p]] \in Seq(Packet)
      BY <2>1 DEF TypeOK
    <2>3. 1 \in DOMAIN inbox[use[p]] /\ Head(inbox[use[p]]) = inbox[use[p]][1]
      BY <2>1, <2>2
    <2>4. client[Head(inbox[use[p]])] = client[p]
      BY <2>1, <2>3, NoConnAssumption DEF ClientInv, InboxOwned, UsersOwn
    <2>5. AnswersStayWithClient'
      BY <2>1, <2>4 DEF ClientInv, AnswersStayWithClient, TypeOK
    <2>6. InboxOwned'
      BY <2>1, InboxTail DEF ClientInv
    <2> QED
      BY <2>1, <2>5, <2>6 DEF ClientInv, SessionsOwned, UsersOwn, FlightOwned, Owner
  <1>8. CASE ReadFails(p)
    <2>1. /\ UNCHANGED <<client, sessions, flight, inbox, reply>>
          /\ use' = [use EXCEPT ![p] = NoConn]
      BY <1>8 DEF ReadFails, GiveUp, NextCandidate
    <2>2. AnswersStayWithClient'
      BY <2>1 DEF ClientInv, AnswersStayWithClient
    <2> QED
      BY <2>1, <2>2, NetOwned, ReleaseOwned DEF ClientInv
  <1>9. CASE ReadEmpty(p)
    <2>1. /\ UNCHANGED <<client, sessions, flight, reply>>
          /\ use' = [use EXCEPT ![p] = NoConn]
          /\ use[p] \in Conn /\ inbox[use[p]] # <<>>
          /\ inbox' = [inbox EXCEPT ![use[p]] = Tail(@)]
      BY <1>9 DEF ReadEmpty, GiveUp, NextCandidate, TypeOK
    <2>2. InboxOwned'
      BY <2>1, InboxTail DEF ClientInv
    <2>3. AnswersStayWithClient' /\ FlightOwned'
      BY <2>1 DEF ClientInv, AnswersStayWithClient, FlightOwned, Owner
    <2> QED
      BY <2>1, <2>2, <2>3, ReleaseOwned DEF ClientInv
  <1>10. CASE Touch(p)
    <2>1. /\ UNCHANGED <<client, sessions, flight, inbox>>
          /\ use' = [use EXCEPT ![p] = NoConn]
          /\ reply' = [reply EXCEPT ![p] = NoPacket]
      BY <1>10 DEF Touch, netVars
    <2>2. AnswersStayWithClient'
      BY <2>1 DEF ClientInv, AnswersStayWithClient, TypeOK
    <2> QED
      BY <2>1, <2>2, NetOwned, ReleaseOwned DEF ClientInv
  <1> QED
    BY <1>1, <1>2, <1>3, <1>4, <1>5, <1>6, <1>7, <1>8, <1>9, <1>10 DEF Handle

\* The steps of network, clock, configuration, reaper and Shutdown.
LEMMA OtherOwned ==
    ASSUME TypeOK, ClientInv,
           \/ \E f \in flight : Answer(f) \/ Lose(f)
           \/ \E t \in TTLs \cup {NoBinding} : Refresh(t)
           \/ Tick \/ Reap \/ ShutdownCollect \/ ShutdownSwap \/ ShutdownClose
    PROVE  ClientInv'
  <1>1. ASSUME NEW f \in flight, Answer(f)
        PROVE  ClientInv'
    <2>1. /\ UNCHANGED <<client, sessions, use, reply>>
          /\ flight' = flight \ {f}
          /\ inbox' = [inbox EXCEPT ![f[1]] = Append(@, f[2])]
      BY <1>1 DEF Answer, goVars, sessionVars
    <2>2. f[1] \in Conn /\ f[2] \in Packet /\ client[f[2]] = Owner(f[1])
      BY DEF TypeOK, ClientInv, FlightOwned
    <2>3. SUFFICES InboxOwned'
      BY <2>1 DEF ClientInv, SessionsOwned, UsersOwn, FlightOwned, Owner,
                  AnswersStayWithClient
    <2>4. SUFFICES ASSUME NEW k \in Conn, NEW i \in DOMAIN inbox'[k]
                   PROVE  client[inbox'[k][i]] = Owner(k)
      BY <2>1 DEF InboxOwned, Owner
    <2>5. CASE k = f[1]
      <3>1. inbox[k] \in Seq(Packet) /\ inbox'[k] = Append(inbox[k], f[2])
        BY <2>1, <2>2, <2>5 DEF TypeOK
      <3>2. \/ i \in DOMAIN inbox[k] /\ inbox'[k][i] = inbox[k][i]
            \/ inbox'[k][i] = f[2]
        BY <2>2, <2>4, <3>1
      <3> QED
        BY <2>2, <2>5, <3>2 DEF ClientInv, InboxOwned
    <2>6. CASE k # f[1]
      BY <2>1, <2>4, <2>6 DEF ClientInv, InboxOwned, TypeOK
    <2> QED
      BY <2>5, <2>6
  <1>2. ASSUME NEW f \in flight, Lose(f)
        PROVE  ClientInv'
    <2>1. UNCHANGED <<client, sessions, use, reply, inbox>> /\ flight' = flight \ {f}
      BY <1>2 DEF Lose, goVars, sessionVars
    <2> QED
      BY <2>1 DEF ClientInv, SessionsOwned, UsersOwn, FlightOwned, InboxOwned, Owner,
                  AnswersStayWithClient
  <1>3. ASSUME (\E t \in TTLs \cup {NoBinding} : Refresh(t)) \/ Tick \/ ShutdownCollect
        PROVE  ClientInv'
    <2>1. UNCHANGED <<client, sessions, use, flight, inbox, reply>>
      BY <1>3 DEF Refresh, Tick, ShutdownCollect, goVars, sessionVars, netVars
    <2> QED
      BY <2>1 DEF ClientInv, SessionsOwned, UsersOwn, FlightOwned, InboxOwned, Owner,
                  AnswersStayWithClient
  <1>4. CASE Reap
    <2>1. /\ UNCHANGED <<client, use, reply>>
          /\ \A x \in Key : sessions'[x] = NoConn \/ sessions'[x] = sessions[x]
      BY <1>4 DEF Reap, goVars
    <2>2. PICK K : Close(K)
      BY <1>4 DEF Reap
    <2> QED
      BY <2>1, <2>2, CloseOwned DEF ClientInv, SessionsOwned, UsersOwn, Owner,
                                    AnswersStayWithClient
  <1>5. CASE ShutdownSwap
    <2>1. /\ UNCHANGED <<client, use, flight, inbox, reply>>
          /\ \A x \in Key : sessions'[x] = NoConn
      BY <1>5 DEF ShutdownSwap, goVars, netVars
    <2> QED
      BY <2>1, NetOwned DEF ClientInv, SessionsOwned, UsersOwn, Owner, AnswersStayWithClient
  <1>6. CASE ShutdownClose
    <2>1. UNCHANGED <<client, sessions, use, reply>> /\ Close(taken)
      BY <1>6 DEF ShutdownClose, goVars
    <2> QED
      BY <2>1, CloseOwned DEF ClientInv, SessionsOwned, UsersOwn, Owner, AnswersStayWithClient
  <1> QED
    BY <1>1, <1>2, <1>3, <1>4, <1>5, <1>6

(***************************************************************************)
(* What handleUDPPacket writes back to a client (server.go:535) always     *)
(* answers a packet of that client, for any number of packets, clients,    *)
(* upstreams and configurations, however late answers come.                *)
(***************************************************************************)
THEOREM AnswersStayTheorem == Spec => []AnswersStayWithClient
  <1>1. Init => ClientInv
    BY DEF Init, ClientInv, SessionsOwned, UsersOwn, FlightOwned, InboxOwned,
           AnswersStayWithClient
  <1>2. TypeOK /\ ClientInv /\ [Next]_vars => ClientInv'
    <2>1. SUFFICES ASSUME TypeOK, ClientInv, [Next]_vars PROVE ClientInv'
      OBVIOUS
    <2>2. CASE UNCHANGED vars
      <3>1. UNCHANGED <<client, sessions, use, flight, inbox, reply>>
        BY <2>2 DEF vars, goVars, sessionVars, netVars
      <3> QED
        BY <2>1, <3>1 DEF ClientInv, SessionsOwned, UsersOwn, FlightOwned, InboxOwned, Owner,
                          AnswersStayWithClient
    <2>3. CASE \E p \in Packet : Receive(p) \/ Handle(p)
      BY <2>1, <2>3, HandleOwned
    <2>4. CASE Next /\ ~\E p \in Packet : Receive(p) \/ Handle(p)
      BY <2>1, <2>4, OtherOwned DEF Next
    <2> QED
      BY <2>1, <2>2, <2>3, <2>4
  <1>3. ClientInv => AnswersStayWithClient
    BY DEF ClientInv
  <1> QED
    BY <1>1, <1>2, <1>3, TypeCorrect, PTL DEF Spec

----------------------------------------------------------------------------
(***************************************************************************)
(* No socket leaks.  Two facts are needed beside SessionsAreOpen: a try    *)
(* dials a socket that nobody has, because the tries of a packet are       *)
(* numbered (Fresh), and the socket a goroutine has just dialled is open   *)
(* and not in the map (Dialled).                                           *)
(***************************************************************************)
Fresh ==
    \A k \in open :
        /\ KeyOf(k) \in Key
        /\ pc[k[1]] \in {"new", "lookup", "dial"} => k[2] < try[k[1]]
        /\ pc[k[1]] \in {"insert", "write", "read", "touch"} => k[2] <= try[k[1]]

Dialled ==
    \A p \in Packet : pc[p] = "insert" =>
        /\ <<p, try[p]>> \in open
        /\ \A x \in Key : sessions[x] # <<p, try[p]>>

Open ==
    /\ \A x \in Key : sessions[x] # NoConn =>
           sessions[x] \in open /\ KeyOf(sessions[x]) = x
    /\ \A k \in open :
           \/ sessions[KeyOf(k)] = k
           \/ pc[k[1]] = "insert" /\ k[2] = try[k[1]]

OpenInv == Fresh /\ (phase = "running" => Dialled /\ Open)

\* A socket is a packet and a number.
LEMMA ConnParts ==
    ASSUME TypeOK, NEW k \in Conn
    PROVE  k[1] \in Packet /\ k[2] \in Nat /\ k = <<k[1], k[2]>> /\ try[k[1]] \in Nat
  BY AttemptsAssumption DEF Conn, TypeOK

\* Keys do not change: a packet keeps its client.
LEMMA KeysStay ==
    ASSUME UNCHANGED client, NEW k
    PROVE  KeyOf(k)' = KeyOf(k)
  BY DEF KeyOf, udpSessionKey

\* A step that moves the goroutine of p along without dialling.
LEMMA MoveOpen ==
    ASSUME TypeOK, OpenInv, NEW p \in Packet,
           UNCHANGED <<client, phase, open, sessions>>,
           \A q \in Packet \ {p} : pc'[q] = pc[q] /\ try'[q] = try[q],
           pc[p] \in {"new", "lookup", "dial", "write", "read", "touch"},
           \/ pc'[p] = "done"
           \/ pc'[p] = "lookup" /\ try'[p] = try[p] + 1
           \/ pc'[p] = "lookup" /\ try'[p] = try[p] /\ pc[p] = "new"
           \/ pc'[p] \in {"write", "read", "touch"} /\ try'[p] = try[p]
    PROVE  OpenInv'
  <1>1. ASSUME NEW k \in open
        PROVE  /\ KeyOf(k) \in Key
               /\ pc'[k[1]] \in {"new", "lookup", "dial"} => k[2] < try'[k[1]]
               /\ pc'[k[1]] \in {"insert", "write", "read", "touch"} => k[2] <= try'[k[1]]
    <2>1. k \in Conn
      BY DEF TypeOK
    <2>2. /\ KeyOf(k) \in Key
          /\ pc[k[1]] \in {"new", "lookup", "dial"} => k[2] < try[k[1]]
          /\ pc[k[1]] \in {"insert", "write", "read", "touch"} => k[2] <= try[k[1]]
      BY DEF OpenInv, Fresh
    <2>3. CASE k[1] = p
      BY <2>1, <2>2, <2>3, ConnParts
    <2>4. CASE k[1] # p
      BY <2>1, <2>2, <2>4, ConnParts
    <2> QED
      BY <2>3, <2>4
  <1>2. Fresh'
    BY <1>1, KeysStay DEF Fresh, Key
  <1>3. ASSUME phase = "running"
        PROVE  Dialled' /\ Open'
    <2>1. Dialled /\ Open
      BY <1>3 DEF OpenInv
    <2>2. \A q \in Packet : pc'[q] = "insert" => q # p
      OBVIOUS
    <2>3. Dialled'
      BY <2>1, <2>2 DEF Dialled, Key
    <2>4. ASSUME NEW k \in open
          PROVE  \/ sessions[KeyOf(k)] = k
                 \/ pc'[k[1]] = "insert" /\ k[2] = try'[k[1]]
      <3>1. k[1] \in Packet
        BY ConnParts DEF TypeOK
      <3> QED
        BY <2>1, <3>1 DEF Open
    <2>5. Open'
      BY <2>1, <2>4, KeysStay DEF Open, Key
    <2> QED
      BY <2>3, <2>5
  <1> QED
    BY <1>2, <1>3 DEF OpenInv

\* A step that leaves goroutines and sessions alone.
LEMMA IdleOpen ==
    ASSUME OpenInv, UNCHANGED <<client, pc, try, open, sessions>>,
           phase' = "running" => phase = "running"
    PROVE  OpenInv'
  BY KeysStay DEF OpenInv, Fresh, Dialled, Open, Key

\* What follows of NextCandidate for the goroutines.
LEMMA NextCandidateMoves ==
    ASSUME TypeOK, NEW p \in Packet, NextCandidate(p)
    PROVE  /\ \A q \in Packet \ {p} : pc'[q] = pc[q] /\ try'[q] = try[q]
           /\ pc'[p] = "done" \/ (pc'[p] = "lookup" /\ try'[p] = try[p] + 1)
  BY DEF NextCandidate, Done, TypeOK

\* Sessions are taken out of the map and their sockets are closed; a goroutine may
\* go from looking up to dialling.
LEMMA RemoveOpen ==
    ASSUME TypeOK, OpenInv, UNCHANGED <<client, phase, try>>, NEW X \in SUBSET Key,
           sessions' = [x \in Key |-> IF x \in X THEN NoConn ELSE sessions[x]],
           open' = open \ {sessions[x] : x \in X},
           \A p \in Packet : \/ pc'[p] = pc[p]
                             \/ pc[p] = "lookup" /\ pc'[p] = "dial"
    PROVE  OpenInv'
  <1>1. ASSUME NEW k \in open'
        PROVE  /\ KeyOf(k) \in Key
               /\ pc'[k[1]] \in {"new", "lookup", "dial"} => k[2] < try[k[1]]
               /\ pc'[k[1]] \in {"insert", "write", "read", "touch"} => k[2] <= try[k[1]]
    <2>1. k \in open /\ k[1] \in Packet
      BY ConnParts DEF TypeOK
    <2>2. /\ KeyOf(k) \in Key
          /\ pc[k[1]] \in {"new", "lookup", "dial"} => k[2] < try[k[1]]
          /\ pc[k[1]] \in {"insert", "write", "read", "touch"} => k[2] <= try[k[1]]
      BY <2>1 DEF OpenInv, Fresh
    <2> QED
      BY <2>1, <2>2
  <1>2. Fresh'
    BY <1>1, KeysStay DEF Fresh, Key
  <1>3. ASSUME phase = "running"
        PROVE  Dialled' /\ Open'
    <2>1. Dialled /\ Open
      BY <1>3 DEF OpenInv
    <2>2. ASSUME NEW p \in Packet, pc'[p] = "insert"
          PROVE  /\ <<p, try[p]>> \in open'
                 /\ \A x \in Key : sessions'[x] # <<p, try[p]>>
      <3>1. pc[p] = "insert"
        BY <2>2
      <3>2. /\ <<p, try[p]>> \in open
            /\ \A x \in Key : sessions[x] # <<p, try[p]>>
        BY <2>1, <3>1 DEF Dialled
      <3>3. <<p, try[p]>> # NoConn
        BY TryType, NoConnAssumption
      <3> QED
        BY <3>2, <3>3
    <2>3. Dialled'
      BY <2>2 DEF Dialled, Key
    <2>4. ASSUME NEW x \in Key, sessions'[x] # NoConn
          PROVE  sessions'[x] \in open' /\ KeyOf(sessions'[x]) = x
      <3>1. x \notin X /\ sessions'[x] = sessions[x]
        BY <2>4
      <3>2. sessions[x] \in open /\ KeyOf(sessions[x]) = x
        BY <2>1, <2>4, <3>1 DEF Open
      <3>3. ASSUME NEW y \in X, sessions[y] = sessions[x]
            PROVE  FALSE
        <4>1. KeyOf(sessions[y]) = y
          BY <2>1, <2>4, <3>1, <3>3 DEF Open
        <4> QED
          BY <3>1, <3>2, <3>3, <4>1
      <3> QED
        BY <3>1, <3>2, <3>3
    <2>5. ASSUME NEW k \in open'
          PROVE  \/ sessions'[KeyOf(k)] = k
                 \/ pc'[k[1]] = "insert" /\ k[2] = try[k[1]]
      <3>1. k \in open /\ k[1] \in Packet /\ KeyOf(k) \in Key
        BY <1>1, ConnParts DEF TypeOK
      <3>2. CASE sessions[KeyOf(k)] = k
        BY <3>1, <3>2
      <3>3. CASE pc[k[1]] = "insert" /\ k[2] = try[k[1]]
        BY <3>1, <3>3
      <3> QED
        BY <2>1, <3>1, <3>2, <3>3 DEF Open
    <2>6. Open'
      <3>1. \A x \in Key : sessions'[x] # NoConn =>
                sessions'[x] \in open' /\ KeyOf(sessions[x])' = x
        BY <2>4 DEF KeyOf, udpSessionKey
      <3>2. \A k \in open' : \/ sessions'[KeyOf(k)'] = k
                             \/ pc'[k[1]] = "insert" /\ k[2] = try'[k[1]]
        BY <2>5 DEF KeyOf, udpSessionKey
      <3> QED
        BY <3>1, <3>2 DEF Open, Key
    <2> QED
      BY <2>3, <2>6
  <1> QED
    BY <1>2, <1>3 DEF OpenInv

LEMMA DialOpen ==
    ASSUME TypeOK, OpenInv, NEW p \in Packet, Dial(p)
    PROVE  OpenInv'
  <1> DEFINE mine == <<p, try[p]>>
  <1>1. /\ UNCHANGED <<client, phase, try, sessions>>
        /\ pc[p] = "dial" /\ pc' = [pc EXCEPT ![p] = "insert"]
        /\ open' = open \cup {mine}
    BY DEF Dial
  <1>2. pc'[p] = "insert" /\ \A q \in Packet \ {p} : pc'[q] = pc[q]
    BY <1>1 DEF TypeOK
  <1>3. KeyOf(mine) \in Key /\ mine \in Conn
    BY TryType
  <1>4. mine \notin open
    BY <1>1, ConnParts, SMTT(30) DEF OpenInv, Fresh, TypeOK
  <1>5. ASSUME NEW k \in open
        PROVE  /\ k[1] \in Packet /\ KeyOf(k) \in Key
               /\ pc'[k[1]] \in {"new", "lookup", "dial"} => k[2] < try[k[1]]
               /\ pc'[k[1]] \in {"insert", "write", "read", "touch"} => k[2] <= try[k[1]]
    <2>1. k[1] \in Packet /\ k[2] \in Nat /\ try[k[1]] \in Nat
      BY ConnParts DEF TypeOK
    <2>2. /\ KeyOf(k) \in Key
          /\ pc[k[1]] \in {"new", "lookup", "dial"} => k[2] < try[k[1]]
          /\ pc[k[1]] \in {"insert", "write", "read", "touch"} => k[2] <= try[k[1]]
      BY DEF OpenInv, Fresh
    <2> QED
      BY <1>1, <1>2, <2>1, <2>2
  <1>6. try[p] \in Nat
    BY DEF TypeOK
  <1>7. Fresh'
    BY <1>1, <1>2, <1>3, <1>5, <1>6, KeysStay DEF Fresh, Key
  <1>8. ASSUME phase = "running"
        PROVE  Dialled' /\ Open'
    <2>1. Dialled /\ Open
      BY <1>8 DEF OpenInv
    <2>2. \A x \in Key : sessions[x] # mine
      BY <2>1, <1>3, <1>4, NoConnAssumption DEF Open
    <2>3. Dialled'
      BY <1>1, <1>2, <2>1, <2>2 DEF Dialled, Key
    <2>4. ASSUME NEW k \in open'
          PROVE  \/ sessions[KeyOf(k)] = k
                 \/ pc'[k[1]] = "insert" /\ k[2] = try[k[1]]
      <3>1. CASE k = mine
        BY <1>2, <3>1
      <3>2. CASE k \in open
        BY <1>2, <1>5, <1>1, <2>1, <3>2 DEF Open
      <3> QED
        BY <1>1, <3>1, <3>2
    <2>5. Open'
      BY <1>1, <2>1, <2>4, KeysStay DEF Open, Key
    <2> QED
      BY <2>3, <2>5
  <1> QED
    BY <1>1, <1>7, <1>8 DEF OpenInv

LEMMA InsertOpen ==
    ASSUME TypeOK, OpenInv, NEW p \in Packet, Insert(p)
    PROVE  OpenInv'
  <1> DEFINE mine == <<p, try[p]>>
             x0 == KeyFor(p)
  <1>1. /\ UNCHANGED <<client, phase, try>>
        /\ pc[p] = "insert" /\ pc' = [pc EXCEPT ![p] = "write"]
        /\ \/ sessions[x0] # NoConn /\ open' = open \ {mine} /\ UNCHANGED sessions
           \/ /\ sessions[x0] = NoConn /\ UNCHANGED open
              /\ sessions' = [sessions EXCEPT ![x0] = mine]
    BY DEF Insert, Close
  <1>2. pc'[p] = "write" /\ \A q \in Packet \ {p} : pc'[q] = pc[q]
    BY <1>1 DEF TypeOK
  <1>3. mine \in Conn /\ x0 \in Key /\ KeyOf(mine) = x0
    BY TryType
  <1>4. ASSUME NEW k \in open'
        PROVE  /\ k \in open /\ k[1] \in Packet /\ KeyOf(k) \in Key /\ k = <<k[1], k[2]>>
               /\ pc'[k[1]] \in {"new", "lookup", "dial"} => k[2] < try[k[1]]
               /\ pc'[k[1]] \in {"insert", "write", "read", "touch"} => k[2] <= try[k[1]]
    <2>1. k \in open
      BY <1>1
    <2>2. k[1] \in Packet /\ k = <<k[1], k[2]>>
      BY <2>1, ConnParts DEF TypeOK
    <2>3. /\ KeyOf(k) \in Key
          /\ pc[k[1]] \in {"new", "lookup", "dial"} => k[2] < try[k[1]]
          /\ pc[k[1]] \in {"insert", "write", "read", "touch"} => k[2] <= try[k[1]]
      BY <2>1 DEF OpenInv, Fresh
    <2> QED
      BY <1>1, <1>2, <2>1, <2>2, <2>3
  <1>5. Fresh'
    BY <1>1, <1>4, KeysStay DEF Fresh, Key
  <1>6. ASSUME phase = "running"
        PROVE  Dialled' /\ Open'
    <2>1. Dialled /\ Open
      BY <1>6 DEF OpenInv
    <2>2. mine \in open /\ \A x \in Key : sessions[x] # mine
      BY <1>1, <2>1 DEF Dialled
    <2>3. ASSUME NEW q \in Packet, pc'[q] = "insert"
          PROVE  /\ <<q, try[q]>> \in open'
                 /\ \A x \in Key : sessions'[x] # <<q, try[q]>>
      <3>1. q # p /\ pc[q] = "insert" /\ <<q, try[q]>> # mine
        BY <1>2, <2>3
      <3>2. /\ <<q, try[q]>> \in open
            /\ \A x \in Key : sessions[x] # <<q, try[q]>>
        BY <2>1, <3>1 DEF Dialled
      <3>3. open \ {mine} \subseteq open'
        BY <1>1
      <3>4. \A x \in Key : sessions'[x] = sessions[x] \/ sessions'[x] = mine
        BY <1>1 DEF TypeOK
      <3> QED
        BY <3>1, <3>2, <3>3, <3>4
    <2>4. Dialled'
      BY <1>1, <2>3 DEF Dialled, Key
    <2>5. ASSUME NEW x \in Key, sessions'[x] # NoConn
          PROVE  sessions'[x] \in open' /\ KeyOf(sessions'[x]) = x
      <3>1. CASE sessions'[x] = sessions[x]
        BY <1>1, <2>1, <2>2, <2>5, <3>1 DEF Open
      <3>2. CASE sessions'[x] # sessions[x]
        BY <1>1, <1>3, <2>2, <3>2 DEF TypeOK
      <3> QED
        BY <3>1, <3>2
    <2>6. ASSUME NEW k \in open'
          PROVE  \/ sessions'[KeyOf(k)] = k
                 \/ pc'[k[1]] = "insert" /\ k[2] = try[k[1]]
      <3>1. CASE k = mine
        <4>1. sessions' = [sessions EXCEPT ![x0] = mine]
          BY <1>1, <3>1
        <4> QED
          BY <1>3, <3>1, <4>1 DEF TypeOK
      <3>2. CASE k # mine
        <4>1. CASE pc[k[1]] = "insert" /\ k[2] = try[k[1]]
          BY <1>2, <1>4, <3>2, <4>1
        <4>2. CASE sessions[KeyOf(k)] = k
          <5>1. k # NoConn
            BY <1>4, NoConnAssumption DEF TypeOK
          <5> QED
            BY <1>1, <1>4, <4>2, <5>1 DEF TypeOK
        <4> QED
          BY <1>4, <2>1, <4>1, <4>2 DEF Open
      <3> QED
        BY <3>1, <3>2
    <2>7. Open'
      BY <1>1, <2>5, <2>6, KeysStay DEF Open, Key
    <2> QED
      BY <2>4, <2>7
  <1> QED
    BY <1>1, <1>5, <1>6 DEF OpenInv

LEMMA LookupOpen ==
    ASSUME TypeOK, OpenInv, NEW p \in Packet, Lookup(p)
    PROVE  OpenInv'
  <1> DEFINE k == sessions[KeyFor(p)]
  <1>1. UNCHANGED <<client, phase, try>> /\ pc[p] = "lookup"
    BY DEF Lookup
  <1>2. CASE k # NoConn /\ idle[k] <= ttl[p]
    <2>1. pc' = [pc EXCEPT ![p] = "write"] /\ UNCHANGED <<sessions, open>>
      BY <1>2 DEF Lookup
    <2>2. pc'[p] = "write" /\ \A q \in Packet \ {p} : pc'[q] = pc[q]
      BY <2>1 DEF TypeOK
    <2> QED
      BY <1>1, <2>1, <2>2, MoveOpen
  <1>3. CASE ~(k # NoConn /\ idle[k] <= ttl[p])
    <2>1. /\ pc' = [pc EXCEPT ![p] = "dial"]
          /\ sessions' = [sessions EXCEPT ![KeyFor(p)] = NoConn]
          /\ open' = open \ ({k} \cap Conn)
      BY <1>3 DEF Lookup, Close
    <2>2. \A q \in Packet : pc'[q] = pc[q] \/ (pc[q] = "lookup" /\ pc'[q] = "dial")
      BY <1>1, <2>1 DEF TypeOK
    <2>3. KeyFor(p) \in Key
      BY TryType
    <2> DEFINE X == {KeyFor(p)}
    <2>4. sessions' = [x \in Key |-> IF x \in X THEN NoConn ELSE sessions[x]]
      BY <2>1, <2>3 DEF TypeOK
    <2>5. open' = open \ {sessions[x] : x \in X}
      BY <2>1 DEF TypeOK
    <2>6. X \in SUBSET Key
      BY <2>3
    <2> HIDE DEF X
    <2> QED
      BY <1>1, <2>2, <2>4, <2>5, <2>6, RemoveOpen
  <1> QED
    BY <1>2, <1>3

\* The steps of a goroutine.
LEMMA HandleOpen ==
    ASSUME TypeOK, OpenInv, NEW p \in Packet, Receive(p) \/ Handle(p)
    PROVE  OpenInv'
  <1>1. CASE Receive(p)
    <2>1. /\ UNCHANGED <<client, phase, try, open, sessions>>
          /\ pc[p] = "new"
          /\ pc' = [pc EXCEPT ![p] = "done"] \/ pc' = [pc EXCEPT ![p] = "lookup"]
      BY <1>1 DEF Receive, sessionVars
    <2>2. /\ pc'[p] \in {"done", "lookup"}
          /\ \A q \in Packet \ {p} : pc'[q] = pc[q]
      BY <2>1 DEF TypeOK
    <2> QED
      BY <2>1, <2>2, MoveOpen
  <1>2. CASE DialFails(p) \/ WriteFails(p) \/ ReadFails(p) \/ ReadEmpty(p)
    <2>1. /\ UNCHANGED <<client, phase, open, sessions>>
          /\ pc[p] \in {"dial", "write", "read"}
          /\ NextCandidate(p)
      BY <1>2 DEF DialFails, WriteFails, ReadFails, ReadEmpty, GiveUp, sessionVars
    <2>2. /\ \A q \in Packet \ {p} : pc'[q] = pc[q] /\ try'[q] = try[q]
          /\ pc'[p] = "done" \/ (pc'[p] = "lookup" /\ try'[p] = try[p] + 1)
      BY <2>1, NextCandidateMoves
    <2> QED
      BY <2>1, <2>2, MoveOpen
  <1>3. CASE Write(p) \/ Read(p)
    <2>1. /\ UNCHANGED <<client, phase, try, open, sessions>>
          /\ pc[p] \in {"write", "read"}
          /\ pc' = [pc EXCEPT ![p] = "read"] \/ pc' = [pc EXCEPT ![p] = "touch"]
      BY <1>3 DEF Write, Read, sessionVars
    <2>2. /\ pc'[p] \in {"read", "touch"}
          /\ \A q \in Packet \ {p} : pc'[q] = pc[q]
      BY <2>1 DEF TypeOK
    <2> QED
      BY <2>1, <2>2, MoveOpen
  <1>4. CASE Touch(p)
    <2>1. /\ UNCHANGED <<client, phase, open, sessions>>
          /\ pc[p] = "touch" /\ Done(p)
      BY <1>4 DEF Touch
    <2>2. /\ pc'[p] = "done"
          /\ \A q \in Packet \ {p} : pc'[q] = pc[q] /\ try'[q] = try[q]
      BY <2>1 DEF Done, TypeOK
    <2> QED
      BY <2>1, <2>2, MoveOpen
  <1> QED
    BY <1>1, <1>2, <1>3, <1>4, LookupOpen, DialOpen, InsertOpen DEF Handle

\* The steps of network, clock, configuration, reaper and Shutdown.
LEMMA OtherOpen ==
    ASSUME TypeOK, OpenInv,
           \/ \E f \in flight : Answer(f) \/ Lose(f)
           \/ \E t \in TTLs \cup {NoBinding} : Refresh(t)
           \/ Tick \/ Reap \/ ShutdownCollect \/ ShutdownSwap \/ ShutdownClose
    PROVE  OpenInv'
  <1>1. CASE Reap
    <2> DEFINE X == {x \in Key : sessions[x] # NoConn /\ idle[sessions[x]] > ReaperTTL}
    <2>1. /\ UNCHANGED <<client, phase, try, pc>>
          /\ sessions' = [x \in Key |-> IF x \in X THEN NoConn ELSE sessions[x]]
          /\ open' = open \ {sessions[x] : x \in X}
      BY <1>1 DEF Reap, Close, goVars
    <2>2. X \in SUBSET Key
      OBVIOUS
    <2> HIDE DEF X
    <2> QED
      BY <2>1, <2>2, RemoveOpen
  <1>2. CASE ShutdownSwap \/ ShutdownClose
    <2>1. /\ UNCHANGED <<client, pc, try>>
          /\ phase' # "running"
          /\ open' \subseteq open
      BY <1>2 DEF ShutdownSwap, ShutdownClose, Close, goVars
    <2>2. Fresh'
      BY <2>1, KeysStay DEF OpenInv, Fresh, Key
    <2> QED
      BY <2>1, <2>2 DEF OpenInv
  <1>3. CASE \/ \E f \in flight : Answer(f) \/ Lose(f)
             \/ \E t \in TTLs \cup {NoBinding} : Refresh(t)
             \/ Tick \/ ShutdownCollect
    <2>1. /\ UNCHANGED <<client, pc, try, open, sessions>>
          /\ phase' = "running" => phase = "running"
      BY <1>3 DEF Answer, Lose, Refresh, Tick, ShutdownCollect, goVars, sessionVars
    <2> QED
      BY <2>1, IdleOpen
  <1> QED
    BY <1>1, <1>2, <1>3

(***************************************************************************)
(* Until Shutdown the open sockets are those of the session map, each      *)
(* under its own key, and those just dialled (server.go:560-600, 661), for *)
(* any number of packets that dial, expire and are reaped at once.         *)
(***************************************************************************)
THEOREM SessionsOpenTheorem == Spec => []SessionsAreOpen
  <1>1. Init => OpenInv
    BY DEF Init, OpenInv, Fresh, Dialled, Open
  <1>2. TypeOK /\ OpenInv /\ [Next]_vars => OpenInv'
    <2>1. SUFFICES ASSUME TypeOK, OpenInv, [Next]_vars PROVE OpenInv'
      OBVIOUS
    <2>2. CASE UNCHANGED vars
      <3>1. UNCHANGED <<client, phase, pc, try, open, sessions>>
        BY <2>2 DEF vars, goVars, sessionVars
      <3> QED
        BY <2>1, <3>1, IdleOpen
    <2>3. CASE \E p \in Packet : Receive(p) \/ Handle(p)
      BY <2>1, <2>3, HandleOpen
    <2>4. CASE Next /\ ~\E p \in Packet : Receive(p) \/ Handle(p)
      BY <2>1, <2>4, OtherOpen DEF Next
    <2> QED
      BY <2>1, <2>2, <2>3, <2>4
  <1>3. OpenInv => SessionsAreOpen
    BY DEF OpenInv, Open, SessionsAreOpen
  <1> QED
    BY <1>1, <1>2, <1>3, TypeCorrect, PTL DEF Spec

=============================================================================
