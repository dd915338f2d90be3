------------------------- MODULE RequestProxyProofs -------------------------
(***************************************************************************)
(* For every set of policies, addresses and nodes: relays in a circle are  *)
(* bounded by the hop limit, every attempt carries the client's body, and  *)
(* an answer below 502 is final.  All three follow from one invariant of   *)
(* the stack of handlers, in which the counters play no part.  The second  *)
(* half adds the counters: the types, what relay hits, retries and errors  *)
(* can be against requests, and what Stats and the sampled estimate show.  *)
(***************************************************************************)
EXTENDS RequestProxy, CountingTheorems, SequenceTheorems, TLAPS

Bodies == {"none", "length", "chunked"}
Answers == [status : Nat, cut : BOOLEAN, hint : BOOLEAN]
Frame ==
    [pc : {"serve", "send", "wait", "got"}, node : Node, hops : Int, body : Bodies,
     rate : Nat, cands : Seq(STRING), i : Nat, relay : BOOLEAN,
     sent : Bodies \cup {None}, ans : Answers \cup {None}]

\* The hop check has been passed.
Passed(hops) == hops >= 0 /\ \E p \in Policy : hops <= effectiveMaxHops(p.maxHops)

\* An answer nobody tries again.
Final(ans) == ans.status \in 1..501 /\ ~ans.cut

FrameOK(f, body) ==
    /\ f.body = body
    /\ f.pc # "serve" => Passed(f.hops)
    /\ f.pc = "wait" => f.sent = body
    /\ f.pc = "got" => f.ans \in Answers

StackInv ==
    /\ stack \in Seq(Frame)
    /\ ask \in Bodies
    /\ good \in BOOLEAN
    /\ \A j \in 1..Len(stack) : FrameOK(stack[j], ask)
    /\ \A j \in 1..(Len(stack) - 1) : stack[j].pc = "wait"
    /\ \A j \in 2..Len(stack) : stack[j].hops >= j - 1
    /\ good => stack # <<>> /\ top.pc = "got" /\ Final(top.ans)

----------------------------------------------------------------------------
\* The three ways in which the stack changes.

LEMMA Positions ==
    ASSUME StackInv, stack # <<>>
    PROVE  /\ Len(stack) \in Nat \ {0}
           /\ top \in Frame
           /\ FrameOK(top, ask)
  BY EmptySeq DEF StackInv, top

\* The top handler goes on.
LEMMA SetTopInv ==
    ASSUME StackInv, stack # <<>>, NEW f \in Frame,
           SetTop(f), ask' = ask,
           FrameOK(f, ask), f.hops = top.hops,
           good' \in BOOLEAN, good' => f.pc = "got" /\ Final(f.ans)
    PROVE  StackInv'
  <1> DEFINE n == Len(stack)
  <1>1. n \in Nat \ {0} BY Positions
  <1>2. stack' = [stack EXCEPT ![n] = f] BY DEF SetTop
  <1>3. /\ stack' \in Seq(Frame)
        /\ Len(stack') = n
        /\ \A j \in 1..n : stack'[j] = IF j = n THEN f ELSE stack[j]
    BY <1>1, <1>2 DEF StackInv
  <1>4. \A j \in 1..n : FrameOK(stack'[j], ask) BY <1>1, <1>3 DEF StackInv
  <1>5. \A j \in 1..(n - 1) : stack'[j].pc = "wait" BY <1>1, <1>3 DEF StackInv
  <1>6. \A j \in 2..n : stack'[j].hops >= j - 1 BY <1>1, <1>3 DEF StackInv, top
  <1>7. top' = f BY <1>1, <1>3 DEF top
  <1>8. stack' # <<>> BY <1>1, <1>3
  <1> QED BY <1>3, <1>4, <1>5, <1>6, <1>7, <1>8 DEF StackInv

\* The handler ends and its caller has the answer.
LEMMA ReturnInv ==
    ASSUME StackInv, stack # <<>>, NEW ans \in Answers,
           Return(ans), ask' = ask, good => ans.cut \/ Final(ans)
    PROVE  StackInv'
  <1> DEFINE n == Len(stack)
  <1>1. n \in Nat \ {0} BY Positions
  <1>2. PICK seen \in {ans, Cut(ans), Refused} :
            /\ stack' = IF n = 1 THEN <<>>
                        ELSE [Waiting EXCEPT ![n - 1] =
                                  [@ EXCEPT !.pc = "got", !.ans = seen]]
            /\ good' = (good /\ seen = ans /\ ~ans.cut /\ n > 1)
    BY DEF Return
  <1>3. seen \in Answers
    <2>1. Cut(ans) \in Answers BY DEF Cut, Answers
    <2>2. Refused \in Answers BY DEF Refused, Answer, Answers
    <2> QED BY <2>1, <2>2
  <1>4. CASE n = 1
    <2>1. stack' = <<>> BY <1>2, <1>4
    <2>2. stack' \in Seq(Frame) /\ Len(stack') = 0 BY <2>1, EmptySeq
    <2>3. ~(n > 1) BY <1>4
    <2>4. good' = FALSE BY <1>2, <2>3, Zenon
    <2>5. ask' \in Bodies BY DEF StackInv
    <2>6. /\ 1..Len(stack') = {} /\ 1..(Len(stack') - 1) = {}
          /\ 2..Len(stack') = {}
      BY <2>2
    <2> HIDE DEF n
    <2> QED BY <2>2, <2>4, <2>5, <2>6 DEF StackInv
  <1>5. CASE n # 1
    <2> DEFINE g == [stack[n - 1] EXCEPT !.pc = "got", !.ans = seen]
    <2>a. n - 1 \in 1..(n - 1) /\ n - 1 \in 1..n
      <3> HIDE DEF n
      <3>1. n \in Nat /\ n >= 2 BY <1>1, <1>5
      <3> QED BY <3>1
    <2>0. stack \in Seq(Frame) BY DEF StackInv
    <2>1. /\ Waiting \in Seq(Frame)
          /\ Len(Waiting) = n - 1
          /\ \A j \in 1..(n - 1) : Waiting[j] = stack[j]
      BY <1>1, <2>a, <2>0, SubSeqProperties DEF Waiting
    <2>2. /\ stack[n - 1] \in Frame
          /\ stack[n - 1].pc = "wait"
          /\ FrameOK(stack[n - 1], ask)
      <3>1. stack[n - 1] \in Frame BY <2>a, <2>0, ElementOfSeq
      <3>2. stack[n - 1].pc = "wait" BY <2>a DEF StackInv
      <3>3. FrameOK(stack[n - 1], ask) BY <2>a DEF StackInv
      <3> QED BY <3>1, <3>2, <3>3
    <2>3. /\ g \in Frame /\ g.hops = stack[n - 1].hops
          /\ g.pc = "got" /\ g.ans = seen /\ g.body = stack[n - 1].body
      BY <2>2, <1>3 DEF Frame
    <2>4. FrameOK(g, ask) BY <2>2, <2>3, <1>3 DEF FrameOK
    <2>5. stack' = [Waiting EXCEPT ![n - 1] = g] BY <2>a, <1>2, <1>5, <2>1
    <2>6. /\ stack' \in Seq(Frame)
          /\ Len(stack') = n - 1
          /\ \A j \in 1..(n - 1) : stack'[j] = IF j = n - 1 THEN g ELSE stack[j]
      BY <1>1, <1>5, <2>1, <2>3, <2>5
    <2>7. \A j \in 1..(n - 1) : FrameOK(stack'[j], ask)
      BY <1>1, <2>4, <2>6 DEF StackInv
    <2>8. \A j \in 1..(n - 2) : stack'[j].pc = "wait" BY <1>1, <2>6 DEF StackInv
    <2>9. \A j \in 2..(n - 1) : stack'[j].hops >= j - 1
      <3> TAKE j \in 2..(n - 1)
      <3>1. j \in 2..n /\ stack[j].hops >= j - 1 BY <1>1 DEF StackInv
      <3>2. j \in 1..(n - 1) BY <1>1
      <3>3. stack'[j] = IF j = n - 1 THEN g ELSE stack[j] BY <3>2, <2>6
      <3> HIDE DEF g
      <3>4. stack'[j].hops = stack[j].hops BY <2>3, <3>3
      <3> QED BY <3>1, <3>4
    <2>10. stack' # <<>> /\ top' = g BY <1>1, <1>5, <2>6 DEF top
    <2>11. good' => Final(g.ans) BY <1>2, <2>3
    <2>12. good' \in BOOLEAN BY <1>2
    <2> QED BY <1>1, <2>3, <2>6, <2>7, <2>8, <2>9, <2>10, <2>11, <2>12 DEF StackInv
  <1> QED BY <1>4, <1>5

LEMMA ReplyInv ==
    ASSUME StackInv, stack # <<>>, NEW ans \in Answers, NEW status, NEW attempts,
           NEW relay, NEW rate, Reply(ans, status, attempts, relay, rate),
           good => ans.cut \/ Final(ans)
    PROVE  StackInv'
  BY ReturnInv DEF Reply

\* A reply before any answer has come: nothing good is under way.
LEMMA RefuseInv ==
    ASSUME StackInv, stack # <<>>, top.pc # "got", NEW status \in Nat,
           Return(Answer(status)), ask' = ask
    PROVE  StackInv'
  <1>1. Answer(status) \in Answers BY DEF Answer, Answers
  <1>2. ~good BY DEF StackInv
  <1> QED BY <1>1, <1>2, ReturnInv

\* What can be done to an answer.
LEMMA AnswerForms ==
    /\ \A s \in Nat : Answer(s) \in Answers /\ Answer(s).status = s
    /\ \A a \in Answers : Hinted(a) \in Answers /\ Hinted(a).status = a.status
    /\ \A a \in Answers : Cut(a) \in Answers /\ Cut(a).status = a.status
  <1>1. ASSUME NEW s \in Nat PROVE Answer(s) \in Answers /\ Answer(s).status = s
    BY DEF Answer, Answers
  <1>2. ASSUME NEW a \in Answers
        PROVE  Hinted(a) \in Answers /\ Hinted(a).status = a.status
    BY DEF Hinted, Answers
  <1>3. ASSUME NEW a \in Answers
        PROVE  Cut(a) \in Answers /\ Cut(a).status = a.status
    BY DEF Cut, Answers
  <1> QED BY <1>1, <1>2, <1>3

----------------------------------------------------------------------------
\* The steps.

LEMMA AttemptsNat ==
    ASSUME NEW p \in Policy
    PROVE  Attempts(p) \in Nat
  <1> DEFINE n == effectiveMaxAttempts(p.attempts)
             extra == (n - 1) * p.budget
  <1>1. n \in Int /\ n >= 1 /\ p.budget \in Int
    BY PolicyAssumption DEF effectiveMaxAttempts
  <1>2. CASE n <= 1 \/ p.budget <= 0
    <2>1. ~(n > 1 /\ p.budget >= 100) BY <1>1, <1>2
    <2>2. Attempts(p) = 1 BY <1>2, <2>1 DEF Attempts, applyRetryBudget
    <2> QED BY <2>2
  <1>3. CASE n > 1 /\ p.budget >= 100 BY <1>1, <1>3 DEF Attempts, applyRetryBudget
  <1>4. CASE n > 1 /\ 0 < p.budget /\ p.budget < 100
    <2>1. extra \in Nat
      <3>1. \A x, y \in Nat : x * y \in Nat OBVIOUS
      <3>2. n - 1 \in Nat /\ p.budget \in Nat BY <1>1, <1>4
      <3> QED BY <3>1, <3>2
    <2> HIDE DEF extra
    <2>2. extra \div 100 \in Nat BY <2>1
    <2>3. Attempts(p) = 1 + (IF extra \div 100 = 0 THEN 1 ELSE extra \div 100)
      BY <1>1, <1>4 DEF Attempts, applyRetryBudget, extra
    <2> QED BY <2>2, <2>3
  <1> QED BY <1>1, <1>2, <1>3, <1>4

LEMMA WithinPasses ==
    ASSUME StackInv, NEW p \in Policy, Within(p)
    PROVE  stack # <<>> /\ top.pc = "serve" /\ ~good /\ Passed(top.hops)
  <1>1. stack # <<>> /\ top.pc = "serve" BY DEF Within, At
  <1>2. ~good BY <1>1 DEF StackInv
  <1>3. top.hops \in 0..effectiveMaxHops(p.maxHops) BY DEF Within
  <1>4. effectiveMaxHops(p.maxHops) \in Int BY PolicyAssumption DEF effectiveMaxHops
  <1> QED BY <1>1, <1>2, <1>3, <1>4 DEF Passed

LEMMA ResolveInv ==
    ASSUME StackInv, NEW p \in Policy, Resolve(p)
    PROVE  StackInv'
  <1>1. /\ stack # <<>> /\ top.pc = "serve" /\ ~good /\ Passed(top.hops)
        /\ top \in Frame /\ FrameOK(top, ask)
    BY WithinPasses, Positions DEF Resolve
  <1> DEFINE cands(k) == [i \in 1..Attempts(p) |-> p.dest[((i + k - 2) % Len(p.dest)) + 1]]
             f(k) == [top EXCEPT !.pc = "send", !.rate = p.rate, !.cands = cands(k)]
  <1>2. PICK k \in DOMAIN p.dest : SetTop(f(k)) BY DEF Resolve
  <1>3. cands(k) \in Seq(STRING)
    <2>1. p.dest \in Seq(STRING) /\ p.dest # <<>> BY PolicyAssumption DEF Resolve
    <2>2. Len(p.dest) \in Nat \ {0} /\ k \in Nat BY <2>1, EmptySeq
    <2>3. \A i \in 1..Attempts(p) : ((i + k - 2) % Len(p.dest)) + 1 \in 1..Len(p.dest)
      BY <2>2, AttemptsNat, SMTT(30)
    <2>4. \A i \in 1..Attempts(p) : cands(k)[i] \in STRING BY <2>1, <2>3
    <2> QED BY <2>4, AttemptsNat, SMTT(30)
  <1>4. p.rate \in Nat BY PolicyAssumption
  <1> HIDE DEF cands
  <1>5. /\ f(k) \in Frame /\ f(k).hops = top.hops /\ f(k).body = top.body
        /\ f(k).pc = "send"
    BY <1>1, <1>3, <1>4 DEF Frame
  <1>6. FrameOK(f(k), ask) BY <1>1, <1>5 DEF FrameOK
  <1>7. ask' = ask /\ good' = good BY DEF Resolve
  <1>8. good' \in BOOLEAN /\ ~good' BY <1>1, <1>7 DEF StackInv
  <1> HIDE DEF f
  <1> QED BY <1>1, <1>2, <1>5, <1>6, <1>7, <1>8, SetTopInv

\* A handler that calls somebody sends the client's body.
LEMMA CallingOK ==
    ASSUME StackInv, At("send")
    PROVE  /\ Calling \in Frame /\ FrameOK(Calling, ask)
           /\ Calling.hops = top.hops /\ Calling.pc = "wait"
           /\ BodyOfAttempt = ask /\ stack # <<>> /\ ~good
           /\ top \in Frame /\ Passed(top.hops)
  <1>1. stack # <<>> /\ top.pc = "send" BY DEF At
  <1>2. top \in Frame /\ FrameOK(top, ask) BY <1>1, Positions
  <1>3. ~good BY <1>1 DEF StackInv
  <1>4. BodyOfAttempt = ask
    <2>1. ask \in Bodies /\ top.body = ask BY <1>2 DEF StackInv, FrameOK
    <2> QED BY <2>1 DEF BodyOfAttempt, maybeRead, Bodies
  <1>5. RelayHit \in BOOLEAN BY DEF RelayHit
  <1>6. ask \in Bodies BY DEF StackInv
  <1>7. /\ Calling \in Frame /\ Calling.hops = top.hops /\ Calling.pc = "wait"
        /\ Calling.body = top.body /\ Calling.sent = ask
    BY <1>2, <1>4, <1>5, <1>6 DEF Calling, Frame
  <1>8. Passed(top.hops) BY <1>1, <1>2 DEF FrameOK
  <1>9. FrameOK(Calling, ask) BY <1>2, <1>7, <1>8 DEF FrameOK
  <1> QED BY <1>1, <1>2, <1>3, <1>4, <1>7, <1>8, <1>9

LEMMA CallUpstreamInv ==
    ASSUME StackInv, CallUpstream
    PROVE  StackInv'
  <1>1. At("send") /\ SetTop(Calling) /\ ask' = ask /\ good' = good BY DEF CallUpstream
  <1>2. good' \in BOOLEAN BY <1>1 DEF StackInv
  <1>3. ~good' BY <1>1, CallingOK
  <1> QED BY <1>1, <1>2, <1>3, CallingOK, SetTopInv

LEMMA CallListenerInv ==
    ASSUME StackInv, CallListener
    PROVE  StackInv'
  <1> DEFINE n == Len(stack)
             g == NewFrame(ListenerNode[Candidate], NextHops, BodyOfAttempt)
             low == [stack EXCEPT ![n] = Calling]
  <1>1. /\ At("send") /\ ask' = ask /\ good' = good
        /\ Candidate \in Listener
        /\ stack' = low \o <<g>>
    BY DEF CallListener
  <1>2. /\ Calling \in Frame /\ FrameOK(Calling, ask)
        /\ Calling.hops = top.hops /\ Calling.pc = "wait"
        /\ BodyOfAttempt = ask /\ stack # <<>> /\ ~good
        /\ top \in Frame /\ Passed(top.hops)
    BY <1>1, CallingOK
  <1>3. n \in Nat \ {0} BY <1>2, Positions
  <1>4. top.hops \in Nat BY <1>2 DEF Frame, Passed
  <1>5. /\ g \in Frame /\ g.pc = "serve" /\ g.hops = top.hops + 1 /\ g.body = ask
    <2>1. ListenerNode[Candidate] \in Node BY <1>1, NodeAssumption
    <2>2. ask \in Bodies BY DEF StackInv
    <2> QED BY <1>2, <1>4, <2>1, <2>2, EmptySeq DEF NewFrame, NextHops, Frame
  <1>6. FrameOK(g, ask) BY <1>5 DEF FrameOK
  <1>7. /\ low \in Seq(Frame) /\ Len(low) = n
        /\ \A j \in 1..n : low[j] = IF j = n THEN Calling ELSE stack[j]
    BY <1>2, <1>3 DEF StackInv
  <1> HIDE DEF g, low
  <1>8. /\ stack' \in Seq(Frame) /\ Len(stack') = n + 1
        /\ \A j \in 1..n : stack'[j] = IF j = n THEN Calling ELSE stack[j]
        /\ stack'[n + 1] = g
    BY <1>1, <1>3, <1>5, <1>7, SMTT(30)
  <1>9. \A j \in 1..(n + 1) : FrameOK(stack'[j], ask)
    BY <1>2, <1>3, <1>6, <1>8 DEF StackInv
  <1>10. \A j \in 1..n : stack'[j].pc = "wait" BY <1>2, <1>3, <1>8 DEF StackInv
  <1>11. \A j \in 2..(n + 1) : stack'[j].hops >= j - 1
    <2> TAKE j \in 2..(n + 1)
    <2>1. CASE j = n + 1
      <3>1. n >= 2 => top.hops >= n - 1 BY <1>3 DEF StackInv, top
      <3> QED BY <1>3, <1>4, <1>5, <1>8, <2>1, <3>1
    <2>2. CASE j = n
      <3>1. stack'[j].hops = top.hops /\ j \in 2..n BY <1>2, <1>3, <1>8, <2>2
      <3>2. top.hops >= n - 1 BY <2>2, <3>1 DEF StackInv, top
      <3> QED BY <2>2, <3>1, <3>2
    <2>3. CASE j < n
      <3>1. stack'[j] = stack[j] /\ j \in 2..n BY <1>3, <1>8, <2>3
      <3> QED BY <3>1 DEF StackInv
    <2> QED BY <1>3, <2>1, <2>2, <2>3
  <1>12. good' \in BOOLEAN /\ ~good' BY <1>1, <1>2 DEF StackInv
  <1>13. ask' \in Bodies BY <1>1 DEF StackInv
  <1> QED BY <1>1, <1>3, <1>8, <1>9, <1>10, <1>11, <1>12, <1>13 DEF StackInv

LEMMA UpstreamAnswersInv ==
    ASSUME StackInv, UpstreamAnswers
    PROVE  StackInv'
  <1> DEFINE f(ans) == [top EXCEPT !.pc = "got", !.ans = ans]
  <1>1. stack # <<>> /\ top.pc = "wait" /\ ask' = ask BY DEF UpstreamAnswers, At
  <1>2. PICK ans \in {Answer(s) : s \in {200, 500, 503}}
                         \cup {Hinted(Answer(503)), Cut(Answer(200)), Refused} :
            SetTop(f(ans)) /\ good' = (~ans.cut /\ ans.status \in 1..501)
    BY DEF UpstreamAnswers
  <1>3. ans \in Answers BY AnswerForms DEF Refused
  <1>4. top \in Frame /\ FrameOK(top, ask) BY <1>1, Positions
  <1>5. /\ f(ans) \in Frame /\ f(ans).hops = top.hops /\ f(ans).body = top.body
        /\ f(ans).pc = "got" /\ f(ans).ans = ans
    BY <1>3, <1>4, ZenonT(30) DEF Frame
  <1>6. FrameOK(f(ans), ask) BY <1>1, <1>3, <1>4, <1>5 DEF FrameOK
  <1>7. good' \in BOOLEAN /\ (good' => Final(ans)) BY <1>2, Zenon DEF Final
  <1> HIDE DEF f
  <1> QED BY <1>1, <1>2, <1>5, <1>6, <1>7, SetTopInv, ZenonT(30)

\* At an answer that is good neither retry nor 502 comes to pass.
LEMMA GoodStatus ==
    ASSUME StackInv, At("got")
    PROVE  /\ stack # <<>> /\ top \in Frame /\ FrameOK(top, ask) /\ top.ans \in Answers
           /\ Status \in Nat
           /\ good => Final(top.ans) /\ top.ans # Refused /\ Status \in 1..501
  <1>1. stack # <<>> /\ top.pc = "got" BY DEF At
  <1>2. top \in Frame /\ FrameOK(top, ask) BY <1>1, Positions
  <1>3. top.ans \in Answers BY <1>1, <1>2 DEF FrameOK
  <1>4. Status \in Nat BY <1>3 DEF Status, Answers
  <1>5. ASSUME good PROVE Final(top.ans) /\ top.ans # Refused /\ Status \in 1..501
    <2>1. Final(top.ans) BY <1>5 DEF StackInv
    <2>2. Refused.status = 0 BY DEF Refused, Answer
    <2>3. top.ans # Refused BY <2>1, <2>2 DEF Final
    <2> QED BY <2>1, <2>3 DEF Status, Final
  <1> QED BY <1>1, <1>2, <1>3, <1>4, <1>5

LEMMA ForwardDirectInv ==
    ASSUME StackInv, ForwardDirect
    PROVE  StackInv'
  <1>1. At("got") BY DEF ForwardDirect
  <1>2. CASE top.ans = Refused
    <2>1. Reply(Answer(502), 502, 1, top.relay, top.rate) BY <1>2 DEF ForwardDirect
    <2>2. Answer(502) \in Answers BY DEF Answer, Answers
    <2>3. ~good BY <1>1, <1>2, GoodStatus
    <2> QED BY <1>1, <2>1, <2>2, <2>3, GoodStatus, ReplyInv
  <1>3. CASE top.ans # Refused
    <2> DEFINE s == top.ans.status
    <2>1. PICK ans \in {Answer(s), Cut(Answer(s))} :
              Reply(ans, IF ans.cut \/ top.ans.cut THEN 502 ELSE ans.status,
                    1, top.relay, top.rate)
      BY <1>3 DEF ForwardDirect
    <2>2. s \in Nat BY <1>1, GoodStatus DEF Answers
    <2>3. ans \in Answers /\ ans.status = s
      BY <2>2, AnswerForms
    <2>4. good => ans.cut \/ Final(ans) BY <1>1, <2>3, GoodStatus DEF Final
    <2> QED BY <1>1, <2>1, <2>3, <2>4, GoodStatus, ReplyInv
  <1> QED BY <1>2, <1>3

LEMMA RetryInv ==
    ASSUME StackInv, Retry
    PROVE  StackInv'
  <1>1. At("got") /\ SetTop(NextAttempt) /\ ask' = ask /\ good' = good BY DEF Retry
  <1>2. Status >= 502 BY DEF Retry, shouldRetryStatus
  <1>3. ~good
    <2>1. SUFFICES ASSUME good PROVE FALSE OBVIOUS
    <2>2. Status \in 1..501 BY <1>1, <2>1, GoodStatus
    <2> QED BY <1>2, <2>2
  <1>4. good' \in BOOLEAN /\ ~good' BY <1>1, <1>3 DEF StackInv
  <1>5. top \in Frame /\ FrameOK(top, ask) /\ top.pc = "got" BY <1>1, GoodStatus DEF At
  <1>6. /\ NextAttempt \in Frame /\ NextAttempt.hops = top.hops
        /\ NextAttempt.body = top.body /\ NextAttempt.pc = "send"
    <2>1. top.i + 1 \in Nat BY <1>5 DEF Frame
    <2>2. NextAttempt = [top EXCEPT !.pc = "send", !.i = top.i + 1]
      BY <1>5 DEF NextAttempt, Frame
    <2> QED BY <1>5, <2>1, <2>2 DEF Frame
  <1>7. FrameOK(NextAttempt, ask) BY <1>5, <1>6 DEF FrameOK
  <1>8. stack # <<>> BY <1>1 DEF At
  <1> QED BY <1>1, <1>4, <1>6, <1>7, <1>8, SetTopInv

LEMMA DeliverInv ==
    ASSUME StackInv, Deliver
    PROVE  StackInv'
  <1> DEFINE ans == IF top.ans.hint THEN Hinted(Answer(200)) ELSE Answer(Status)
  <1>1. At("got") /\ Reply(ans, Status, top.i, top.relay, top.rate) BY DEF Deliver
  <1>2. ans \in Answers BY <1>1, GoodStatus, ZenonT(30) DEF Hinted, Answer, Answers
  <1>3. good => Final(ans) BY <1>1, GoodStatus DEF Hinted, Answer, Final
  <1> HIDE DEF ans
  <1> QED BY <1>1, <1>2, <1>3, GoodStatus, ReplyInv

LEMMA AbortInv ==
    ASSUME StackInv, Abort
    PROVE  StackInv'
  <1>1. At("got") /\ top.ans.cut /\ Return(Refused) /\ ask' = ask BY DEF Abort
  <1>2. ~good BY <1>1, GoodStatus DEF Final
  <1>3. Refused \in Answers BY DEF Refused, Answer, Answers
  <1> QED BY <1>1, <1>2, <1>3, GoodStatus, ReturnInv

LEMMA SendInv ==
    ASSUME StackInv, NEW n \in Node, NEW body \in Bodies, NEW hops \in ClientHops,
           Send(n, body, hops)
    PROVE  StackInv'
  <1> DEFINE f == NewFrame(n, hops, body)
  <1>1. stack = <<>> /\ stack' = <<f>> /\ ask' = body /\ good' = good BY DEF Send
  <1>2. f \in Frame /\ f.pc = "serve" /\ f.body = body
    BY HopsAssumption, EmptySeq DEF NewFrame, Frame
  <1>3. good' \in BOOLEAN /\ ~good' BY <1>1 DEF StackInv
  <1>4. FrameOK(f, body) BY <1>2 DEF FrameOK
  <1> HIDE DEF f
  <1>5. stack' \in Seq(Frame) /\ Len(stack') = 1 /\ stack'[1] = f BY <1>1, <1>2
  <1> QED BY <1>1, <1>3, <1>4, <1>5 DEF StackInv

LEMMA HandleInv ==
    ASSUME StackInv, Handle
    PROVE  StackInv'
  <1>1. CASE NoRoute BY <1>1, RefuseInv DEF NoRoute, Refuse, Reply, At
  <1>2. CASE \E p \in Policy :
                 BadHops(p) \/ LoopDetected(p) \/ Unresolved(p) \/ Resolve(p) \/ BodyFails(p)
    <2>1. PICK p \in Policy :
              BadHops(p) \/ LoopDetected(p) \/ Unresolved(p) \/ Resolve(p) \/ BodyFails(p)
      BY <1>2
    <2>2. CASE BadHops(p) BY <2>2, RefuseInv DEF BadHops, Refuse, Reply, At
    <2>3. CASE LoopDetected(p) BY <2>3, RefuseInv DEF LoopDetected, Refuse, Reply, At
    <2>4. CASE Unresolved(p) BY <2>4, RefuseInv DEF Unresolved, Within, Refuse, Reply, At
    <2>5. CASE Resolve(p) BY <2>5, ResolveInv
    <2>6. CASE BodyFails(p) BY <2>6, RefuseInv DEF BodyFails, Within, Refuse, Reply, At
    <2> QED BY <2>1, <2>2, <2>3, <2>4, <2>5, <2>6
  <1>3. CASE BadAddress BY <1>3, RefuseInv DEF BadAddress, Reply, At
  <1>4. CASE CallUpstream BY <1>4, CallUpstreamInv
  <1>5. CASE CallListener BY <1>5, CallListenerInv
  <1>6. CASE ForwardDirect BY <1>6, ForwardDirectInv
  <1>7. CASE Retry BY <1>7, RetryInv
  <1>8. CASE Deliver BY <1>8, DeliverInv
  <1>9. CASE Abort BY <1>9, AbortInv
  <1> QED BY <1>1, <1>2, <1>3, <1>4, <1>5, <1>6, <1>7, <1>8, <1>9 DEF Handle

\* Recording, the aggregators and Stats leave the request alone.
LEMMA StackUnchanged ==
    ASSUME StackInv, UNCHANGED request
    PROVE  StackInv'
  BY DEF StackInv, request, top

LEMMA InitStack == Init => StackInv
  <1> SUFFICES ASSUME Init PROVE StackInv OBVIOUS
  <1>1. stack = <<>> /\ ask = "none" /\ good = FALSE BY DEF Init
  <1>2. stack \in Seq(Frame) /\ Len(stack) = 0 BY <1>1, EmptySeq
  <1>3. /\ 1..Len(stack) = {} /\ 1..(Len(stack) - 1) = {}
        /\ 2..Len(stack) = {}
    BY <1>2
  <1>4. ask \in Bodies BY <1>1 DEF Bodies
  <1> QED BY <1>1, <1>2, <1>3, <1>4 DEF StackInv

LEMMA StackStep == StackInv /\ [Next]_vars => StackInv'
  <1> SUFFICES ASSUME StackInv, [Next]_vars PROVE StackInv' OBVIOUS
  <1>1. CASE UNCHANGED vars BY <1>1, StackUnchanged DEF vars
  <1>2. CASE \E n \in Node, body \in {"none", "length", "chunked"}, hops \in ClientHops :
                 Send(n, body, hops)
    BY <1>2, SendInv DEF Bodies
  <1>3. CASE Handle BY <1>3, HandleInv
  <1>4. CASE UpstreamAnswers BY <1>4, UpstreamAnswersInv
  <1>5. CASE Record
    BY <1>5, StackUnchanged DEF Record, Sample, CountRequest, CountError, Emit
  <1>6. CASE \E n \in Node : \/ StartAggregator(n) \/ Aggregate(n)
                             \/ StopAggregator(n) \/ AggregatorEnds(n) \/ Load(n)
    BY <1>6, StackUnchanged
    DEF StartAggregator, Aggregate, StopAggregator, AggregatorEnds, Load
  <1>7. CASE StatsEnds BY <1>7, StackUnchanged DEF StatsEnds
  <1> QED BY <1>1, <1>2, <1>3, <1>4, <1>5, <1>6, <1>7 DEF Next

LEMMA StackInductive == Spec => []StackInv
  BY InitStack, StackStep, PTL DEF Spec

----------------------------------------------------------------------------
(***************************************************************************)
(* Whatever services lead to each other's listeners, and however the plans *)
(* differ between nodes, the handlers that wait for each other are no more *)
(* than the largest hop limit and two (server.go:860).                     *)
(***************************************************************************)
THEOREM RelaysAreBounded == Spec => []LoopsEnd
  <1>1. StackInv => LoopsEnd
    <2> SUFFICES ASSUME StackInv, ~(Len(stack) <= 1)
                 PROVE  \E p \in Policy : Len(stack) <= effectiveMaxHops(p.maxHops) + 2
      BY DEF LoopsEnd
    <2> DEFINE n == Len(stack)
    <2>1. n \in Nat /\ n >= 2 BY DEF StackInv
    <2>2. n - 1 \in 1..(n - 1) /\ n - 1 \in 1..n BY <2>1
    <2>3. Passed(stack[n - 1].hops)
      <3>1. FrameOK(stack[n - 1], ask) /\ stack[n - 1].pc = "wait" BY <2>2 DEF StackInv
      <3> QED BY <3>1 DEF FrameOK
    <2>4. n >= 3 => stack[n - 1].hops >= n - 2
      <3>1. n >= 3 => n - 1 \in 2..n BY <2>1
      <3> QED BY <2>1, <3>1 DEF StackInv
    <2>5. stack[n - 1].hops \in Int
      <3>1. stack \in Seq(Frame) BY DEF StackInv
      <3>2. stack[n - 1] \in Frame BY <2>2, <3>1, ElementOfSeq
      <3> QED BY <3>2 DEF Frame
    <2>6. PICK p \in Policy : stack[n - 1].hops <= effectiveMaxHops(p.maxHops)
      BY <2>3 DEF Passed
    <2>7. effectiveMaxHops(p.maxHops) \in Int /\ effectiveMaxHops(p.maxHops) >= 1
      BY PolicyAssumption DEF effectiveMaxHops
    <2>8. n <= effectiveMaxHops(p.maxHops) + 2 BY <2>1, <2>4, <2>5, <2>6, <2>7
    <2> QED BY <2>8
  <1> QED BY <1>1, StackInductive, PTL

(***************************************************************************)
(* Every attempt, on every node of the way, carries the body the client    *)
(* has sent (server.go:925, 1169, 1194).                                   *)
(***************************************************************************)
THEOREM BodiesAreWhole == Spec => []WholeBody
  <1>1. StackInv => WholeBody
    <2> SUFFICES ASSUME StackInv PROVE WholeBody OBVIOUS
    <2>1. DOMAIN stack = 1..Len(stack) BY DEF StackInv
    <2> QED BY <2>1 DEF StackInv, FrameOK, WholeBody
  <1> QED BY <1>1, StackInductive, PTL

(***************************************************************************)
(* No request is sent again once an answer below 502 is on its way back    *)
(* (server.go:970).                                                        *)
(***************************************************************************)
THEOREM AnswersAreFinal == Spec => []NoRepeatAfterAnswer
  <1>1. StackInv => NoRepeatAfterAnswer BY DEF StackInv, NoRepeatAfterAnswer, At
  <1> QED BY <1>1, StackInductive, PTL

----------------------------------------------------------------------------
(***************************************************************************)
(* The frames in detail: the attempt a handler is at is one it has, it has *)
(* no more than its service allows, and the rate it will record with is    *)
(* its service's.                                                          *)
(***************************************************************************)
Detail(f) ==
    /\ f.pc = "serve" => f.i = 1
    /\ f.pc # "serve" => /\ f.i \in DOMAIN f.cands
                         /\ MostAttempts(Len(f.cands))
                         /\ \E p \in Policy : f.rate = p.rate
    /\ f.pc = "got" => f.ans.status \in Statuses \cup {0}

FramesInv == \A j \in 1..Len(stack) : Detail(stack[j])

LEMMA AttemptsBound ==
    ASSUME NEW p \in Policy
    PROVE  Attempts(p) \in Nat \ {0} /\ Attempts(p) <= effectiveMaxAttempts(p.attempts)
  <1> DEFINE n == effectiveMaxAttempts(p.attempts)
             extra == (n - 1) * p.budget
  <1>1. n \in Int /\ n >= 1 /\ p.budget \in Int
    BY PolicyAssumption DEF effectiveMaxAttempts
  <1>2. CASE n <= 1 \/ p.budget <= 0
    <2>1. ~(n > 1 /\ p.budget >= 100) BY <1>1, <1>2
    <2>2. Attempts(p) = 1 BY <1>2, <2>1 DEF Attempts, applyRetryBudget
    <2> QED BY <1>1, <2>2
  <1>3. CASE n > 1 /\ p.budget >= 100 BY <1>1, <1>3 DEF Attempts, applyRetryBudget
  <1>4. CASE n > 1 /\ 0 < p.budget /\ p.budget < 100
    <2>1. extra \in Nat /\ extra <= (n - 1) * 100
      <3>1. \A x, y \in Nat : y < 100 => x * y \in Nat /\ x * y <= x * 100 OBVIOUS
      <3>2. n - 1 \in Nat /\ p.budget \in Nat BY <1>1, <1>4
      <3> QED BY <1>4, <3>1, <3>2
    <2>2. Attempts(p) = 1 + (IF extra \div 100 = 0 THEN 1 ELSE extra \div 100)
      BY <1>1, <1>4 DEF Attempts, applyRetryBudget
    <2> HIDE DEF extra, n
    <2>3. extra \div 100 \in Nat /\ extra \div 100 <= n - 1 BY <1>1, <2>1
    <2>4. Attempts(p) <= n BY <1>1, <1>4, <2>2, <2>3
    <2> QED BY <2>2, <2>3, <2>4 DEF n
  <1> QED BY <1>1, <1>2, <1>3, <1>4

\* The ways in which the stack changes, once more.
LEMMA SetTopDetail ==
    ASSUME StackInv, FramesInv, stack # <<>>, NEW f \in Frame, SetTop(f), Detail(f)
    PROVE  FramesInv'
  <1> DEFINE n == Len(stack)
  <1>1. n \in Nat \ {0} BY Positions
  <1>2. stack' = [stack EXCEPT ![n] = f] BY DEF SetTop
  <1>3. /\ Len(stack') = n
        /\ \A j \in 1..n : stack'[j] = IF j = n THEN f ELSE stack[j]
    BY <1>1, <1>2 DEF StackInv
  <1> QED BY <1>3 DEF FramesInv

LEMMA ReturnDetail ==
    ASSUME StackInv, FramesInv, stack # <<>>, NEW ans \in Answers, Return(ans),
           ans.status \in Statuses \cup {0}
    PROVE  FramesInv'
  <1> DEFINE n == Len(stack)
  <1>1. n \in Nat \ {0} BY Positions
  <1>2. PICK seen \in {ans, Cut(ans), Refused} :
            stack' = IF n = 1 THEN <<>>
                     ELSE [Waiting EXCEPT ![n - 1] = [@ EXCEPT !.pc = "got", !.ans = seen]]
    BY DEF Return
  <1>3. seen.status \in Statuses \cup {0}
    <2>1. Cut(ans).status = ans.status BY DEF Cut, Answers
    <2>2. Refused.status = 0 BY DEF Refused, Answer
    <2> QED BY <2>1, <2>2
  <1>4. CASE n = 1
    <2>1. 1..Len(stack') = {} BY <1>2, <1>4, EmptySeq
    <2> QED BY <2>1 DEF FramesInv
  <1>5. CASE n # 1
    <2> DEFINE m == n - 1
               g == [stack[m] EXCEPT !.pc = "got", !.ans = seen]
    <2>1. m \in 1..m /\ m \in 1..n
      <3> HIDE DEF n
      <3>1. n \in Nat /\ n >= 2 BY <1>1, <1>5
      <3> QED BY <3>1
    <2>2. stack \in Seq(Frame) /\ stack[m] \in Frame
      BY <2>1, ElementOfSeq DEF StackInv
    <2>3. /\ Waiting \in Seq(Frame) /\ Len(Waiting) = m
          /\ \A j \in 1..m : Waiting[j] = stack[j]
      BY <1>1, <2>1, <2>2, SubSeqProperties DEF Waiting
    <2>4. stack[m].pc = "wait" /\ Detail(stack[m])
      BY <2>1 DEF StackInv, FramesInv
    <2>5. /\ g.pc = "got" /\ g.ans = seen /\ g.i = stack[m].i
          /\ g.cands = stack[m].cands /\ g.rate = stack[m].rate
      BY <2>2 DEF Frame
    <2>6. Detail(g) BY <1>3, <2>4, <2>5 DEF Detail
    <2>7. stack' = [Waiting EXCEPT ![m] = g] BY <1>2, <1>5, <2>1, <2>3
    <2> HIDE DEF g
    <2>8. /\ Len(stack') = m
          /\ \A j \in 1..m : stack'[j] = IF j = m THEN g ELSE stack[j]
      BY <2>1, <2>3, <2>7
    <2>9. \A j \in 1..m : j \in 1..n BY <1>1
    <2> QED BY <2>6, <2>8, <2>9 DEF FramesInv
  <1> QED BY <1>4, <1>5

LEMMA RefuseDetail ==
    ASSUME StackInv, FramesInv, stack # <<>>, NEW status \in Statuses, Return(Answer(status))
    PROVE  FramesInv'
  <1>1. Answer(status) \in Answers /\ Answer(status).status = status
    BY DEF Answer, Answers, Statuses
  <1> QED BY <1>1, ReturnDetail

LEMMA TopDetail ==
    ASSUME StackInv, FramesInv, stack # <<>>
    PROVE  top \in Frame /\ Detail(top)
  <1>1. Len(stack) \in 1..Len(stack) BY Positions
  <1> QED BY <1>1, Positions DEF FramesInv, top

LEMMA ResolveDetail ==
    ASSUME StackInv, FramesInv, NEW p \in Policy, Resolve(p)
    PROVE  FramesInv'
  <1>1. stack # <<>> BY DEF Resolve, Within, At
  <1>2. top \in Frame BY <1>1, Positions
  <1> DEFINE cands(k) == [i \in 1..Attempts(p) |-> p.dest[((i + k - 2) % Len(p.dest)) + 1]]
             f(k) == [top EXCEPT !.pc = "send", !.rate = p.rate, !.cands = cands(k)]
  <1>3. PICK k \in DOMAIN p.dest : SetTop(f(k)) BY DEF Resolve
  <1>4. cands(k) \in Seq(STRING)
    <2>1. p.dest \in Seq(STRING) /\ p.dest # <<>> BY PolicyAssumption DEF Resolve
    <2>2. Len(p.dest) \in Nat \ {0} /\ k \in Nat BY <2>1, EmptySeq
    <2>3. \A i \in 1..Attempts(p) : ((i + k - 2) % Len(p.dest)) + 1 \in 1..Len(p.dest)
      BY <2>2, AttemptsNat, SMTT(30)
    <2>4. \A i \in 1..Attempts(p) : cands(k)[i] \in STRING BY <2>1, <2>3
    <2> QED BY <2>4, AttemptsNat, SMTT(30)
  <1>5. DOMAIN cands(k) = 1..Attempts(p) /\ Len(cands(k)) = Attempts(p)
    BY <1>4, AttemptsBound
  <1>6. p.rate \in Nat BY PolicyAssumption
  <1> HIDE DEF cands
  <1>7. /\ f(k) \in Frame /\ f(k).pc = "send" /\ f(k).cands = cands(k)
        /\ f(k).rate = p.rate /\ f(k).i = top.i
    BY <1>2, <1>4, <1>6 DEF Frame
  <1>8. top.i = 1
    <2>1. top.pc = "serve" BY DEF Resolve, Within, At
    <2> QED BY <1>1, <2>1, TopDetail DEF Detail
  <1>9. MostAttempts(Len(f(k).cands)) BY <1>5, <1>7, AttemptsBound DEF MostAttempts
  <1>10. 1 \in DOMAIN f(k).cands BY <1>5, <1>7, AttemptsBound
  <1>11. Detail(f(k)) BY <1>7, <1>8, <1>9, <1>10 DEF Detail
  <1> HIDE DEF f
  <1> QED BY <1>1, <1>3, <1>7, <1>11, SetTopDetail

LEMMA CallingDetail ==
    ASSUME StackInv, FramesInv, At("send")
    PROVE  Calling \in Frame /\ Detail(Calling) /\ stack # <<>>
  <1>1. Calling \in Frame /\ stack # <<>> /\ Calling.pc = "wait" BY CallingOK
  <1>2. top \in Frame /\ Detail(top) /\ top.pc = "send" BY <1>1, TopDetail DEF At
  <1>3. Calling.i = top.i /\ Calling.cands = top.cands /\ Calling.rate = top.rate
    BY <1>2 DEF Calling, Frame
  <1>4. Detail(Calling) BY <1>1, <1>2, <1>3 DEF Detail
  <1> QED BY <1>1, <1>4

LEMMA CallListenerDetail ==
    ASSUME StackInv, FramesInv, CallListener
    PROVE  FramesInv'
  <1> DEFINE n == Len(stack)
             g == NewFrame(ListenerNode[Candidate], NextHops, BodyOfAttempt)
             low == [stack EXCEPT ![n] = Calling]
  <1>1. At("send") /\ stack' = low \o <<g>> BY DEF CallListener
  <1>2. Calling \in Frame /\ Detail(Calling) /\ stack # <<>> BY <1>1, CallingDetail
  <1>3. n \in Nat \ {0} BY <1>2, Positions
  <1>4. g.pc = "serve" /\ g.i = 1 BY DEF NewFrame
  <1>5. Detail(g) BY <1>4 DEF Detail
  <1>6. /\ low \in Seq(Frame) /\ Len(low) = n
        /\ \A j \in 1..n : low[j] = IF j = n THEN Calling ELSE stack[j]
    BY <1>2, <1>3 DEF StackInv
  <1> HIDE DEF g, low
  <1>7. /\ Len(stack') = n + 1
        /\ \A j \in 1..n : stack'[j] = IF j = n THEN Calling ELSE stack[j]
        /\ stack'[n + 1] = g
    BY <1>1, <1>3, <1>6
  <1> QED BY <1>2, <1>3, <1>5, <1>7 DEF FramesInv

LEMMA UpstreamAnswersDetail ==
    ASSUME StackInv, FramesInv, UpstreamAnswers
    PROVE  FramesInv'
  <1> DEFINE f(ans) == [top EXCEPT !.pc = "got", !.ans = ans]
  <1>1. stack # <<>> /\ top.pc = "wait" BY DEF UpstreamAnswers, At
  <1>2. PICK ans \in {Answer(s) : s \in {200, 500, 503}}
                         \cup {Hinted(Answer(503)), Cut(Answer(200)), Refused} :
            SetTop(f(ans))
    BY ZenonT(30) DEF UpstreamAnswers
  <1>3. ans \in Answers /\ ans.status \in Statuses \cup {0}
    BY AnswerForms DEF Refused, Statuses
  <1>4. top \in Frame /\ Detail(top) BY <1>1, TopDetail
  <1>5. /\ f(ans) \in Frame /\ f(ans).pc = "got" /\ f(ans).ans = ans
        /\ f(ans).i = top.i /\ f(ans).cands = top.cands /\ f(ans).rate = top.rate
    BY <1>3, <1>4, ZenonT(30) DEF Frame
  <1>6. Detail(f(ans)) BY <1>1, <1>3, <1>4, <1>5 DEF Detail
  <1> HIDE DEF f
  <1> QED BY <1>1, <1>2, <1>5, <1>6, SetTopDetail

\* The statuses a handler makes of an answer.
LEMMA StatusOf ==
    ASSUME StackInv, FramesInv, At("got")
    PROVE  /\ top.ans \in Answers /\ top.ans.status \in Statuses \cup {0}
           /\ top.ans.hint \/ Status \in Statuses \cup {0}
  <1>1. stack # <<>> /\ top.pc = "got" BY DEF At
  <1>2. Detail(top) BY <1>1, TopDetail
  <1>3. top.ans.status \in Statuses \cup {0} BY <1>1, <1>2 DEF Detail
  <1>4. top.ans \in Answers BY GoodStatus
  <1> QED BY <1>3, <1>4 DEF Status, Statuses

LEMMA ForwardDirectDetail ==
    ASSUME StackInv, FramesInv, ForwardDirect
    PROVE  FramesInv'
  <1>1. At("got") /\ stack # <<>> BY DEF ForwardDirect, At
  <1>2. CASE top.ans = Refused
    BY <1>1, <1>2, RefuseDetail DEF ForwardDirect, Reply, Statuses
  <1>3. CASE top.ans # Refused
    <2> DEFINE s == top.ans.status
    <2>1. PICK ans \in {Answer(s), Cut(Answer(s))} : Return(ans)
      BY <1>3 DEF ForwardDirect, Reply
    <2>2. s \in Nat /\ s \in Statuses \cup {0} BY <1>1, StatusOf DEF Answers
    <2>3. ans \in Answers /\ ans.status = s
      BY <2>2, AnswerForms
    <2> QED BY <1>1, <2>1, <2>2, <2>3, ReturnDetail
  <1> QED BY <1>2, <1>3

LEMMA RetryDetail ==
    ASSUME StackInv, FramesInv, Retry
    PROVE  FramesInv'
  <1>1. At("got") /\ SetTop(NextAttempt) /\ ~Last BY DEF Retry
  <1>2. stack # <<>> /\ top.pc = "got" BY <1>1 DEF At
  <1>3. top \in Frame /\ Detail(top) BY <1>2, TopDetail
  <1>4. top.i \in Nat /\ top.cands \in Seq(STRING) BY <1>3 DEF Frame
  <1>5. /\ NextAttempt \in Frame /\ NextAttempt.pc = "send"
        /\ NextAttempt.i = top.i + 1 /\ NextAttempt.cands = top.cands
        /\ NextAttempt.rate = top.rate
    <2> DEFINE k == top.i + 1
    <2>1. NextAttempt = [top EXCEPT !.pc = "send", !.i = k]
      BY <1>3 DEF NextAttempt, Frame
    <2>2. k \in Nat BY <1>4
    <2> HIDE DEF k
    <2>3. NextAttempt \in Frame BY <1>3, <2>1, <2>2 DEF Frame
    <2>4. /\ NextAttempt.pc = "send" /\ NextAttempt.i = k
          /\ NextAttempt.cands = top.cands /\ NextAttempt.rate = top.rate
      BY <1>3, <2>1 DEF Frame
    <2> QED BY <2>3, <2>4 DEF k
  <1>6. top.i + 1 \in DOMAIN top.cands
    <2>1. top.i \in DOMAIN top.cands BY <1>2, <1>3 DEF Detail
    <2>2. top.i # Len(top.cands) BY <1>1 DEF Last
    <2> QED BY <1>4, <2>1, <2>2
  <1>7. Detail(NextAttempt) BY <1>2, <1>3, <1>5, <1>6 DEF Detail
  <1> QED BY <1>1, <1>2, <1>5, <1>7, SetTopDetail

LEMMA DeliverDetail ==
    ASSUME StackInv, FramesInv, Deliver
    PROVE  FramesInv'
  <1> DEFINE ans == IF top.ans.hint THEN Hinted(Answer(200)) ELSE Answer(Status)
  <1>1. At("got") /\ stack # <<>> /\ Return(ans) BY DEF Deliver, Reply, At
  <1>2. ans \in Answers BY <1>1, GoodStatus, ZenonT(30) DEF Hinted, Answer, Answers
  <1>3. ans.status \in Statuses \cup {0}
    BY <1>1, StatusOf DEF Hinted, Answer, Statuses
  <1> HIDE DEF ans
  <1> QED BY <1>1, <1>2, <1>3, ReturnDetail

LEMMA HandleDetail ==
    ASSUME StackInv, FramesInv, Handle
    PROVE  FramesInv'
  <1> USE DEF Statuses
  <1>1. CASE NoRoute BY <1>1, RefuseDetail DEF NoRoute, Refuse, Reply, At
  <1>2. ASSUME NEW p \in Policy, Resolve(p) PROVE FramesInv' BY <1>2, ResolveDetail
  <1>3. ASSUME NEW p \in Policy,
               BadHops(p) \/ LoopDetected(p) \/ Unresolved(p) \/ BodyFails(p)
        PROVE  FramesInv'
    BY <1>3, RefuseDetail
    DEF BadHops, LoopDetected, Unresolved, BodyFails, Within, Refuse, Reply, At
  <1>4. CASE BadAddress BY <1>4, RefuseDetail DEF BadAddress, Reply, At
  <1>5. CASE CallUpstream BY <1>5, CallingDetail, SetTopDetail DEF CallUpstream
  <1>6. CASE CallListener BY <1>6, CallListenerDetail
  <1>7. CASE ForwardDirect BY <1>7, ForwardDirectDetail
  <1>8. CASE Retry BY <1>8, RetryDetail
  <1>9. CASE Deliver BY <1>9, DeliverDetail
  <1>10. CASE Abort
    <2>1. Refused \in Answers /\ Refused.status = 0 BY DEF Refused, Answer, Answers
    <2> QED BY <1>10, <2>1, ReturnDetail DEF Abort, At
  <1> QED BY <1>1, <1>2, <1>3, <1>4, <1>5, <1>6, <1>7, <1>8, <1>9, <1>10 DEF Handle

LEMMA FramesStep ==
    ASSUME StackInv, FramesInv, [Next]_vars
    PROVE  FramesInv'
  <1>1. CASE UNCHANGED request BY <1>1 DEF request, FramesInv
  <1>2. ASSUME NEW n \in Node, NEW body \in Bodies, NEW hops \in ClientHops,
               Send(n, body, hops)
        PROVE  FramesInv'
    <2> DEFINE f == NewFrame(n, hops, body)
    <2>1. f.pc = "serve" /\ f.i = 1 BY DEF NewFrame
    <2>2. Detail(f) BY <2>1 DEF Detail
    <2>3. stack' = <<f>> BY <1>2 DEF Send
    <2> HIDE DEF f
    <2>4. Len(stack') = 1 /\ stack'[1] = f BY <2>3
    <2> QED BY <2>2, <2>4 DEF FramesInv
  <1>3. CASE Handle BY <1>3, HandleDetail
  <1>4. CASE UpstreamAnswers BY <1>4, UpstreamAnswersDetail
  <1>5. CASE Record \/ StatsEnds BY <1>1, <1>5 DEF Record, Sample, CountRequest, CountError, Emit, StatsEnds
  <1>6. CASE \E n \in Node : \/ StartAggregator(n) \/ Aggregate(n)
                             \/ StopAggregator(n) \/ AggregatorEnds(n) \/ Load(n)
    BY <1>1, <1>6 DEF StartAggregator, Aggregate, StopAggregator, AggregatorEnds, Load
  <1>7. CASE UNCHANGED vars BY <1>1, <1>7 DEF vars
  <1> QED BY <1>2, <1>3, <1>4, <1>5, <1>6, <1>7 DEF Next, Bodies

----------------------------------------------------------------------------
\* Handlers that record.

Rec ==
    [pc : {"sample", "request", "error", "event"}, node : Node, error : BOOLEAN, retries : Nat,
     relay : BOOLEAN, rate : Rates]

RecOK(r) == r \in Rec /\ (r.retries = 0 \/ MostAttempts(r.retries + 1))

\* A handler comes to record.
Joins ==
    /\ \E r : RecOK(r) /\ r.pc = "sample" /\ recs' = recs (+) SetToBag({r})
    /\ UNCHANGED metrics

LEMMA RatesPositive == Rates \subseteq Nat \ {0}
  BY PolicyAssumption, BoundAssumption DEF Rates, effectiveMetricsSampleRate

LEMMA ReplyJoins ==
    ASSUME StackInv, stack # <<>>, NEW ans, NEW status \in Nat, NEW attempts \in Nat,
           NEW relay \in BOOLEAN, NEW rate, Reply(ans, status, attempts, relay, rate),
           attempts <= 1 \/ MostAttempts(attempts),
           rate = 0 \/ \E p \in Policy : rate = p.rate
    PROVE  Joins
  <1> DEFINE more == IF attempts > 1 THEN attempts - 1 ELSE 0
             bad == status >= 500
             by == effectiveMetricsSampleRate(rate)
             r == [pc |-> "sample", node |-> top.node, error |-> bad, retries |-> more,
                   relay |-> relay, rate |-> by]
  <1>1. recs' = recs (+) SetToBag({r}) /\ UNCHANGED metrics BY DEF Reply
  <1>2. by \in Rates BY DEF Rates, effectiveMetricsSampleRate
  <1>3. bad \in BOOLEAN OBVIOUS
  <1>4. more \in Nat /\ (more = 0 \/ MostAttempts(more + 1)) OBVIOUS
  <1>5. top.node \in Node BY Positions DEF Frame
  <1> HIDE DEF more, bad, by
  <1>6. r \in Rec /\ r.retries = more /\ r.pc = "sample" BY <1>2, <1>3, <1>4, <1>5 DEF Rec
  <1>7. RecOK(r) BY <1>4, <1>6 DEF RecOK
  <1> HIDE DEF r
  <1> QED BY <1>1, <1>6, <1>7 DEF Joins

LEMMA RefuseJoins ==
    ASSUME StackInv, stack # <<>>, NEW status \in Nat, NEW rate, Refuse(status, rate),
           rate = 0 \/ \E p \in Policy : rate = p.rate
    PROVE  Joins
  <1>1. Reply(Answer(status), status, 0, FALSE, rate) BY DEF Refuse
  <1>2. 0 \in Nat /\ 0 <= 1 OBVIOUS
  <1>3. FALSE \in BOOLEAN OBVIOUS
  <1> QED BY <1>1, <1>2, <1>3, ReplyJoins

\* The attempt a handler is at is one of those it has.
LEMMA AttemptCounted ==
    ASSUME StackInv, FramesInv, stack # <<>>, top.pc # "serve"
    PROVE  /\ top.i \in Nat /\ MostAttempts(top.i) /\ top.relay \in BOOLEAN
           /\ \E p \in Policy : top.rate = p.rate
  <1>1. top \in Frame /\ Detail(top) BY TopDetail
  <1>2. top.i \in Nat /\ top.cands \in Seq(STRING) /\ top.relay \in BOOLEAN
    BY <1>1 DEF Frame
  <1>3. /\ top.i \in DOMAIN top.cands /\ MostAttempts(Len(top.cands))
        /\ \E p \in Policy : top.rate = p.rate
    BY <1>1 DEF Detail
  <1>4. top.i <= Len(top.cands) /\ Len(top.cands) \in Nat BY <1>2, <1>3
  <1>5. \A p \in Policy : effectiveMaxAttempts(p.attempts) \in Int
    BY PolicyAssumption DEF effectiveMaxAttempts
  <1>6. MostAttempts(top.i) BY <1>2, <1>3, <1>4, <1>5 DEF MostAttempts
  <1> QED BY <1>2, <1>3, <1>6

LEMMA HandleRecords ==
    ASSUME StackInv, FramesInv, Handle
    PROVE  Joins \/ UNCHANGED <<recs, metrics>>
  <1>1. CASE NoRoute BY <1>1, RefuseJoins DEF NoRoute, At
  <1>2. ASSUME NEW p \in Policy,
               BadHops(p) \/ LoopDetected(p) \/ Unresolved(p) \/ BodyFails(p)
        PROVE  Joins
    <2>1. /\ stack # <<>>
          /\ Refuse(400, p.rate) \/ Refuse(508, p.rate) \/ Refuse(502, p.rate)
      BY <1>2 DEF BadHops, LoopDetected, Unresolved, BodyFails, Within, At
    <2> QED BY <2>1, RefuseJoins
  <1>3. CASE BadAddress
    <2>1. RelayHit \in BOOLEAN BY DEF RelayHit
    <2> QED BY <1>3, <2>1, ReplyJoins, AttemptCounted DEF BadAddress, At
  <1>4. CASE ForwardDirect
    <2>1. stack # <<>> /\ top.pc = "got" /\ At("got") BY <1>4 DEF ForwardDirect, At
    <2>2. PICK ans \in Answers, status \in Nat : Reply(ans, status, 1, top.relay, top.rate)
      <3>1. CASE top.ans = Refused
        <4>1. Reply(Answer(502), 502, 1, top.relay, top.rate) BY <1>4, <3>1 DEF ForwardDirect
        <4> QED BY <4>1, AnswerForms
      <3>2. CASE top.ans # Refused
        <4>1. top.ans.status \in Nat BY <2>1, GoodStatus DEF Answers
        <4>2. PICK ans \in {Answer(top.ans.status), Cut(Answer(top.ans.status))} :
                  Reply(ans, IF ans.cut \/ top.ans.cut THEN 502 ELSE ans.status,
                        1, top.relay, top.rate)
          BY <1>4, <3>2 DEF ForwardDirect
        <4>3. ans \in Answers /\ ans.status \in Nat BY <4>1, AnswerForms
        <4>4. (IF ans.cut \/ top.ans.cut THEN 502 ELSE ans.status) \in Nat BY <4>3
        <4> QED BY <4>2, <4>3, <4>4
      <3> QED BY <3>1, <3>2
    <2> QED BY <2>1, <2>2, ReplyJoins, AttemptCounted
  <1>5. CASE Deliver
    <2>1. stack # <<>> /\ top.pc = "got" /\ Status \in Nat BY <1>5, GoodStatus DEF Deliver, At
    <2> QED BY <1>5, <2>1, ReplyJoins, AttemptCounted DEF Deliver
  <1>6. CASE CallUpstream \/ CallListener \/ Retry \/ Abort
             \/ \E p \in Policy : Resolve(p)
    BY <1>6 DEF CallUpstream, CallListener, Retry, Abort, Resolve
  <1> QED BY <1>1, <1>2, <1>3, <1>4, <1>5, <1>6 DEF Handle

\* What a step may do to the counters.
LEMMA MetricsSteps ==
    ASSUME StackInv, FramesInv, [Next]_vars
    PROVE  \/ UNCHANGED <<recs, metrics>>
           \/ Joins
           \/ Record
           \/ \E n \in Node : \/ StartAggregator(n) \/ Aggregate(n)
                              \/ StopAggregator(n) \/ AggregatorEnds(n) \/ Load(n)
           \/ StatsEnds
  <1>1. CASE UNCHANGED vars BY <1>1 DEF vars
  <1>2. CASE Handle BY <1>2, HandleRecords
  <1>3. ASSUME NEW n, NEW body, NEW hops, Send(n, body, hops)
        PROVE  UNCHANGED <<recs, metrics>>
    BY <1>3 DEF Send
  <1>4. CASE UpstreamAnswers BY <1>4 DEF UpstreamAnswers
  <1> QED BY <1>1, <1>2, <1>3, <1>4 DEF Next

----------------------------------------------------------------------------
\* Bags of records.

GoodBag(B) == IsABag(B) /\ IsFiniteSet(DOMAIN B) /\ \A r \in DOMAIN B : RecOK(r)

LEMMA AddOne ==
    ASSUME NEW B, GoodBag(B), NEW x, RecOK(x)
    PROVE  /\ GoodBag(B (+) SetToBag({x}))
           /\ DOMAIN (B (+) SetToBag({x})) = DOMAIN B \cup {x}
           /\ (B (+) SetToBag({x}))[x] = ValueAt(B, x) + 1
           /\ \A y \in DOMAIN B : y # x => (B (+) SetToBag({x}))[y] = B[y]
  <1> DEFINE C == B (+) SetToBag({x})
  <1>1. DOMAIN C = DOMAIN B \cup {x} BY DEF (+), SetToBag
  <1>2. /\ IsABag(C) /\ C[x] = ValueAt(B, x) + 1
        /\ \A y \in DOMAIN B : y # x => C[y] = B[y]
    BY DEF IsABag, (+), SetToBag, ValueAt, GoodBag
  <1> HIDE DEF C
  <1>3. IsFiniteSet(DOMAIN C) BY <1>1, FS_AddElement DEF GoodBag
  <1>4. GoodBag(C) BY <1>1, <1>2, <1>3 DEF GoodBag
  <1> QED BY <1>1, <1>2, <1>4 DEF C

LEMMA RemoveOne ==
    ASSUME NEW B, GoodBag(B), NEW x \in DOMAIN B
    PROVE  /\ GoodBag(B (-) SetToBag({x}))
           /\ DOMAIN (B (-) SetToBag({x})) \subseteq DOMAIN B
           /\ B[x] = ValueAt(B (-) SetToBag({x}), x) + 1
           /\ \A y \in DOMAIN B :
                 y # x => y \in DOMAIN (B (-) SetToBag({x})) /\ (B (-) SetToBag({x}))[y] = B[y]
  <1> DEFINE C == B (-) SetToBag({x})
  <1>1. DOMAIN C \subseteq DOMAIN B BY DEF (-), SetToBag
  <1>2. /\ IsABag(C) /\ B[x] = ValueAt(C, x) + 1
        /\ \A y \in DOMAIN B : y # x => y \in DOMAIN C /\ C[y] = B[y]
    BY DEF IsABag, (-), SetToBag, ValueAt, GoodBag
  <1> HIDE DEF C
  <1>3. IsFiniteSet(DOMAIN C) BY <1>1, FS_Subset DEF GoodBag
  <1>4. GoodBag(C) BY <1>1, <1>2, <1>3 DEF GoodBag
  <1> QED BY <1>1, <1>2, <1>4 DEF C

LEMMA AddNothing ==
    ASSUME NEW B, IsABag(B)
    PROVE  B (+) EmptyBag = B
  BY DEF IsABag, (+), EmptyBag, SetToBag

\* The weight that node n still has to count of records at one of pcs.
Kept(B, n, pcs) == {r \in DOMAIN B : r.node = n /\ r.pc \in pcs}
Weights(B, n, pcs) == [r \in Kept(B, n, pcs) |-> Weight(r.rate) * B[r]]
Due(B, n, pcs) == SumFunction(Weights(B, n, pcs))

\* The share of one record in it.
Share(r, n, pcs) == IF r.node = n /\ r.pc \in pcs THEN Weight(r.rate) ELSE 0

LEMMA WeightsSummable ==
    ASSUME NEW B, GoodBag(B), NEW n, NEW pcs
    PROVE  Summable(Weights(B, n, pcs))
  <1>1. DOMAIN Weights(B, n, pcs) = Kept(B, n, pcs) BY DEF Weights
  <1>2. IsFiniteSet(Kept(B, n, pcs)) BY FS_Subset DEF Kept, GoodBag
  <1>3. ASSUME NEW r \in Kept(B, n, pcs) PROVE Weight(r.rate) * B[r] \in Nat
    <2>1. r.rate \in Nat BY RatesPositive DEF Kept, GoodBag, RecOK, Rec
    <2>2. B[r] \in Nat BY DEF Kept, GoodBag, IsABag
    <2>3. \A a, b \in Nat : a * b \in Nat OBVIOUS
    <2> QED BY <2>1, <2>2, <2>3 DEF Weight
  <1>4. Weights(B, n, pcs) \in [Kept(B, n, pcs) -> Nat] BY <1>3 DEF Weights
  <1> QED BY <1>1, <1>2, <1>4 DEF Summable

LEMMA DueNat ==
    ASSUME NEW B, GoodBag(B), NEW n, NEW pcs
    PROVE  Due(B, n, pcs) \in Nat
  BY WeightsSummable, SumNat DEF Due

LEMMA DueAdd ==
    ASSUME NEW B, GoodBag(B), NEW x, RecOK(x), NEW n, NEW pcs
    PROVE  Due(B (+) SetToBag({x}), n, pcs) = Due(B, n, pcs) + Share(x, n, pcs)
  <1> DEFINE C == B (+) SetToBag({x})
             w == Weights(B, n, pcs)
             v == Weights(C, n, pcs)
             a == ValueAt(B, x)
             k == Weight(x.rate)
  <1>1. /\ GoodBag(C) /\ DOMAIN C = DOMAIN B \cup {x} /\ C[x] = a + 1
        /\ \A y \in DOMAIN B : y # x => C[y] = B[y]
    BY AddOne
  <1> HIDE DEF C
  <1>2. Summable(w) /\ Summable(v) BY <1>1, WeightsSummable
  <1>3. \A y : y # x => /\ y \in DOMAIN w <=> y \in DOMAIN v
                        /\ y \in DOMAIN w => w[y] = v[y]
    BY <1>1 DEF Weights, Kept
  <1>4. SumFunction(v) + ValueAt(w, x) = SumFunction(w) + ValueAt(v, x)
    BY <1>2, <1>3, SumChange
  <1>5. k \in Nat /\ a \in Nat
    BY RatesPositive DEF RecOK, Rec, Weight, ValueAt, GoodBag, IsABag
  <1>6. SumFunction(v) \in Nat /\ SumFunction(w) \in Nat BY <1>2, SumNat
  <1>7. CASE x.node = n /\ x.pc \in pcs
    <2>1. x \in DOMAIN v /\ ValueAt(v, x) = k * (a + 1)
      BY <1>1, <1>7 DEF Weights, Kept, ValueAt
    <2>2. ValueAt(w, x) = k * a
      <3>1. CASE x \in DOMAIN B BY <1>7, <3>1 DEF Weights, Kept, ValueAt
      <3>2. CASE x \notin DOMAIN B
        <4>1. ValueAt(w, x) = 0 /\ a = 0 BY <3>2 DEF Weights, Kept, ValueAt
        <4> QED BY <1>5, <4>1
      <3> QED BY <3>1, <3>2
    <2>3. k * (a + 1) = k * a + k /\ k * a \in Nat BY <1>5
    <2>4. SumFunction(v) = SumFunction(w) + k
      <3> HIDE DEF a, k, v, w
      <3> QED BY <1>4, <1>5, <1>6, <2>1, <2>2, <2>3
    <2> QED BY <1>7, <2>4 DEF Due, Share, C
  <1>8. CASE ~(x.node = n /\ x.pc \in pcs)
    <2>1. ValueAt(v, x) = 0 /\ ValueAt(w, x) = 0 BY <1>8 DEF Weights, Kept, ValueAt
    <2> QED BY <1>4, <1>6, <1>8, <2>1 DEF Due, Share, C
  <1> QED BY <1>7, <1>8

LEMMA DueRemove ==
    ASSUME NEW B, GoodBag(B), NEW x \in DOMAIN B, NEW n, NEW pcs
    PROVE  Due(B, n, pcs) = Due(B (-) SetToBag({x}), n, pcs) + Share(x, n, pcs)
  <1> DEFINE C == B (-) SetToBag({x})
             A == C (+) SetToBag({x})
  <1>1. RecOK(x) BY DEF GoodBag
  <1>2. /\ GoodBag(C) /\ DOMAIN C \subseteq DOMAIN B /\ B[x] = ValueAt(C, x) + 1
        /\ \A y \in DOMAIN B : y # x => y \in DOMAIN C /\ C[y] = B[y]
    BY RemoveOne
  <1> HIDE DEF C
  <1>3. /\ GoodBag(A) /\ DOMAIN A = DOMAIN C \cup {x} /\ A[x] = ValueAt(C, x) + 1
        /\ \A y \in DOMAIN C : y # x => A[y] = C[y]
    BY <1>1, <1>2, AddOne
  <1>4. Due(A, n, pcs) = Due(C, n, pcs) + Share(x, n, pcs) BY <1>1, <1>2, DueAdd
  <1> HIDE DEF A
  <1>5. DOMAIN A = DOMAIN B /\ \A y \in DOMAIN B : A[y] = B[y] BY <1>2, <1>3
  <1>6. A = B
    <2>1. A = [y \in DOMAIN A |-> A[y]] BY <1>3 DEF GoodBag, IsABag
    <2>2. B = [y \in DOMAIN B |-> B[y]] BY DEF GoodBag, IsABag
    <2> QED BY <1>5, <2>1, <2>2
  <1> QED BY <1>4, <1>6 DEF C

\* x is the record r one step further on.
Follows(r, x) ==
    \/ r.pc = "sample" /\ x.pc = "request"
    \/ r.pc = "request" /\ r.error /\ x.pc = "error"
    \/ r.pc \in {"request", "error"} /\ ~(r.pc = "request" /\ r.error) /\ x.pc = "event"

\* What is left of a record: nothing, or one record further on.
LEMMA RestOf ==
    ASSUME NEW r, RecOK(r)
    PROVE  \/ /\ Rest(r) = EmptyBag
              /\ r.pc # "sample" /\ ~(r.pc = "request" /\ r.error)
           \/ \E x : /\ Rest(r) = SetToBag({x}) /\ RecOK(x)
                     /\ x.node = r.node /\ x.rate = r.rate /\ x.retries = r.retries
                     /\ Follows(r, x)
  <1> DEFINE x(pc) == [r EXCEPT !.pc = pc]
  <1>1. \A pc \in {"request", "error", "event"} :
            /\ RecOK(x(pc)) /\ x(pc).pc = pc
            /\ x(pc).node = r.node /\ x(pc).rate = r.rate /\ x(pc).retries = r.retries
    BY DEF RecOK, Rec
  <1>2. r.pc \in {"sample", "request", "error", "event"} /\ r.error \in BOOLEAN
    BY DEF RecOK, Rec
  <1>3. CASE r.pc = "sample"
    <2>1. Rest(r) = SetToBag({x("request")}) BY <1>3 DEF Rest
    <2> HIDE DEF x
    <2> QED BY <1>1, <1>3, <2>1 DEF Follows
  <1>4. CASE r.pc = "request" /\ r.error
    <2>1. Rest(r) = SetToBag({x("error")}) BY <1>4 DEF Rest
    <2> HIDE DEF x
    <2> QED BY <1>1, <1>4, <2>1 DEF Follows
  <1>5. CASE (r.pc = "error" \/ (r.pc = "request" /\ ~r.error)) /\ Event(r)
    <2>1. Rest(r) = SetToBag({x("event")}) BY <1>5 DEF Rest
    <2> HIDE DEF x
    <2> QED BY <1>1, <1>5, <2>1 DEF Follows
  <1>6. CASE /\ r.pc # "sample" /\ ~(r.pc = "request" /\ r.error)
             /\ ~((r.pc = "error" \/ (r.pc = "request" /\ ~r.error)) /\ Event(r))
    BY <1>6 DEF Rest
  <1> QED BY <1>2, <1>3, <1>4, <1>5, <1>6

LEMMA ShareNat ==
    ASSUME NEW r, RecOK(r), NEW n, NEW pcs
    PROVE  Share(r, n, pcs) \in Nat
  BY RatesPositive DEF RecOK, Rec, Share, Weight

Late == {"error", "event"}

\* Every retry count that is left was there before.
NoNewRetries == \A x \in DOMAIN recs' : \E y \in DOMAIN recs : x.retries = y.retries

LEMMA SkipStep ==
    ASSUME GoodBag(recs), NEW r \in DOMAIN recs, Skip(r)
    PROVE  /\ GoodBag(recs') /\ NoNewRetries
           /\ \A n, pcs : Due(recs, n, pcs) = Due(recs', n, pcs) + Share(r, n, pcs)
  BY RemoveOne, DueRemove DEF Skip, NoNewRetries

LEMMA DoneStep ==
    ASSUME GoodBag(recs), NEW r \in DOMAIN recs, Done(r)
    PROVE  /\ GoodBag(recs') /\ NoNewRetries
           /\ \A n : /\ Due(recs', n, {"request"}) + Share(r, n, {"request"})
                          = Due(recs, n, {"request"}) + Share(r, n, {"sample"})
                     /\ Due(recs', n, {"error"}) + Share(r, n, {"error"})
                          = Due(recs, n, {"error"})
                            + (IF r.error THEN Share(r, n, {"request"}) ELSE 0)
                     /\ Due(recs', n, Late) + Share(r, n, Late)
                          <= Due(recs, n, Late) + Share(r, n, {"request", "error"})
  <1> DEFINE B == recs (-) SetToBag({r})
  <1>1. RecOK(r) BY DEF GoodBag
  <1>2. GoodBag(B) /\ DOMAIN B \subseteq DOMAIN recs BY RemoveOne
  <1>3. \A n, pcs : Due(recs, n, pcs) = Due(B, n, pcs) + Share(r, n, pcs) BY DueRemove
  <1>4. recs' = B (+) Rest(r) BY DEF Done
  <1>5. \A n, pcs : Due(B, n, pcs) \in Nat /\ Share(r, n, pcs) \in Nat
    BY <1>1, <1>2, DueNat, ShareNat
  \* It is enough to know what the record that follows adds.
  <1> DEFINE Adds(n, pcs, d) == d \in Nat /\ Due(recs', n, pcs) = Due(B, n, pcs) + d
  <1>6. ASSUME NEW n, NEW pcs, NEW d, Adds(n, pcs, d)
        PROVE  Due(recs', n, pcs) + Share(r, n, pcs) = Due(recs, n, pcs) + d
    <2>1. /\ Due(recs', n, pcs) = Due(B, n, pcs) + d /\ d \in Nat
          /\ Due(recs, n, pcs) = Due(B, n, pcs) + Share(r, n, pcs)
          /\ Due(B, n, pcs) \in Nat /\ Share(r, n, pcs) \in Nat
      BY <1>3, <1>5, <1>6
    <2> QED BY <2>1
  <1> DEFINE More(n) == IF r.error THEN Share(r, n, {"request"}) ELSE 0
             Both(n) == Share(r, n, {"request", "error"})
  <1>7. ASSUME \A n : /\ Adds(n, {"request"}, Share(r, n, {"sample"}))
                      /\ Adds(n, {"error"}, More(n))
                      /\ Adds(n, Late, 0) \/ Adds(n, Late, Both(n)),
               GoodBag(recs'), NoNewRetries
        PROVE  /\ GoodBag(recs') /\ NoNewRetries
               /\ \A n : /\ Due(recs', n, {"request"}) + Share(r, n, {"request"})
                              = Due(recs, n, {"request"}) + Share(r, n, {"sample"})
                         /\ Due(recs', n, {"error"}) + Share(r, n, {"error"})
                              = Due(recs, n, {"error"}) + More(n)
                         /\ Due(recs', n, Late) + Share(r, n, Late)
                              <= Due(recs, n, Late) + Both(n)
    <2> SUFFICES ASSUME NEW n
                 PROVE  /\ Due(recs', n, {"request"}) + Share(r, n, {"request"})
                             = Due(recs, n, {"request"}) + Share(r, n, {"sample"})
                        /\ Due(recs', n, {"error"}) + Share(r, n, {"error"})
                             = Due(recs, n, {"error"}) + More(n)
                        /\ Due(recs', n, Late) + Share(r, n, Late)
                             <= Due(recs, n, Late) + Both(n)
      BY <1>7
    <2> HIDE DEF Adds, More
    <2>1. Due(recs', n, {"request"}) + Share(r, n, {"request"})
            = Due(recs, n, {"request"}) + Share(r, n, {"sample"})
      BY <1>6, <1>7
    <2>2. Due(recs', n, {"error"}) + Share(r, n, {"error"}) = Due(recs, n, {"error"}) + More(n)
      BY <1>6, <1>7
    <2>3. \E d \in {0, Both(n)} :
              Due(recs', n, Late) + Share(r, n, Late) = Due(recs, n, Late) + d
      BY <1>6, <1>7
    <2>4. Due(recs, n, Late) \in Nat /\ Both(n) \in Nat BY <1>5, DueNat
    <2> HIDE DEF Both
    <2>5. Due(recs', n, Late) + Share(r, n, Late) <= Due(recs, n, Late) + Both(n)
      BY <2>3, <2>4
    <2> QED BY <2>1, <2>2, <2>5
  <1> HIDE DEF B
  <1>8. CASE Rest(r) = EmptyBag /\ r.pc # "sample" /\ ~(r.pc = "request" /\ r.error)
    <2>1. recs' = B BY <1>2, <1>4, <1>8, AddNothing DEF GoodBag
    <2>2. \A n : Share(r, n, {"sample"}) = 0 /\ More(n) = 0 BY <1>8 DEF Share
    <2>3. GoodBag(recs') /\ NoNewRetries BY <1>2, <2>1 DEF NoNewRetries
    <2>4. \A n, pcs : Adds(n, pcs, 0) BY <1>5, <2>1
    <2> HIDE DEF Adds, More, Both
    <2>5. \A n : /\ Adds(n, {"request"}, Share(r, n, {"sample"}))
                 /\ Adds(n, {"error"}, More(n)) /\ Adds(n, Late, 0)
      BY <2>2, <2>4
    <2> QED BY <1>7, <2>3, <2>5 DEF More, Both
  <1>9. ASSUME NEW x, Rest(r) = SetToBag({x}), RecOK(x),
               x.node = r.node, x.rate = r.rate, x.retries = r.retries, Follows(r, x)
        PROVE  /\ GoodBag(recs') /\ NoNewRetries
               /\ \A n : /\ Adds(n, {"request"}, Share(r, n, {"sample"}))
                         /\ Adds(n, {"error"}, More(n))
                         /\ Adds(n, Late, 0) \/ Adds(n, Late, Both(n))
    <2>1. recs' = B (+) SetToBag({x}) BY <1>4, <1>9
    <2>2. GoodBag(recs') /\ DOMAIN recs' = DOMAIN B \cup {x} BY <1>2, <1>9, <2>1, AddOne
    <2>3. NoNewRetries BY <1>2, <1>9, <2>2 DEF NoNewRetries
    <2>4. \A n, pcs : Adds(n, pcs, Share(x, n, pcs))
      BY <1>2, <1>9, <2>1, DueAdd, ShareNat
    <2>5. r.pc \in {"sample", "request", "error", "event"} /\ r.error \in BOOLEAN
      BY <1>1 DEF RecOK, Rec
    <2>6. ASSUME NEW n
          PROVE  /\ Share(x, n, {"request"}) = Share(r, n, {"sample"})
                 /\ Share(x, n, {"error"}) = More(n)
                 /\ Share(x, n, Late) = Both(n)
      BY <1>9, <2>5 DEF Share, Late, Follows
    <2> HIDE DEF Adds, More, Both
    <2> QED BY <2>2, <2>3, <2>4, <2>6
  <1>10. CASE \E x : /\ Rest(r) = SetToBag({x}) /\ RecOK(x)
                     /\ x.node = r.node /\ x.rate = r.rate /\ x.retries = r.retries
                     /\ Follows(r, x)
    <2> HIDE DEF Adds
    <2>1. /\ GoodBag(recs') /\ NoNewRetries
          /\ \A n : /\ Adds(n, {"request"}, Share(r, n, {"sample"}))
                    /\ Adds(n, {"error"}, More(n))
                    /\ Adds(n, Late, 0) \/ Adds(n, Late, Both(n))
      BY <1>9, <1>10
    <2> QED BY <1>7, <2>1
  <1> QED BY <1>1, <1>8, <1>10, RestOf

----------------------------------------------------------------------------
(***************************************************************************)
(* Events on their way to retryAttemptsTotal and relayHitTotal.  Each      *)
(* event that waits is covered by requests of its own: g[i] is how much of *)
(* requestsTotal the events applied before the i-th can account for, and   *)
(* all of them together account for no more than limit.  No event has more *)
(* than m retries.                                                         *)
(***************************************************************************)
Events == [retries : Nat, relay : BOOLEAN, rate : Nat]

Covers(g, q, hits, tries, m, limit) ==
    /\ hits <= g[1] /\ tries <= m * g[1]
    /\ \A i \in 1..Len(q) : g[i] + q[i].rate <= g[i + 1] /\ q[i].retries <= m
    /\ \A i \in 1..(Len(q) + 1) : g[i] <= limit

Covered(q, hits, tries, m, limit) ==
    \E g \in [1..(Len(q) + 1) -> Nat] : Covers(g, q, hits, tries, m, limit)

LEMMA CoveredStart ==
    ASSUME NEW m \in Nat
    PROVE  Covered(<<>>, 0, 0, m, 0)
  <1> DEFINE g == [i \in 1..1 |-> 0]
  <1>1. Len(<<>>) = 0 BY EmptySeq
  <1>2. g \in [1..(Len(<<>>) + 1) -> Nat] BY <1>1
  <1>3. Covers(g, <<>>, 0, 0, m, 0) BY <1>1 DEF Covers
  <1> QED BY <1>2, <1>3 DEF Covered

\* Products of naturals.
LEMMA Products ==
    /\ \A a, b \in Nat : a * b \in Nat
    /\ \A a, b, c \in Nat : a <= b => a * c <= b * c /\ c * a <= c * b
    /\ \A a, b, c \in Nat : a * (b + c) = a * b + a * c
  <1>1. \A a, b \in Nat : a * b \in Nat OBVIOUS
  <1>2. ASSUME NEW a \in Nat, NEW b \in Nat, NEW c \in Nat, a <= b
        PROVE  a * c <= b * c /\ c * a <= c * b
    <2>1. b - a \in Nat BY <1>2
    <2>2. (b - a) * c \in Nat BY <1>1, <2>1
    <2>3. b * c = a * c + (b - a) * c OBVIOUS
    <2>4. a * c \in Nat BY <1>1
    <2>5. a * c <= b * c BY <2>2, <2>3, <2>4
    <2>6. a * c = c * a /\ b * c = c * b OBVIOUS
    <2> QED BY <2>5, <2>6
  <1>3. \A a, b, c \in Nat : a * (b + c) = a * b + a * c OBVIOUS
  <1> QED BY <1>1, <1>2, <1>3

LEMMA CoveredMore ==
    ASSUME NEW q \in Seq(Events), NEW hits \in Nat, NEW tries \in Nat,
           NEW m \in Nat, NEW limit \in Int, Covered(q, hits, tries, m, limit),
           NEW m2 \in Nat, NEW limit2 \in Int, m <= m2, limit <= limit2
    PROVE  Covered(q, hits, tries, m2, limit2)
  <1>1. PICK g \in [1..(Len(q) + 1) -> Nat] : Covers(g, q, hits, tries, m, limit)
    BY DEF Covered
  <1>2. g[1] \in Nat /\ \A i \in 1..(Len(q) + 1) : g[i] \in Nat OBVIOUS
  <1>3. m * g[1] <= m2 * g[1] /\ m * g[1] \in Nat /\ m2 * g[1] \in Nat
    BY <1>2, Products
  <1>4. tries <= m2 * g[1] BY <1>1, <1>3 DEF Covers
  <1>5. \A i \in 1..Len(q) : q[i].retries \in Nat
    <2>1. \A i \in 1..Len(q) : q[i] \in Events BY ElementOfSeq
    <2> QED BY <2>1 DEF Events
  <1>6. \A i \in 1..Len(q) : q[i].retries <= m2 BY <1>1, <1>5 DEF Covers
  <1>7. \A i \in 1..(Len(q) + 1) : g[i] <= limit2 BY <1>1, <1>2 DEF Covers
  <1>8. Covers(g, q, hits, tries, m2, limit2) BY <1>1, <1>4, <1>6, <1>7 DEF Covers
  <1> QED BY <1>8 DEF Covered

LEMMA CoveredBound ==
    ASSUME NEW q \in Seq(Events), NEW hits \in Nat, NEW tries \in Nat,
           NEW m \in Nat, NEW limit \in Int, Covered(q, hits, tries, m, limit)
    PROVE  limit \in Nat /\ hits <= limit /\ tries <= m * limit
  <1>1. PICK g \in [1..(Len(q) + 1) -> Nat] : Covers(g, q, hits, tries, m, limit)
    BY DEF Covered
  <1>2. g[1] \in Nat /\ g[1] <= limit BY <1>1, SMTT(30) DEF Covers
  <1>3. limit \in Nat BY <1>2
  <1>4. /\ m * g[1] <= m * limit
        /\ m * g[1] \in Nat /\ m * limit \in Nat
    BY <1>2, <1>3, Products
  <1> QED BY <1>1, <1>2, <1>3, <1>4 DEF Covers

\* An event joins the queue.
LEMMA CoveredAppend ==
    ASSUME NEW q \in Seq(Events), NEW hits \in Nat, NEW tries \in Nat,
           NEW m \in Nat, NEW limit \in Int, Covered(q, hits, tries, m, limit),
           NEW e \in Events, e.retries <= m
    PROVE  Covered(Append(q, e), hits, tries, m, limit + e.rate)
  <1>1. PICK g \in [1..(Len(q) + 1) -> Nat] : Covers(g, q, hits, tries, m, limit)
    BY DEF Covered
  <1> DEFINE k == Len(q)
             q2 == Append(q, e)
             g2 == [i \in 1..(k + 2) |-> IF i <= k + 1 THEN g[i] ELSE g[k + 1] + e.rate]
  <1>2. k \in Nat /\ e.rate \in Nat BY DEF Events
  <1>3. /\ Len(q2) = k + 1 /\ q2[k + 1] = e
        /\ \A i \in 1..k : q2[i] = q[i]
    OBVIOUS
  <1>4. g2 \in [1..(Len(q2) + 1) -> Nat] BY <1>2, <1>3
  <1>5. /\ \A i \in 1..(k + 1) : g2[i] = g[i] /\ g[i] \in Nat
        /\ g2[k + 2] = g[k + 1] + e.rate
    BY <1>2
  <1> HIDE DEF k, q2, g2
  <1>6. hits <= g2[1] /\ tries <= m * g2[1] BY <1>1, <1>2, <1>5 DEF Covers
  <1>7. ASSUME NEW i \in 1..Len(q2)
        PROVE  g2[i] + q2[i].rate <= g2[i + 1] /\ q2[i].retries <= m
    <2>1. CASE i = k + 1
      <3>1. g[k + 1] \in Nat /\ g2[i] = g[k + 1] BY <1>2, <1>5, <2>1
      <3>2. i + 1 = k + 2 BY <1>2, <2>1
      <3> QED BY <1>2, <1>3, <1>5, <2>1, <3>1, <3>2
    <2>2. CASE i # k + 1
      <3>1. i \in 1..k /\ i \in 1..(k + 1) /\ i + 1 \in 1..(k + 1) BY <1>2, <1>3, <2>2
      <3> QED BY <1>1, <1>3, <1>5, <3>1 DEF Covers, k
    <2> QED BY <2>1, <2>2
  <1>8. ASSUME NEW i \in 1..(Len(q2) + 1)
        PROVE  g2[i] <= limit + e.rate
    <2>1. \A j \in 1..(k + 1) : g[j] <= limit BY <1>1 DEF Covers, k
    <2>2. CASE i = k + 2
      <3>1. g[k + 1] \in Nat /\ g[k + 1] <= limit BY <1>2, <1>5, <2>1
      <3> QED BY <1>2, <1>5, <2>2, <3>1
    <2>3. CASE i # k + 2
      <3>1. i \in 1..(k + 1) BY <1>2, <1>3, <2>3
      <3>2. g[i] \in Nat /\ g[i] <= limit /\ g2[i] = g[i] BY <1>5, <2>1, <3>1
      <3> QED BY <1>2, <3>2
    <2> QED BY <2>2, <2>3
  <1>9. Covers(g2, q2, hits, tries, m, limit + e.rate) BY <1>6, <1>7, <1>8 DEF Covers
  <1> QED BY <1>4, <1>9 DEF Covered, q2

\* What applyMetricsEvent makes of the counters.
Hits(hits, e) == hits + (IF e.relay THEN e.rate ELSE 0)
Tries(tries, e) == tries + e.retries * e.rate

\* ... is covered by a mark that is higher by the event's weight.
LEMMA Applied ==
    ASSUME NEW hits \in Nat, NEW tries \in Nat, NEW m \in Nat, NEW low \in Nat,
           hits <= low, tries <= m * low, NEW e \in Events, e.retries <= m,
           NEW high \in Nat, low + e.rate <= high
    PROVE  Hits(hits, e) <= high /\ Tries(tries, e) <= m * high
  <1>1. e.rate \in Nat /\ e.retries \in Nat /\ e.relay \in BOOLEAN BY DEF Events
  <1>2. Hits(hits, e) <= high BY <1>1 DEF Hits
  <1>3. e.retries * e.rate <= m * e.rate BY <1>1, Products
  <1>4. m * (low + e.rate) <= m * high BY <1>1, Products
  <1>5. m * (low + e.rate) = m * low + m * e.rate BY <1>1, Products
  <1>6. /\ e.retries * e.rate \in Nat /\ m * e.rate \in Nat
        /\ m * low \in Nat /\ m * high \in Nat
    BY <1>1, Products
  <1> DEFINE a == e.retries * e.rate
             b == m * e.rate
             c == m * low
             d == m * high
  <1>7. a <= b /\ c + b <= d /\ tries <= c BY <1>3, <1>4, <1>5
  <1>8. a \in Nat /\ b \in Nat /\ c \in Nat /\ d \in Nat BY <1>6
  <1> HIDE DEF a, b, c, d
  <1>9. tries + a <= d BY <1>7, <1>8
  <1> QED BY <1>2, <1>9 DEF Tries, a, d

\* The first event in the queue is applied.
LEMMA CoveredTail ==
    ASSUME NEW q \in Seq(Events), q # <<>>, NEW hits \in Nat, NEW tries \in Nat,
           NEW m \in Nat, NEW limit \in Int, Covered(q, hits, tries, m, limit)
    PROVE  Covered(Tail(q), Hits(hits, Head(q)), Tries(tries, Head(q)), m, limit)
  <1>1. PICK g \in [1..(Len(q) + 1) -> Nat] : Covers(g, q, hits, tries, m, limit)
    BY DEF Covered
  <1> DEFINE k == Len(q)
             q2 == Tail(q)
             g2 == [i \in 1..k |-> g[i + 1]]
             e == Head(q)
  <1>2. k \in Nat \ {0} /\ e = q[1] /\ e \in Events BY EmptySeq
  <1>3. /\ Len(q2) = k - 1
        /\ \A i \in 1..(k - 1) : q2[i] = q[i + 1]
    BY <1>2
  <1>4. g2 \in [1..(Len(q2) + 1) -> Nat] BY <1>2, <1>3
  <1>5. /\ \A i \in 1..k : g2[i] = g[i + 1]
        /\ \A i \in 1..(k + 1) : g[i] \in Nat /\ g[i] <= limit
    BY <1>1 DEF Covers
  <1>6. g[1] \in Nat /\ g2[1] \in Nat /\ g2[1] = g[2] BY <1>2, <1>5
  <1>7. /\ hits <= g[1] /\ tries <= m * g[1]
        /\ g[1] + e.rate <= g2[1] /\ e.retries <= m
    <2>1. 1 \in 1..Len(q) /\ 1 + 1 = 2 BY <1>2
    <2> QED BY <1>1, <1>2, <1>6, <2>1 DEF Covers
  <1> HIDE DEF e, g2, q2
  <1>8. Hits(hits, e) <= g2[1] /\ Tries(tries, e) <= m * g2[1]
    BY <1>2, <1>6, <1>7, Applied
  <1>9. ASSUME NEW i \in 1..Len(q2)
        PROVE  g2[i] + q2[i].rate <= g2[i + 1] /\ q2[i].retries <= m
    <2>1. i + 1 \in 1..k /\ i \in 1..k /\ i \in 1..(k - 1) BY <1>2, <1>3
    <2>2. /\ g[i + 1] + q[i + 1].rate <= g[(i + 1) + 1]
          /\ q[i + 1].retries <= m
      BY <1>1, <2>1 DEF Covers
    <2> QED BY <1>3, <1>5, <2>1, <2>2
  <1>10. ASSUME NEW i \in 1..(Len(q2) + 1)
         PROVE  g2[i] <= limit
    <2>1. i \in 1..k /\ i + 1 \in 1..(k + 1) BY <1>2, <1>3
    <2> QED BY <1>5, <2>1
  <1>11. Covers(g2, q2, Hits(hits, e), Tries(tries, e), m, limit)
    BY <1>8, <1>9, <1>10 DEF Covers
  <1> QED BY <1>4, <1>11 DEF Covered, q2, e

\* An event is applied past the queue.
LEMMA CoveredDirect ==
    ASSUME NEW q \in Seq(Events), NEW hits \in Nat, NEW tries \in Nat,
           NEW m \in Nat, NEW limit \in Int, Covered(q, hits, tries, m, limit),
           NEW e \in Events, e.retries <= m
    PROVE  Covered(q, Hits(hits, e), Tries(tries, e), m, limit + e.rate)
  <1>1. PICK g \in [1..(Len(q) + 1) -> Nat] : Covers(g, q, hits, tries, m, limit)
    BY DEF Covered
  <1> DEFINE k == Len(q)
             g2 == [i \in 1..(k + 1) |-> g[i] + e.rate]
  <1>2. k \in Nat /\ e.rate \in Nat BY DEF Events
  <1>3. g2 \in [1..(k + 1) -> Nat] BY <1>2
  <1>4. /\ \A i \in 1..(k + 1) : g2[i] = g[i] + e.rate
        /\ \A i \in 1..(k + 1) : g[i] \in Nat /\ g[i] <= limit
    BY <1>1 DEF Covers
  <1>5. g[1] \in Nat /\ g2[1] \in Nat /\ g[1] + e.rate <= g2[1] BY <1>2, <1>4
  <1>6. hits <= g[1] /\ tries <= m * g[1] BY <1>1 DEF Covers
  <1> HIDE DEF g2
  <1>7. Hits(hits, e) <= g2[1] /\ Tries(tries, e) <= m * g2[1] BY <1>5, <1>6, Applied
  <1>8. ASSUME NEW i \in 1..Len(q)
        PROVE  g2[i] + q[i].rate <= g2[i + 1] /\ q[i].retries <= m
    <2>1. i \in 1..(k + 1) /\ i + 1 \in 1..(k + 1) BY <1>2
    <2>2. g[i] + q[i].rate <= g[i + 1] /\ q[i].retries <= m BY <1>1 DEF Covers
    <2>3. q[i].rate \in Nat
      <3>1. q[i] \in Events BY ElementOfSeq
      <3> QED BY <3>1 DEF Events
    <2>4. g[i] \in Nat /\ g[i + 1] \in Nat BY <1>4, <2>1
    <2>5. g2[i] = g[i] + e.rate /\ g2[i + 1] = g[i + 1] + e.rate BY <1>4, <2>1
    <2> QED BY <1>2, <2>2, <2>3, <2>4, <2>5, SMTT(30)
  <1>9. \A i \in 1..(k + 1) : g2[i] <= limit + e.rate BY <1>2, <1>4
  <1>10. Covers(g2, q, Hits(hits, e), Tries(tries, e), m, limit + e.rate)
    BY <1>7, <1>8, <1>9 DEF Covers
  <1> QED BY <1>3, <1>10 DEF Covered

----------------------------------------------------------------------------
(***************************************************************************)
(* The counters.  Books: what requestsTotal has is in errorTotal, was no   *)
(* error, or is an error about to be counted.  Ledger: what the events     *)
(* have added, will add from the queue and may still send there is covered *)
(* by requestsTotal.                                                       *)
(***************************************************************************)
MetricsType ==
    /\ GoodBag(recs)
    /\ queue \in [Node -> Seq(Events)]
    /\ \A n \in Node : Len(queue[n]) <= QueueCap
    /\ seq \in [Node -> Nat] /\ requests \in [Node -> Nat] /\ errors \in [Node -> Nat]
    /\ retries \in [Node -> Nat] /\ relayHits \in [Node -> Nat]
    /\ ended \in [Node -> Nat] /\ ok \in [Node -> Nat]
    /\ stats.loads \in Seq(Nat) /\ Len(stats.loads) <= 2

Loaded ==
    Len(stats.loads) = 1 => stats.node \in Node /\ stats.loads[1] <= requests[stats.node]

Books == \A n \in Node : requests[n] = ok[n] + errors[n] + Due(recs, n, {"error"})

Limit(n) == requests[n] - Due(recs, n, Late)

Ledger ==
    \E m \in Nat :
        /\ m = 0 \/ MostAttempts(m + 1)
        /\ \A r \in DOMAIN recs : r.retries <= m
        /\ \A n \in Node : Covered(queue[n], relayHits[n], retries[n], m, Limit(n))

LEMMA CounterTypes ==
    ASSUME MetricsType, NEW n \in Node
    PROVE  /\ seq[n] \in Nat /\ requests[n] \in Nat /\ errors[n] \in Nat
           /\ retries[n] \in Nat /\ relayHits[n] \in Nat
           /\ ended[n] \in Nat /\ ok[n] \in Nat
           /\ queue[n] \in Seq(Events)
  BY DEF MetricsType

\* A counter goes up.
LEMMA Counted ==
    ASSUME NEW c \in [Node -> Nat], NEW n \in Node, NEW d \in Nat
    PROVE  /\ [c EXCEPT ![n] = c[n] + d] \in [Node -> Nat]
           /\ \A k \in Node : c[k] \in Nat /\ c[k] <= [c EXCEPT ![n] = c[n] + d][k]
  OBVIOUS

\* A handler comes to record: nothing is due of it yet.
LEMMA JoinsStep ==
    ASSUME GoodBag(recs), Joins
    PROVE  /\ GoodBag(recs') /\ UNCHANGED metrics
           /\ \A n : /\ Due(recs', n, {"request"}) = Due(recs, n, {"request"})
                     /\ Due(recs', n, {"error"}) = Due(recs, n, {"error"})
                     /\ Due(recs', n, Late) = Due(recs, n, Late)
           /\ \E r : RecOK(r) /\ DOMAIN recs' = DOMAIN recs \cup {r}
  <1>1. PICK r : RecOK(r) /\ r.pc = "sample" /\ recs' = recs (+) SetToBag({r})
    BY DEF Joins
  <1>2. GoodBag(recs') /\ DOMAIN recs' = DOMAIN recs \cup {r} BY <1>1, AddOne
  <1>3. \A n, pcs : Due(recs', n, pcs) = Due(recs, n, pcs) + Share(r, n, pcs)
    BY <1>1, DueAdd
  <1>4. \A n : /\ Share(r, n, {"request"}) = 0 /\ Share(r, n, {"error"}) = 0
               /\ Share(r, n, Late) = 0
    BY <1>1 DEF Share, Late
  <1>5. \A n, pcs : Due(recs, n, pcs) \in Nat BY DueNat
  <1>6. UNCHANGED metrics BY DEF Joins
  <1>7. ASSUME NEW n
        PROVE  /\ Due(recs', n, {"request"}) = Due(recs, n, {"request"})
               /\ Due(recs', n, {"error"}) = Due(recs, n, {"error"})
               /\ Due(recs', n, Late) = Due(recs, n, Late)
    <2>1. /\ Due(recs', n, {"request"}) = Due(recs, n, {"request"}) + 0
          /\ Due(recs', n, {"error"}) = Due(recs, n, {"error"}) + 0
          /\ Due(recs', n, Late) = Due(recs, n, Late) + 0
      BY <1>3, <1>4
    <2>2. /\ Due(recs, n, {"request"}) \in Nat
          /\ Due(recs, n, {"error"}) \in Nat /\ Due(recs, n, Late) \in Nat
      BY <1>5
    <2> QED BY <2>1, <2>2
  <1> QED BY <1>1, <1>2, <1>6, <1>7

LEMMA JoinsKeeps ==
    ASSUME MetricsType, Loaded, Books, Ledger, Joins
    PROVE  MetricsType' /\ Loaded' /\ Books' /\ Ledger'
  <1>1. /\ GoodBag(recs')
        /\ UNCHANGED <<seq, requests, errors, retries, relayHits, queue, stats, ended, ok>>
        /\ \A n : /\ Due(recs', n, {"error"}) = Due(recs, n, {"error"})
                  /\ Due(recs', n, Late) = Due(recs, n, Late)
    BY JoinsStep DEF MetricsType, metrics, counters
  <1>2. PICK r : RecOK(r) /\ DOMAIN recs' = DOMAIN recs \cup {r}
    BY JoinsStep DEF MetricsType
  <1>3. MetricsType' /\ Loaded' BY <1>1 DEF MetricsType, Loaded
  <1>4. Books' BY <1>1 DEF Books
  <1>5. Ledger'
    <2>1. PICK m \in Nat :
              /\ m = 0 \/ MostAttempts(m + 1)
              /\ \A x \in DOMAIN recs : x.retries <= m
              /\ \A n \in Node : Covered(queue[n], relayHits[n], retries[n], m, Limit(n))
      BY DEF Ledger
    <2> DEFINE m2 == IF r.retries <= m THEN m ELSE r.retries
    <2>2. r.retries \in Nat /\ \A x \in DOMAIN recs : x.retries \in Nat
      BY <1>2 DEF RecOK, Rec, MetricsType, GoodBag
    <2>3. m2 \in Nat /\ m <= m2 /\ r.retries <= m2 BY <2>2
    <2>4. m2 = 0 \/ MostAttempts(m2 + 1) BY <1>2, <2>1, <2>2 DEF RecOK
    <2> HIDE DEF m2
    <2>5. \A x \in DOMAIN recs' : x.retries <= m2 BY <1>2, <2>1, <2>2, <2>3
    <2>6. ASSUME NEW n \in Node
          PROVE  Covered(queue'[n], relayHits'[n], retries'[n], m2, Limit(n)')
      <3>1. Limit(n)' = Limit(n) /\ Limit(n) \in Int BY <1>1, DueNat DEF Limit, MetricsType
      <3>2. queue[n] \in Seq(Events) /\ relayHits[n] \in Nat /\ retries[n] \in Nat
        BY DEF MetricsType
      <3>3. Covered(queue[n], relayHits[n], retries[n], m2, Limit(n))
        BY <2>1, <2>3, <3>1, <3>2, CoveredMore
      <3> QED BY <1>1, <3>1, <3>3
    <2> QED BY <2>3, <2>4, <2>5, <2>6 DEF Ledger
  <1> QED BY <1>3, <1>4, <1>5

\* A record that is taken one step further keeps the bound of the retries, and
\* the ledger if the limit of no node goes down.
LEMMA LedgerKept ==
    ASSUME MetricsType, Ledger, NoNewRetries,
           UNCHANGED <<queue, relayHits, retries>>,
           \A n \in Node : Limit(n)' \in Int /\ Limit(n) <= Limit(n)'
    PROVE  Ledger'
  <1>1. PICK m \in Nat :
            /\ m = 0 \/ MostAttempts(m + 1)
            /\ \A x \in DOMAIN recs : x.retries <= m
            /\ \A n \in Node : Covered(queue[n], relayHits[n], retries[n], m, Limit(n))
    BY DEF Ledger
  <1>2. \A x \in DOMAIN recs' : x.retries <= m BY <1>1 DEF NoNewRetries
  <1>3. ASSUME NEW n \in Node
        PROVE  Covered(queue'[n], relayHits'[n], retries'[n], m, Limit(n)')
    <2>1. queue[n] \in Seq(Events) /\ relayHits[n] \in Nat /\ retries[n] \in Nat
      BY DEF MetricsType
    <2>2. Limit(n) \in Int BY DueNat DEF Limit, MetricsType
    <2>3. Covered(queue[n], relayHits[n], retries[n], m, Limit(n)')
      BY <1>1, <2>1, <2>2, CoveredMore
    <2> QED BY <2>3
  <1> QED BY <1>1, <1>2, <1>3 DEF Ledger

LEMMA RecordBasics ==
    ASSUME MetricsType, NEW r \in BagToSet(recs)
    PROVE  /\ r \in DOMAIN recs /\ RecOK(r) /\ r.node \in Node
           /\ Weight(r.rate) \in Nat /\ r.rate \in Nat \ {0} /\ r.retries \in Nat
           /\ r.error \in BOOLEAN /\ r.relay \in BOOLEAN
  <1>1. r \in DOMAIN recs /\ RecOK(r) BY DEF BagToSet, MetricsType, GoodBag
  <1>2. r.rate \in Nat \ {0} BY <1>1, RatesPositive DEF RecOK, Rec
  <1> QED BY <1>1, <1>2 DEF RecOK, Rec, Weight

\* What a step makes of the record it is at.
LEMMA SampleStep ==
    ASSUME GoodBag(recs), NEW r \in DOMAIN recs, r.pc = "sample",
           NEW take \in BOOLEAN, IF take THEN Done(r) ELSE Skip(r)
    PROVE  /\ GoodBag(recs') /\ NoNewRetries
           /\ \A n : /\ Due(recs', n, {"request"})
                          = Due(recs, n, {"request"})
                            + (IF take /\ n = r.node THEN Weight(r.rate) ELSE 0)
                     /\ Due(recs', n, {"error"}) = Due(recs, n, {"error"})
                     /\ Due(recs', n, Late) <= Due(recs, n, Late)
  <1>1. \A n : /\ Share(r, n, {"request"}) = 0 /\ Share(r, n, {"error"}) = 0
               /\ Share(r, n, Late) = 0 /\ Share(r, n, {"request", "error"}) = 0
               /\ Share(r, n, {"sample"}) = IF n = r.node THEN Weight(r.rate) ELSE 0
    BY DEF Share, Late
  <1>2. RecOK(r) BY DEF GoodBag
  <1>3. Weight(r.rate) \in Nat BY <1>2, RatesPositive DEF RecOK, Rec, Weight
  <1>4. \A n, pcs : Due(recs, n, pcs) \in Nat BY DueNat
  <1>5. GoodBag(recs') /\ NoNewRetries BY DoneStep, SkipStep
  <1>6. \A n, pcs : Due(recs', n, pcs) \in Nat BY <1>5, DueNat
  <1>7. ASSUME NEW n
        PROVE  /\ Due(recs', n, {"request"})
                    = Due(recs, n, {"request"})
                      + (IF take /\ n = r.node THEN Weight(r.rate) ELSE 0)
               /\ Due(recs', n, {"error"}) = Due(recs, n, {"error"})
               /\ Due(recs', n, Late) <= Due(recs, n, Late)
    <2>1. /\ Due(recs, n, {"request"}) \in Nat /\ Due(recs', n, {"request"}) \in Nat
          /\ Due(recs, n, {"error"}) \in Nat /\ Due(recs', n, {"error"}) \in Nat
          /\ Due(recs, n, Late) \in Nat /\ Due(recs', n, Late) \in Nat
      BY <1>4, <1>6
    <2>2. CASE take
      <3>1. /\ Due(recs', n, {"request"}) + 0
                 = Due(recs, n, {"request"}) + (IF n = r.node THEN Weight(r.rate) ELSE 0)
            /\ Due(recs', n, {"error"}) + 0 = Due(recs, n, {"error"}) + 0
            /\ Due(recs', n, Late) + 0 <= Due(recs, n, Late) + 0
        BY <1>1, <2>2, DoneStep
      <3> QED BY <1>3, <2>1, <2>2, <3>1
    <2>3. CASE ~take
      <3>1. /\ Due(recs, n, {"request"}) = Due(recs', n, {"request"}) + 0
            /\ Due(recs, n, {"error"}) = Due(recs', n, {"error"}) + 0
            /\ Due(recs, n, Late) = Due(recs', n, Late) + 0
        BY <1>1, <2>3, SkipStep
      <3> QED BY <2>1, <2>3, <3>1
    <2> QED BY <2>2, <2>3
  <1> QED BY <1>5, <1>7

LEMMA SampleKeeps ==
    ASSUME MetricsType, Loaded, Books, Ledger, NEW r \in BagToSet(recs), Sample(r)
    PROVE  MetricsType' /\ Loaded' /\ Books' /\ Ledger'
  <1> DEFINE k == r.node
             s == seq[k] + (IF r.rate > 1 THEN 1 ELSE 0)
             take == Sampled(s, r.rate)
  <1>1. r \in DOMAIN recs /\ k \in Node /\ r.rate \in Nat \ {0} BY RecordBasics
  <1>2. /\ r.pc = "sample"
        /\ seq' = [seq EXCEPT ![k] = s] /\ ended' = [ended EXCEPT ![k] = @ + 1]
        /\ IF take THEN Done(r) ELSE Skip(r)
        /\ UNCHANGED <<requests, errors, retries, relayHits, queue, stats, ok>>
    BY DEF Sample, Recording
  <1>3. s \in Nat BY <1>1 DEF MetricsType
  <1>4. seq' \in [Node -> Nat] /\ ended' \in [Node -> Nat]
    <2>1. seq \in [Node -> Nat] /\ ended \in [Node -> Nat] BY DEF MetricsType
    <2>2. ended' = [ended EXCEPT ![k] = ended[k] + 1] BY <1>1, <1>2, <2>1
    <2> HIDE DEF s, k
    <2>3. seq' \in [Node -> Nat] BY <1>1, <1>2, <1>3, <2>1
    <2>4. ended' \in [Node -> Nat] BY <1>1, <2>1, <2>2, Counted
    <2> QED BY <2>3, <2>4
  <1>5. GoodBag(recs) /\ take \in BOOLEAN BY DEF MetricsType, Sampled
  <1> HIDE DEF take
  <1>6. /\ GoodBag(recs') /\ NoNewRetries
        /\ \A n : /\ Due(recs', n, {"error"}) = Due(recs, n, {"error"})
                  /\ Due(recs', n, Late) <= Due(recs, n, Late)
    BY <1>1, <1>2, <1>5, SampleStep
  <1>7. MetricsType' /\ Loaded' BY <1>2, <1>4, <1>6 DEF MetricsType, Loaded
  <1>8. Books' BY <1>2, <1>6 DEF Books
  <1>9. ASSUME NEW n \in Node PROVE Limit(n)' \in Int /\ Limit(n) <= Limit(n)'
    <2>1. /\ requests[n] \in Nat /\ Due(recs, n, Late) \in Nat
          /\ Due(recs', n, Late) \in Nat /\ Due(recs', n, Late) <= Due(recs, n, Late)
      BY <1>5, <1>6, CounterTypes, DueNat
    <2>2. Limit(n) = requests[n] - Due(recs, n, Late) BY DEF Limit
    <2>3. Limit(n)' = requests[n] - Due(recs', n, Late) BY <1>2 DEF Limit
    <2> QED BY <2>1, <2>2, <2>3
  <1>10. Ledger' BY <1>2, <1>6, <1>9, LedgerKept
  <1> QED BY <1>7, <1>8, <1>10

LEMMA CountRequestKeeps ==
    ASSUME MetricsType, Loaded, Books, Ledger, NEW r \in BagToSet(recs), CountRequest(r)
    PROVE  MetricsType' /\ Loaded' /\ Books' /\ Ledger'
  <1> DEFINE k == r.node
             w == Weight(r.rate)
             well == IF r.error THEN 0 ELSE w
  <1>1. /\ r \in DOMAIN recs /\ RecOK(r) /\ k \in Node /\ w \in Nat /\ r.rate \in Nat \ {0}
        /\ r.error \in BOOLEAN
    BY RecordBasics
  <1>2. /\ r.pc = "request"
        /\ UNCHANGED <<seq, ended, errors, retries, relayHits, queue, stats>>
    BY DEF CountRequest, Recording
  <1>3. GoodBag(recs) BY DEF MetricsType
  <1>4. \A n, pcs : Due(recs, n, pcs) \in Nat /\ Share(r, n, pcs) \in Nat
    BY <1>1, <1>3, DueNat, ShareNat
  <1>5. \A n : Share(r, n, {"error"}) = 0 /\ Share(r, n, Late) = 0
    BY <1>2 DEF Share, Late
  <1>6. /\ requests' = [requests EXCEPT ![k] = requests[k] + w]
        /\ ok' = [ok EXCEPT ![k] = ok[k] + well]
        /\ Done(r)
    BY DEF CountRequest
  <1>7. well \in Nat BY <1>1
  <1>8. requests' \in [Node -> Nat] /\ ok' \in [Node -> Nat]
    <2>1. requests \in [Node -> Nat] /\ ok \in [Node -> Nat] BY DEF MetricsType
    <2> HIDE DEF k, w, well
    <2> QED BY <1>1, <1>6, <1>7, <2>1, Counted
  <1>9. GoodBag(recs') /\ NoNewRetries BY <1>1, <1>3, <1>6, DoneStep
  <1>10. MetricsType' BY <1>2, <1>8, <1>9 DEF MetricsType
  <1>11. \A n \in Node : requests[n] \in Nat /\ requests'[n] \in Nat /\ requests[n] <= requests'[n]
    <2>1. requests \in [Node -> Nat] BY DEF MetricsType
    <2> HIDE DEF k, w
    <2> QED BY <1>1, <1>6, <1>8, <2>1, Counted
  <1>12. Loaded'
    <2> SUFFICES ASSUME Len(stats.loads) = 1
                 PROVE  stats.node \in Node /\ stats.loads[1] <= requests'[stats.node]
      BY <1>2 DEF Loaded
    <2>1. stats.node \in Node /\ stats.loads[1] <= requests[stats.node] BY DEF Loaded
    <2>2. stats.loads[1] \in Nat BY DEF MetricsType
    <2> QED BY <1>11, <2>1, <2>2
  <1>13. ASSUME NEW n \in Node
        PROVE  /\ requests'[n] = ok'[n] + errors'[n] + Due(recs', n, {"error"})
               /\ Limit(n)' \in Int /\ Limit(n) <= Limit(n)'
    <2> DEFINE d == Due(recs, n, {"error"})
               d2 == Due(recs', n, {"error"})
               l == Due(recs, n, Late)
               l2 == Due(recs', n, Late)
    <2>1. /\ d2 + Share(r, n, {"error"}) = d + (IF r.error THEN Share(r, n, {"request"}) ELSE 0)
          /\ l2 + Share(r, n, Late) <= l + Share(r, n, {"request", "error"})
      BY <1>1, <1>3, <1>6, DoneStep
    <2>2. d \in Nat /\ d2 \in Nat /\ l \in Nat /\ l2 \in Nat BY <1>4, <1>9, DueNat
    <2>3. requests[n] \in Nat /\ ok[n] \in Nat /\ errors[n] \in Nat BY DEF MetricsType
    <2>4. requests[n] = ok[n] + errors[n] + d BY DEF Books
    <2>5. Limit(n) = requests[n] - l /\ Limit(n)' = requests'[n] - l2 BY DEF Limit
    <2>6. errors'[n] = errors[n] BY <1>2
    <2> HIDE DEF d, d2, l, l2, well, w
    <2>7. CASE n = k
      <3>1. Share(r, n, {"request"}) = w /\ Share(r, n, {"request", "error"}) = w
        BY <1>2, <2>7 DEF Share, w
      <3>2. requests'[n] = requests[n] + w /\ ok'[n] = ok[n] + well
        BY <1>1, <1>6, <2>7 DEF MetricsType
      <3>3. d2 = d + (IF r.error THEN w ELSE 0) /\ l2 <= l + w
        BY <1>5, <1>1, <2>1, <2>2, <3>1
      <3>4. well + (IF r.error THEN w ELSE 0) = w BY <1>1 DEF well
      <3>5. requests'[n] = ok'[n] + errors'[n] + d2
        BY <1>1, <1>7, <2>2, <2>3, <2>4, <2>6, <3>2, <3>3, <3>4
      <3>6. Limit(n)' \in Int /\ Limit(n) <= Limit(n)'
        BY <1>1, <2>2, <2>3, <2>5, <3>2, <3>3
      <3> QED BY <3>5, <3>6 DEF d2
    <2>8. CASE n # k
      <3>1. Share(r, n, {"request"}) = 0 /\ Share(r, n, {"request", "error"}) = 0
        BY <2>8 DEF Share
      <3>2. requests'[n] = requests[n] /\ ok'[n] = ok[n]
        BY <1>6, <2>8 DEF MetricsType
      <3>3. d2 = d /\ l2 <= l BY <1>5, <2>1, <2>2, <3>1
      <3>4. requests'[n] = ok'[n] + errors'[n] + d2 BY <2>4, <2>6, <3>2, <3>3
      <3>5. Limit(n)' \in Int /\ Limit(n) <= Limit(n)' BY <2>2, <2>3, <2>5, <3>2, <3>3
      <3> QED BY <3>4, <3>5 DEF d2
    <2> QED BY <2>7, <2>8
  <1>14. Books' BY <1>13 DEF Books
  <1>15. Ledger' BY <1>2, <1>9, <1>13, LedgerKept
  <1> QED BY <1>10, <1>12, <1>14, <1>15

LEMMA CountErrorKeeps ==
    ASSUME MetricsType, Loaded, Books, Ledger, NEW r \in BagToSet(recs), CountError(r)
    PROVE  MetricsType' /\ Loaded' /\ Books' /\ Ledger'
  <1> DEFINE k == r.node
             w == Weight(r.rate)
  <1>1. r \in DOMAIN recs /\ RecOK(r) /\ k \in Node /\ w \in Nat BY RecordBasics
  <1>2. errors \in [Node -> Nat] /\ GoodBag(recs) BY DEF MetricsType
  <1>3. /\ r.pc = "error" /\ Done(r)
        /\ errors' = [errors EXCEPT ![k] = errors[k] + w]
        /\ UNCHANGED <<seq, requests, retries, relayHits, queue, stats, ended, ok>>
    BY <1>1, <1>2 DEF CountError, Recording
  <1>4. GoodBag(recs') /\ NoNewRetries BY <1>1, <1>2, <1>3, DoneStep
  <1>5. errors' \in [Node -> Nat]
    <2> HIDE DEF k, w
    <2> QED BY <1>1, <1>2, <1>3, Counted
  <1>6. MetricsType' /\ Loaded' BY <1>3, <1>4, <1>5 DEF MetricsType, Loaded
  <1>7. ASSUME NEW n \in Node
        PROVE  /\ requests'[n] = ok'[n] + errors'[n] + Due(recs', n, {"error"})
               /\ Limit(n)' \in Int /\ Limit(n) <= Limit(n)'
    <2> DEFINE d == Due(recs, n, {"error"})
               d2 == Due(recs', n, {"error"})
               l == Due(recs, n, Late)
               l2 == Due(recs', n, Late)
               sh == Share(r, n, {"error"})
    <2>1. /\ Share(r, n, Late) = sh /\ Share(r, n, {"request", "error"}) = sh
          /\ Share(r, n, {"request"}) = 0
          /\ sh = IF n = k THEN w ELSE 0
      BY <1>3 DEF Share, Late
    <2>2. /\ d2 + Share(r, n, {"error"}) = d + (IF r.error THEN Share(r, n, {"request"}) ELSE 0)
          /\ l2 + Share(r, n, Late) <= l + Share(r, n, {"request", "error"})
      BY <1>1, <1>2, <1>3, DoneStep
    <2>3. d \in Nat /\ d2 \in Nat /\ l \in Nat /\ l2 \in Nat BY <1>2, <1>4, DueNat
    <2>4. requests[n] \in Nat /\ ok[n] \in Nat /\ errors[n] \in Nat BY CounterTypes
    <2>5. requests[n] = ok[n] + errors[n] + d BY DEF Books
    <2>6. Limit(n) = requests[n] - l /\ Limit(n)' = requests[n] - l2 BY <1>3 DEF Limit
    <2>7. errors'[n] = errors[n] + sh BY <1>2, <1>3, <2>1, <2>4
    <2>8. sh \in Nat BY <1>1, <2>1
    <2> HIDE DEF d, d2, l, l2, sh
    <2>9. d2 + sh = d /\ l2 <= l BY <2>1, <2>2, <2>3, <2>8 DEF sh
    <2>10. requests[n] = ok[n] + errors'[n] + d2 BY <2>3, <2>4, <2>5, <2>7, <2>8, <2>9
    <2>11. Limit(n)' \in Int /\ Limit(n) <= Limit(n)' BY <2>3, <2>4, <2>6, <2>9
    <2> QED BY <1>3, <2>10, <2>11 DEF d2
  <1>8. Books' BY <1>7 DEF Books
  <1>9. Ledger' BY <1>3, <1>4, <1>7, LedgerKept
  <1> QED BY <1>6, <1>8, <1>9

\* The event goes to the queue, or past it if no aggregator runs, or is lost.
LEMMA EmitKeeps ==
    ASSUME MetricsType, Loaded, Books, Ledger, NEW r \in BagToSet(recs), Emit(r)
    PROVE  MetricsType' /\ Loaded' /\ Books' /\ Ledger'
  <1> DEFINE k == r.node
             e == [retries |-> r.retries, relay |-> r.relay, rate |-> r.rate]
  <1>1. /\ r \in DOMAIN recs /\ RecOK(r) /\ k \in Node
        /\ r.rate \in Nat \ {0} /\ r.retries \in Nat /\ r.relay \in BOOLEAN
    BY RecordBasics
  <1>2. GoodBag(recs) BY DEF MetricsType
  <1>3. /\ r.pc = "event" /\ Done(r)
        /\ UNCHANGED <<seq, requests, errors, stats, ended, ok>>
    BY DEF Emit, Recording
  <1>4. GoodBag(recs') /\ NoNewRetries BY <1>1, <1>2, <1>3, DoneStep
  <1>5. e \in Events /\ e.rate = r.rate /\ e.retries = r.retries BY <1>1 DEF Events
  <1>6. ASSUME NEW n \in Node
        PROVE  /\ Due(recs', n, {"error"}) = Due(recs, n, {"error"})
               /\ Limit(n) \in Int /\ Limit(n)' \in Int
               /\ Limit(n) + (IF n = k THEN e.rate ELSE 0) <= Limit(n)'
    <2> DEFINE d == Due(recs, n, {"error"})
               d2 == Due(recs', n, {"error"})
               l == Due(recs, n, Late)
               l2 == Due(recs', n, Late)
    <2>1. /\ Share(r, n, {"error"}) = 0 /\ Share(r, n, {"request"}) = 0
          /\ Share(r, n, {"request", "error"}) = 0
          /\ Share(r, n, Late) = IF n = k THEN e.rate ELSE 0
      BY <1>3, <1>5 DEF Share, Late, Weight
    <2>2. /\ d2 + Share(r, n, {"error"}) = d + (IF r.error THEN Share(r, n, {"request"}) ELSE 0)
          /\ l2 + Share(r, n, Late) <= l + Share(r, n, {"request", "error"})
      BY <1>1, <1>2, <1>3, DoneStep
    <2>3. d \in Nat /\ d2 \in Nat /\ l \in Nat /\ l2 \in Nat BY <1>2, <1>4, DueNat
    <2>4. Limit(n) = requests[n] - l /\ Limit(n)' = requests[n] - l2 BY <1>3 DEF Limit
    <2>5. requests[n] \in Nat BY CounterTypes
    <2> HIDE DEF d, d2, l, l2, e
    <2>6. d2 = d BY <2>1, <2>2, <2>3
    <2>7. l2 + (IF n = k THEN e.rate ELSE 0) <= l BY <1>1, <1>5, <2>1, <2>2, <2>3
    <2>8. /\ Limit(n) \in Int /\ Limit(n)' \in Int
          /\ Limit(n) + (IF n = k THEN e.rate ELSE 0) <= Limit(n)'
      BY <1>1, <1>5, <2>3, <2>4, <2>5, <2>7
    <2> QED BY <2>6, <2>8 DEF d, d2
  <1>7. Books' BY <1>3, <1>6 DEF Books
  <1>8. PICK m \in Nat :
            /\ m = 0 \/ MostAttempts(m + 1)
            /\ \A x \in DOMAIN recs : x.retries <= m
            /\ \A n \in Node : Covered(queue[n], relayHits[n], retries[n], m, Limit(n))
    BY DEF Ledger
  <1>9. \A x \in DOMAIN recs' : x.retries <= m BY <1>4, <1>8 DEF NoNewRetries
  <1>10. e.retries <= m BY <1>1, <1>5, <1>8
  <1> HIDE DEF e
  \* The ledger of a node whose queue and counters stay.
  <1>11. ASSUME NEW n \in Node
         PROVE  Covered(queue[n], relayHits[n], retries[n], m, Limit(n)')
    <2>1. queue[n] \in Seq(Events) /\ relayHits[n] \in Nat /\ retries[n] \in Nat
      BY CounterTypes
    <2>2. Limit(n) <= Limit(n)' BY <1>1, <1>5, <1>6
    <2> QED BY <1>6, <1>8, <2>1, <2>2, CoveredMore
  <1>12. queue[k] \in Seq(Events) /\ relayHits[k] \in Nat /\ retries[k] \in Nat
    BY <1>1, CounterTypes
  <1>13. Limit(k) \in Int /\ Limit(k)' \in Int /\ Limit(k) + e.rate <= Limit(k)' /\ e.rate \in Nat
    BY <1>1, <1>5, <1>6
  <1>14. CASE aggregator[k] = "running"
    <2>1. UNCHANGED <<retries, relayHits>> BY <1>14 DEF Emit
    <2>2. queue' = [queue EXCEPT ![k] =
                       IF Len(queue[k]) < QueueCap THEN Append(queue[k], e) ELSE queue[k]]
      BY <1>1, <1>14 DEF Emit, e, MetricsType
    <2>3. CASE Len(queue[k]) < QueueCap
      <3>1. queue' = [queue EXCEPT ![k] = Append(queue[k], e)] BY <2>2, <2>3
      <3>2. Append(queue[k], e) \in Seq(Events) /\ Len(Append(queue[k], e)) = Len(queue[k]) + 1
        BY <1>5, <1>12
      <3>3. Len(queue[k]) + 1 <= QueueCap BY <1>12, <2>3, BoundAssumption
      <3>4. queue' \in [Node -> Seq(Events)] BY <3>1, <3>2 DEF MetricsType
      <3>5. \A n \in Node : Len(queue'[n]) <= QueueCap
        BY <3>1, <3>2, <3>3 DEF MetricsType
      <3>6. MetricsType' /\ Loaded' BY <1>3, <1>4, <2>1, <3>4, <3>5 DEF MetricsType, Loaded
      <3>7. Covered(Append(queue[k], e), relayHits[k], retries[k], m, Limit(k) + e.rate)
        BY <1>1, <1>5, <1>8, <1>10, <1>12, <1>13, CoveredAppend
      <3>8. Covered(Append(queue[k], e), relayHits[k], retries[k], m, Limit(k)')
        <4> DEFINE q2 == Append(queue[k], e)
                   limit == Limit(k) + e.rate
        <4>1. /\ q2 \in Seq(Events) /\ limit \in Int /\ limit <= Limit(k)' /\ m <= m
              /\ Covered(q2, relayHits[k], retries[k], m, limit)
          BY <1>13, <3>2, <3>7
        <4> HIDE DEF q2, limit
        <4>2. Covered(q2, relayHits[k], retries[k], m, Limit(k)')
          BY <1>12, <1>13, <4>1, CoveredMore
        <4> QED BY <4>2 DEF q2
      <3>9. ASSUME NEW n \in Node
            PROVE  Covered(queue'[n], relayHits'[n], retries'[n], m, Limit(n)')
        <4>1. CASE n = k
          <5>1. queue'[n] = Append(queue[k], e) BY <1>1, <3>1, <4>1 DEF MetricsType
          <5> QED BY <2>1, <3>8, <4>1, <5>1
        <4>2. CASE n # k
          <5>1. queue'[n] = queue[n] BY <3>1, <4>2 DEF MetricsType
          <5> QED BY <1>11, <2>1, <5>1
        <4> QED BY <4>1, <4>2
      <3>10. Ledger' BY <1>8, <1>9, <3>9 DEF Ledger
      <3> QED BY <1>7, <3>6, <3>10
    <2>4. CASE ~(Len(queue[k]) < QueueCap)
      <3>1. queue' = queue BY <2>2, <2>4 DEF MetricsType
      <3>2. MetricsType' /\ Loaded' BY <1>3, <1>4, <2>1, <3>1 DEF MetricsType, Loaded
      <3>3. Ledger' BY <1>8, <1>9, <1>11, <2>1, <3>1 DEF Ledger
      <3> QED BY <1>7, <3>2, <3>3
    <2> QED BY <2>3, <2>4
  <1>15. CASE aggregator[k] # "running"
    <2>1. queue' = queue /\ applyMetricsEvent(k, e) BY <1>15 DEF Emit, e
    <2>2. /\ retries' = [retries EXCEPT ![k] = Tries(retries[k], e)]
          /\ relayHits' = [relayHits EXCEPT ![k] = Hits(relayHits[k], e)]
      BY <1>1, <2>1 DEF applyMetricsEvent, Tries, Hits, MetricsType
    <2>3. Tries(retries[k], e) \in Nat /\ Hits(relayHits[k], e) \in Nat
      <3>1. e.retries * e.rate \in Nat BY <1>5, <1>13, Products DEF Events
      <3> QED BY <1>12, <1>13, <3>1 DEF Tries, Hits
    <2>4. retries' \in [Node -> Nat] /\ relayHits' \in [Node -> Nat]
      BY <2>2, <2>3 DEF MetricsType
    <2>5. MetricsType' /\ Loaded' BY <1>3, <1>4, <2>1, <2>4 DEF MetricsType, Loaded
    <2>6. Covered(queue[k], Hits(relayHits[k], e), Tries(retries[k], e), m, Limit(k) + e.rate)
      BY <1>1, <1>5, <1>8, <1>10, <1>12, <1>13, CoveredDirect
    <2>7. Covered(queue[k], Hits(relayHits[k], e), Tries(retries[k], e), m, Limit(k)')
      BY <1>12, <1>13, <2>3, <2>6, CoveredMore, SMTT(30)
    <2>8. ASSUME NEW n \in Node
          PROVE  Covered(queue'[n], relayHits'[n], retries'[n], m, Limit(n)')
      <3>1. CASE n = k
        <4>1. relayHits'[n] = Hits(relayHits[k], e) /\ retries'[n] = Tries(retries[k], e)
          BY <1>1, <2>2, <3>1 DEF MetricsType
        <4> QED BY <2>1, <2>7, <3>1, <4>1
      <3>2. CASE n # k
        <4>1. relayHits'[n] = relayHits[n] /\ retries'[n] = retries[n]
          BY <2>2, <3>2 DEF MetricsType
        <4> QED BY <1>11, <2>1, <4>1
      <3> QED BY <3>1, <3>2
    <2>9. Ledger' BY <1>8, <1>9, <2>8 DEF Ledger
    <2> QED BY <1>7, <2>5, <2>9
  <1> QED BY <1>14, <1>15

\* The aggregator takes the first event from the queue.
LEMMA AggregateKeeps ==
    ASSUME MetricsType, Loaded, Books, Ledger, NEW k \in Node, Aggregate(k)
    PROVE  MetricsType' /\ Loaded' /\ Books' /\ Ledger'
  <1> DEFINE q == queue[k]
             e == Head(q)
  <1>1. /\ q # <<>> /\ q \in Seq(Events)
        /\ relayHits[k] \in Nat /\ retries[k] \in Nat
    BY CounterTypes DEF Aggregate
  <1>2. e \in Events /\ Tail(q) \in Seq(Events) /\ Len(Tail(q)) = Len(q) - 1 /\ Len(q) \in Nat
    BY <1>1, EmptySeq
  <1>3. /\ queue' = [queue EXCEPT ![k] = Tail(q)]
        /\ retries' = [retries EXCEPT ![k] = Tries(retries[k], e)]
        /\ relayHits' = [relayHits EXCEPT ![k] = Hits(relayHits[k], e)]
        /\ UNCHANGED <<recs, seq, requests, errors, stats, ended, ok>>
    BY DEF Aggregate, applyMetricsEvent, Tries, Hits, MetricsType
  <1>4. Tries(retries[k], e) \in Nat /\ Hits(relayHits[k], e) \in Nat
    <2>1. e.rate \in Nat /\ e.retries \in Nat BY <1>2 DEF Events
    <2>2. e.retries * e.rate \in Nat BY <2>1, Products
    <2> HIDE DEF e
    <2> QED BY <1>1, <2>1, <2>2 DEF Tries, Hits
  <1>5. PICK m \in Nat :
            /\ m = 0 \/ MostAttempts(m + 1)
            /\ \A x \in DOMAIN recs : x.retries <= m
            /\ \A n \in Node : Covered(queue[n], relayHits[n], retries[n], m, Limit(n))
    BY DEF Ledger
  <1>6. Limit(k) \in Int BY CounterTypes, DueNat DEF Limit, MetricsType
  <1>7. Covered(Tail(q), Hits(relayHits[k], e), Tries(retries[k], e), m, Limit(k))
    BY <1>1, <1>5, <1>6, CoveredTail
  <1> HIDE DEF e
  <1>8. retries' \in [Node -> Nat] /\ relayHits' \in [Node -> Nat]
    BY <1>3, <1>4 DEF MetricsType
  <1>9. queue' \in [Node -> Seq(Events)] BY <1>2, <1>3 DEF MetricsType
  <1>10. \A n \in Node : Len(queue'[n]) <= QueueCap
    <2>1. Len(q) <= QueueCap BY DEF MetricsType
    <2>2. Len(Tail(q)) <= QueueCap BY <1>2, <2>1, BoundAssumption
    <2> QED BY <1>3, <2>2 DEF MetricsType
  <1>11. MetricsType' /\ Loaded' BY <1>3, <1>8, <1>9, <1>10 DEF MetricsType, Loaded
  <1>12. Books' BY <1>3 DEF Books
  <1>13. \A n \in Node : Limit(n)' = Limit(n) BY <1>3 DEF Limit
  <1>14. ASSUME NEW n \in Node
         PROVE  Covered(queue'[n], relayHits'[n], retries'[n], m, Limit(n)')
    <2>1. CASE n = k
      <3>1. /\ queue'[n] = Tail(q) /\ relayHits'[n] = Hits(relayHits[k], e)
            /\ retries'[n] = Tries(retries[k], e)
        BY <1>3, <2>1 DEF MetricsType
      <3> QED BY <1>7, <1>13, <2>1, <3>1
    <2>2. CASE n # k
      <3>1. queue'[n] = queue[n] /\ relayHits'[n] = relayHits[n] /\ retries'[n] = retries[n]
        BY <1>3, <2>2 DEF MetricsType
      <3> QED BY <1>5, <1>13, <3>1
    <2> QED BY <2>1, <2>2
  <1>15. Ledger' BY <1>3, <1>5, <1>14 DEF Ledger
  <1> QED BY <1>11, <1>12, <1>15

\* Steps that leave the counters and the events alone.
LEMMA BooksKept ==
    ASSUME Books, Ledger, UNCHANGED <<recs, counters, queue, ended, ok>>
    PROVE  Books' /\ Ledger'
  BY DEF Books, Ledger, Limit, counters

LEMMA StatsKeeps ==
    ASSUME MetricsType, Loaded, StatsEnds \/ \E n \in Node : Load(n)
    PROVE  MetricsType' /\ Loaded'
  <1>1. UNCHANGED <<recs, seq, requests, errors, retries, relayHits, queue, ended, ok>>
    BY DEF StatsEnds, Load, counters
  <1>2. ASSUME stats'.loads \in Seq(Nat), Len(stats'.loads) <= 2 PROVE MetricsType'
    BY <1>1, <1>2 DEF MetricsType
  <1>3. CASE StatsEnds
    <2>1. stats'.loads = <<>> BY <1>3 DEF StatsEnds
    <2>2. stats'.loads \in Seq(Nat) /\ Len(stats'.loads) = 0 BY <2>1, EmptySeq
    <2> QED BY <1>2, <2>2 DEF Loaded
  <1>4. ASSUME NEW n \in Node, Load(n) PROVE MetricsType' /\ Loaded'
    <2> DEFINE v == IF LoadOrder[Len(stats.loads) + 1] = "requests"
                    THEN requests[n] ELSE errors[n]
    <2>1. stats'.loads = Append(stats.loads, v) /\ stats'.node = n BY <1>4 DEF Load
    <2>2. stats.loads \in Seq(Nat) BY DEF MetricsType
    <2>3. v \in Nat BY CounterTypes
    <2>4. Len(stats.loads) \in Nat /\ Len(stats.loads) < 2 BY <1>4, <2>2, EmptySeq DEF Load
    <2>5. Len(stats.loads) = 0 => v = requests[n] BY DEF LoadOrder
    <2> HIDE DEF v
    <2>6. /\ stats'.loads \in Seq(Nat) /\ Len(stats'.loads) = Len(stats.loads) + 1
          /\ stats'.loads[Len(stats.loads) + 1] = v
      BY <2>1, <2>2, <2>3
    <2>7. MetricsType' BY <1>2, <2>4, <2>6
    <2>8. Loaded'
      <3> SUFFICES ASSUME Len(stats'.loads) = 1
                   PROVE  stats'.node \in Node /\ stats'.loads[1] <= requests'[stats'.node]
        BY DEF Loaded
      <3>1. Len(stats.loads) = 0 BY <2>4, <2>6
      <3>2. stats'.loads[1] = requests[n] BY <2>5, <2>6, <3>1
      <3> QED BY <1>1, <2>1, <3>2, CounterTypes
    <2> QED BY <2>7, <2>8
  <1> QED BY <1>3, <1>4

CountersInv == StackInv /\ FramesInv /\ MetricsType /\ Loaded /\ Books /\ Ledger

LEMMA CountersStep ==
    ASSUME CountersInv, [Next]_vars
    PROVE  MetricsType' /\ Loaded' /\ Books' /\ Ledger'
  <1> USE DEF CountersInv
  <1>1. CASE UNCHANGED <<recs, metrics>>
    <2>1. MetricsType' /\ Loaded'
      BY <1>1 DEF MetricsType, Loaded, metrics, counters
    <2>2. Books' /\ Ledger' BY <1>1, BooksKept DEF metrics
    <2> QED BY <2>1, <2>2
  <1>2. CASE Joins BY <1>2, JoinsKeeps
  <1>3. CASE Record BY <1>3, SampleKeeps, CountRequestKeeps, CountErrorKeeps, EmitKeeps DEF Record
  <1>4. ASSUME NEW n \in Node, StartAggregator(n) \/ StopAggregator(n) \/ AggregatorEnds(n)
        PROVE  MetricsType' /\ Loaded' /\ Books' /\ Ledger'
    <2>1. UNCHANGED <<recs, counters, queue, stats, ended, ok>>
      BY <1>4 DEF StartAggregator, StopAggregator, AggregatorEnds
    <2>2. MetricsType' /\ Loaded' BY <2>1 DEF MetricsType, Loaded, counters
    <2> QED BY <2>1, <2>2, BooksKept
  <1>5. ASSUME NEW n \in Node, Aggregate(n)
        PROVE  MetricsType' /\ Loaded' /\ Books' /\ Ledger'
    BY <1>5, AggregateKeeps
  <1>6. CASE StatsEnds \/ \E n \in Node : Load(n)
    <2>1. MetricsType' /\ Loaded' BY <1>6, StatsKeeps
    <2>2. Books' /\ Ledger' BY <1>6, BooksKept DEF StatsEnds, Load
    <2> QED BY <2>1, <2>2
  <1> QED BY <1>1, <1>2, <1>3, <1>4, <1>5, <1>6, MetricsSteps

LEMMA CountersInvariant == Spec => []CountersInv
  <1>1. Init => CountersInv
    <2> SUFFICES ASSUME Init PROVE FramesInv /\ MetricsType /\ Loaded /\ Books /\ Ledger
      BY InitStack DEF CountersInv
    <2> USE DEF Init
    <2>1. FramesInv
      <3>1. Len(stack) = 0 BY EmptySeq
      <3> QED BY <3>1 DEF FramesInv
    <2>2. DOMAIN recs = {} /\ recs = [e \in {} |-> 1] BY DEF EmptyBag, SetToBag
    <2>3. GoodBag(recs) BY <2>2, FS_EmptySet DEF GoodBag, IsABag
    <2>4. \A n \in Node : queue[n] = <<>> /\ Len(queue[n]) = 0 BY EmptySeq
    <2>5. queue \in [Node -> Seq(Events)] BY EmptySeq
    <2>6. stats.loads \in Seq(Nat) /\ Len(stats.loads) = 0 BY EmptySeq
    <2>7. MetricsType BY <2>3, <2>4, <2>5, <2>6, BoundAssumption DEF MetricsType
    <2>8. Loaded BY <2>6 DEF Loaded
    <2>9. ASSUME NEW n, NEW pcs PROVE Due(recs, n, pcs) = 0
      <3>1. DOMAIN Weights(recs, n, pcs) = {} BY <2>2 DEF Weights, Kept
      <3> QED BY <3>1, SumEmpty DEF Due
    <2>10. Books BY <2>9 DEF Books
    <2>11. ASSUME NEW n \in Node
           PROVE  Covered(queue[n], relayHits[n], retries[n], 0, Limit(n))
      <3>1. Limit(n) = 0 BY <2>9 DEF Limit
      <3> QED BY <2>4, <3>1, CoveredStart
    <2>12. Ledger BY <2>2, <2>11 DEF Ledger
    <2> QED BY <2>1, <2>7, <2>8, <2>10, <2>12
  <1>2. CountersInv /\ [Next]_vars => CountersInv'
    BY StackStep, FramesStep, CountersStep DEF CountersInv
  <1> QED BY <1>1, <1>2, PTL DEF Spec

----------------------------------------------------------------------------
SendsOK == sends \in 0..MaxSends

LEMMA SendsBounded == Spec => []SendsOK
  <1>1. Init => SendsOK BY BoundAssumption DEF Init, SendsOK
  <1>2. SendsOK /\ [Next]_vars => SendsOK'
    <2> SUFFICES ASSUME sends \in 0..MaxSends, [Next]_vars PROVE sends' \in 0..MaxSends
      BY DEF SendsOK
    <2>1. ASSUME NEW n, NEW body, NEW hops, Send(n, body, hops)
          PROVE  sends' \in 0..MaxSends
      BY <2>1, BoundAssumption DEF Send
    <2>2. CASE Handle
      <3>1. ASSUME NEW p \in Policy,
                   \/ BadHops(p) \/ LoopDetected(p) \/ Unresolved(p)
                   \/ Resolve(p) \/ BodyFails(p)
            PROVE  UNCHANGED sends
        <4>1. CASE BadHops(p) BY <4>1 DEF BadHops, Refuse, Reply
        <4>2. CASE LoopDetected(p) BY <4>2 DEF LoopDetected, Refuse, Reply
        <4>3. CASE Unresolved(p) BY <4>3 DEF Unresolved, Refuse, Reply
        <4>4. CASE Resolve(p) BY <4>4 DEF Resolve
        <4>5. CASE BodyFails(p) BY <4>5 DEF BodyFails, Refuse, Reply
        <4> QED BY <3>1, <4>1, <4>2, <4>3, <4>4, <4>5
      <3>2. CASE NoRoute \/ BadAddress \/ CallUpstream \/ CallListener
        BY <3>2 DEF NoRoute, BadAddress, CallUpstream, CallListener, Refuse, Reply
      <3>3. CASE ForwardDirect \/ Retry
        BY <3>3 DEF ForwardDirect, Retry, Refuse, Reply
      <3>4. CASE Deliver \/ Abort BY <3>4 DEF Deliver, Abort, Refuse, Reply
      <3> QED BY <2>2, <3>1, <3>2, <3>3, <3>4 DEF Handle
    <2>3. CASE UpstreamAnswers \/ Record \/ StatsEnds
      BY <2>3 DEF UpstreamAnswers, Record, Sample, CountRequest, CountError, Emit, StatsEnds, request
    <2>4. CASE \E n \in Node : \/ StartAggregator(n) \/ Aggregate(n)
                               \/ StopAggregator(n) \/ AggregatorEnds(n) \/ Load(n)
      BY <2>4 DEF StartAggregator, Aggregate, StopAggregator, AggregatorEnds, Load, request
    <2>5. CASE UNCHANGED vars BY <2>5 DEF vars, request
    <2> QED BY <2>1, <2>2, <2>3, <2>4, <2>5 DEF Next
  <1> QED BY <1>1, <1>2, PTL DEF Spec

(***************************************************************************)
(* The types.  In particular, for any retry budget, no handler is given    *)
(* more candidates than its service has attempts (server.go:1135), none    *)
(* goes past the last of them, and the queue of events never grows past    *)
(* its capacity (server.go:1037).                                          *)
(***************************************************************************)
THEOREM TypeCorrect == Spec => []TypeOK
  <1>1. CountersInv /\ SendsOK => TypeOK
    <2> SUFFICES ASSUME CountersInv, SendsOK PROVE TypeOK OBVIOUS
    <2>1. stack \in Seq(Frame) /\ good \in BOOLEAN BY DEF CountersInv, StackInv
    <2>2. ASSUME NEW j \in DOMAIN stack
          PROVE  /\ stack[j].pc \in {"serve", "send", "wait", "got"}
                 /\ stack[j].node \in Node /\ stack[j].hops \in Int
                 /\ stack[j].body \in {"none", "length", "chunked"}
                 /\ stack[j].pc # "serve" =>
                       stack[j].i \in DOMAIN stack[j].cands /\ MostAttempts(Len(stack[j].cands))
                 /\ stack[j].pc = "got" => stack[j].ans.status \in Statuses \cup {0}
      <3>1. j \in 1..Len(stack) BY <2>1
      <3>2. stack[j] \in Frame BY <2>1, <3>1, ElementOfSeq
      <3>3. Detail(stack[j]) BY <3>1 DEF CountersInv, FramesInv
      <3> QED BY <3>2, <3>3 DEF Frame, Detail, Bodies
    <2>3. /\ IsABag(recs) /\ \A n \in Node : Len(queue[n]) <= QueueCap
          /\ Len(stats.loads) <= 2
      BY DEF CountersInv, MetricsType, GoodBag
    <2> QED BY <2>1, <2>2, <2>3 DEF TypeOK, SendsOK
  <1> QED BY <1>1, CountersInvariant, SendsBounded, PTL

(***************************************************************************)
(* Whatever is dropped, late or left in the queue when the aggregator      *)
(* ends, relay hits and retries are never more than the requests allow,    *)
(* nor errors more than requests (server.go:1006, 1073).                   *)
(***************************************************************************)
THEOREM CountersAgreeTheorem == Spec => []CountersAgree
  <1>1. CountersInv => CountersAgree
    <2> SUFFICES ASSUME CountersInv, NEW n \in Node
                 PROVE  /\ relayHits[n] <= requests[n]
                        /\ errors[n] <= requests[n]
                        /\ retries[n] = 0 \/ \E p \in Policy :
                              retries[n] <= (effectiveMaxAttempts(p.attempts) - 1) * requests[n]
      BY DEF CountersAgree
    <2> USE DEF CountersInv
    <2>1. /\ requests[n] \in Nat /\ errors[n] \in Nat /\ retries[n] \in Nat
          /\ relayHits[n] \in Nat /\ ok[n] \in Nat /\ queue[n] \in Seq(Events)
      BY CounterTypes
    <2>2. \A pcs : Due(recs, n, pcs) \in Nat BY DueNat DEF MetricsType
    <2>3. errors[n] <= requests[n]
      <3>1. requests[n] = ok[n] + errors[n] + Due(recs, n, {"error"}) BY DEF Books
      <3>2. Due(recs, n, {"error"}) \in Nat BY <2>2
      <3> QED BY <2>1, <3>1, <3>2
    <2>4. PICK m \in Nat :
              /\ m = 0 \/ MostAttempts(m + 1)
              /\ Covered(queue[n], relayHits[n], retries[n], m, Limit(n))
      BY DEF Ledger
    <2>5. Limit(n) \in Int /\ Limit(n) <= requests[n]
      <3>1. Due(recs, n, Late) \in Nat BY <2>2
      <3> QED BY <2>1, <3>1 DEF Limit
    <2>6. Covered(queue[n], relayHits[n], retries[n], m, requests[n])
      BY <2>1, <2>4, <2>5, CoveredMore
    <2>7. relayHits[n] <= requests[n] /\ retries[n] <= m * requests[n]
      BY <2>1, <2>6, CoveredBound
    <2>8. CASE m = 0
      <3>1. m * requests[n] = 0 BY <2>1, <2>8
      <3>2. retries[n] = 0 BY <2>1, <2>7, <3>1
      <3> QED BY <2>3, <2>7, <3>2
    <2>9. CASE MostAttempts(m + 1)
      <3>1. PICK p \in Policy : m + 1 <= effectiveMaxAttempts(p.attempts)
        BY <2>9 DEF MostAttempts
      <3> DEFINE more == effectiveMaxAttempts(p.attempts) - 1
      <3>2. more \in Nat /\ m <= more BY <3>1, PolicyAssumption DEF effectiveMaxAttempts
      <3> HIDE DEF more
      <3>3. /\ m * requests[n] <= more * requests[n]
            /\ m * requests[n] \in Nat /\ more * requests[n] \in Nat
        BY <2>1, <3>2, Products
      <3>4. retries[n] <= more * requests[n] BY <2>1, <2>7, <3>3
      <3> QED BY <2>3, <2>7, <3>4 DEF more
    <2> QED BY <2>3, <2>4, <2>7, <2>8, <2>9
  <1> QED BY <1>1, CountersInvariant, PTL

----------------------------------------------------------------------------
LEMMA UncountedIsDue ==
    ASSUME NEW n, NEW pc
    PROVE  Uncounted(n, pc) = Due(recs, n, {pc})
  <1>1. Kept(recs, n, {pc}) = {r \in BagToSet(recs) : r.node = n /\ r.pc = pc}
    BY DEF Kept, BagToSet
  <1> QED BY <1>1 DEF Uncounted, Due, Weights

\* A call of Stats that loads its second counter.
LEMMA SecondLoad ==
    ASSUME CountersInv, [Next]_vars, Len(stats.loads) = 1, Len(stats'.loads) = 2
    PROVE  \E n \in Node : Load(n)
  <1>1. CASE UNCHANGED <<recs, metrics>> BY <1>1 DEF metrics
  <1>2. CASE Joins BY <1>2 DEF Joins, metrics
  <1>3. CASE Record
    <2>1. PICK r \in BagToSet(recs) : Sample(r) \/ CountRequest(r) \/ CountError(r) \/ Emit(r)
      BY <1>3 DEF Record
    <2>2. UNCHANGED stats BY <2>1 DEF Sample, CountRequest, CountError, Emit
    <2> QED BY <2>2
  <1>4. ASSUME NEW n \in Node, \/ StartAggregator(n) \/ Aggregate(n)
                               \/ StopAggregator(n) \/ AggregatorEnds(n)
        PROVE  FALSE
    <2>1. CASE StartAggregator(n) BY <2>1 DEF StartAggregator
    <2>2. CASE Aggregate(n)
      <3>1. UNCHANGED stats BY <2>2 DEF Aggregate
      <3> QED BY <3>1
    <2>3. CASE StopAggregator(n) BY <2>3 DEF StopAggregator
    <2>4. CASE AggregatorEnds(n) BY <2>4 DEF AggregatorEnds
    <2> QED BY <1>4, <2>1, <2>2, <2>3, <2>4
  <1>5. CASE StatsEnds BY <1>5 DEF StatsEnds
  <1> QED BY <1>1, <1>2, <1>3, <1>4, <1>5, MetricsSteps DEF CountersInv

(***************************************************************************)
(* However many requests are recorded between the two loads of Stats, the  *)
(* success_total it works out is no more than the requests that ended well *)
(* and the errors that are being counted (server.go:1094): errorTotal is   *)
(* loaded last, and requestsTotal never goes down.                         *)
(***************************************************************************)
THEOREM StatsHonestTheorem == Spec => StatsHonest
  <1> DEFINE Honest ==
        Len(stats.loads) = 1 /\ Len(stats'.loads) = 2 =>
           LET at(name) == stats'.loads[CHOOSE i \in 1..2 : LoadOrder[i] = name]
               success == IF at("requests") >= at("errors")
                          THEN at("requests") - at("errors") ELSE 0
           IN  success <= ok[stats.node] + Uncounted(stats.node, "error")
  <1>1. CountersInv /\ [Next]_vars => Honest
    <2> SUFFICES ASSUME CountersInv, [Next]_vars,
                        Len(stats.loads) = 1, Len(stats'.loads) = 2
                 PROVE  Honest
      OBVIOUS
    <2> USE DEF CountersInv
    <2>1. PICK n \in Node : Load(n) BY SecondLoad
    <2> DEFINE a == stats.loads[1]
               b == errors[n]
               u == Uncounted(n, "error")
    <2>2. stats.loads \in Seq(Nat) /\ Len(stats.loads) = 1 BY DEF MetricsType
    <2>3. stats.loads # <<>> BY <2>2, EmptySeq
    <2>4. stats.node = n BY <2>1, <2>3 DEF Load
    <2>5. stats'.loads = Append(stats.loads, b) BY <2>1, <2>2 DEF Load, LoadOrder
    <2>6. stats'.loads[1] = a /\ stats'.loads[2] = b BY <2>2, <2>5, CounterTypes
    <2>7. (CHOOSE i \in 1..2 : LoadOrder[i] = "requests") = 1 BY DEF LoadOrder
    <2>8. (CHOOSE i \in 1..2 : LoadOrder[i] = "errors") = 2 BY DEF LoadOrder
    <2>9. a \in Nat /\ b \in Nat /\ ok[n] \in Nat /\ requests[n] \in Nat
      BY <2>2, CounterTypes
    <2>10. u \in Nat /\ requests[n] = ok[n] + b + u
      BY UncountedIsDue, DueNat DEF Books, MetricsType
    <2>11. a <= requests[n] BY <2>2, <2>4 DEF Loaded
    <2> HIDE DEF a, b, u
    <2>12. (IF a >= b THEN a - b ELSE 0) <= ok[n] + u BY <2>9, <2>10, <2>11
    <2> QED BY <2>4, <2>6, <2>7, <2>8, <2>12 DEF u
  <1>2. CountersInv /\ [Next]_vars => [Honest]_vars BY <1>1
  <1>3. [][Honest]_vars => StatsHonest BY DEF StatsHonest
  <1> HIDE DEF Honest
  <1> QED BY <1>2, <1>3, CountersInvariant, PTL DEF Spec

----------------------------------------------------------------------------
(***************************************************************************)
(* The estimate.  InHand is what requestsTotal has and what is sampled for *)
(* it.  Each rate k alone would have counted k times the multiples of k    *)
(* that the sequence has passed: together they are the most that can have  *)
(* been counted.  At every common multiple of the rates the request is     *)
(* counted whatever its rate, with the least rate or more.                 *)
(***************************************************************************)
Shared == Rates \ {1}

Turns(s) == [k \in Shared |-> k * (s \div k)]
Most(s) == SumFunction(Turns(s))

Multiple(m) == \A k \in Shared : m % k = 0
Least(k) == k \in Shared /\ \A j \in Shared : k <= j

InHand(n) == requests[n] + Due(recs, n, {"request"})

Lower(whole, s, hand) ==
    \A m \in Nat \ {0}, k \in Shared :
        Multiple(m) /\ Least(k) => whole + k * (s \div m) <= hand

Estimates(whole, s, hand) ==
    /\ whole \in Nat
    /\ whole <= hand /\ hand <= whole + Most(s)
    /\ Lower(whole, s, hand)
    /\ Shared = {} => s = 0

Estimate == \A n \in Node : Estimates(ended[n] - seq[n], seq[n], InHand(n))

LEMMA RatesFinite == IsFiniteSet(Rates)
  <1>1. Rates = {effectiveMetricsSampleRate(p.rate) : p \in Policy} \cup {FallbackRate}
    BY DEF Rates
  <1>2. IsFiniteSet({effectiveMetricsSampleRate(p.rate) : p \in Policy})
    <2> DEFINE f == [p \in Policy |-> effectiveMetricsSampleRate(p.rate)]
               S == {effectiveMetricsSampleRate(p.rate) : p \in Policy}
    <2>1. f \in Surjection(Policy, S) BY DEF Surjection
    <2> QED BY <2>1, PolicyAssumption, FS_Surjection
  <1> QED BY <1>1, <1>2, FS_AddElement

LEMMA SharedRates == IsFiniteSet(Shared) /\ \A k \in Shared : k \in Nat \ {0} /\ k >= 2
  BY RatesFinite, RatesPositive, FS_Subset DEF Shared

LEMMA TurnsSummable ==
    ASSUME NEW s \in Nat
    PROVE  /\ Summable(Turns(s)) /\ DOMAIN Turns(s) = Shared
           /\ \A k \in Shared : Turns(s)[k] \in Nat /\ Turns(s)[k] <= s
           /\ Most(s) \in Nat
  <1>1. DOMAIN Turns(s) = Shared /\ \A k \in Shared : Turns(s)[k] = k * (s \div k)
    BY DEF Turns
  <1>2. \A k \in Shared : k * (s \div k) \in Nat /\ k * (s \div k) <= s
    BY SharedRates, DivNat
  <1>3. Turns(s) \in [Shared -> Nat] BY <1>2 DEF Turns
  <1>4. Summable(Turns(s)) BY <1>1, <1>3, SharedRates DEF Summable
  <1> QED BY <1>1, <1>2, <1>4, SumNat DEF Most

\* What k has counted grows by k at the multiples of k.
LEMMA TurnsNext ==
    ASSUME NEW s \in Nat, NEW k \in Shared
    PROVE  Turns(s + 1)[k] = Turns(s)[k] + (IF (s + 1) % k = 0 THEN k ELSE 0)
  <1> DEFINE q == s \div k
             one == IF (s + 1) % k = 0 THEN 1 ELSE 0
  <1>1. k \in Nat \ {0} BY SharedRates
  <1>2. (s + 1) \div k = q + one BY <1>1, NextQuotient
  <1>3. Turns(s + 1)[k] = k * ((s + 1) \div k) /\ Turns(s)[k] = k * q BY DEF Turns
  <1>4. q \in Nat /\ one \in {0, 1} BY <1>1, DivNat
  <1>5. k * one = IF (s + 1) % k = 0 THEN k ELSE 0 BY <1>1
  <1> HIDE DEF q, one
  <1>6. k * (q + one) = k * q + k * one BY <1>1, <1>4
  <1> QED BY <1>2, <1>3, <1>5, <1>6

LEMMA MostGrows ==
    ASSUME NEW s \in Nat
    PROVE  Most(s) <= Most(s + 1)
  <1> DEFINE w == Turns(s)
             v == Turns(s + 1)
  <1>1. s + 1 \in Nat OBVIOUS
  <1>2. /\ Summable(w) /\ DOMAIN w = Shared /\ \A k \in Shared : w[k] \in Nat
        /\ Summable(v) /\ DOMAIN v = Shared
    BY <1>1, TurnsSummable
  <1>3. \A k \in Shared : v[k] = w[k] + (IF (s + 1) % k = 0 THEN k ELSE 0) BY TurnsNext
  <1> HIDE DEF w, v
  <1>4. \A k \in Shared : w[k] <= v[k] BY <1>2, <1>3, SharedRates
  <1>5. SumFunction(w) <= SumFunction(v) BY <1>2, <1>4, SumLess
  <1> QED BY <1>5 DEF Most, w, v

LEMMA MostGrowsBy ==
    ASSUME NEW s \in Nat, NEW rate \in Shared, (s + 1) % rate = 0
    PROVE  Most(s) + rate <= Most(s + 1)
  <1> DEFINE w == Turns(s)
             v == Turns(s + 1)
             u == [w EXCEPT ![rate] = w[rate] + rate]
  <1>1. s + 1 \in Nat OBVIOUS
  <1>2. /\ Summable(w) /\ DOMAIN w = Shared /\ \A k \in Shared : w[k] \in Nat
        /\ Summable(v) /\ DOMAIN v = Shared
    BY <1>1, TurnsSummable
  <1>3. \A k \in Shared : v[k] = w[k] + (IF (s + 1) % k = 0 THEN k ELSE 0) BY TurnsNext
  <1>4. rate \in Nat BY SharedRates
  <1> HIDE DEF w, v
  <1>5. /\ DOMAIN u = Shared /\ u[rate] = w[rate] + rate
        /\ \A k \in Shared : k # rate => u[k] = w[k]
    BY <1>2
  <1>6. Summable(u) BY <1>2, <1>4, SharedRates DEF Summable
  <1> HIDE DEF u
  <1>7. SumFunction(u) + ValueAt(w, rate) = SumFunction(w) + ValueAt(u, rate)
    BY <1>2, <1>5, <1>6, SumChange
  <1>8. ValueAt(w, rate) = w[rate] /\ ValueAt(u, rate) = w[rate] + rate
    BY <1>2, <1>5 DEF ValueAt
  <1>9. SumFunction(u) \in Nat /\ SumFunction(w) \in Nat /\ SumFunction(v) \in Nat
    BY <1>2, <1>6, SumNat
  <1>10. SumFunction(u) = SumFunction(w) + rate BY <1>2, <1>4, <1>7, <1>8, <1>9
  <1>11. \A k \in Shared : u[k] <= v[k]
    <2> TAKE k \in Shared
    <2>1. CASE k = rate
      <3>1. v[k] = w[rate] + rate BY <1>3, <2>1
      <3> QED BY <1>2, <1>4, <1>5, <2>1, <3>1
    <2>2. CASE k # rate BY <1>2, <1>3, <1>5, <2>2, SharedRates
    <2> QED BY <2>1, <2>2
  <1>12. SumFunction(u) <= SumFunction(v) BY <1>2, <1>5, <1>6, <1>11, SumLess
  <1> QED BY <1>10, <1>12 DEF Most, w, v

\* A request of a service that is not sampled.
LEMMA CountsWhole ==
    ASSUME NEW whole \in Nat, NEW s \in Nat, NEW hand \in Nat, Estimates(whole, s, hand)
    PROVE  Estimates(whole + 1, s, hand + 1)
  <1>1. Most(s) \in Nat BY TurnsSummable
  <1>2. whole + 1 <= hand + 1 /\ hand + 1 <= whole + 1 + Most(s)
    BY <1>1 DEF Estimates
  <1>3. ASSUME NEW m \in Nat \ {0}, NEW k \in Shared, Multiple(m), Least(k)
        PROVE  whole + 1 + k * (s \div m) <= hand + 1
    <2> DEFINE d == k * (s \div m)
    <2>1. whole + d <= hand BY <1>3 DEF Estimates, Lower
    <2>2. d \in Nat
      <3>1. k \in Nat /\ s \div m \in Nat BY SharedRates, DivNat
      <3> QED BY <3>1, Products
    <2> HIDE DEF d
    <2>3. whole + 1 + d <= hand + 1 BY <2>1, <2>2
    <2> QED BY <2>3 DEF d
  <1> QED BY <1>2, <1>3 DEF Estimates, Lower

\* A request that is counted for those of its rate.
LEMMA CountsSampled ==
    ASSUME NEW whole \in Nat, NEW s \in Nat, NEW hand \in Nat, Estimates(whole, s, hand),
           NEW rate \in Shared, (s + 1) % rate = 0
    PROVE  Estimates(whole, s + 1, hand + rate)
  <1>1. Most(s) \in Nat /\ Most(s + 1) \in Nat BY TurnsSummable
  <1>2. rate \in Nat BY SharedRates
  <1>3. Most(s) + rate <= Most(s + 1) BY MostGrowsBy
  <1>4. whole <= hand + rate /\ hand + rate <= whole + Most(s + 1)
    BY <1>1, <1>2, <1>3 DEF Estimates
  <1>5. ASSUME NEW m \in Nat \ {0}, NEW k \in Shared, Multiple(m), Least(k)
        PROVE  whole + k * ((s + 1) \div m) <= hand + rate
    <2> DEFINE q == s \div m
               one == IF (s + 1) % m = 0 THEN 1 ELSE 0
               d == k * q
               e == k * one
    <2>1. whole + d <= hand BY <1>5 DEF Estimates, Lower
    <2>2. k \in Nat /\ q \in Nat /\ one \in {0, 1} BY SharedRates, DivNat
    <2>3. (s + 1) \div m = q + one BY NextQuotient
    <2>4. k <= rate BY <1>5 DEF Least
    <2>5. d \in Nat /\ e \in Nat /\ e <= rate
      <3> HIDE DEF q, one
      <3>1. CASE one = 0 BY <1>2, <2>2, <3>1
      <3>2. CASE one = 1 BY <1>2, <2>2, <2>4, <3>2
      <3> QED BY <2>2, <3>1, <3>2
    <2>6. k * (q + one) = d + e
      <3> HIDE DEF q, one
      <3> QED BY <2>2
    <2> HIDE DEF d, e
    <2>7. whole + (d + e) <= hand + rate BY <1>2, <2>1, <2>5
    <2> QED BY <2>3, <2>6, <2>7
  <1> QED BY <1>4, <1>5 DEF Estimates, Lower

\* A request that is left to others of its rate: not all rates divide its number.
LEMMA CountsSkipped ==
    ASSUME NEW whole \in Nat, NEW s \in Nat, NEW hand \in Nat, Estimates(whole, s, hand),
           NEW rate \in Shared, (s + 1) % rate # 0
    PROVE  Estimates(whole, s + 1, hand)
  <1>1. Most(s) \in Nat /\ Most(s + 1) \in Nat BY TurnsSummable
  <1>2. Most(s) <= Most(s + 1) BY MostGrows
  <1>3. whole <= hand /\ hand <= whole + Most(s + 1) BY <1>1, <1>2 DEF Estimates
  <1>4. ASSUME NEW m \in Nat \ {0}, NEW k \in Shared, Multiple(m), Least(k)
        PROVE  whole + k * ((s + 1) \div m) <= hand
    <2>1. rate \in Nat \ {0} /\ m % rate = 0 BY <1>4, SharedRates DEF Multiple
    <2>2. s + 1 \in Nat OBVIOUS
    <2>3. (s + 1) % m # 0 BY <2>1, <2>2, MultipleOfMultiple
    <2>4. (s + 1) \div m = (s \div m) + 0 /\ s \div m \in Nat
      BY <2>3, NextQuotient, DivNat
    <2>5. (s + 1) \div m = s \div m
      <3> DEFINE q == s \div m
      <3> HIDE DEF q
      <3>1. q + 0 = q BY <2>4 DEF q
      <3> QED BY <2>4, <3>1 DEF q
    <2>6. whole + k * (s \div m) <= hand BY <1>4 DEF Estimates, Lower
    <2> QED BY <2>5, <2>6
  <1> QED BY <1>3, <1>4 DEF Estimates, Lower

LEMMA SampleEstimate ==
    ASSUME CountersInv, Estimate, NEW r \in BagToSet(recs), Sample(r)
    PROVE  Estimate'
  <1> USE DEF CountersInv
  <1> DEFINE j == r.node
             s == seq[j]
             one == IF r.rate > 1 THEN 1 ELSE 0
             take == Sampled(s + one, r.rate)
             whole == ended[j] - seq[j]
             hand == InHand(j)
  <1>1. r \in DOMAIN recs /\ j \in Node /\ r.rate \in Nat \ {0} /\ RecOK(r) BY RecordBasics
  <1>2. s \in Nat /\ ended[j] \in Nat /\ requests[j] \in Nat BY <1>1, CounterTypes
  <1>3. GoodBag(recs) /\ seq \in [Node -> Nat] /\ ended \in [Node -> Nat] BY DEF MetricsType
  <1>4. /\ r.pc = "sample" /\ UNCHANGED requests
        /\ seq' = [seq EXCEPT ![j] = s + one] /\ ended' = [ended EXCEPT ![j] = ended[j] + 1]
        /\ IF take THEN Done(r) ELSE Skip(r)
    BY <1>1, <1>3 DEF Sample, Recording
  <1>5. take \in BOOLEAN BY DEF Sampled
  <1>6. Estimates(whole, s, hand) /\ whole \in Nat BY <1>1 DEF Estimate, Estimates
  <1>7. Due(recs, j, {"request"}) \in Nat BY <1>3, DueNat
  <1>8. hand \in Nat BY <1>2, <1>7 DEF InHand
  <1>9. \A n : Due(recs', n, {"request"})
                  = Due(recs, n, {"request"}) + (IF take /\ n = j THEN r.rate ELSE 0)
    <2> HIDE DEF take
    <2> QED BY <1>1, <1>3, <1>4, <1>5, SampleStep DEF Weight
  <1>10. r.rate \in Rates BY <1>1 DEF RecOK, Rec
  <1>11. one \in {0, 1} OBVIOUS
  <1>12. /\ seq'[j] = s + one /\ ended'[j] = ended[j] + 1
         /\ \A n \in Node : n # j => seq'[n] = seq[n] /\ ended'[n] = ended[n]
    <2> HIDE DEF s, one, j
    <2> QED BY <1>1, <1>3, <1>4
  <1>13. InHand(j)' = hand + (IF take THEN r.rate ELSE 0)
    <2> DEFINE d == Due(recs, j, {"request"})
               d2 == Due(recs', j, {"request"})
               more == IF take THEN r.rate ELSE 0
    <2>1. d2 = d + more BY <1>9
    <2>2. InHand(j)' = requests[j] + d2 /\ hand = requests[j] + d BY <1>4 DEF InHand
    <2>3. d \in Nat /\ more \in Nat BY <1>1, <1>7
    <2> HIDE DEF d, d2, more, hand
    <2>4. requests[j] + (d + more) = requests[j] + d + more BY <1>2, <2>3
    <2> QED BY <2>1, <2>2, <2>4 DEF more
  <1>14. Estimates(ended'[j] - seq'[j], seq'[j], InHand(j)')
    <2>1. CASE r.rate = 1
      <3>1. one = 0 /\ take BY <2>1 DEF Sampled
      <3>2. seq'[j] = s /\ InHand(j)' = hand + 1 BY <1>2, <1>12, <1>13, <2>1, <3>1
      <3>3. ended'[j] - seq'[j] = whole + 1 BY <1>2, <1>12, <3>2
      <3> HIDE DEF s, one, take, whole, hand
      <3> QED BY <1>2, <1>6, <1>8, <3>2, <3>3, CountsWhole
    <2>2. CASE r.rate # 1
      <3>1. r.rate \in Shared /\ one = 1 BY <1>1, <1>10, <2>2 DEF Shared
      <3>2. take <=> (s + 1) % r.rate = 0 BY <1>1, <2>2, <3>1 DEF Sampled
      <3>3. seq'[j] = s + 1 BY <1>12, <3>1
      <3>4. ended'[j] - seq'[j] = whole BY <1>2, <1>12, <3>3
      <3>5. CASE take
        <4>1. InHand(j)' = hand + r.rate /\ (s + 1) % r.rate = 0 BY <1>13, <3>2, <3>5
        <4> HIDE DEF s, one, take, whole, hand
        <4> QED BY <1>2, <1>6, <1>8, <3>1, <3>3, <3>4, <4>1, CountsSampled
      <3>6. CASE ~take
        <4>1. InHand(j)' = hand /\ (s + 1) % r.rate # 0
          <5> HIDE DEF s, hand
          <5> QED BY <1>8, <1>13, <3>2, <3>6
        <4> HIDE DEF s, one, take, whole, hand
        <4> QED BY <1>2, <1>6, <1>8, <3>1, <3>3, <3>4, <4>1, CountsSkipped
      <3> QED BY <3>5, <3>6
    <2> QED BY <2>1, <2>2
  <1>15. ASSUME NEW n \in Node, n # j
         PROVE  Estimates(ended'[n] - seq'[n], seq'[n], InHand(n)')
    <2> DEFINE d == Due(recs, n, {"request"})
    <2>1. d \in Nat BY <1>3, DueNat
    <2>2. Due(recs', n, {"request"}) = d + 0 BY <1>9, <1>15
    <2> HIDE DEF d
    <2>3. d + 0 = d BY <2>1
    <2>4. InHand(n)' = InHand(n) BY <1>4, <2>2, <2>3 DEF InHand, d
    <2> QED BY <1>12, <1>15, <2>4 DEF Estimate
  <1> HIDE DEF j
  <1>16. \A n \in Node : Estimates(ended'[n] - seq'[n], seq'[n], InHand(n)')
    BY <1>14, <1>15
  <1> QED BY <1>16 DEF Estimate

\* requestsTotal takes up what was sampled for it.
LEMMA CountRequestEstimate ==
    ASSUME CountersInv, Estimate, NEW r \in BagToSet(recs), CountRequest(r)
    PROVE  Estimate'
  <1> USE DEF CountersInv
  <1> DEFINE j == r.node
             w == Weight(r.rate)
  <1>1. r \in DOMAIN recs /\ j \in Node /\ w \in Nat BY RecordBasics
  <1>2. GoodBag(recs) /\ requests \in [Node -> Nat] BY DEF MetricsType
  <1>3. /\ r.pc = "request" /\ Done(r) /\ UNCHANGED <<seq, ended>>
        /\ requests' = [requests EXCEPT ![j] = requests[j] + w]
    BY <1>1, <1>2 DEF CountRequest, Recording
  <1>4. GoodBag(recs') BY <1>1, <1>2, <1>3, DoneStep
  <1>5. ASSUME NEW n \in Node PROVE InHand(n)' = InHand(n)
    <2> DEFINE d == Due(recs, n, {"request"})
               d2 == Due(recs', n, {"request"})
               more == IF n = j THEN w ELSE 0
    <2>1. Share(r, n, {"request"}) = more /\ Share(r, n, {"sample"}) = 0
      BY <1>3 DEF Share
    <2>2. d2 + Share(r, n, {"request"}) = d + Share(r, n, {"sample"})
      BY <1>1, <1>2, <1>3, DoneStep
    <2>3. d \in Nat /\ d2 \in Nat /\ more \in Nat BY <1>1, <1>2, <1>4, DueNat
    <2>4. requests[n] \in Nat BY CounterTypes
    <2>5. requests'[n] = requests[n] + more
      <3> HIDE DEF w, j
      <3> QED BY <1>1, <1>2, <1>3, <2>4
    <2>6. InHand(n) = requests[n] + d /\ InHand(n)' = requests'[n] + d2 BY DEF InHand
    <2> HIDE DEF d, d2, more
    <2>7. d2 + more = d + 0 BY <2>1, <2>2
    <2> QED BY <2>3, <2>4, <2>5, <2>6, <2>7
  <1> QED BY <1>3, <1>5 DEF Estimate

\* The later steps of a record.
LEMMA LateEstimate ==
    ASSUME CountersInv, Estimate, NEW r \in BagToSet(recs), CountError(r) \/ Emit(r)
    PROVE  Estimate'
  <1> USE DEF CountersInv
  <1>1. r \in DOMAIN recs /\ GoodBag(recs) BY RecordBasics DEF MetricsType
  <1>2. r.pc \in {"error", "event"} /\ Done(r) /\ UNCHANGED <<seq, ended, requests>>
    BY DEF CountError, Emit, Recording
  <1>3. GoodBag(recs') BY <1>1, <1>2, DoneStep
  <1>4. ASSUME NEW n \in Node PROVE InHand(n)' = InHand(n)
    <2> DEFINE d == Due(recs, n, {"request"})
               d2 == Due(recs', n, {"request"})
    <2>1. Share(r, n, {"request"}) = 0 /\ Share(r, n, {"sample"}) = 0 BY <1>2 DEF Share
    <2>2. d2 + Share(r, n, {"request"}) = d + Share(r, n, {"sample"}) BY <1>1, <1>2, DoneStep
    <2>3. d \in Nat /\ d2 \in Nat BY <1>1, <1>3, DueNat
    <2> HIDE DEF d, d2
    <2>4. d2 = d BY <2>1, <2>2, <2>3
    <2> QED BY <1>2, <2>4 DEF InHand, d, d2
  <1> QED BY <1>2, <1>4 DEF Estimate

LEMMA EstimateStep ==
    ASSUME CountersInv, Estimate, [Next]_vars
    PROVE  Estimate'
  <1> USE DEF CountersInv
  <1>1. ASSUME UNCHANGED <<recs, seq, requests, ended>> PROVE Estimate'
    BY <1>1 DEF Estimate, InHand
  <1>2. CASE UNCHANGED <<recs, metrics>> BY <1>1, <1>2 DEF metrics, counters
  <1>3. CASE Joins
    <2>1. /\ UNCHANGED <<seq, requests, ended>>
          /\ \A n : Due(recs', n, {"request"}) = Due(recs, n, {"request"})
      BY <1>3, JoinsStep DEF MetricsType, metrics, counters
    <2> QED BY <2>1 DEF Estimate, InHand
  <1>4. CASE Record
    BY <1>4, SampleEstimate, CountRequestEstimate, LateEstimate DEF Record
  <1>5. CASE StatsEnds \/ \E n \in Node : \/ StartAggregator(n) \/ Aggregate(n)
                                         \/ StopAggregator(n) \/ AggregatorEnds(n)
                                         \/ Load(n)
    BY <1>1, <1>5
    DEF StatsEnds, StartAggregator, Aggregate, StopAggregator, AggregatorEnds, Load, counters
  <1> QED BY <1>2, <1>3, <1>4, <1>5, MetricsSteps

LEMMA EstimateStart ==
    ASSUME Init
    PROVE  Estimate
  <1> SUFFICES ASSUME NEW n \in Node
               PROVE  Estimates(ended[n] - seq[n], seq[n], InHand(n))
    BY DEF Estimate
  <1>1. ended[n] - seq[n] = 0 /\ seq[n] = 0 BY DEF Init
  <1>2. InHand(n) = 0
    <2>1. DOMAIN recs = {} BY DEF Init, EmptyBag, SetToBag
    <2>2. DOMAIN Weights(recs, n, {"request"}) = {} BY <2>1 DEF Weights, Kept
    <2>3. Due(recs, n, {"request"}) = 0 BY <2>2, SumEmpty DEF Due
    <2> QED BY <2>3 DEF InHand, Init
  <1>3. Most(0) \in Nat BY TurnsSummable
  <1>4. ASSUME NEW m \in Nat \ {0}, NEW k \in Shared PROVE 0 + k * (0 \div m) <= 0
    <2>1. 0 \div m = 0 /\ k \in Nat BY ZeroQuotient, SharedRates
    <2> QED BY <2>1
  <1>5. Estimates(0, 0, 0) BY <1>3, <1>4 DEF Estimates, Lower
  <1> QED BY <1>1, <1>2, <1>5

(***************************************************************************)
(* However many rates the services of a node have, and however the         *)
(* handlers that record overtake each other between the sample sequence    *)
(* and requestsTotal, the estimate of requests_total is at most as many    *)
(* times too large as there are rates, and goes on at every common         *)
(* multiple of them (server.go:1013, 1019).                                *)
(***************************************************************************)
THEOREM EstimateTheorem == Spec => []EstimateIsClose
  <1>1. Init => Estimate BY EstimateStart
  <1>2. CountersInv /\ Estimate /\ [Next]_vars => Estimate' BY EstimateStep
  <1>3. CountersInv /\ Estimate => EstimateIsClose
    <2> SUFFICES ASSUME CountersInv, Estimate, NEW n \in Node
                 PROVE  LET S == Rates \ {1}
                            whole == ended[n] - seq[n]
                            counted == requests[n] + Uncounted(n, "request") - whole
                        IN  /\ counted \in 0..(Cardinality(S) * seq[n])
                            /\ \A m \in 1..seq[n] :
                                   (\A rate \in S : m % rate = 0) =>
                                       \E rate \in S : counted >= rate * (seq[n] \div m)
      BY DEF EstimateIsClose
    <2> DEFINE s == seq[n]
               whole == ended[n] - seq[n]
               hand == InHand(n)
               most == Cardinality(Shared) * s
               counted == requests[n] + Uncounted(n, "request") - (ended[n] - seq[n])
    <2>1. s \in Nat /\ requests[n] \in Nat BY CounterTypes DEF CountersInv
    <2>2. hand = requests[n] + Uncounted(n, "request") BY UncountedIsDue DEF InHand
    <2>3. Due(recs, n, {"request"}) \in Nat BY DueNat DEF CountersInv, MetricsType
    <2>4. hand \in Nat BY <2>1, <2>3 DEF InHand
    <2>5. Estimates(whole, s, hand) /\ whole \in Nat BY DEF Estimate, Estimates
    <2>a. hand - whole = counted
      <3> DEFINE u == Uncounted(n, "request")
      <3>1. u \in Nat BY <2>3, UncountedIsDue
      <3>2. hand = requests[n] + u /\ counted = requests[n] + (u - whole) BY <2>2
      <3> HIDE DEF hand, u, whole, counted
      <3> QED BY <2>1, <2>5, <3>1, <3>2
    <2> HIDE DEF s, whole, hand, counted
    <2>6. Most(s) \in Nat /\ Most(s) <= most
      BY <2>1, TurnsSummable, SumBound DEF Most
    <2>7. Cardinality(Shared) \in Nat BY SharedRates, FS_CardinalityType
    <2>8. most \in Nat BY <2>1, <2>7, Products
    <2> HIDE DEF most
    <2>9. counted \in 0..most BY <2>a, <2>4, <2>5, <2>6, <2>8 DEF Estimates
    <2>10. ASSUME NEW m \in 1..s, Multiple(m)
           PROVE  \E rate \in Shared : counted >= rate * (s \div m)
      <3>1. m \in Nat \ {0} /\ Shared # {} BY <2>1, <2>5, <2>10 DEF Estimates
      <3>2. Shared \in SUBSET Nat BY SharedRates
      <3>3. PICK k \in Shared : \A j \in Shared : k <= j BY <3>1, <3>2, LeastNat
      <3>4. whole + k * (s \div m) <= hand
        BY <2>5, <2>10, <3>1, <3>3 DEF Estimates, Lower, Least
      <3> DEFINE d == k * (s \div m)
      <3>5. d \in Nat
        <4>1. k \in Nat /\ s \div m \in Nat BY <2>1, <3>1, <3>2, DivNat
        <4> QED BY <4>1, Products
      <3>6. whole + d <= hand BY <3>4
      <3> HIDE DEF d
      <3>7. counted >= d BY <2>a, <2>4, <2>5, <3>5, <3>6
      <3> QED BY <3>7 DEF d
    <2> QED BY <2>9, <2>10 DEF s, counted, most, Shared, Multiple
  <1> QED BY <1>1, <1>2, <1>3, CountersInvariant, PTL DEF Spec

=============================================================================
