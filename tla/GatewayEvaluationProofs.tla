----------------------- MODULE GatewayEvaluationProofs -----------------------
(***************************************************************************)
(* Proofs about Gateway for any number of requests and slots: the types,   *)
(* that the semaphore's slots are neither lost nor handed out twice, and   *)
(* that the gauge counts the requests that are streamed.  Then proofs      *)
(* about Evaluation, whose end-to-end run asks the gateway: what a         *)
(* benchmark holds, that the metrics of retrieval agree, and that a gate   *)
(* lets pass what deserves it.  The two specifications share no variable:  *)
(* that of Evaluation is EvaluationSpec.                                   *)
(***************************************************************************)
EXTENDS Gateway, Evaluation, FiniteSetTheorems, SequenceTheorems, WellFoundedInduction, TLAPS

Request == [pc : Pcs, degraded : BOOLEAN]
InGenerator == Pcs \ {"idle", "rag", "searching"}
Connecting == {"connecting"}
Waiting == {"waiting"}
One(b) == IF b THEN 1 ELSE 0

\* The queue holds the waiting requests, and each once.
QueueOK ==
  /\ queue \in Seq(Requests)
  /\ \A i, j \in DOMAIN queue : queue[i] = queue[j] => i = j
  /\ \A r \in Requests : At(r, "waiting") <=> \E i \in DOMAIN queue : queue[i] = r

GateInv ==
  /\ TypeOK
  /\ QueueOK
  /\ SlotsConserved
  /\ GaugeBalanced

-----------------------------------------------------------------------------
(* One request moves.                                                      *)

LEMMA FiniteStates == ASSUME NEW S PROVE IsFiniteSet(InState(S))
  <1>1. InState(S) \in SUBSET Requests
    BY DEF InState
  <1> QED
    BY <1>1, FS_Subset, GatewayAssumption

\* What a step of request r does to the number of requests in a set of states.
LEMMA Moved ==
  ASSUME TypeOK, NEW r \in Requests, NEW CONSTANT x, req' = [req EXCEPT ![r] = x],
         NEW CONSTANT S
  PROVE  /\ Cardinality(InState(S)) \in Nat
         /\ Cardinality(InState(S)') \in Nat
         /\ Cardinality(InState(S)') + One(req[r].pc \in S)
              = Cardinality(InState(S)) + One(x.pc \in S)
  <1> DEFINE Rest0 == InState(S) \ {r}
  <1>1. IsFiniteSet(InState(S)) /\ Cardinality(InState(S)) \in Nat
    BY FiniteStates, FS_CardinalityType
  <1>2. IsFiniteSet(Rest0) /\ Cardinality(Rest0) + One(req[r].pc \in S) = Cardinality(InState(S))
    <2>1. /\ IsFiniteSet(Rest0)
          /\ Cardinality(Rest0) = IF r \in InState(S) THEN Cardinality(InState(S)) - 1
                                  ELSE Cardinality(InState(S))
      BY <1>1, FS_RemoveElement
    <2>2. r \in InState(S) <=> req[r].pc \in S
      BY DEF InState
    <2> QED
      BY <1>1, <2>1, <2>2 DEF One
  <1>3. InState(S)' = IF x.pc \in S THEN Rest0 \cup {r} ELSE Rest0
    BY DEF InState, TypeOK
  <1>4. Cardinality(InState(S)') = Cardinality(Rest0) + One(x.pc \in S)
    <2>1. Cardinality(Rest0 \cup {r}) = Cardinality(Rest0) + 1
      BY <1>2, FS_AddElement
    <2>2. Cardinality(Rest0) \in Nat
      BY <1>2, FS_CardinalityType
    <2> QED
      BY <1>3, <2>1, <2>2 DEF One
  <1>5. Cardinality(Rest0) \in Nat
    BY <1>2, FS_CardinalityType
  <1> QED
    BY <1>1, <1>2, <1>4, <1>5 DEF One

\* How a step that takes r to x changes the gauge.
GaugeFollows(r, x) ==
  LET from == req[r].pc \in InGenerator
      to == x.pc \in InGenerator
  IN  \/ inFlight' = inFlight /\ lost' = lost /\ (from <=> to)
      \/ inFlight' = inFlight + 1 /\ lost' = lost /\ ~from /\ to
      \/ inFlight' = inFlight - 1 /\ lost' = lost /\ from /\ ~to
      \/ inFlight' = inFlight /\ lost' = lost + 1 /\ from /\ ~to

\* A step of request r preserves the invariant when slots, gauge and queue
\* follow where it goes.
LEMMA RequestStep ==
  ASSUME GateInv, NEW r \in Requests, NEW CONSTANT x \in Request,
         req' = [req EXCEPT ![r] = x],
         llm' \in Breaker, rag' \in Breaker, free' \in Nat, lost' \in 0..MaxLost,
         QueueOK',
         free' + One(x.pc = "connecting") = free + One(req[r].pc = "connecting"),
         GaugeFollows(r, x),
         Len(queue') + One(req[r].pc = "waiting") = Len(queue) + One(x.pc = "waiting")
  PROVE  GateInv'
  <1> USE GatewayAssumption
  <1>1. TypeOK /\ req' \in [Requests -> Request] /\ queue' \in Seq(Requests)
    BY DEF GateInv, TypeOK, Request, QueueOK
  <1>2. free' + Cardinality(InState(Connecting)') = Slots
        /\ Cardinality(InState(Connecting)') \in Nat
    <2>1. /\ Cardinality(InState(Connecting)) \in Nat
          /\ Cardinality(InState(Connecting)') \in Nat
          /\ Cardinality(InState(Connecting)') + One(req[r].pc \in Connecting)
               = Cardinality(InState(Connecting)) + One(x.pc \in Connecting)
      BY <1>1, Moved
    <2>2. free + Cardinality(InState(Connecting)) = Slots /\ free \in Nat
      BY DEF GateInv, SlotsConserved, TypeOK, Connecting
    <2>3. /\ One(req[r].pc \in Connecting) = One(req[r].pc = "connecting")
          /\ One(x.pc \in Connecting) = One(x.pc = "connecting")
      BY DEF One, Connecting
    <2>4. One(req[r].pc = "connecting") \in Nat /\ One(x.pc = "connecting") \in Nat
      BY DEF One
    <2> QED
      BY <2>1, <2>2, <2>3, <2>4
  <1>3. Len(queue') = Cardinality(InState(Waiting)')
    <2>1. /\ Cardinality(InState(Waiting)) \in Nat
          /\ Cardinality(InState(Waiting)') \in Nat
          /\ Cardinality(InState(Waiting)') + One(req[r].pc \in Waiting)
               = Cardinality(InState(Waiting)) + One(x.pc \in Waiting)
      BY <1>1, Moved
    <2>2. Len(queue) = Cardinality(InState(Waiting)) /\ Len(queue') \in Nat
      BY <1>1 DEF GateInv, SlotsConserved, Waiting
    <2>3. /\ One(req[r].pc \in Waiting) = One(req[r].pc = "waiting")
          /\ One(x.pc \in Waiting) = One(x.pc = "waiting")
      BY DEF One, Waiting
    <2>4. One(req[r].pc = "waiting") \in Nat /\ One(x.pc = "waiting") \in Nat
      BY DEF One
    <2> QED
      BY <2>1, <2>2, <2>3, <2>4
  <1>4. inFlight' = lost' + Cardinality(InState(InGenerator)')
        /\ Cardinality(InState(InGenerator)') \in Nat
    <2>1. /\ Cardinality(InState(InGenerator)) \in Nat
          /\ Cardinality(InState(InGenerator)') \in Nat
          /\ Cardinality(InState(InGenerator)') + One(req[r].pc \in InGenerator)
               = Cardinality(InState(InGenerator)) + One(x.pc \in InGenerator)
      BY <1>1, Moved
    <2>2. /\ inFlight = lost + Cardinality(InState(InGenerator))
          /\ lost \in Nat /\ lost' \in Nat /\ inFlight \in Nat
      BY DEF GateInv, GaugeBalanced, TypeOK, InGenerator
    <2> DEFINE m == Cardinality(InState(InGenerator))
               n == Cardinality(InState(InGenerator)')
    <2>3. /\ m \in Nat /\ n \in Nat /\ inFlight = lost + m
          /\ n + One(req[r].pc \in InGenerator) = m + One(x.pc \in InGenerator)
      BY <2>1, <2>2
    <2>4. CASE (req[r].pc \in InGenerator) <=> (x.pc \in InGenerator)
      <3>1. n = m /\ inFlight' = inFlight /\ lost' = lost
        BY <2>3, <2>4 DEF One, GaugeFollows
      <3> QED
        BY <2>3, <3>1
    <2>5. CASE req[r].pc \notin InGenerator /\ x.pc \in InGenerator
      <3>1. n = m + 1 /\ inFlight' = inFlight + 1 /\ lost' = lost
        BY <2>3, <2>5 DEF One, GaugeFollows
      <3> QED
        BY <2>2, <2>3, <3>1
    <2>6. CASE req[r].pc \in InGenerator /\ x.pc \notin InGenerator
      <3>1. n = m - 1
        BY <2>3, <2>6 DEF One
      <3>2. CASE inFlight' = inFlight - 1 /\ lost' = lost
        BY <2>2, <2>3, <3>1, <3>2
      <3>3. CASE inFlight' = inFlight /\ lost' = lost + 1
        BY <2>2, <2>3, <3>1, <3>3
      <3> QED
        BY <2>6, <3>2, <3>3 DEF GaugeFollows
    <2> QED
      BY <2>4, <2>5, <2>6
  <1>5. {queue'[i] : i \in DOMAIN queue'} = InState({"waiting"})'
    <2>1. \A q \in Requests : req'[q].pc = "waiting" <=> \E i \in DOMAIN queue' : queue'[i] = q
      BY DEF QueueOK, At
    <2>2. \A i \in DOMAIN queue' : queue'[i] \in Requests
      BY <1>1
    <2> QED
      BY <2>1, <2>2 DEF InState
  <1>6. SlotsConserved'
    BY <1>2, <1>3, <1>5 DEF SlotsConserved, Connecting, Waiting
  <1>7. GaugeBalanced'
    BY <1>4 DEF GaugeBalanced, InGenerator
  <1>8. TypeOK'
    BY <1>1, <1>2, <1>4 DEF TypeOK, Request
  <1> QED
    BY <1>6, <1>7, <1>8 DEF GateInv

-----------------------------------------------------------------------------
(* The queue of the semaphore.                                             *)

LEMMA QueueKept ==
  ASSUME GateInv, NEW r \in Requests, NEW CONSTANT x \in Request,
         req' = [req EXCEPT ![r] = x], UNCHANGED queue,
         req[r].pc # "waiting", x.pc # "waiting"
  PROVE  /\ QueueOK'
         /\ Len(queue') + One(req[r].pc = "waiting") = Len(queue) + One(x.pc = "waiting")
  <1>1. \A q \in Requests : req'[q].pc = "waiting" <=> req[q].pc = "waiting"
    BY DEF GateInv, TypeOK
  <1> QED
    BY <1>1 DEF GateInv, QueueOK, At, One

LEMMA QueueJoined ==
  ASSUME GateInv, NEW r \in Requests, NEW CONSTANT x \in Request,
         req' = [req EXCEPT ![r] = x], queue' = Append(queue, r),
         req[r].pc # "waiting", x.pc = "waiting"
  PROVE  /\ QueueOK'
         /\ Len(queue') + One(req[r].pc = "waiting") = Len(queue) + One(x.pc = "waiting")
  <1>1. QueueOK /\ queue \in Seq(Requests) /\ Len(queue) \in Nat
    BY DEF GateInv, QueueOK
  <1>2. \A q \in Requests : req'[q].pc = "waiting" <=> req[q].pc = "waiting" \/ q = r
    BY DEF GateInv, TypeOK
  <1>3. /\ queue' \in Seq(Requests) /\ Len(queue') = Len(queue) + 1
        /\ DOMAIN queue' = 1..Len(queue) + 1 /\ DOMAIN queue = 1..Len(queue)
        /\ queue'[Len(queue) + 1] = r /\ \A i \in 1..Len(queue) : queue'[i] = queue[i]
    BY <1>1
  <1>4. \A i \in DOMAIN queue : queue[i] # r
    BY <1>1 DEF QueueOK, At
  <1>5. \A i, j \in DOMAIN queue' : queue'[i] = queue'[j] => i = j
    BY <1>1, <1>3, <1>4 DEF QueueOK
  <1>6. ASSUME NEW q \in Requests
        PROVE  req'[q].pc = "waiting" <=> \E i \in DOMAIN queue' : queue'[i] = q
    BY <1>1, <1>2, <1>3 DEF QueueOK, At
  <1> QED
    BY <1>3, <1>5, <1>6 DEF QueueOK, At, One

\* The request at place k goes: the others keep their order.
LEMMA QueueLeft ==
  ASSUME GateInv, NEW r \in Requests, NEW CONSTANT x \in Request, NEW k \in DOMAIN queue,
         req' = [req EXCEPT ![r] = x], queue[k] = r,
         queue' \in Seq(Requests), Len(queue') = Len(queue) - 1,
         \A j \in DOMAIN queue' : queue'[j] = queue[IF j < k THEN j ELSE j + 1],
         x.pc # "waiting"
  PROVE  /\ QueueOK'
         /\ Len(queue') + One(req[r].pc = "waiting") = Len(queue) + One(x.pc = "waiting")
  <1>1. QueueOK /\ queue \in Seq(Requests) /\ Len(queue) \in Nat /\ DOMAIN queue = 1..Len(queue)
    BY DEF GateInv, QueueOK
  <1>2. \A q \in Requests : req'[q].pc = "waiting" <=> req[q].pc = "waiting" /\ q # r
    BY DEF GateInv, TypeOK
  <1>3. k \in 1..Len(queue) /\ Len(queue) - 1 \in Nat
    BY <1>1
  <1> DEFINE old(j) == IF j < k THEN j ELSE j + 1
  <1>4. \A j \in 1..Len(queue) - 1 : old(j) \in 1..Len(queue) /\ old(j) # k
    BY <1>1, <1>3
  <1>5. \A i \in 1..Len(queue) : i # k => \E j \in 1..Len(queue) - 1 : old(j) = i
    <2> SUFFICES ASSUME NEW i \in 1..Len(queue), i # k
                 PROVE  \E j \in 1..Len(queue) - 1 : old(j) = i
      OBVIOUS
    <2>1. CASE i < k
      BY <1>1, <1>3, <2>1
    <2>2. CASE i > k
      <3>1. i - 1 \in 1..Len(queue) - 1 /\ old(i - 1) = i
        BY <1>1, <1>3, <2>2
      <3> QED
        BY <3>1
    <2> QED
      BY <1>3, <2>1, <2>2
  <1>6. \A i, j \in 1..Len(queue) - 1 : old(i) = old(j) => i = j
    BY <1>1, <1>3
  <1>7. /\ queue' \in Seq(Requests) /\ Len(queue') = Len(queue) - 1
        /\ DOMAIN queue' = 1..Len(queue) - 1
        /\ \A j \in DOMAIN queue' : queue'[j] = queue[old(j)]
    BY <1>1, <1>3
  <1>8. queue[k] = r
    OBVIOUS
  <1> HIDE DEF old
  <1>9. \A i, j \in DOMAIN queue' : queue'[i] = queue'[j] => i = j
    <2>1. ASSUME NEW i \in DOMAIN queue', NEW j \in DOMAIN queue', queue'[i] = queue'[j]
          PROVE  i = j
      <3>1. queue[old(i)] = queue[old(j)] /\ old(i) \in DOMAIN queue /\ old(j) \in DOMAIN queue
        BY <1>1, <1>4, <1>7, <2>1
      <3>2. old(i) = old(j)
        BY <3>1, <1>1 DEF QueueOK
      <3> QED
        BY <3>2, <1>6, <1>7
    <2> QED
      BY <2>1
  <1>10. ASSUME NEW q \in Requests
         PROVE  req'[q].pc = "waiting" <=> \E i \in DOMAIN queue' : queue'[i] = q
    <2>1. ASSUME req'[q].pc = "waiting" PROVE \E i \in DOMAIN queue' : queue'[i] = q
      <3>1. PICK i \in 1..Len(queue) : queue[i] = q /\ i # k
        BY <1>1, <1>2, <1>8, <2>1 DEF QueueOK, At
      <3> QED
        BY <1>5, <1>7, <3>1
    <2>2. ASSUME NEW i \in DOMAIN queue', queue'[i] = q PROVE req'[q].pc = "waiting"
      <3>1. old(i) \in DOMAIN queue /\ old(i) # k /\ queue[old(i)] = q
        BY <1>1, <1>4, <1>7, <2>2
      <3>2. q # r
        BY <1>1, <1>8, <3>1 DEF QueueOK
      <3> QED
        BY <1>1, <1>2, <3>1, <3>2 DEF QueueOK, At
    <2> QED
      BY <2>1, <2>2
  <1>11. req[r].pc = "waiting"
    BY <1>1, <1>8 DEF QueueOK, At
  <1> QED
    BY <1>1, <1>7, <1>9, <1>10, <1>11 DEF QueueOK, At, One

-----------------------------------------------------------------------------
(* The actions.                                                            *)

LEMMA BreakerSteps ==
  ASSUME NEW b \in Breaker
  PROVE  AfterSuccess(b) \in Breaker /\ AfterFailure(b) \in Breaker
  BY GatewayAssumption DEF Breaker, AfterSuccess, AfterFailure, Closed

\* Where a request stands is known by its program counter.
LEMMA AtRequest ==
  ASSUME GateInv, NEW r \in Requests
  PROVE  /\ req[r] \in Request
         /\ \A pc \in Pcs : [req EXCEPT ![r].pc = pc] = [req EXCEPT ![r] = [req[r] EXCEPT !.pc = pc]]
         /\ \A pc \in Pcs : [req[r] EXCEPT !.pc = pc] \in Request /\ [req[r] EXCEPT !.pc = pc].pc = pc
  BY DEF GateInv, TypeOK, Request

LEMMA IdleRequest == Idle \in Request /\ Idle.pc = "idle"
  BY DEF Idle, Request, Pcs

\* A step that leaves the queue alone.
LEMMA QuietStep ==
  ASSUME GateInv, NEW r \in Requests, NEW CONSTANT x \in Request,
         req' = [req EXCEPT ![r] = x], UNCHANGED queue,
         req[r].pc # "waiting", x.pc # "waiting",
         llm' \in Breaker, rag' \in Breaker, free' \in Nat, lost' \in 0..MaxLost,
         free' + One(x.pc = "connecting") = free + One(req[r].pc = "connecting"),
         GaugeFollows(r, x)
  PROVE  GateInv'
  BY QueueKept, RequestStep

LEMMA Numbers ==
  ASSUME GateInv
  PROVE  /\ free \in Nat /\ inFlight \in Nat /\ lost \in 0..MaxLost /\ lost \in Nat
         /\ llm \in Breaker /\ rag \in Breaker
         /\ AfterSuccess(llm) \in Breaker /\ AfterFailure(llm) \in Breaker
         /\ AfterSuccess(rag) \in Breaker /\ AfterFailure(rag) \in Breaker
  BY GatewayAssumption, BreakerSteps DEF GateInv, TypeOK

LEMMA BeforeGenerator ==
  ASSUME GateInv, NEW r \in Requests, Arrive(r) \/ RagCall(r)
  PROVE  GateInv'
  <1>1. PICK pc \in {"rag", "searching"} : req' = [req EXCEPT ![r] = [req[r] EXCEPT !.pc = pc]]
    BY AtRequest DEF Arrive, RagCall, Goto, Pcs
  <1>2. req[r].pc \in {"idle", "rag"} /\ UNCHANGED <<llm, rag, free, queue, inFlight, lost>>
    BY DEF Arrive, RagCall, At, backends
  <1>3. PICK x \in Request : x.pc = pc /\ req' = [req EXCEPT ![r] = x]
    BY <1>1, AtRequest DEF Pcs
  <1>4. /\ One(x.pc = "connecting") = 0 /\ One(req[r].pc = "connecting") = 0
        /\ x.pc \notin InGenerator /\ req[r].pc \notin InGenerator
        /\ req[r].pc # "waiting" /\ x.pc # "waiting"
    BY <1>2, <1>3 DEF One, InGenerator
  <1>5. GaugeFollows(r, x)
    BY <1>2, <1>4 DEF GaugeFollows
  <1> QED
    BY <1>2, <1>3, <1>4, <1>5, Numbers, QuietStep

\* build_prompt ends: the gauge counts the request.
LEMMA ResponseStep ==
  ASSUME GateInv, NEW r \in Requests, RagRefused(r) \/ RagAnswers(r) \/ RagUnavailable(r)
  PROVE  GateInv'
  <1>1. PICK degraded \in BOOLEAN : Respond(r, degraded)
    BY DEF RagRefused, RagAnswers, RagUnavailable
  <1>2. req[r].pc \in {"rag", "searching"} /\ UNCHANGED <<llm, free, queue, lost>>
        /\ rag' \in {rag, AfterSuccess(rag), AfterFailure(rag)} /\ inFlight' = inFlight + 1
    BY <1>1 DEF RagRefused, RagAnswers, RagUnavailable, Respond, At, backends
  <1>3. PICK x \in Request : x.pc = "begin" /\ req' = [req EXCEPT ![r] = x]
    BY <1>1 DEF Respond, Request, Pcs
  <1>4. /\ One(x.pc = "connecting") = 0 /\ One(req[r].pc = "connecting") = 0
        /\ x.pc \in InGenerator /\ req[r].pc \notin InGenerator
        /\ req[r].pc # "waiting" /\ x.pc # "waiting"
    BY <1>2, <1>3 DEF One, InGenerator, Pcs
  <1>5. GaugeFollows(r, x)
    BY <1>2, <1>4 DEF GaugeFollows
  <1> QED
    BY <1>2, <1>3, <1>4, <1>5, Numbers, QuietStep

LEMMA RaisedStep ==
  ASSUME GateInv, NEW r \in Requests, RagRaises(r)
  PROVE  GateInv'
  <1>1. req[r].pc = "searching" /\ UNCHANGED <<llm, free, queue, inFlight, lost>>
        /\ rag' = AfterFailure(rag) /\ req' = [req EXCEPT ![r] = Idle]
    BY DEF RagRaises, At
  <1>2. /\ One(Idle.pc = "connecting") = 0 /\ One(req[r].pc = "connecting") = 0
        /\ Idle.pc \notin InGenerator /\ req[r].pc \notin InGenerator
        /\ req[r].pc # "waiting" /\ Idle.pc # "waiting"
    BY <1>1, IdleRequest DEF One, InGenerator
  <1>3. GaugeFollows(r, Idle)
    BY <1>1, <1>2 DEF GaugeFollows
  <1> QED
    BY <1>1, <1>2, <1>3, IdleRequest, Numbers, QuietStep

\* The two ways a request leaves the generator.
LEMMA EndStep ==
  ASSUME GateInv, NEW r \in Requests, Finally(r) \/ NeverStarts(r)
  PROVE  GateInv'
  <1>1. req[r].pc \in {"begin", "ended", "failed", "refused"}
        /\ UNCHANGED <<llm, rag, free, queue>> /\ req' = [req EXCEPT ![r] = Idle]
        /\ \/ inFlight' = inFlight - 1 /\ lost' = lost
           \/ inFlight' = inFlight /\ lost' = lost + 1 /\ lost < MaxLost
    BY DEF Finally, NeverStarts, At, Ending, backends
  <1>2. /\ One(Idle.pc = "connecting") = 0 /\ One(req[r].pc = "connecting") = 0
        /\ Idle.pc \notin InGenerator /\ req[r].pc \in InGenerator
        /\ req[r].pc # "waiting" /\ Idle.pc # "waiting"
    BY <1>1, IdleRequest DEF One, InGenerator, Pcs
  <1>3. GaugeFollows(r, Idle)
    BY <1>1, <1>2 DEF GaugeFollows
  <1>4. lost' \in 0..MaxLost
    BY <1>1, Numbers, GatewayAssumption
  <1> QED
    BY <1>1, <1>2, <1>3, <1>4, IdleRequest, Numbers, QuietStep

LEMMA StreamStep ==
  ASSUME GateInv, NEW r \in Requests, Connected(r) \/ ConnectFails(r) \/ StreamEnds(r)
  PROVE  GateInv'
  <1>1. UNCHANGED <<rag, queue, inFlight, lost>>
        /\ llm' \in {llm, AfterSuccess(llm), AfterFailure(llm)}
        /\ \/ req[r].pc = "connecting" /\ free' = free + 1
           \/ req[r].pc = "streaming" /\ free' = free
    BY DEF Connected, ConnectFails, StreamEnds, At, backends
  <1>2. PICK pc \in {"streaming", "ended", "failed", "refused"} :
          req' = [req EXCEPT ![r].pc = pc]
    BY DEF Connected, ConnectFails, StreamEnds, Goto
  <1>3. PICK x \in Request : x.pc = pc /\ req' = [req EXCEPT ![r] = x]
    BY <1>2, AtRequest DEF Pcs
  <1>4. /\ One(x.pc = "connecting") = 0 /\ x.pc \in InGenerator /\ req[r].pc \in InGenerator
        /\ req[r].pc # "waiting" /\ x.pc # "waiting"
    BY <1>1, <1>3 DEF One, InGenerator, Pcs
  <1>5. free' \in Nat
        /\ free' + One(x.pc = "connecting") = free + One(req[r].pc = "connecting")
    BY <1>1, <1>4, Numbers DEF One
  <1>6. GaugeFollows(r, x)
    BY <1>1, <1>4 DEF GaugeFollows
  <1> QED
    BY <1>1, <1>3, <1>4, <1>5, <1>6, Numbers, QuietStep

LEMMA WaitStep ==
  ASSUME GateInv, NEW r \in Requests, Wait(r)
  PROVE  GateInv'
  <1>1. req[r].pc = "begin" /\ queue' = Append(queue, r)
        /\ UNCHANGED <<llm, rag, free, inFlight, lost>>
    BY DEF Wait, At
  <1>2. PICK x \in Request : x.pc = "waiting" /\ req' = [req EXCEPT ![r] = x]
    BY AtRequest DEF Wait, Goto, Pcs
  <1>3. /\ One(x.pc = "connecting") = 0 /\ One(req[r].pc = "connecting") = 0
        /\ x.pc \in InGenerator /\ req[r].pc \in InGenerator
    BY <1>1, <1>2 DEF One, InGenerator, Pcs
  <1>4. GaugeFollows(r, x)
    BY <1>1, <1>3 DEF GaugeFollows
  <1>5. /\ QueueOK'
        /\ Len(queue') + One(req[r].pc = "waiting") = Len(queue) + One(x.pc = "waiting")
    BY <1>1, <1>2, QueueJoined
  <1> QED
    BY <1>1, <1>2, <1>3, <1>4, <1>5, Numbers, RequestStep

\* The request that has its turn leaves the queue, if it was there.
LEMMA TurnStep ==
  ASSUME GateInv, NEW r \in Requests, LlmRefused(r) \/ LlmCall(r)
  PROVE  GateInv'
  <1>1. HasTurn(r) /\ queue' = Rest /\ UNCHANGED <<llm, rag, inFlight, lost>>
    BY DEF LlmRefused, LlmCall
  <1>2. PICK pc \in {"refused", "connecting"} :
          /\ req' = [req EXCEPT ![r].pc = pc]
          /\ free' = IF pc = "connecting" THEN free - 1 ELSE free
    BY DEF LlmRefused, LlmCall, Goto
  <1>3. PICK x \in Request : x.pc = pc /\ req' = [req EXCEPT ![r] = x]
    BY <1>2, AtRequest DEF Pcs
  <1>4. req[r].pc \in {"begin", "waiting"} /\ free > 0
    BY <1>1 DEF HasTurn, At
  <1>5. x.pc \in InGenerator /\ req[r].pc \in InGenerator /\ x.pc # "waiting"
    BY <1>3, <1>4 DEF InGenerator, Pcs
  <1>6. free' \in Nat
        /\ free' + One(x.pc = "connecting") = free + One(req[r].pc = "connecting")
    BY <1>2, <1>3, <1>4, Numbers DEF One
  <1>7. GaugeFollows(r, x)
    BY <1>1, <1>5 DEF GaugeFollows
  <1>8. /\ QueueOK'
        /\ Len(queue') + One(req[r].pc = "waiting") = Len(queue) + One(x.pc = "waiting")
    <2>1. CASE At(r, "begin") /\ queue = <<>>
      BY <1>1, <1>3, <1>5, <2>1, QueueKept DEF Rest, At
    <2>2. CASE At(r, "waiting") /\ r = Head(queue)
      <3>1. queue \in Seq(Requests) /\ \E i \in DOMAIN queue : queue[i] = r
        BY <2>2 DEF GateInv, QueueOK
      <3>2. queue # <<>> /\ 1 \in DOMAIN queue /\ queue[1] = r
        BY <2>2, <3>1
      <3>3. queue' = Tail(queue)
        BY <1>1, <3>2 DEF Rest
      <3>4. /\ queue' \in Seq(Requests) /\ Len(queue') = Len(queue) - 1
            /\ \A j \in 1..Len(queue) - 1 : queue'[j] = queue[j + 1]
        BY <3>1, <3>2, <3>3, HeadTailProperties
      <3>5. \A j \in DOMAIN queue' : queue'[j] = queue[IF j < 1 THEN j ELSE j + 1]
        BY <3>4
      <3> QED
        BY <1>3, <1>5, <3>2, <3>4, <3>5, QueueLeft
    <2> QED
      BY <1>1, <2>1, <2>2 DEF HasTurn
  <1> QED
    BY <1>1, <1>3, <1>5, <1>6, <1>7, <1>8, Numbers, RequestStep

LEMMA LeaveStep ==
  ASSUME GateInv, NEW r \in Requests, Leave(r)
  PROVE  GateInv'
  <1>1. req[r].pc \in {"waiting", "connecting", "streaming"} /\ queue' = QueueWithout(r)
        /\ UNCHANGED <<rag, inFlight, lost>>
        /\ free' = (IF req[r].pc = "connecting" THEN free + 1 ELSE free)
        /\ llm' \in {llm, AfterSuccess(llm), AfterFailure(llm)}
    BY DEF Leave, At, Outcomes
  <1>2. PICK x \in Request : x.pc = "ended" /\ req' = [req EXCEPT ![r] = x]
    BY AtRequest DEF Leave, Goto, Pcs
  <1>3. x.pc \in InGenerator /\ req[r].pc \in InGenerator /\ x.pc # "waiting"
    BY <1>1, <1>2 DEF InGenerator, Pcs
  <1>4. free' \in Nat
        /\ free' + One(x.pc = "connecting") = free + One(req[r].pc = "connecting")
    BY <1>1, <1>2, Numbers DEF One
  <1>5. GaugeFollows(r, x)
    BY <1>1, <1>3 DEF GaugeFollows
  <1>6. /\ QueueOK'
        /\ Len(queue') + One(req[r].pc = "waiting") = Len(queue) + One(x.pc = "waiting")
    <2>1. CASE At(r, "waiting")
      <3> DEFINE i == CHOOSE i \in DOMAIN queue : queue[i] = r
      <3>1. i \in DOMAIN queue /\ queue[i] = r
        BY <2>1 DEF GateInv, QueueOK
      <3>2. queue' = [j \in 1..Len(queue) - 1 |-> queue[IF j < i THEN j ELSE j + 1]]
        BY <1>1, <2>1 DEF QueueWithout
      <3> HIDE DEF i
      <3>3. queue \in Seq(Requests) /\ Len(queue) - 1 \in Nat /\ i \in 1..Len(queue)
        BY <3>1 DEF GateInv, QueueOK
      <3>4. \A j \in 1..Len(queue) - 1 : queue[IF j < i THEN j ELSE j + 1] \in Requests
        BY <3>3
      <3>5. queue' \in Seq(Requests) /\ Len(queue') = Len(queue) - 1
            /\ \A j \in DOMAIN queue' : queue'[j] = queue[IF j < i THEN j ELSE j + 1]
        BY <3>2, <3>3, <3>4
      <3> QED
        BY <1>2, <1>3, <3>1, <3>5, QueueLeft
    <2>2. CASE ~At(r, "waiting")
      BY <1>1, <1>2, <1>3, <2>2, QueueKept DEF QueueWithout, At
    <2> QED
      BY <2>1, <2>2
  <1> QED
    BY <1>1, <1>2, <1>3, <1>4, <1>5, <1>6, Numbers, RequestStep

LEMMA ElapseStep == GateInv /\ Elapse => GateInv'
  <1> SUFFICES ASSUME GateInv, Elapse PROVE GateInv'
    OBVIOUS
  <1>1. UNCHANGED <<req, free, queue, inFlight, lost>> /\ llm' \in Breaker /\ rag' \in Breaker
    BY DEF Elapse, GateInv, TypeOK, Breaker
  <1> QED
    BY <1>1 DEF GateInv, TypeOK, QueueOK, SlotsConserved, GaugeBalanced, InState, At

LEMMA GateStutter == GateInv /\ UNCHANGED vars => GateInv'
  BY DEF vars, GateInv, TypeOK, QueueOK, SlotsConserved, GaugeBalanced, InState, At

LEMMA GateInit == Init => GateInv
  <1> SUFFICES ASSUME Init PROVE GateInv
    OBVIOUS
  <1> USE GatewayAssumption
  <1>1. \A r \in Requests : req[r] = Idle
    BY DEF Init
  <1>2. TypeOK
    BY IdleRequest DEF Init, TypeOK, Request, Closed, Breaker
  <1>3. QueueOK
    BY <1>1, IdleRequest DEF Init, QueueOK, At
  <1>4. /\ InState({"connecting"}) = {} /\ InState({"waiting"}) = {}
        /\ InState(Pcs \ {"idle", "rag", "searching"}) = {}
    BY <1>1, IdleRequest DEF InState
  <1>5. SlotsConserved /\ GaugeBalanced
    <2>1. {queue[i] : i \in DOMAIN queue} = {} /\ Len(queue) = 0
      BY DEF Init
    <2>2. free = Slots /\ inFlight = 0 /\ lost = 0
      BY DEF Init
    <2>3. Cardinality({}) = 0
      BY FS_EmptySet
    <2>4. free + 0 = Slots /\ inFlight = lost + 0
      BY <2>2
    <2> QED
      BY <1>4, <2>1, <2>3, <2>4 DEF SlotsConserved, GaugeBalanced
  <1> QED
    BY <1>2, <1>3, <1>5 DEF GateInv

LEMMA GateNext == GateInv /\ [Next]_vars => GateInv'
  BY BeforeGenerator, ResponseStep, RaisedStep, EndStep, StreamStep, WaitStep, TurnStep,
     LeaveStep, ElapseStep, GateStutter DEF Next, Serve

\* The invariant holds in every state.
THEOREM GateInvariant == Spec => []GateInv
  BY GateInit, GateNext, PTL DEF Spec

\* The semaphore stays between 0 and its slots, the breakers' counters below
\* FailMax, and the gauge is never negative.
THEOREM GatewayTypeCorrect == Spec => []TypeOK
  <1>1. GateInv => TypeOK
    BY DEF GateInv
  <1> QED
    BY GateInvariant, <1>1, PTL

\* The semaphore of LLMGenerationClient: every slot is free or with one request
\* that connects, and the queue is exactly the requests that wait.
THEOREM SlotsNeverLost == Spec => []SlotsConserved
  <1>1. GateInv => SlotsConserved
    BY DEF GateInv
  <1> QED
    BY GateInvariant, <1>1, PTL

\* llm_requests_in_flight counts the streams, and those that never started.
THEOREM GaugeTrue == Spec => []GaugeBalanced
  <1>1. GateInv => GaugeBalanced
    BY DEF GateInv
  <1> QED
    BY GateInvariant, <1>1, PTL

-----------------------------------------------------------------------------
(* Numbers.                                                                *)

\* Induction, for a set of numbers: if the set lacked some, it would lack a
\* least one, and there is none.
LEMMA NatSetInduction ==
  ASSUME NEW T, 0 \in T, \A n \in Nat : n \in T => n + 1 \in T
  PROVE  Nat \subseteq T
  <1> SUFFICES ASSUME Nat \ T # {} PROVE FALSE
    OBVIOUS
  <1>1. IsWellFoundedOn(OpToRel(<, Nat), Nat)
    BY NatLessThanWellFounded
  <1>2. PICK n \in Nat \ T : \A m \in Nat \ T : ~ (<<m, n>> \in OpToRel(<, Nat))
    BY <1>1, WFMin
  <1>3. n \in Nat /\ n # 0
    BY <1>2
  <1>4. n - 1 \in Nat /\ (n - 1) + 1 = n
    BY <1>3
  <1>5. n - 1 \notin T
    BY <1>2, <1>4
  <1>6. <<n - 1, n>> \in OpToRel(<, Nat)
    BY <1>2, <1>3, <1>4 DEF OpToRel
  <1> QED
    BY <1>2, <1>4, <1>5, <1>6

\* The recursive sum of the discounts is any function that adds them up the same
\* way: the one the code's loop computes.
LEMMA GainOfOne ==
  ASSUME NEW ranks \in SUBSET (1..RetrievalK), NEW w \in [0..RetrievalK -> Nat],
         w[0] = 0,
         \A i \in 1..RetrievalK : w[i] = w[i - 1] + (IF i \in ranks THEN Discount[i] ELSE 0)
  PROVE  Gain(ranks) = w[RetrievalK]
  <1> DEFINE K == RetrievalK
             Step(f) == [i \in 0..K |-> IF i = 0 THEN 0
                                        ELSE f[i - 1] + (IF i \in ranks THEN Discount[i] ELSE 0)]
             dcg == CHOOSE f : f = Step(f)
  <1>1. Gain(ranks) = dcg[K]
    BY DEF Gain
  <1>2. K \in Nat
    BY EvaluationAssumption
  <1>3. w = Step(w)
    BY <1>2
  <1>4. dcg = Step(dcg)
    BY <1>3
  <1> HIDE DEF dcg
  <1>5. dcg[0] = 0
    BY <1>2, <1>4
  <1>6. ASSUME NEW n \in Nat, n + 1 <= K, dcg[n] = w[n] PROVE dcg[n + 1] = w[n + 1]
    <2>1. n + 1 \in 0..K /\ n + 1 # 0 /\ (n + 1) - 1 = n /\ n + 1 \in 1..K
      BY <1>2, <1>6
    <2>2. dcg[n + 1] = dcg[n] + (IF n + 1 \in ranks THEN Discount[n + 1] ELSE 0)
      BY <1>4, <2>1
    <2> QED
      BY <2>1, <2>2, <1>6
  <1> DEFINE T == {n \in Nat : n <= K => dcg[n] = w[n]}
  <1>7. 0 \in T
    BY <1>5
  <1>8. ASSUME NEW n \in Nat, n \in T PROVE n + 1 \in T
    BY <1>8, <1>6, <1>2
  <1> HIDE DEF T
  <1>9. Nat \subseteq T
    BY <1>7, <1>8, NatSetInduction
  <1> QED
    BY <1>1, <1>2, <1>9 DEF T

\* A nonempty set of natural numbers has a least element.
LEMMA LeastIn ==
  ASSUME NEW S \in SUBSET Nat, S # {}
  PROVE  Min(S) \in S /\ \A m \in S : Min(S) <= m
  <1>1. IsWellFoundedOn(OpToRel(<, Nat), Nat)
    BY NatLessThanWellFounded
  <1>2. PICK n \in S : \A m \in S : ~ (<<m, n>> \in OpToRel(<, Nat))
    BY <1>1, WFMin
  <1>3. \A m \in S : ~ (m < n)
    BY <1>2 DEF OpToRel
  <1>4. n \in S /\ \A m \in S : n <= m
    BY <1>3
  <1> QED
    BY <1>4 DEF Min

\* The metrics of some queries agree with each other.
SumsOK(s) ==
  /\ s \in [n : Nat, bi : Nat, final : Nat, mrr : Nat, ndcg : Nat, hits : Nat, empty : Nat]
  /\ s.final <= s.bi /\ s.bi + s.empty <= s.n
  /\ s.mrr <= Unit * s.final /\ RetrievalK * s.mrr >= Unit * s.final
  /\ s.ndcg <= Unit * s.final /\ (s.final > 0 => s.ndcg > 0)
  /\ s.final <= s.hits

\* The reciprocal of a rank, in parts of Unit, is not too small.
LEMMA Divisor ==
  ASSUME NEW u \in Nat \ {0}, NEW r \in Nat \ {0}, NEW k \in Nat, r <= k, u % r = 0
  PROVE  u \div r \in Nat /\ u \div r <= u /\ k * (u \div r) >= u
  <1> DEFINE q == u \div r
  <1>1. q \in Nat /\ u = r * q
    OBVIOUS
  <1> HIDE DEF q
  <1>2. q <= r * q
    BY <1>1
  <1>3. PICK e \in Nat : k = r + e
    <2>1. k - r \in Nat /\ k = r + (k - r)
      OBVIOUS
    <2> QED
      BY <2>1
  <1>4. k * q = r * q + e * q /\ e * q \in Nat
    BY <1>1, <1>3
  <1>5. k * q >= u /\ q <= u
    BY <1>1, <1>2, <1>4
  <1> QED
    BY <1>1, <1>5 DEF q

\* Multiplied and divided by the same number.
LEMMA Quotient ==
  ASSUME NEW a \in Nat, NEW u \in Nat \ {0}
  PROVE  (a * u) \div u = a
  OBVIOUS

\* No hit, no gain.
LEMMA GainOfNone == Gain({}) = 0
  <1> DEFINE w == [i \in 0..RetrievalK |-> 0]
  <1>1. RetrievalK \in Nat
    BY EvaluationAssumption
  <1>2. \A i \in 1..RetrievalK : i \in 0..RetrievalK /\ i - 1 \in 0..RetrievalK
    BY <1>1
  <1>3. \A i \in 1..RetrievalK : w[i] = w[i - 1] + (IF i \in {} THEN Discount[i] ELSE 0)
    BY <1>2
  <1>4. w \in [0..RetrievalK -> Nat] /\ w[0] = 0 /\ w[RetrievalK] = 0
    BY <1>1
  <1>5. {} \in SUBSET (1..RetrievalK)
    OBVIOUS
  <1> HIDE DEF w
  <1> QED
    BY <1>3, <1>4, <1>5, GainOfOne

\* One hit gains the discount of its rank.
LEMMA GainOfRank ==
  ASSUME NEW r \in 1..RetrievalK
  PROVE  Gain({r}) = Discount[r]
  <1> DEFINE w == [i \in 0..RetrievalK |-> IF i < r THEN 0 ELSE Discount[r]]
  <1>1. RetrievalK \in Nat /\ Discount[r] \in Nat
    BY EvaluationAssumption
  <1>2. \A i \in 1..RetrievalK : i \in 0..RetrievalK /\ i - 1 \in 0..RetrievalK
    BY <1>1
  <1>3. \A i \in 1..RetrievalK : w[i] = w[i - 1] + (IF i \in {r} THEN Discount[i] ELSE 0)
    BY <1>1, <1>2
  <1>4. w \in [0..RetrievalK -> Nat] /\ w[0] = 0 /\ w[RetrievalK] = Discount[r]
    BY <1>1
  <1> HIDE DEF w
  <1> QED
    BY <1>3, <1>4, GainOfOne

\* The metrics of one query with at most one hit, as numbers.
LEMMA OneQuery ==
  ASSUME NEW b \in {0, 1}, NEW h \in {0, 1}, h <= b, NEW q \in Nat, NEW g \in Nat,
         q <= Unit, RetrievalK * q >= Unit \/ h = 0, g <= Unit, g > 0 \/ h = 0,
         h = 0 => q = 0 /\ g = 0
  PROVE  SumsOK([n |-> 1, bi |-> b, final |-> h, mrr |-> q, ndcg |-> g, hits |-> h, empty |-> 0])
  <1> DEFINE u == [n |-> 1, bi |-> b, final |-> h, mrr |-> q, ndcg |-> g, hits |-> h, empty |-> 0]
  <1>1. Unit \in Nat /\ RetrievalK \in Nat
    BY EvaluationAssumption
  <1>2. Unit * 0 = 0 /\ Unit * 1 = Unit /\ RetrievalK * 0 = 0
    BY <1>1
  <1>3. q <= Unit * h /\ RetrievalK * q >= Unit * h /\ g <= Unit * h
    <2>1. CASE h = 0
      BY <2>1, <1>2
    <2>2. CASE h = 1
      BY <2>2, <1>1, <1>2
    <2> QED
      BY <2>1, <2>2
  <1>4. /\ u \in [n : Nat, bi : Nat, final : Nat, mrr : Nat, ndcg : Nat, hits : Nat, empty : Nat]
        /\ u.n = 1 /\ u.bi = b /\ u.final = h /\ u.mrr = q /\ u.ndcg = g /\ u.hits = h
        /\ u.empty = 0
    OBVIOUS
  <1> HIDE DEF u
  <1>5. SumsOK(u)
    BY <1>3, <1>4 DEF SumsOK
  <1> QED
    BY <1>5 DEF u

\* Whatever the search returned for one relevant document, the metrics agree:
\* a document that came twice is counted at its first rank, so there is at most
\* one hit, and its discount is at most that of the ideal first rank.
LEMMA MeasuredSound ==
  ASSUME NEW results \in Results, NEW d, NEW k \in Nat \ {0}
  PROVE  SumsOK(Measured(results, {d}, k))
  <1> DEFINE kept == {i \in DOMAIN results : results[i].high}
             Rank(i) == Cardinality({j \in kept : j <= i})
             final == {i \in kept : Rank(i) <= k}
             found == Hits(results, final, {d})
             hits == {Rank(i) : i \in found}
             ideal == 1..Min({Cardinality({d}), Cardinality(final)})
             m == Measured(results, {d}, k)
  <1>a. RetrievalK \in Nat \ {0} /\ Unit \in Nat \ {0} /\ Discount[1] = Unit
    BY EvaluationAssumption
  <1>1. kept \subseteq 1..RetrievalK
    <2>1. PICK l \in 0..RetrievalK :
            results \in [1..l -> [doc : {DocId(c) : c \in Indexed}, high : BOOLEAN]]
      BY DEF Results, SeqOf
    <2> QED
      BY <2>1, <1>a
  <1>2. CASE kept = {}
    <2>1. m = Nothing
      BY <1>2 DEF Measured
    <2> QED
      BY <1>a, <2>1 DEF SumsOK, Nothing
  <1>3. CASE kept # {}
    <2>1. m = [n     |-> 1,
               bi    |-> IF \E i \in kept : results[i].doc \in {d} THEN 1 ELSE 0,
               final |-> IF hits # {} THEN 1 ELSE 0,
               mrr   |-> IF hits = {} THEN 0 ELSE Unit \div Min(hits),
               ndcg  |-> (Gain(hits) * Unit) \div Gain(ideal),
               hits  |-> Cardinality(hits),
               empty |-> 0]
      BY <1>3 DEF Measured
    <2> HIDE DEF m
    <2>2. ASSUME NEW i \in kept
          PROVE  Rank(i) \in 1..RetrievalK
      <3> DEFINE S == {j \in kept : j <= i}
      <3>1. S \subseteq 1..RetrievalK /\ S # {}
        BY <1>1, <1>a
      <3>2. IsFiniteSet(1..RetrievalK) /\ Cardinality(1..RetrievalK) = RetrievalK
        BY <1>a, FS_Interval
      <3>3. IsFiniteSet(S) /\ Cardinality(S) <= RetrievalK
        BY <3>1, <3>2, FS_Subset
      <3>4. Cardinality(S) \in Nat /\ Cardinality(S) # 0
        BY <3>1, <3>3, FS_CardinalityType, FS_EmptySet
      <3> QED
        BY <3>3, <3>4, <1>a
    <2>3. final # {}
      <3>1. kept \in SUBSET Nat
        BY <1>1, <1>a
      <3>2. PICK i \in kept : \A j \in kept : i <= j
        BY <3>1, <1>3, LeastIn
      <3>3. {j \in kept : j <= i} = {i}
        BY <3>1, <3>2
      <3>4. Rank(i) = 1
        BY <3>3, FS_Singleton
      <3> QED
        BY <3>4
    <2>4. ideal = {1}
      <3>1. final \subseteq 1..RetrievalK
        BY <1>1
      <3>2. IsFiniteSet(final)
        <4>1. IsFiniteSet(1..RetrievalK)
          BY <1>a, FS_Interval
        <4> QED
          BY <3>1, <4>1, FS_Subset
      <3>3. Cardinality(final) \in Nat /\ Cardinality(final) # 0
        BY <2>3, <3>2, FS_CardinalityType, FS_EmptySet
      <3> HIDE DEF final
      <3>4. Cardinality({d}) = 1
        BY FS_Singleton
      <3>5. {1, Cardinality(final)} \in SUBSET Nat
        BY <3>3
      <3>6. Min({1, Cardinality(final)}) = 1
        BY <3>3, <3>5, LeastIn
      <3> QED
        BY <3>4, <3>6
    <2>5. Gain(ideal) = Unit
      <3>1. 1 \in 1..RetrievalK
        BY <1>a
      <3> QED
        BY ONLY <2>4, <3>1, <1>a, GainOfRank
    <2>6. found \subseteq final /\ \A i \in found : results[i].doc = d
      BY DEF Hits
    <2>7. \A i, j \in found : i = j
      <3>1. ASSUME NEW i \in found, NEW j \in found PROVE i <= j
        <4>1. i \in final /\ j \in final /\ results[i].doc = d /\ results[j].doc = d
          BY <2>6
        <4>2. \A l \in final : results[l].doc = results[i].doc => i <= l
          BY DEF Hits
        <4> QED
          BY <4>1, <4>2
      <3>2. \A i \in found : i \in Nat
        <4>1. found \subseteq kept
          BY <2>6
        <4> HIDE DEF kept, found
        <4> QED
          BY <4>1, <1>1, <1>a
      <3> HIDE DEF found
      <3> QED
        BY <3>1, <3>2
    <2>8. CASE found = {}
      <3>1. hits = {}
        BY <2>8
      <3>2. Cardinality(hits) = 0
        BY <3>1, FS_EmptySet
      <3> HIDE DEF kept, final, found, hits, ideal
      <3>3. (Gain(hits) * Unit) \div Gain(ideal) = 0
        <4>1. (0 * Unit) \div Unit = 0
          BY <1>a, Quotient
        <4> QED
          BY <3>1, <2>5, GainOfNone, <4>1
      <3> DEFINE b == IF \E i \in kept : results[i].doc \in {d} THEN 1 ELSE 0
      <3>4. m = [n |-> 1, bi |-> b, final |-> 0, mrr |-> 0, ndcg |-> 0, hits |-> 0, empty |-> 0]
        BY <2>1, <3>1, <3>2, <3>3
      <3>5. b \in {0, 1}
        OBVIOUS
      <3> HIDE DEF b
      <3> QED
        <4>1. SumsOK([n |-> 1, bi |-> b, final |-> 0, mrr |-> 0, ndcg |-> 0, hits |-> 0,
                      empty |-> 0])
          BY <3>5, <1>a, OneQuery
        <4> QED
          BY <3>4, <4>1 DEF m
    <2>9. CASE found # {}
      <3>1. PICK i \in found : found = {i}
        BY <2>7, <2>9
      <3>2. i \in kept /\ results[i].doc = d
        BY <2>6, <3>1
      <3> DEFINE r == Rank(i)
      <3>3. hits = {r}
        BY <3>1
      <3>4. r \in 1..RetrievalK
        BY <2>2, <3>2
      <3>5. \E j \in kept : results[j].doc \in {d}
        BY <3>2
      <3> HIDE DEF kept, final, found, hits, ideal, r
      <3>6. Cardinality(hits) = 1
        BY <3>3, FS_Singleton
      <3>7. r \in Nat \ {0} /\ r <= RetrievalK
        BY <3>4, <1>a
      <3>8. Min(hits) = r
        BY <3>3, <3>7, LeastIn
      <3>9. Unit % r = 0 /\ Discount[r] \in Nat \ {0}
        BY <3>4, EvaluationAssumption
      <3>10. Discount[r] <= Unit
        <4>1. r = 1 \/ 1 < r
          BY <3>7
        <4>2. 1 \in 1..RetrievalK
          BY <1>a
        <4> QED
          BY <4>1, <4>2, <3>4, <3>9, <1>a, EvaluationAssumption
      <3>11. (Gain(hits) * Unit) \div Gain(ideal) = Discount[r]
        BY <3>3, <3>4, <3>9, <2>5, <1>a, GainOfRank, Quotient
      <3>12. /\ Unit \div r \in Nat /\ Unit \div r <= Unit
             /\ RetrievalK * (Unit \div r) >= Unit
        BY <3>7, <3>9, <1>a, Divisor
      <3>13. m = [n |-> 1, bi |-> 1, final |-> 1, mrr |-> Unit \div r, ndcg |-> Discount[r],
                  hits |-> 1, empty |-> 0]
        BY <2>1, <3>3, <3>5, <3>6, <3>8, <3>11
      <3> DEFINE q == Unit \div r
      <3> HIDE DEF q
      <3>14. q \in Nat /\ q <= Unit * 1 /\ RetrievalK * q >= Unit * 1
        BY <3>12, <1>a DEF q
      <3>15. m = [n |-> 1, bi |-> 1, final |-> 1, mrr |-> q, ndcg |-> Discount[r],
                  hits |-> 1, empty |-> 0]
        BY <3>13 DEF q
      <3> QED
        <4> DEFINE g == Discount[r]
        <4>1. g \in Nat /\ g <= Unit /\ g > 0 /\ q <= Unit /\ RetrievalK * q >= Unit
          BY <3>9, <3>10, <3>14, <1>a
        <4> HIDE DEF g
        <4>2. SumsOK([n |-> 1, bi |-> 1, final |-> 1, mrr |-> q, ndcg |-> g, hits |-> 1,
                      empty |-> 0])
          BY <4>1, <3>14, OneQuery
        <4> QED
          BY <3>15, <4>2 DEF g, m
    <2> QED
      BY <2>8, <2>9
  <1> QED
    BY <1>2, <1>3

\* A query is counted whether something was found or not.
LEMMA MeasuredCounts ==
  ASSUME NEW results, NEW truth, NEW k
  PROVE  Measured(results, truth, k).n = 1
  <1>1. CASE {i \in DOMAIN results : results[i].high} = {}
    <2>1. Measured(results, truth, k) = Nothing
      BY <1>1 DEF Measured
    <2> QED
      BY <2>1 DEF Nothing
  <1>2. CASE {i \in DOMAIN results : results[i].high} # {}
    BY <1>2 DEF Measured
  <1> QED
    BY <1>1, <1>2

\* The sums of agreeing metrics agree.
LEMMA SumsAdd ==
  ASSUME NEW s, NEW t, SumsOK(s), SumsOK(t)
  PROVE  SumsOK(Added(s, t)) /\ Added(s, t).n = s.n + t.n
  <1> DEFINE u == [n |-> s.n + t.n, bi |-> s.bi + t.bi, final |-> s.final + t.final,
                   mrr |-> s.mrr + t.mrr, ndcg |-> s.ndcg + t.ndcg, hits |-> s.hits + t.hits,
                   empty |-> s.empty + t.empty]
  <1>1. Added(s, t) = u
    BY DEF Added, SumsOK
  <1>2. Unit \in Nat /\ RetrievalK \in Nat
    BY EvaluationAssumption
  <1>3. /\ Unit * (s.final + t.final) = Unit * s.final + Unit * t.final
        /\ RetrievalK * (s.mrr + t.mrr) = RetrievalK * s.mrr + RetrievalK * t.mrr
    BY <1>2 DEF SumsOK
  <1>4. /\ Unit * s.final \in Nat /\ Unit * t.final \in Nat
        /\ RetrievalK * s.mrr \in Nat /\ RetrievalK * t.mrr \in Nat
    BY <1>2 DEF SumsOK
  <1>5. /\ u.mrr <= Unit * u.final
        /\ RetrievalK * u.mrr >= Unit * u.final
        /\ u.ndcg <= Unit * u.final
    <2>1. /\ u.mrr = s.mrr + t.mrr /\ u.ndcg = s.ndcg + t.ndcg
          /\ u.final = s.final + t.final
      OBVIOUS
    <2> DEFINE a == Unit * s.final
               b == Unit * t.final
               c == RetrievalK * s.mrr
               e == RetrievalK * t.mrr
    <2>2. /\ s.mrr \in Nat /\ t.mrr \in Nat /\ s.ndcg \in Nat /\ t.ndcg \in Nat
          /\ s.mrr <= a /\ t.mrr <= b /\ s.ndcg <= a /\ t.ndcg <= b /\ c >= a /\ e >= b
          /\ a \in Nat /\ b \in Nat /\ c \in Nat /\ e \in Nat
      BY <1>4 DEF SumsOK
    <2>3. Unit * u.final = a + b /\ RetrievalK * u.mrr = c + e
      BY <2>1, <1>3
    <2> HIDE DEF a, b, c, e, u
    <2> QED
      BY <2>1, <2>2, <2>3
  <1>6. /\ u \in [n : Nat, bi : Nat, final : Nat, mrr : Nat, ndcg : Nat, hits : Nat, empty : Nat]
        /\ u.final <= u.bi /\ u.bi + u.empty <= u.n
        /\ u.final > 0 => u.ndcg > 0
        /\ u.final <= u.hits
    BY DEF SumsOK
  <1> HIDE DEF u
  <1>7. SumsOK(u)
    BY <1>5, <1>6 DEF SumsOK
  <1>8. u.n = s.n + t.n
    BY DEF u
  <1> QED
    BY <1>1, <1>7, <1>8

Verdicts == {"unseen", "short", "unanswered", "entailed", "refuted", "not judged"}
Record == [chunk : Chunks, full : {TRUE}]
Building ==
  [pc : {"next", "generate", "judge", "upload"}, attempts : Nat, tries : Nat,
   chunk : Chunks \cup {<<>>}, seen : [Chunks -> Verdicts], records : Seq(Record)]

\* The records are those of the entailed chunks, each once, while there is room.
BuildOK ==
  /\ build \in Building
  /\ Chunked(build.records) = {c \in Chunks \ Short : build.seen[c] = "entailed"}
  /\ \A i, j \in DOMAIN build.records :
       build.records[i].chunk = build.records[j].chunk => i = j
  /\ Len(build.records) <= BenchSize
  /\ build.pc \in {"generate", "judge"} =>
       /\ build.chunk \in Chunks \ Short /\ build.seen[build.chunk] = "unseen"
       /\ Len(build.records) < BenchSize
  /\ build.pc = "upload" /\ Len(build.records) < BenchSize => Left = {}

BuildInv == build = NotRunning \/ build.pc = "manifest" \/ BuildOK

\* A drift check: what it measured, exported and concluded.
DriftOK ==
  /\ job.kind \in {"rag", "decoder"}
  /\ DOMAIN job = {"kind", "pc", "gate", "rouge", "attempt", "code", "todo", "sums", "metrics",
                   "exported", "alert"}
  /\ job.pc \in {"resolve", "evaluate", "export", "gate", "exit", "done"}
  /\ job.gate \in BOOLEAN /\ job.exported \in BOOLEAN /\ job.alert \in BOOLEAN
  /\ job.rouge \in 0..Best /\ job.attempt \in {1, 2} /\ job.code \in {0, 1}
  /\ SumsOK(job.sums)
  /\ job.pc = "evaluate" => job.todo # <<>> \/ job.sums.n > 0
  /\ job.pc \in {"resolve", "evaluate"} => job.metrics = <<>>
  /\ DriftKey \in DOMAIN job.metrics => job.metrics[DriftKey] \in Int
  /\ job.pc \in {"gate", "exit", "done"} => job.metrics = <<>> \/ job.exported
  /\ job.pc \in {"exit", "done"} =>
       (job.code = 0 /\ job.gate /\ DriftKey \in DOMAIN job.metrics =>
          job.metrics[DriftKey] >= DriftMin)
  /\ job.alert => job.pc = "done" /\ job.attempt = 2 /\ job.code = 1

\* The retrieval evaluation of a training run.
ValOK ==
  /\ job.kind = "val"
  /\ DOMAIN job = {"kind", "pc", "code", "sums", "todo"}
  /\ job.pc \in {"evaluate", "exit"}
  /\ SumsOK(job.sums)

Answers == Seq([rouge : 0..Best, latency : {LatencyMax, LatencyMax + 1}])
Slow(answers) == {i \in DOMAIN answers : answers[i].latency > LatencyMax}

\* An end-to-end run: its answers, and that it passed for a reason.
E2eOK ==
  /\ job.kind = "e2e"
  /\ DOMAIN job = {"kind", "pc", "code", "errors", "answers", "samples", "todo"}
  /\ job.pc \in {"ask", "exit"}
  /\ job.answers \in Answers /\ job.errors \in Nat
  /\ job.pc = "exit" /\ job.code = 0 =>
       /\ Len(job.answers) > 0
       /\ RougeOf(job.answers) >= RougeMin * Len(job.answers)
       /\ 20 * Cardinality(Slow(job.answers)) <= Len(job.answers)
       /\ job.errors * 10 <= job.samples

JobInv == job = NotRunning \/ DriftOK \/ ValOK \/ E2eOK

\* If the answer at the 95th percentile is not slow, at most one in twenty is:
\* more than k answers do not exceed the latency at index k.
LEMMA FewSlow ==
  ASSUME NEW answers \in Answers, Len(answers) > 0, P95(answers) <= LatencyMax
  PROVE  20 * Cardinality(Slow(answers)) <= Len(answers)
  <1> DEFINE n == Len(answers)
             k == Min({(95 * n) \div 100, n - 1})
             D == 1..n
             Upto(l) == {i \in D : answers[i].latency <= l}
             L == {answers[i].latency : i \in D}
             Q == {l \in L : Cardinality(Upto(l)) > k}
  <1>1. n \in Nat \ {0} /\ DOMAIN answers = D
    BY DEF Answers
  <1>2. LatencyMax \in Nat
    BY EvaluationAssumption
  <1>3. \A i \in D : answers[i].latency \in {LatencyMax, LatencyMax + 1}
    <2>1. ASSUME NEW i \in D
          PROVE  answers[i] \in [rouge : 0..Best, latency : {LatencyMax, LatencyMax + 1}]
      BY <1>1, ElementOfSeq DEF Answers
    <2> QED
      BY <2>1
  <1>4. P95(answers) = Min(Q)
    BY <1>1 DEF P95, SortedAt
  <1>5. k \in Nat /\ k <= n - 1 /\ (k = n - 1 \/ k = (95 * n) \div 100)
    <2>1. (95 * n) \div 100 \in Nat /\ n - 1 \in Nat
      BY <1>1
    <2>2. {(95 * n) \div 100, n - 1} \in SUBSET Nat
      BY <2>1
    <2> QED
      BY <2>1, <2>2, LeastIn
  <1> HIDE DEF k, D, n
  <1>6. IsFiniteSet(D) /\ Cardinality(D) = n
    BY <1>1, FS_Interval DEF D
  <1>7. L \subseteq Nat /\ L \subseteq {LatencyMax, LatencyMax + 1}
    BY <1>2, <1>3
  <1>8. Q # {}
    <2>1. PICK l \in L : \A i \in D : answers[i].latency <= l
      <3>1. CASE LatencyMax + 1 \in L
        BY <3>1, <1>2, <1>3
      <3>2. CASE LatencyMax + 1 \notin L
        <4>1. 1 \in D
          BY <1>1 DEF D
        <4>2. \A i \in D : answers[i].latency = LatencyMax
          BY <3>2, <1>3
        <4> QED
          BY <4>1, <4>2, <1>2
      <3> QED
        BY <3>1, <3>2
    <2>2. Upto(l) = D
      BY <2>1
    <2> QED
      <3>1. n > k
        BY <1>1, <1>5
      <3> HIDE DEF Upto
      <3>2. Cardinality(Upto(l)) > k
        BY <2>2, <3>1, <1>6
      <3> QED
        BY <2>1, <3>2
  <1> DEFINE p == P95(answers)
  <1>9. p \in L /\ Cardinality(Upto(p)) > k
    <2>1. Q \in SUBSET Nat
      BY <1>7
    <2>2. Min(Q) \in Q
      BY <2>1, <1>8, LeastIn
    <2> QED
      BY <2>2, <1>4
  <1>10. Slow(answers) \subseteq D \ Upto(p)
    <2>1. Slow(answers) = {i \in D : answers[i].latency > LatencyMax}
      BY <1>1 DEF Slow
    <2> HIDE DEF p
    <2>2. p \in Nat /\ p <= LatencyMax
      BY <1>7, <1>9 DEF p
    <2>3. ASSUME NEW i \in D, answers[i].latency > LatencyMax
          PROVE  ~ (answers[i].latency <= p)
      BY <2>2, <2>3, <1>2, <1>3
    <2> QED
      BY <2>1, <2>3
  <1> HIDE DEF p, Upto
  <1>11. /\ IsFiniteSet(Upto(p)) /\ Upto(p) \subseteq D /\ Cardinality(Upto(p)) \in Nat
    <2>1. Upto(p) \subseteq D
      BY DEF Upto
    <2> QED
      BY <2>1, <1>6, FS_Subset, FS_CardinalityType
  <1>12. IsFiniteSet(D \ Upto(p)) /\ Cardinality(D \ Upto(p)) = n - Cardinality(Upto(p))
    <2>1. D \cap Upto(p) = Upto(p)
      BY <1>11
    <2> QED
      BY <2>1, <1>6, FS_Difference
  <1>13. Cardinality(Slow(answers)) \in Nat /\ Cardinality(Slow(answers)) <= n - Cardinality(Upto(p))
    <2>1. IsFiniteSet(Slow(answers)) /\ Cardinality(Slow(answers)) <= Cardinality(D \ Upto(p))
      BY <1>10, <1>12, FS_Subset
    <2> QED
      BY <2>1, <1>12, FS_CardinalityType
  <1>14. Cardinality(Slow(answers)) <= n - k - 1
    BY <1>13, <1>9, <1>11, <1>5, <1>1
  <1>15. 20 * Cardinality(Slow(answers)) <= n
    BY <1>14, <1>13, <1>5, <1>1
  <1> QED
    BY <1>15 DEF n

-----------------------------------------------------------------------------
\* The benchmark.

\* Nothing is being built at first.
LEMMA BuildInitially == EvaluationInit => BuildInv
  BY DEF EvaluationInit, BuildInv

\* While chunks are tried the build is as BuildOK says.
LEMMA Busy ==
  ASSUME BuildInv, build.pc \in {"next", "generate", "judge", "upload"}
  PROVE  BuildOK
  <1>1. NotRunning.pc = "idle"
    BY DEF NotRunning
  <1> QED
    BY <1>1 DEF BuildInv

\* A build begins with every chunk unseen and no record.
LEMMA BuildStarts ==
  ASSUME BuildStart
  PROVE  BuildInv'
  <1>1. PICK a \in {1, Attempts} :
          build' = [pc |-> "next", attempts |-> a, tries |-> 0, chunk |-> <<>>,
                    seen |-> Unseen, records |-> <<>>]
    BY DEF BuildStart
  <1>2. a \in Nat /\ BenchSize \in Nat
    BY EvaluationAssumption
  <1>3. build' \in Building'
    <2>1. Unseen \in [Chunks -> Verdicts] /\ <<>> \in Seq(Record)
      BY DEF Unseen, Verdicts
    <2> QED
      BY <1>1, <1>2, <2>1 DEF Building
  <1>4. Chunked(build.records)' = {c \in Chunks \ Short : build'.seen[c] = "entailed"}
    BY <1>1 DEF Chunked, Unseen
  <1> QED
    BY <1>1, <1>2, <1>3, <1>4 DEF BuildInv, BuildOK

\* The loop takes a chunk that it has not seen, or ends.
LEMMA ChunkTried ==
  ASSUME BuildInv, NextChunk
  PROVE  BuildInv'
  <1>1. /\ build \in Building /\ build.pc = "next"
        /\ Chunked(build.records) = {c \in Chunks \ Short : build.seen[c] = "entailed"}
        /\ \A i, j \in DOMAIN build.records :
             build.records[i].chunk = build.records[j].chunk => i = j
        /\ Len(build.records) <= BenchSize
    BY Busy DEF BuildOK, NextChunk
  <1>2. CASE (Len(build.records) >= BenchSize \/ Left = {}) /\ build' = [build EXCEPT !.pc = "upload"]
    <2>1. build' \in Building /\ build'.pc = "upload" /\ build'.seen = build.seen
          /\ build'.records = build.records
      BY <1>1, <1>2 DEF Building
    <2>2. Left' = Left /\ Chunked(build.records)' = Chunked(build.records)
      BY <2>1 DEF Left, Chunked
    <2>3. Len(build.records) \in Nat /\ BenchSize \in Nat
      BY <1>1, EvaluationAssumption DEF Building
    <2> QED
      BY <1>1, <1>2, <2>1, <2>2, <2>3 DEF BuildInv, BuildOK
  <1>3. CASE /\ Len(build.records) < BenchSize
             /\ \E c \in Left :
                  build' = IF c \in Short
                             THEN [build EXCEPT !.seen[c] = "short"]
                             ELSE [build EXCEPT !.pc = "generate", !.chunk = c, !.tries = 0]
    <2>1. PICK c \in Left :
            build' = IF c \in Short
                       THEN [build EXCEPT !.seen[c] = "short"]
                       ELSE [build EXCEPT !.pc = "generate", !.chunk = c, !.tries = 0]
      BY <1>3
    <2>2. c \in Chunks /\ build.seen[c] = "unseen"
      BY DEF Left
    <2>3. CASE c \in Short
      <3>1. build' \in Building /\ build'.pc = "next" /\ build'.records = build.records
            /\ build'.seen = [build.seen EXCEPT ![c] = "short"]
        BY <1>1, <2>1, <2>2, <2>3 DEF Building, Verdicts
      <3>2. {d \in Chunks \ Short : build'.seen[d] = "entailed"}
              = {d \in Chunks \ Short : build.seen[d] = "entailed"}
        BY <1>1, <2>3, <3>1 DEF Building
      <3> QED
        BY <1>1, <3>1, <3>2 DEF BuildInv, BuildOK, Chunked
    <2>4. CASE c \notin Short
      <3>1. build' \in Building /\ build'.pc = "generate" /\ build'.records = build.records
            /\ build'.seen = build.seen /\ build'.chunk = c
        BY <1>1, <2>1, <2>2, <2>4 DEF Building
      <3> QED
        BY <1>1, <1>3, <2>2, <2>4, <3>1 DEF BuildInv, BuildOK, Chunked
    <2> QED
      BY <2>3, <2>4
  <1> QED
    BY <1>2, <1>3 DEF NextChunk

\* What is not judged entailed leaves no record.
LEMMA ChunkSkipped ==
  ASSUME BuildInv, build.pc \in {"generate", "judge"},
         NEW why \in {"unanswered", "refuted", "not judged"}, build' = Skipped(why)
  PROVE  BuildInv'
  <1>1. /\ build \in Building
        /\ Chunked(build.records) = {c \in Chunks \ Short : build.seen[c] = "entailed"}
        /\ \A i, j \in DOMAIN build.records :
             build.records[i].chunk = build.records[j].chunk => i = j
        /\ Len(build.records) <= BenchSize
        /\ build.chunk \in Chunks \ Short /\ build.seen[build.chunk] = "unseen"
    BY Busy DEF BuildOK
  <1>2. build' \in Building /\ build'.pc = "next" /\ build'.records = build.records
        /\ build'.seen = [build.seen EXCEPT ![build.chunk] = why]
    BY <1>1 DEF Skipped, Building, Verdicts
  <1>3. {d \in Chunks \ Short : build'.seen[d] = "entailed"}
          = {d \in Chunks \ Short : build.seen[d] = "entailed"}
    BY <1>1, <1>2 DEF Building
  <1> QED
    <2>1. Chunked(build.records)' = Chunked(build.records)
      <3>1. build'.records = build.records
        BY <1>2
      <3> QED
        BY ONLY <3>1 DEF Chunked
    <2>2. build'.pc \notin {"generate", "judge", "upload"}
      BY <1>2
    <2>3. Chunked(build.records)' = {d \in Chunks \ Short : build'.seen[d] = "entailed"}
      BY <1>1, <1>3, <2>1
    <2>4. BuildOK'
      <3>1. /\ \A i, j \in DOMAIN build'.records :
                  build'.records[i].chunk = build'.records[j].chunk => i = j
            /\ Len(build'.records) <= BenchSize
        <4> DEFINE old == build.records
        <4>1. build'.records = old
          BY <1>2
        <4>2. (\A i, j \in DOMAIN old : old[i].chunk = old[j].chunk => i = j) /\ Len(old) <= BenchSize
          BY <1>1
        <4> HIDE DEF old
        <4> QED
          BY ONLY <4>1, <4>2
      <3>2. build' \in Building
        BY <1>2
      <3> QED
        BY ONLY <3>1, <3>2, <2>2, <2>3 DEF BuildOK, Building
    <2> QED
      BY <2>4 DEF BuildInv

\* A chunk that is called for again, or goes to the judge, is still unseen.
LEMMA ChunkMoves ==
  ASSUME BuildInv, build.pc \in {"generate", "judge"}, NEW pc \in {"generate", "judge"},
         NEW tries \in Nat, build' = [build EXCEPT !.pc = pc, !.tries = tries]
  PROVE  BuildInv'
  <1>1. /\ build \in Building
        /\ Chunked(build.records) = {c \in Chunks \ Short : build.seen[c] = "entailed"}
        /\ \A i, j \in DOMAIN build.records :
             build.records[i].chunk = build.records[j].chunk => i = j
        /\ Len(build.records) < BenchSize /\ Len(build.records) <= BenchSize
        /\ build.chunk \in Chunks \ Short /\ build.seen[build.chunk] = "unseen"
    BY Busy DEF BuildOK
  <1>2. build' \in Building /\ build'.pc \in {"generate", "judge"}
        /\ build'.records = build.records
        /\ build'.seen = build.seen /\ build'.chunk = build.chunk
    BY <1>1 DEF Building
  <1> QED
    <2>1. Chunked(build.records)' = Chunked(build.records)
      BY <1>2 DEF Chunked
    <2>2. BuildOK'
      BY <1>1, <1>2, <2>1 DEF BuildOK
    <2> QED
      BY <2>2 DEF BuildInv

\* A chunk judged entailed is appended, and was not among the records.
LEMMA ChunkKept ==
  ASSUME BuildInv, build.pc = "judge",
         build' = [Skipped("entailed") EXCEPT
                     !.records = Append(@, [chunk |-> build.chunk, full |-> TRUE])]
  PROVE  BuildInv'
  <1> DEFINE e == [chunk |-> build.chunk, full |-> TRUE]
             old == build.records
             new == build'.records
  <1>1. /\ build \in Building
        /\ Chunked(old) = {c \in Chunks \ Short : build.seen[c] = "entailed"}
        /\ \A i, j \in DOMAIN old : old[i].chunk = old[j].chunk => i = j
        /\ Len(old) < BenchSize
        /\ build.chunk \in Chunks \ Short /\ build.seen[build.chunk] = "unseen"
    BY Busy DEF BuildOK
  <1>2. old \in Seq(Record) /\ e \in Record /\ build.seen \in [Chunks -> Verdicts]
    BY <1>1 DEF Building, Record
  <1>3. /\ new = Append(old, e) /\ build'.pc = "next"
        /\ build'.seen = [build.seen EXCEPT ![build.chunk] = "entailed"]
        /\ build'.attempts = build.attempts /\ build'.tries = build.tries
        /\ build'.chunk = build.chunk
        /\ DOMAIN build' = DOMAIN build
    BY <1>1 DEF Skipped, Building
  <1>4. /\ new \in Seq(Record) /\ Len(new) = Len(old) + 1 /\ new[Len(old) + 1] = e
        /\ \A i \in 1..Len(old) : new[i] = old[i]
        /\ DOMAIN new = 1..(Len(old) + 1) /\ DOMAIN old = 1..Len(old)
        /\ Len(old) \in Nat
    <2> HIDE DEF old, e, new
    <2>1. /\ Append(old, e) \in Seq(Record) /\ Len(Append(old, e)) = Len(old) + 1
          /\ \A i \in 1..Len(old) : Append(old, e)[i] = old[i]
          /\ Append(old, e)[Len(old) + 1] = e
      BY <1>2, AppendProperties
    <2>2. Len(old) \in Nat /\ DOMAIN old = 1..Len(old) /\ DOMAIN new = 1..Len(new)
      BY <1>2, <1>3, <2>1, LenProperties
    <2> QED
      BY <1>3, <2>1, <2>2
  <1>5. build' \in Building
    <2>1. build' = [build EXCEPT !.pc = "next", !.records = new, !.seen = build'.seen]
      BY <1>1, <1>3 DEF Building, Skipped
    <2>2. build'.seen \in [Chunks -> Verdicts]
      <3>1. "entailed" \in Verdicts
        BY DEF Verdicts
      <3>2. build.seen \in [Chunks -> Verdicts]
        BY <1>2
      <3>3. build'.seen = [build.seen EXCEPT ![build.chunk] = "entailed"]
        BY <1>3
      <3> HIDE DEF old, e, new
      <3> QED
        BY ONLY <3>1, <3>2, <3>3
    <2> HIDE DEF new
    <2> QED
      BY <1>1, <1>4, <2>1, <2>2 DEF Building
  <1>6. Chunked(new) = Chunked(old) \cup {build.chunk}
    BY <1>4 DEF Chunked
  <1>7. {d \in Chunks \ Short : build'.seen[d] = "entailed"}
          = {d \in Chunks \ Short : build.seen[d] = "entailed"} \cup {build.chunk}
    BY <1>1, <1>2, <1>3
  <1>8. \A i \in 1..Len(old) : old[i].chunk # build.chunk
    <2>1. build.chunk \notin Chunked(old)
      BY <1>1
    <2> QED
      BY <2>1, <1>4 DEF Chunked
  <1>9. \A i, j \in DOMAIN new : new[i].chunk = new[j].chunk => i = j
    <2>1. ASSUME NEW i \in DOMAIN new, NEW j \in DOMAIN new, new[i].chunk = new[j].chunk, i # j
          PROVE  FALSE
      <3>1. CASE i \in 1..Len(old) /\ j \in 1..Len(old)
        BY <1>1, <1>4, <2>1, <3>1
      <3>2. CASE i = Len(old) + 1
        <4>1. j \in 1..Len(old)
          BY <1>4, <2>1, <3>2
        <4> QED
          BY <4>1, <1>4, <1>8, <2>1, <3>2
      <3>3. CASE j = Len(old) + 1
        <4>1. i \in 1..Len(old)
          BY <1>4, <2>1, <3>3
        <4> QED
          BY <4>1, <1>4, <1>8, <2>1, <3>3
      <3> QED
        BY <3>1, <3>2, <3>3, <1>4
    <2> QED
      BY <2>1
  <1>10. Len(new) <= BenchSize
    BY <1>1, <1>4, EvaluationAssumption
  <1> QED
    BY <1>1, <1>3, <1>5, <1>6, <1>7, <1>9, <1>10 DEF BuildInv, BuildOK

\* Every step keeps the benchmark's invariant.
LEMMA BuildKeeps ==
  ASSUME BuildInv, EvaluationNext
  PROVE  BuildInv'
  <1>1. CASE UNCHANGED build
    BY <1>1 DEF BuildInv, BuildOK, Left, Chunked
  <1>2. CASE BuildStart
    BY <1>2, BuildStarts
  <1>3. CASE NextChunk
    BY <1>3, ChunkTried
  <1>4. CASE CallFails
    <2>1. build.pc = "generate" /\ build \in Building
      BY <1>4, Busy DEF CallFails, BuildOK
    <2>2. CASE build' = [build EXCEPT !.tries = @ + 1]
      <3>1. build.tries + 1 \in Nat /\ build.tries \in Nat
        BY <2>1 DEF Building
      <3>2. build' = [build EXCEPT !.pc = "generate", !.tries = build.tries + 1]
        BY <2>1, <2>2 DEF Building
      <3> QED
        BY <2>1, <3>1, <3>2, ChunkMoves
    <2>3. CASE build' = Skipped("unanswered")
      BY <2>1, <2>3, ChunkSkipped
    <2> QED
      BY <1>4, <2>2, <2>3 DEF CallFails
  <1>5. CASE Generate
    <2>1. build.pc = "generate" /\ build \in Building
      BY <1>5, Busy DEF Generate, BuildOK
    <2>2. CASE build' = [build EXCEPT !.pc = "judge"]
      <3>1. build.tries \in Nat /\ build' = [build EXCEPT !.pc = "judge", !.tries = build.tries]
        BY <2>1, <2>2 DEF Building
      <3> QED
        BY <2>1, <3>1, ChunkMoves
    <2>3. CASE build' = Skipped("unanswered")
      BY <2>1, <2>3, ChunkSkipped
    <2> QED
      BY <1>5, <2>2, <2>3 DEF Generate
  <1>6. CASE Judge
    <2>1. build.pc = "judge"
      BY <1>6 DEF Judge
    <2>2. \/ build' = [Skipped("entailed") EXCEPT
                         !.records = Append(@, [chunk |-> build.chunk, full |-> TRUE])]
          \/ build' = Skipped("refuted")
      BY <1>6 DEF Judge
    <2> QED
      BY <2>1, <2>2, ChunkKept, ChunkSkipped
  <1>7. CASE JudgeFails
    BY <1>7, ChunkSkipped DEF JudgeFails
  <1>8. CASE Upload
    BY <1>8 DEF Upload, BuildInv
  <1>9. CASE WriteManifest \/ Kill
    BY <1>9 DEF WriteManifest, Kill, BuildInv
  <1>10. CASE StartDrift \/ Resolve \/ Crash \/ StartVal \/ Search \/ Searched
    BY <1>10, <1>1 DEF StartDrift, Resolve, Crash, StartVal, Search, Searched
  <1>11. CASE Evaluate \/ Export \/ CheckDrift \/ Retry
    BY <1>11, <1>1 DEF Evaluate, Export, CheckDrift, Retry
  <1>12. CASE StartE2e \/ Skip \/ Answer \/ Refuse \/ Conclude \/ Finish
    BY <1>12, <1>1 DEF StartE2e, Skip, Answer, Refuse, Conclude, Finish
  <1> QED
    BY <1>2, <1>3, <1>4, <1>5, <1>6, <1>7, <1>8, <1>9, <1>10, <1>11, <1>12 DEF EvaluationNext

\* A finished benchmark holds the entailed chunks, each once, and is short only
\* when every chunk was tried (build_benchmark's loop).
THEOREM BenchmarkEntailed == EvaluationSpec => []RecordsEntailed
  <1>1. BuildInv /\ UNCHANGED evaluation => BuildInv'
    BY DEF evaluation, BuildInv, BuildOK, Left, Chunked
  <1>2. BuildInv => RecordsEntailed
    <2> SUFFICES ASSUME BuildInv, build # NotRunning, build.pc = "upload"
                 PROVE  RecordsEntailed
      BY DEF RecordsEntailed
    <2> DEFINE r == build.records
    <2>1. /\ build \in Building
          /\ Chunked(r) = {c \in Chunks \ Short : build.seen[c] = "entailed"}
          /\ \A i, j \in DOMAIN r : r[i].chunk = r[j].chunk => i = j
          /\ Len(r) <= BenchSize
          /\ Len(r) < BenchSize => Left = {}
      BY Busy DEF BuildOK
    <2>2. Len(r) = Cardinality(Chunked(r))
      <3> DEFINE f == [i \in DOMAIN r |-> r[i].chunk]
      <3>1. DOMAIN r = 1..Len(r) /\ Len(r) \in Nat
        BY <2>1, LenProperties DEF Building
      <3>2. IsFiniteSet(DOMAIN r) /\ Cardinality(DOMAIN r) = Len(r)
        BY <3>1, FS_Interval
      <3> HIDE DEF r
      <3>3. f \in Bijection(DOMAIN r, Chunked(r))
        BY <2>1 DEF Bijection, Injection, Surjection, IsInjective, Chunked
      <3> HIDE DEF f
      <3> QED
        BY <3>2, <3>3, FS_Bijection DEF ExistsBijection
    <2> QED
      BY <2>1, <2>2 DEF RecordsEntailed
  <1> QED
    BY <1>1, <1>2, BuildInitially, BuildKeeps, PTL DEF EvaluationSpec

-----------------------------------------------------------------------------
\* The evaluation job.

\* The sums of no query agree.
LEMMA NoSumsOK == SumsOK(NoSums) /\ NoSums.n = 0
  <1>2. Unit * 0 = 0 /\ RetrievalK * 0 = 0
    BY EvaluationAssumption
  <1> DEFINE u == NoSums
  <1>3. /\ u.n = 0 /\ u.bi = 0 /\ u.final = 0 /\ u.mrr = 0 /\ u.ndcg = 0 /\ u.hits = 0 /\ u.empty = 0
        /\ u \in [n : Nat, bi : Nat, final : Nat, mrr : Nat, ndcg : Nat, hits : Nat, empty : Nat]
    BY DEF NoSums, Nothing
  <1> HIDE DEF u
  <1>4. SumsOK(u)
    BY <1>2, <1>3 DEF SumsOK
  <1> QED
    BY <1>3, <1>4 DEF u

\* Which job is at a place.
LEMMA JobThere ==
  ASSUME JobInv, NEW pc, JobAt(pc)
  PROVE  /\ pc \in {"resolve", "export", "gate", "done"} => DriftOK
         /\ pc = "ask" => E2eOK
         /\ job.kind \in {"rag", "decoder"} => DriftOK
         /\ job.kind = "val" => ValOK
         /\ pc = "evaluate" => DriftOK \/ ValOK
  BY DEF JobInv, JobAt, DriftOK, ValOK, E2eOK

\* A drift check that exits with an honest code.
LEMMA DriftExits ==
  ASSUME DriftOK, job.pc \notin {"exit", "done"}, NEW code \in {0, 1}, Exits(code),
         job.metrics = <<>> \/ job.exported,
         code = 0 /\ job.gate /\ DriftKey \in DOMAIN job.metrics => job.metrics[DriftKey] >= DriftMin
  PROVE  DriftOK'
  <1>1. /\ DOMAIN job' = DOMAIN job /\ job'.pc = "exit" /\ job'.code = code
        /\ job'.kind = job.kind /\ job'.gate = job.gate /\ job'.rouge = job.rouge
        /\ job'.attempt = job.attempt /\ job'.sums = job.sums /\ job'.metrics = job.metrics
        /\ job'.exported = job.exported /\ job'.alert = job.alert
    BY DEF DriftOK, Exits
  <1>2. DriftKey' = DriftKey
    BY <1>1 DEF DriftKey
  <1> QED
    BY <1>1, <1>2 DEF DriftOK

\* A drift check starts with nothing measured.
LEMMA StartDriftKeeps == ASSUME StartDrift PROVE DriftOK'
  <1>1. PICK kind \in {"rag", "decoder"}, gate \in BOOLEAN, rouge \in 0..Best :
          job' = [kind |-> kind, pc |-> "resolve", gate |-> gate, rouge |-> rouge,
                  attempt |-> 1, code |-> 0, todo |-> <<>>, sums |-> NoSums,
                  metrics |-> <<>>, exported |-> FALSE, alert |-> FALSE]
    BY DEF StartDrift
  <1>2. DOMAIN <<>> = {}
    OBVIOUS
  <1>3. SumsOK(NoSums)
    BY NoSumsOK
  <1> QED
    BY <1>1, <1>2, <1>3 DEF DriftOK

\* It is given a benchmark that is not empty, or exits.
LEMMA ResolveKeeps == ASSUME JobInv, Resolve PROVE DriftOK'
  <1>1. DriftOK /\ job.pc = "resolve"
    BY JobThere DEF Resolve, JobAt
  <1>2. DOMAIN <<>> = {} /\ job.metrics = <<>>
    BY <1>1 DEF DriftOK
  <1>3. CASE Exits(1)
    BY <1>1, <1>2, <1>3, DriftExits
  <1>4. CASE job' = [job EXCEPT !.pc = "evaluate", !.todo = Benchmark] /\ Benchmark # <<>>
    <2>1. /\ DOMAIN job' = DOMAIN job /\ job'.pc = "evaluate" /\ job'.todo # <<>>
          /\ job'.kind = job.kind /\ job'.gate = job.gate /\ job'.rouge = job.rouge
          /\ job'.attempt = job.attempt /\ job'.sums = job.sums /\ job'.metrics = job.metrics
          /\ job'.exported = job.exported /\ job'.alert = job.alert /\ job'.code = job.code
      BY <1>1, <1>4 DEF DriftOK
    <2> QED
      BY <1>1, <1>2, <2>1 DEF DriftOK
  <1> QED
    BY <1>3, <1>4 DEF Resolve

\* An exception exits before anything is measured.
LEMMA CrashKeeps == ASSUME JobInv, Crash PROVE DriftOK'
  <1>1. DriftOK /\ job.pc = "evaluate"
    <2>1. DriftOK \/ ValOK
      BY JobThere DEF Crash
    <2> QED
      BY <2>1 DEF Crash, ValOK, JobAt
  <1>2. DOMAIN <<>> = {} /\ job.metrics = <<>>
    BY <1>1 DEF DriftOK
  <1> QED
    BY <1>1, <1>2, DriftExits DEF Crash

\* A retrieval evaluation starts with nothing measured.
LEMMA StartValKeeps == ASSUME StartVal PROVE ValOK'
  <1>1. PICK queries : job' = [kind |-> "val", pc |-> "evaluate", code |-> 0, sums |-> NoSums,
                               todo |-> queries]
    BY DEF StartVal
  <1> QED
    BY <1>1, NoSumsOK DEF ValOK

\* One query's metrics are added to those that agree.
LEMMA SearchKeeps == ASSUME JobInv, Search PROVE JobInv'
  <1>1. job.kind \in {"rag", "val"} /\ job.pc = "evaluate" /\ job # NotRunning
    BY DEF Search, JobAt
  <1> DEFINE truth == Truth(job.kind, Head(job.todo).chunk)
             k == IF job.kind = "val" THEN RetrievalK ELSE RerankK
  <1>2. PICK results \in Results :
          job' = [job EXCEPT !.todo = Tail(@), !.sums = Added(@, Measured(results, truth, k))]
    BY DEF Search
  <1>3. k \in Nat \ {0}
    BY EvaluationAssumption
  <1>4. \E d : truth = {d}
    BY DEF Truth
  <1> HIDE DEF truth, k
  <1> DEFINE m == Measured(results, truth, k)
  <1>5. SumsOK(m)
    BY <1>3, <1>4, MeasuredSound
  <1> HIDE DEF m
  <1>6. SumsOK(job.sums) /\ "sums" \in DOMAIN job /\ "todo" \in DOMAIN job
    BY <1>1, JobThere DEF JobInv, DriftOK, ValOK, E2eOK
  <1> DEFINE s == Added(job.sums, m)
  <1>7. SumsOK(s) /\ s.n = job.sums.n + m.n
    BY <1>5, <1>6, SumsAdd
  <1>8. s.n > 0
    <2>1. m.n = 1
      BY MeasuredCounts DEF m
    <2> HIDE DEF s
    <2> QED
      BY <1>6, <1>7, <2>1 DEF SumsOK
  <1>9. job'.sums = s /\ DOMAIN job' = DOMAIN job
    BY <1>2, <1>6 DEF m
  <1> HIDE DEF s
  <1>10. \A f \in DOMAIN job : f \notin {"sums", "todo"} => job'[f] = job[f]
    BY <1>2
  <1>11. CASE DriftOK
    <2>1. /\ job'.pc = job.pc /\ job'.code = job.code
          /\ job'.kind = job.kind /\ job'.gate = job.gate /\ job'.rouge = job.rouge
          /\ job'.attempt = job.attempt /\ job'.metrics = job.metrics
          /\ job'.exported = job.exported /\ job'.alert = job.alert
      BY <1>10, <1>11 DEF DriftOK
    <2>2. DriftKey' = DriftKey
      BY <2>1 DEF DriftKey
    <2>3. DriftOK'
      BY <1>7, <1>8, <1>9, <1>11, <2>1, <2>2 DEF DriftOK
    <2> QED
      BY <2>3 DEF JobInv
  <1>12. CASE ValOK
    <2>1. job'.pc = job.pc /\ job'.kind = job.kind
      BY <1>10, <1>12 DEF ValOK
    <2>2. ValOK'
      BY <1>7, <1>9, <1>12, <2>1 DEF ValOK
    <2> QED
      BY <2>2 DEF JobInv
  <1> QED
    BY <1>1, <1>11, <1>12, JobThere DEF JobInv, E2eOK

\* The means are numbers: at least one query was counted.
LEMMA SearchedKeeps == ASSUME JobInv, Searched PROVE JobInv'
  <1>1. job.kind \in {"rag", "val"} /\ job.pc = "evaluate" /\ job # NotRunning /\ job.todo = <<>>
    BY DEF Searched, JobAt
  <1>2. CASE job.kind = "val"
    <2>1. ValOK /\ Exits(0)
      BY <1>1, <1>2 DEF Searched, JobInv, DriftOK, ValOK, E2eOK
    <2>2. job'.pc = "exit" /\ job'.kind = job.kind /\ job'.sums = job.sums /\ DOMAIN job' = DOMAIN job
      BY <2>1 DEF ValOK, Exits
    <2>3. ValOK'
      BY <2>1, <2>2 DEF ValOK
    <2> QED
      BY <2>3 DEF JobInv
  <1>3. CASE job.kind # "val"
    <2>1. DriftOK /\ job.kind = "rag"
      BY <1>1, <1>3 DEF JobInv, DriftOK, ValOK, E2eOK
    <2> DEFINE recall == (100 * job.sums.bi) \div job.sums.n
               mrr == (100 * job.sums.mrr) \div (Unit * job.sums.n)
               metrics == [recall_biencoder |-> recall, mrr |-> mrr]
    <2>2. job' = [job EXCEPT !.pc = "export", !.metrics = metrics]
      BY <1>3 DEF Searched
    <2>3. recall \in Int
      <3>1. job.sums.n > 0 /\ job.sums.n \in Nat /\ job.sums.bi \in Nat
        BY <1>1, <2>1 DEF DriftOK, SumsOK
      <3> QED
        BY <3>1
    <2>4. metrics.recall_biencoder = recall
      OBVIOUS
    <2> HIDE DEF metrics, recall
    <2>5. /\ DOMAIN job' = DOMAIN job /\ job'.pc = "export" /\ job'.metrics = metrics
          /\ job'.kind = job.kind /\ job'.gate = job.gate /\ job'.rouge = job.rouge
          /\ job'.attempt = job.attempt /\ job'.sums = job.sums /\ job'.code = job.code
          /\ job'.exported = job.exported /\ job'.alert = job.alert
      BY <2>1, <2>2 DEF DriftOK
    <2>6. DriftKey' = "recall_biencoder"
      BY <2>1, <2>5 DEF DriftKey
    <2>7. DriftOK'
      BY <1>1, <2>1, <2>3, <2>4, <2>5, <2>6 DEF DriftOK
    <2> QED
      BY <2>7 DEF JobInv
  <1> QED
    BY <1>2, <1>3

\* What the decoder's metrics hold of rouge1 is a number.
LEMMA EvaluateKeeps == ASSUME JobInv, Evaluate PROVE DriftOK'
  <1>1. DriftOK /\ job.kind = "decoder" /\ job.pc = "evaluate"
    BY JobThere DEF Evaluate, JobAt
  <1>2. DOMAIN <<>> = {} /\ job.metrics = <<>>
    BY <1>1 DEF DriftOK
  <1>3. PICK failed \in SUBSET Classes :
          IF failed = Classes THEN Exits(0)
          ELSE job' = [job EXCEPT !.pc = "export", !.metrics = Computed(failed, job.rouge)]
    BY DEF Evaluate
  <1>4. CASE failed = Classes
    BY <1>1, <1>2, <1>3, <1>4, DriftExits
  <1>5. CASE failed # Classes
    <2> DEFINE metrics == Computed(failed, job.rouge)
    <2>1. "rouge1" \in DOMAIN metrics => metrics["rouge1"] \in Int
      <3>1. (100 * job.rouge) \div Best \in Int
        BY <1>1, EvaluationAssumption DEF DriftOK
      <3> QED
        BY <3>1 DEF Computed
    <2> HIDE DEF metrics
    <2>2. job' = [job EXCEPT !.pc = "export", !.metrics = metrics]
      BY <1>3, <1>5 DEF metrics
    <2>3. /\ DOMAIN job' = DOMAIN job /\ job'.pc = "export" /\ job'.metrics = metrics
          /\ job'.kind = job.kind /\ job'.gate = job.gate /\ job'.rouge = job.rouge
          /\ job'.attempt = job.attempt /\ job'.sums = job.sums /\ job'.code = job.code
          /\ job'.exported = job.exported /\ job'.alert = job.alert
      BY <1>1, <2>2 DEF DriftOK
    <2>4. DriftKey' = "rouge1"
      BY <1>1, <2>3 DEF DriftKey
    <2> QED
      BY <1>1, <2>1, <2>3, <2>4 DEF DriftOK
  <1> QED
    BY <1>4, <1>5

\* Metrics are exported before they are judged.
LEMMA ExportKeeps == ASSUME JobInv, Export PROVE DriftOK'
  <1>1. DriftOK /\ job.pc = "export"
    BY JobThere DEF Export, JobAt
  <1>2. /\ DOMAIN job' = DOMAIN job /\ job'.pc = "gate" /\ job'.metrics = job.metrics
        /\ job'.kind = job.kind /\ job'.gate = job.gate /\ job'.rouge = job.rouge
        /\ job'.attempt = job.attempt /\ job'.sums = job.sums /\ job'.code = job.code
        /\ job'.exported = TRUE /\ job'.alert = job.alert
    BY <1>1 DEF DriftOK, Export
  <1>3. DriftKey' = DriftKey
    BY <1>2 DEF DriftKey
  <1> QED
    BY <1>1, <1>2, <1>3 DEF DriftOK

\* The check compares the metric that its pipeline names.
LEMMA CheckDriftKeeps == ASSUME JobInv, CheckDrift PROVE DriftOK'
  <1>1. DriftOK /\ job.pc = "gate"
    BY JobThere DEF CheckDrift, JobAt
  <1>2. job.metrics = <<>> \/ job.exported
    BY <1>1 DEF DriftOK
  <1>3. DriftKey \in DOMAIN job.metrics => job.metrics[DriftKey] \in Int
    BY <1>1 DEF DriftOK
  <1>4. DriftMin \in Int
    BY EvaluationAssumption
  <1>5. CASE job.gate /\ DriftKey \in DOMAIN job.metrics /\ job.metrics[DriftKey] < DriftMin
    <2>1. Exits(1)
      BY <1>5 DEF CheckDrift
    <2> QED
      BY <1>1, <1>2, <2>1, DriftExits
  <1>6. CASE ~ (job.gate /\ DriftKey \in DOMAIN job.metrics /\ job.metrics[DriftKey] < DriftMin)
    <2>1. Exits(0)
      BY <1>6 DEF CheckDrift
    <2> DEFINE x == job.metrics[DriftKey]
               there == DriftKey \in DOMAIN job.metrics
    <2>2. there => x \in Int
      BY <1>3
    <2>3. ~ (job.gate /\ there /\ x < DriftMin)
      BY <1>6
    <2> HIDE DEF x, there
    <2>4. job.gate /\ there => x >= DriftMin
      BY <1>4, <2>2, <2>3
    <2> QED
      BY <1>1, <1>2, <2>1, <2>4, DriftExits DEF x, there
  <1> QED
    BY <1>5, <1>6

\* The second attempt begins anew; the alert follows the second failure.
LEMMA RetryKeeps == ASSUME JobInv, Retry PROVE DriftOK'
  <1>1. DriftOK /\ job.pc = "exit"
    BY JobThere DEF Retry, JobAt
  <1>2. CASE job.code = 1 /\ job.attempt = 1
    <2>1. /\ DOMAIN job' = DOMAIN job /\ job'.pc = "resolve" /\ job'.metrics = <<>>
          /\ job'.kind = job.kind /\ job'.gate = job.gate /\ job'.rouge = job.rouge
          /\ job'.attempt = 2 /\ job'.sums = NoSums /\ job'.code = 0
          /\ job'.exported = FALSE /\ job'.alert = job.alert
      BY <1>1, <1>2 DEF DriftOK, Retry
    <2>2. DOMAIN <<>> = {}
      OBVIOUS
    <2> QED
      BY <1>1, <2>1, <2>2, NoSumsOK DEF DriftOK
  <1>3. CASE ~ (job.code = 1 /\ job.attempt = 1)
    <2>1. /\ DOMAIN job' = DOMAIN job /\ job'.pc = "done" /\ job'.metrics = job.metrics
          /\ job'.kind = job.kind /\ job'.gate = job.gate /\ job'.rouge = job.rouge
          /\ job'.attempt = job.attempt /\ job'.sums = job.sums /\ job'.code = job.code
          /\ job'.exported = job.exported /\ job'.alert = (job.code = 1)
      BY <1>1, <1>3 DEF DriftOK, Retry
    <2>2. DriftKey' = DriftKey
      BY <2>1 DEF DriftKey
    <2> QED
      BY <1>1, <1>3, <2>1, <2>2 DEF DriftOK
  <1> QED
    BY <1>2, <1>3
-----------------------------------------------------------------------------
\* The end-to-end run.

\* An end-to-end run starts without answers.
LEMMA StartE2eKeeps == ASSUME StartE2e PROVE E2eOK'
  <1>1. PICK pipeline \in {"rag", "decoder"}, healthy \in BOOLEAN :
          LET records == IF pipeline = "rag" THEN file ELSE decoder
              asks == healthy /\ records # <<>> /\ (pipeline = "rag" => manifest.uri)
              samples == Min({MaxSamples, Len(records)})
          IN  job' = [kind |-> "e2e", pc |-> IF asks THEN "ask" ELSE "exit",
                      code |-> IF asks THEN 0 ELSE 1, errors |-> 0, answers |-> <<>>,
                      samples |-> samples, todo |-> SubSeq(records, 1, samples)]
    BY DEF StartE2e
  <1> DEFINE records == IF pipeline = "rag" THEN file ELSE decoder
             asks == healthy /\ records # <<>> /\ (pipeline = "rag" => manifest.uri)
             samples == Min({MaxSamples, Len(records)})
             todo == SubSeq(records, 1, samples)
  <1>2. job' = [kind |-> "e2e", pc |-> IF asks THEN "ask" ELSE "exit",
                code |-> IF asks THEN 0 ELSE 1, errors |-> 0, answers |-> <<>>,
                samples |-> samples, todo |-> todo]
    BY <1>1
  <1> HIDE DEF asks, samples, todo
  <1>3. <<>> \in Answers
    BY DEF Answers
  <1> QED
    BY <1>2, <1>3 DEF E2eOK

\* Answers and errors are collected.
LEMMA AskKeeps == ASSUME JobInv, Skip \/ Answer \/ Refuse PROVE E2eOK'
  <1>1. E2eOK /\ job.pc = "ask"
    BY JobThere DEF Skip, Answer, Refuse, JobAt
  <1>2. /\ DOMAIN job' = DOMAIN job /\ job'.pc = "ask" /\ job'.kind = job.kind
    BY <1>1 DEF E2eOK, Skip, Answer, Refuse
  <1>3. CASE Skip
    <2>1. job'.answers = job.answers /\ job'.errors = job.errors
      BY <1>1, <1>3 DEF E2eOK, Skip
    <2> QED
      BY <1>1, <1>2, <2>1 DEF E2eOK
  <1>4. CASE Answer
    <2>1. PICK rouge \in 0..Best, latency \in {LatencyMax, LatencyMax + 1} :
            job' = [job EXCEPT !.todo = Tail(@),
                               !.answers = Append(@, [rouge |-> rouge, latency |-> latency])]
      BY <1>4 DEF Answer
    <2> DEFINE e == [rouge |-> rouge, latency |-> latency]
    <2>2. job'.answers = Append(job.answers, e) /\ job'.errors = job.errors
      BY <1>1, <2>1 DEF E2eOK
    <2>3. e \in [rouge : 0..Best, latency : {LatencyMax, LatencyMax + 1}]
      OBVIOUS
    <2> HIDE DEF e
    <2>4. Append(job.answers, e) \in Answers
      BY <1>1, <2>3, AppendProperties DEF E2eOK, Answers
    <2> QED
      BY <1>1, <1>2, <2>2, <2>4 DEF E2eOK
  <1>5. CASE Refuse
    <2>1. job'.answers = job.answers /\ job'.errors = job.errors + 1
      BY <1>1, <1>5 DEF E2eOK, Refuse
    <2> QED
      BY <1>1, <1>2, <2>1 DEF E2eOK
  <1> QED
    BY <1>3, <1>4, <1>5

\* The thresholds of _run_eval; FewSlow says what the percentile means.
LEMMA ConcludeKeeps == ASSUME JobInv, Conclude PROVE E2eOK'
  <1>1. E2eOK /\ job.pc = "ask"
    BY JobThere DEF Conclude, JobAt
  <1> DEFINE a == job.answers
             good == /\ a # <<>>
                     /\ RougeOf(a) >= RougeMin * Len(a)
                     /\ P95(a) <= LatencyMax
                     /\ 10 * job.errors <= job.samples
  <1>2. Exits(IF good THEN 0 ELSE 1)
    BY DEF Conclude
  <1>3. a \in Answers /\ job.errors \in Nat
    BY <1>1 DEF E2eOK
  <1>4. good => /\ Len(a) > 0 /\ RougeOf(a) >= RougeMin * Len(a)
                /\ 20 * Cardinality(Slow(a)) <= Len(a)
                /\ job.errors * 10 <= job.samples
    <2> SUFFICES ASSUME good
                 PROVE  /\ Len(a) > 0 /\ 20 * Cardinality(Slow(a)) <= Len(a)
                        /\ job.errors * 10 <= job.samples
      OBVIOUS
    <2>1. Len(a) > 0
      BY <1>3, EmptySeq, LenProperties DEF Answers
    <2>2. job.errors * 10 = 10 * job.errors
      BY <1>3
    <2> HIDE DEF a
    <2> QED
      BY <2>1, <2>2, <1>3, FewSlow
  <1> HIDE DEF good
  <1>5. /\ DOMAIN job' = DOMAIN job /\ job'.pc = "exit" /\ job'.kind = job.kind
        /\ job'.answers = a /\ job'.errors = job.errors /\ job'.samples = job.samples
        /\ job'.code = IF good THEN 0 ELSE 1
    BY <1>1, <1>2 DEF E2eOK, Exits
  <1> HIDE DEF a
  <1> QED
    BY <1>1, <1>3, <1>4, <1>5 DEF E2eOK

\* Every step keeps the job's invariant.
LEMMA JobKeeps == ASSUME JobInv, EvaluationNext PROVE JobInv'
  <1>1. CASE UNCHANGED job
    BY <1>1 DEF JobInv, DriftOK, ValOK, E2eOK, DriftKey
  <1>2. CASE BuildStart \/ NextChunk \/ CallFails \/ Generate \/ Judge \/ JudgeFails
    BY <1>1, <1>2 DEF BuildStart, NextChunk, CallFails, Generate, Judge, JudgeFails
  <1>3. CASE Upload \/ WriteManifest \/ Kill
    BY <1>1, <1>3 DEF Upload, WriteManifest, Kill
  <1>4. CASE StartDrift \/ Resolve \/ Crash \/ Evaluate \/ Export \/ CheckDrift \/ Retry
    BY <1>4, StartDriftKeeps, ResolveKeeps, CrashKeeps, EvaluateKeeps, ExportKeeps,
       CheckDriftKeeps, RetryKeeps DEF JobInv
  <1>5. CASE StartVal
    BY <1>5, StartValKeeps DEF JobInv
  <1>6. CASE Search \/ Searched
    BY <1>6, SearchKeeps, SearchedKeeps
  <1>7. CASE StartE2e \/ Skip \/ Answer \/ Refuse \/ Conclude
    BY <1>7, StartE2eKeeps, AskKeeps, ConcludeKeeps DEF JobInv
  <1>8. CASE Finish
    BY <1>8 DEF Finish, JobInv
  <1> QED
    BY <1>2, <1>3, <1>4, <1>5, <1>6, <1>7, <1>8 DEF EvaluationNext

\* JobInv holds.
LEMMA JobInvariant == EvaluationSpec => []JobInv
  <1>1. EvaluationInit => JobInv
    BY DEF EvaluationInit, JobInv
  <1>2. JobInv /\ UNCHANGED evaluation => JobInv'
    BY DEF evaluation, JobInv, DriftOK, ValOK, E2eOK, DriftKey
  <1> QED
    BY <1>1, <1>2, JobKeeps, PTL DEF EvaluationSpec

\* The metrics of retrieval agree with each other for every list a search can
\* return, every number of queries and every ranks' limit (RetrieverMetrics).
THEOREM MetricsAgree == EvaluationSpec => []RanksAgree
  <1>1. JobInv => RanksAgree
    <2> SUFFICES ASSUME JobInv, job # NotRunning, job.kind \in {"rag", "val"}
                 PROVE  SumsOK(job.sums)
      BY DEF RanksAgree, SumsOK
    <2> QED
      BY DEF JobInv, DriftOK, ValOK, E2eOK
  <1> QED
    BY <1>1, JobInvariant, PTL

\* What passed a gate deserves it: the end-to-end run and the drift checks.
THEOREM GatesSound == EvaluationSpec => []GateSound
  <1>1. JobInv => GateSound
    <2> SUFFICES ASSUME JobInv, job # NotRunning
                 PROVE  GateSound
      BY DEF GateSound, E2ePassed
    <2>1. CASE DriftOK
      BY <2>1 DEF GateSound, E2ePassed, DriftOK
    <2>2. CASE ValOK
      BY <2>2 DEF GateSound, E2ePassed, ValOK
    <2>3. CASE E2eOK
      BY <2>3 DEF GateSound, E2ePassed, E2eOK, Slow
    <2> QED
      BY <2>1, <2>2, <2>3 DEF JobInv
  <1> QED
    BY <1>1, JobInvariant, PTL
=============================================================================
