------------------------------- MODULE Gateway -------------------------------
(***************************************************************************)
(* The API gateway's chat endpoint: concurrent requests on one event loop, *)
(* each of which asks the RAG API through a circuit breaker (and goes on   *)
(* without documents when that fails), then opens a stream to the LLM      *)
(* server through a semaphore and a second breaker, and streams the        *)
(* answer.  A client may go away at any point of the stream.               *)
(*                                                                         *)
(* A step is what the event loop runs between two awaits.  The breakers    *)
(* (pybreaker) and the semaphore (asyncio) are libraries; they are         *)
(* modelled from how resilience.py and inference.py use them.              *)
(***************************************************************************)
EXTENDS Naturals, Sequences, FiniteSets

CONSTANTS
  Requests,    \* requests that are served at the same time
  Slots,       \* max_concurrent_requests
  FailMax,     \* LLM_BREAKER_FAIL_MAX and RAG_BREAKER_FAIL_MAX
  MaxLost      \* bound: requests whose stream never starts

ASSUME GatewayAssumption ==
  /\ IsFiniteSet(Requests)
  /\ Slots \in Nat \ {0}
  /\ FailMax \in Nat \ {0}
  /\ MaxLost \in Nat

VARIABLES
  req,        \* req[r]: where request r is, and whether it has no documents
  llm, rag,   \* the breakers
  free,       \* the value of the semaphore
  queue,      \* the requests that wait for it, first come first served
  inFlight,   \* the gauge LLM_REQUESTS_IN_FLIGHT
  lost        \* requests the gauge counted whose stream never started

vars == <<req, llm, rag, free, queue, inFlight, lost>>
backends == <<llm, rag, free, queue>>
-----------------------------------------------------------------------------
(* Circuit breakers.                                                       *)

Closed == [st |-> "closed", fails |-> 0]

\* A call goes through; in half-open one does, and others may.
Admits(b) == b.st \in {"closed", "half"}
Refuses(b) == b.st \in {"open", "half"}

\* The answer may come to a call admitted before the breaker opened.
AfterSuccess(b) == IF b.st = "open" THEN [b EXCEPT !.fails = 0] ELSE Closed

AfterFailure(b) ==
  LET n == IF b.fails < FailMax THEN b.fails + 1 ELSE FailMax
  IN  [st |-> IF b.st = "half" \/ n = FailMax THEN "open" ELSE b.st, fails |-> n]

\* The failure that opens the breaker is raised as CircuitBreakerError.
Trips(b) == b.st = "half" \/ b.fails + 1 >= FailMax

Outcomes(b) == {AfterSuccess(b), AfterFailure(b)}

\* reset_timeout has passed: the next call is the probe.
Elapse ==
  /\ \/ llm.st = "open" /\ llm' = [llm EXCEPT !.st = "half"] /\ UNCHANGED rag
     \/ rag.st = "open" /\ rag' = [rag EXCEPT !.st = "half"] /\ UNCHANGED llm
  /\ UNCHANGED <<req, free, queue, inFlight, lost>>
-----------------------------------------------------------------------------
Idle == [pc |-> "idle", degraded |-> FALSE]
At(r, pc) == req[r].pc = pc
Goto(r, pc) == req' = [req EXCEPT ![r].pc = pc]

Init ==
  /\ req = [r \in Requests |-> Idle]
  /\ llm = Closed
  /\ rag = Closed
  /\ free = Slots
  /\ queue = <<>>
  /\ inFlight = 0
  /\ lost = 0
-----------------------------------------------------------------------------
(* RAGOrchestrator.build_prompt                                            *)

\* chat_stream_endpoint calls build_prompt.
Arrive(r) ==
  /\ At(r, "idle")
  /\ Goto(r, "rag")
  /\ UNCHANGED <<backends, inFlight, lost>>

\* The prompt is rendered and the response created: the gauge counts it.
Respond(r, degraded) ==
  /\ req' = [req EXCEPT ![r] = [pc |-> "begin", degraded |-> degraded]]
  /\ inFlight' = inFlight + 1
  /\ UNCHANGED lost

RagRefused(r) ==
  /\ At(r, "rag")
  /\ Refuses(rag)
  /\ Respond(r, TRUE)
  /\ UNCHANGED backends

RagCall(r) ==
  /\ At(r, "rag")
  /\ Admits(rag)
  /\ Goto(r, "searching")
  /\ UNCHANGED <<backends, inFlight, lost>>

RagAnswers(r) ==
  /\ At(r, "searching")
  /\ rag' = AfterSuccess(rag)
  /\ Respond(r, FALSE)
  /\ UNCHANGED <<llm, free, queue>>

\* ConnectError, TimeoutException, HTTPStatusError, or the failure that opens
\* the breaker: the answer is generated without documents.
RagUnavailable(r) ==
  /\ At(r, "searching")
  /\ rag' = AfterFailure(rag)
  /\ Respond(r, TRUE)
  /\ UNCHANGED <<llm, free, queue>>

\* Any other exception, like httpx.ReadError, ends the request with a 500.
RagRaises(r) ==
  /\ At(r, "searching")
  /\ ~Trips(rag)
  /\ rag' = AfterFailure(rag)
  /\ req' = [req EXCEPT ![r] = Idle]
  /\ UNCHANGED <<llm, free, queue, inFlight, lost>>
-----------------------------------------------------------------------------
(* _stream_generator and LLMGenerationClient.generate_stream               *)

\* The three ways a stream comes to its finally clause, in the order of the
\* status it has there: "success", "error", "circuit_breaker_open".
Ending == {"ended", "failed", "refused"}

\* Mutant of Finally: a refused request was never counted.
FinallyIfCalled(r) ==
  /\ req[r].pc \in Ending
  /\ req' = [req EXCEPT ![r] = Idle]
  /\ inFlight' = IF At(r, "refused") THEN inFlight ELSE inFlight - 1
  /\ UNCHANGED <<backends, lost>>

\* The finally clause, after the last piece or the message to the client has
\* been taken, or the client is gone.
Finally(r) ==
  /\ req[r].pc \in Ending
  /\ req' = [req EXCEPT ![r] = Idle]
  /\ inFlight' = inFlight - 1
  /\ UNCHANGED <<backends, lost>>

\* The finally clause logs the triple of query, documents and answer.
Logs(r) == At(r, "ended") \/ (req[r].pc \in Ending /\ req[r].degraded)

\* The client is gone before the generator is first asked for a piece: a
\* generator that never ran has no finally.
NeverStarts(r) ==
  /\ At(r, "begin")
  /\ lost < MaxLost
  /\ req' = [req EXCEPT ![r] = Idle]
  /\ lost' = lost + 1
  /\ UNCHANGED <<backends, inFlight>>

\* The semaphore is taken, or somebody else has it or waits for it.
Wait(r) ==
  /\ At(r, "begin")
  /\ free = 0 \/ queue # <<>>
  /\ queue' = Append(queue, r)
  /\ Goto(r, "waiting")
  /\ UNCHANGED <<llm, rag, free, inFlight, lost>>

HasTurn(r) ==
  /\ free > 0
  /\ \/ At(r, "begin") /\ queue = <<>>
     \/ At(r, "waiting") /\ r = Head(queue)

Rest == IF queue = <<>> THEN <<>> ELSE Tail(queue)

\* With the semaphore the breaker is asked; it fails fast ...
LlmRefused(r) ==
  /\ HasTurn(r)
  /\ Refuses(llm)
  /\ queue' = Rest
  /\ Goto(r, "refused")
  /\ UNCHANGED <<llm, rag, free, inFlight, lost>>

\* ... or the connection is opened.
LlmCall(r) ==
  /\ HasTurn(r)
  /\ Admits(llm)
  /\ queue' = Rest
  /\ free' = free - 1
  /\ Goto(r, "connecting")
  /\ UNCHANGED <<llm, rag, inFlight, lost>>

\* The semaphore is released before the stream is read.
Connected(r) ==
  /\ At(r, "connecting")
  /\ llm' = AfterSuccess(llm)
  /\ free' = free + 1
  /\ Goto(r, "streaming")
  /\ UNCHANGED <<rag, queue, inFlight, lost>>

ConnectFails(r) ==
  /\ At(r, "connecting")
  /\ llm' = AfterFailure(llm)
  /\ free' = free + 1
  /\ Goto(r, IF Trips(llm) THEN "refused" ELSE "failed")
  /\ UNCHANGED <<rag, queue, inFlight, lost>>

\* The stream ends, or breaks; neither is the breaker's business.
StreamEnds(r) ==
  /\ At(r, "streaming")
  /\ Goto(r, "ended") \/ Goto(r, "failed")
  /\ UNCHANGED <<backends, inFlight, lost>>

\* The queue when r, if it waits, does so no longer.
QueueWithout(r) ==
  IF At(r, "waiting")
    THEN LET i == CHOOSE i \in DOMAIN queue : queue[i] = r
         IN  [j \in 1..Len(queue) - 1 |-> queue[IF j < i THEN j ELSE j + 1]]
    ELSE queue

\* Mutant of Leave: a slot is released whether or not the request has one.
LeaveAndRelease(r) ==
  /\ req[r].pc \in {"waiting", "connecting", "streaming"}
  /\ queue' = QueueWithout(r)
  /\ free' = free + 1
  /\ llm' \in {llm} \cup (IF At(r, "connecting") THEN Outcomes(llm) ELSE {})
  /\ Goto(r, "ended")
  /\ UNCHANGED <<rag, inFlight, lost>>

\* Mutant of Leave: the cancelled request keeps its slot.
LeaveWithSlot(r) ==
  /\ req[r].pc \in {"waiting", "connecting", "streaming"}
  /\ queue' = QueueWithout(r)
  /\ llm' \in {llm} \cup (IF At(r, "connecting") THEN Outcomes(llm) ELSE {})
  /\ Goto(r, "ended")
  /\ UNCHANGED <<rag, free, inFlight, lost>>

\* The client disconnects: the generator is cancelled at its await.  No except
\* clause sees that, so the status is still "success"; the breaker may count a
\* cancelled call as a success, as a failure or not at all.
Leave(r) ==
  /\ req[r].pc \in {"waiting", "connecting", "streaming"}
  /\ queue' = QueueWithout(r)
  /\ free' = IF At(r, "connecting") THEN free + 1 ELSE free
  /\ llm' \in {llm} \cup (IF At(r, "connecting") THEN Outcomes(llm) ELSE {})
  /\ Goto(r, "ended")
  /\ UNCHANGED <<rag, inFlight, lost>>

\* What the gateway and the services do with a request by themselves.
Serve(r) ==
  \/ RagRefused(r) \/ RagCall(r) \/ RagAnswers(r) \/ RagUnavailable(r) \/ RagRaises(r)
  \/ Wait(r) \/ LlmRefused(r) \/ LlmCall(r)
  \/ Connected(r) \/ ConnectFails(r) \/ StreamEnds(r) \/ Finally(r)

Next ==
  \/ \E r \in Requests : Arrive(r) \/ Serve(r) \/ NeverStarts(r) \/ Leave(r)
  \/ Elapse

\* httpx (http_timeout) and the OpenAI client time out, so every call and every
\* stream comes to an end, and the event loop runs every task that can go on.
Fairness == \A r \in Requests : WF_vars(Serve(r))

Spec == Init /\ [][Next]_vars /\ Fairness
-----------------------------------------------------------------------------
(* Properties.                                                             *)

Breaker == [st : {"closed", "open", "half"}, fails : 0..FailMax]
Pcs == {"idle", "rag", "searching", "begin", "waiting", "connecting", "streaming",
        "ended", "failed", "refused"}

\* Every variable has its type: the semaphore never exceeds what it began with,
\* the breakers' counters stop at FailMax.
TypeOK ==
  /\ req \in [Requests -> [pc : Pcs, degraded : BOOLEAN]]
  /\ llm \in Breaker /\ rag \in Breaker
  /\ free \in 0..Slots
  /\ queue \in Seq(Requests)
  /\ inFlight \in Nat
  /\ lost \in 0..MaxLost

InState(pcs) == {r \in Requests : req[r].pc \in pcs}

\* No slot is lost or handed out twice and the queue holds the waiting
\* requests, each once, however they are answered, refused or cancelled.
SlotsConserved ==
  /\ free + Cardinality(InState({"connecting"})) = Slots
  /\ {queue[i] : i \in DOMAIN queue} = InState({"waiting"})
  /\ Len(queue) = Cardinality(InState({"waiting"}))

\* The gauge llm_requests_in_flight counts the requests in the generator, and
\* for ever those whose generator never ran.
GaugeBalanced ==
  inFlight = lost + Cardinality(InState(Pcs \ {"idle", "rag", "searching"}))

\* Every request comes to an end, whoever else is served, refused or cancelled
\* and whatever the breakers do: nobody waits for a slot for ever.
EveryRequestEnds == \A r \in Requests : req[r].pc # "idle" ~> req[r].pc = "idle"

\* chat.py: with circuit_breaker_open there is no answer and nothing is logged.
NothingLoggedWhenRefused == \A r \in Requests : At(r, "refused") => ~Logs(r)
=============================================================================
