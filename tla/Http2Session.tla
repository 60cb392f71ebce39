---------------------------- MODULE Http2Session ---------------------------
(***************************************************************************)
(* The HTTP/2 session of the server (src/src/Net/Http2/Http2Session.cpp,   *)
(* Http2SessionResponses.cpp, src/src/Net/Http/Message/HttpStreamBody.cpp, *)
(* HttpRequestBody.cpp): one coroutine reads the connection and starts one *)
(* detached coroutine per request, all on one event-loop thread.  So at    *)
(* most one of them runs, and they interleave only where one suspends: on  *)
(* the receive, on a write, on the request's body or on an await of the    *)
(* handler's own.  An action is what runs from one such point to the next. *)
(*                                                                         *)
(* The main loop is                                                        *)
(*   reading   suspended in the transport's receive                        *)
(*   fed       suspended in the write that follows the bytes it fed        *)
(*   serving   resuming, one after the other, the handlers it woke         *)
(*   draining  out of the loop, waiting for the handlers that still run    *)
(*   closed    the session is over                                         *)
(***************************************************************************)
EXTENDS Http2Connection

CONSTANTS Streaming,         \* requests whose route takes the body in pieces
          Async,             \* handlers that suspend on an await of their own
          Early,             \* handlers that may answer an unread body
          Chunked,           \* handlers that write the answer in segments
          Trailered,         \* answers with a trailer block
          responseSize,      \* units in the answer's body, per stream
          maximumBodySize,   \* units of a request body it accepts (0: any)
          maximumRequestsPerConnection,           \* 0: no limit
          kStreamingSendQueueLimit,
          MayShutDown        \* the server may be asked to stop gracefully

ASSUME ServerAssumption ==
  /\ Streaming \cup Async \cup Early \cup Chunked \cup Trailered
       \subseteq Streams
  /\ responseSize \in [Streams -> Nat]
  /\ {maximumBodySize, maximumRequestsPerConnection, kStreamingSendQueueLimit}
       \subseteq Nat
  /\ MayShutDown \in BOOLEAN

VARIABLES conn,              \* the connection state machine
          loop,              \* where the main loop is
          task,              \* the session's record of each request
          unusable,          \* a write has failed: m_isConnectionUnusable
          served,            \* m_servedRequestCount
          goAwaySent         \* m_isGoAwaySent

serverVars == <<conn, loop, task, unusable, served, goAwaySent>>

(***************************************************************************)
(* A request's record.  phase is none before the request arrives, pending  *)
(* until it is ready to serve, then woken, waiting (for the body), busy    *)
(* (in the handler's own await), answering and ending (in a write of a     *)
(* segmented answer), flushing (in the last write), finished, and gone when *)
(* the main loop has dropped the record.  ended, broken and tooLarge are   *)
(* the flags of the body; buffered are its bytes not yet discarded, flow   *)
(* what they take of the windows, held that the handler was handed a piece *)
(* and has not asked for the next, received what arrived, handed what the  *)
(* handler was shown.                                                      *)
(***************************************************************************)
NoTask == [phase |-> "none", ended |-> FALSE, broken |-> FALSE,
           tooLarge |-> FALSE, buffered |-> 0, flow |-> 0, held |-> FALSE,
           received |-> 0, handed |-> 0, segments |-> 0, handled |-> FALSE,
           outcome |-> "none"]

HasPending(t) == t.phase \notin {"none", "gone"}
IsClaimed(t) == t.phase \notin {"none", "pending", "gone"}
IsServing(t) == IsClaimed(t) /\ t.phase # "finished"

Woken == {s \in Streams : task[s].phase = "woken"}

\* A handler runs when the main loop resumes it, lowest stream first, or, when
\* it is resumed by a write or by an await of its own, while the loop is away.
MayRun(s, phases) ==
  \/ /\ task[s].phase = "woken"
     /\ "woken" \in phases
     /\ loop \in {"serving", "draining"}
     /\ \A r \in Woken : s <= r
  \/ /\ task[s].phase \in phases \ {"woken"}
     /\ Woken = {}
     /\ loop \in {"reading", "fed", "draining"}

----------------------------------------------------------------------------
(* Writing.                                                                *)

CanWrite == clientOpen /\ serverOpen /\ ~unusable

FlushOutgoingBytes(c) ==
  /\ conn' = [c EXCEPT !.out = <<>>]
  /\ toClient' = IF CanWrite THEN toClient \o c.out ELSE toClient
  /\ unusable' = (unusable \/ (c.out # <<>> /\ ~CanWrite))

----------------------------------------------------------------------------
(* The body of a request, on the pair x of the connection and the records. *)

\* discardBufferedBody() drops everything that is buffered.
DiscardBufferedBody(x, s) ==
  [conn |-> CreditReceivedData(x.conn, s, x.task[s].flow),
   task |-> [x.task EXCEPT ![s] = [@ EXCEPT !.flow = 0, !.buffered = 0, !.held = FALSE]]]

AppendBody(t, f) ==
  [t EXCEPT !.buffered = @ + f.size, !.flow = @ + f.size,
            !.received = @ + f.size, !.ended = @ \/ f.end]

\* One piece of a body that the connection handed over.
AbsorbOneReceivedData(x, f) ==
  LET s == f.stream
      t == x.task[s]
      exceeds == /\ maximumBodySize # 0
                 /\ t.received + f.size > maximumBodySize
      refused == [t EXCEPT !.tooLarge = TRUE, !.broken = TRUE]
      streamed == IF exceeds THEN refused ELSE AppendBody(t, f)
      whole == [t EXCEPT !.tooLarge = @ \/ exceeds, !.ended = @ \/ f.end,
                         !.received = IF exceeds THEN @ ELSE @ + f.size]
      wake(r) == [r EXCEPT !.phase = IF @ = "waiting" THEN "woken" ELSE @]
      credited == CreditReceivedData(x.conn, s, f.size)
  IN  CASE ~HasPending(t) -> [x EXCEPT !.conn = credited]
        [] HasPending(t) /\ s \in Streaming ->
             [conn |-> IF streamed.tooLarge THEN credited ELSE x.conn,
              task |-> [x.task EXCEPT ![s] = wake(streamed)]]
        [] OTHER -> [conn |-> credited, task |-> [x.task EXCEPT ![s] = whole]]

AbsorbReceivedData(x) ==
  [FoldLeft(AbsorbOneReceivedData, x, x.conn.received)
     EXCEPT !.conn.received = <<>>]

AbsorbPendingRequests(x) ==
  LET asked == x.conn.requests
      new(s) == {i \in 1 .. Len(asked) : asked[i].stream = s}
  IN  [conn |-> [x.conn EXCEPT !.requests = <<>>],
       task |-> [s \in Streams |->
                   IF new(s) = {} THEN x.task[s]
                   ELSE [NoTask EXCEPT !.phase = "pending",
                                       !.ended = \E i \in new(s) : asked[i].end]]]

----------------------------------------------------------------------------
(* What the main loop does with the requests after each read.              *)

\* A stream that is over has no more body: its handler hears of it.
NoteCancelledStreams(x) ==
  [x EXCEPT !.task = [s \in Streams |->
     IF IsServing(x.task[s]) /\ ~IsActive(x.conn, s)
     THEN [x.task[s] EXCEPT !.broken = TRUE,
                            !.phase = IF @ = "waiting" THEN "woken" ELSE @]
     ELSE x.task[s]]]

IsReadyToServe(t, s) == s \in Streaming \/ t.ended \/ t.tooLarge

StartReadyRequestTasks(x) ==
  [x EXCEPT !.task = [s \in Streams |->
     LET t == x.task[s]
     IN  CASE t.phase # "pending" -> t
           [] t.phase = "pending" /\ IsReadyToServe(t, s) ->
                [t EXCEPT !.phase = "woken"]
           [] t.phase = "pending" /\ ~IsReadyToServe(t, s) /\ ~IsActive(x.conn, s) ->
                [t EXCEPT !.phase = "gone"]
           [] OTHER -> t]]

\* Leaving the loop breaks every body that somebody still waits for.
DrainInFlightServes(x) ==
  [x EXCEPT !.task = [s \in Streams |->
     IF IsServing(x.task[s])
     THEN [x.task[s] EXCEPT !.broken = TRUE,
                            !.phase = IF @ = "waiting" THEN "woken" ELSE @]
     ELSE x.task[s]]]

\* From the bytes fed to the handlers woken.
Absorb(c) ==
  LET x == AbsorbReceivedData(AbsorbPendingRequests([conn |-> c, task |-> task]))
      y == IF c.state = "Failed" THEN DrainInFlightServes(x)
           ELSE StartReadyRequestTasks(NoteCancelledStreams(x))
  IN  /\ conn' = y.conn
      /\ task' = y.task
      /\ loop' = IF c.state = "Failed" THEN "draining" ELSE "serving"

ReceiveSome(k) ==
  LET fed == FeedBytes(conn, SubSeq(toServer, 1, k))
      isQuiet == fed.out = <<>> /\ \A s \in Streams : task[s].phase # "flushing"
  IN  /\ loop = "reading"
      /\ Woken = {}
      /\ serverOpen
      /\ toServer' = SubSeq(toServer, k + 1, Len(toServer))
      /\ IF isQuiet
         THEN /\ Absorb(fed)
              /\ UNCHANGED <<toClient, unusable>>
         ELSE /\ FlushOutgoingBytes(fed)
              /\ loop' = "fed"
              /\ UNCHANGED task
      /\ UNCHANGED <<served, goAwaySent, clientOpen, serverOpen>>

ServerReceives == \E k \in 1 .. Len(toServer) : ReceiveSome(k)

LeaveLoop ==
  LET x == DrainInFlightServes([conn |-> conn, task |-> task])
  IN  /\ loop' = "draining"
      /\ task' = x.task

\* The write ends; the session takes what the connection recognised.
ServerAbsorbs ==
  /\ loop = "fed"
  /\ Woken = {}
  /\ IF unusable THEN LeaveLoop /\ UNCHANGED conn ELSE Absorb(conn)
  /\ UNCHANGED <<unusable, served, goAwaySent, wireVars>>

\* The end of the file, or the session's own socket was closed.
ServerReadsEnd ==
  /\ loop = "reading"
  /\ Woken = {}
  /\ \/ ~serverOpen
     \/ ~clientOpen /\ toServer = <<>>
  /\ LeaveLoop
  /\ UNCHANGED <<conn, unusable, served, goAwaySent, wireVars>>

\* Records of finished handlers go, and give back what they held of the window.
RetireFinishedRequestTasks(x) ==
  LET finished == {s \in Streams : x.task[s].phase = "finished"}
      y == FoldLeft(LAMBDA z, s : IF s \in finished THEN DiscardBufferedBody(z, s) ELSE z,
                    x, [s \in Streams |-> s])
  IN  [y EXCEPT !.task = [s \in Streams |->
         IF s \in finished THEN [y.task[s] EXCEPT !.phase = "gone"] ELSE y.task[s]]]

\* The end of a round: retire, write, and leave once nothing is left to do.
ServerEndsRound ==
  LET x == RetireFinishedRequestTasks([conn |-> conn, task |-> task])
      isLost == \E s \in Streams : task[s].phase = "finished"
                                     /\ task[s].outcome = "unusable"
      isOver == goAwaySent /\ \A s \in Streams : ~HasPending(x.task[s])
      drained == DrainInFlightServes(x)
  IN  /\ loop = "serving"
      /\ Woken = {}
      /\ FlushOutgoingBytes(x.conn)
      /\ IF isLost \/ unusable' \/ isOver
         THEN /\ loop' = "draining"
              /\ task' = drained.task
         ELSE /\ loop' = "reading"
              /\ task' = x.task
      /\ UNCHANGED <<served, goAwaySent, toServer, clientOpen, serverOpen>>

\* Every handler has finished: the socket is closed.
ServerCloses ==
  /\ loop = "draining"
  /\ \A s \in Streams : ~IsServing(task[s])
  /\ loop' = "closed"
  /\ serverOpen' = FALSE
  /\ UNCHANGED <<conn, task, unusable, served, goAwaySent,
                 toServer, toClient, clientOpen>>

\* TcpServer's drain: an idle connection is told GOAWAY and closed.
GracefulShutdown ==
  /\ MayShutDown
  /\ serverOpen
  /\ loop \in {"reading", "fed"}
  /\ \A s \in Streams : ~IsServing(task[s])
  /\ FlushOutgoingBytes(SendGoAway(conn))
  /\ serverOpen' = FALSE
  /\ LeaveLoop
  /\ UNCHANGED <<served, goAwaySent, toServer, clientOpen>>

----------------------------------------------------------------------------
(* The handlers.                                                           *)

\* A response with a known length: head, body, and trailers if it has any.
SendResponse(c, s, hasTrailers) ==
  LET n == responseSize[s]
      head == SendResponseHeaders(c, s, n = 0 /\ ~hasTrailers, n)
      body == IF n = 0 THEN head ELSE SendResponseData(head, s, n, ~hasTrailers)
  IN  IF hasTrailers THEN SendResponseTrailers(body, s) ELSE body

\* The handler reads no more: the window goes back and, unless the client has
\* said all it will, it is asked to stop.
FinishStreamingRequestBody(x, s) ==
  LET y == DiscardBufferedBody(x, s)
      t == y.task[s]
  IN  IF t.ended \/ (t.broken /\ ~t.tooLarge) THEN y
      ELSE [y EXCEPT !.conn = AbortStream(@, s, "NO_ERROR")]

ReachesRequestCap == /\ maximumRequestsPerConnection # 0
                     /\ served + 1 >= maximumRequestsPerConnection

\* The session's record of an outcome, and the write that follows it.
Conclude(x, s, outcome) ==
  /\ task' = [x.task EXCEPT ![s] = [@ EXCEPT !.phase = "flushing", !.outcome = outcome]]
  /\ FlushOutgoingBytes(x.conn)
  /\ UNCHANGED <<served, goAwaySent>>

NotServed(c) == IF c.state = "Failed" THEN "unusable" ELSE "cancelled"

\* A response went out: finish the body, count it, announce the last stream.
ConcludeServed(x, s) ==
  LET y == IF s \in Streaming THEN FinishStreamingRequestBody(x, s) ELSE x
      isCap == ~goAwaySent /\ ReachesRequestCap
  IN  /\ task' = [y.task EXCEPT ![s] = [@ EXCEPT !.phase = "flushing", !.outcome = "served"]]
      /\ FlushOutgoingBytes(IF isCap THEN SendGoAway(y.conn) ELSE y.conn)
      /\ served' = served + 1
      /\ goAwaySent' = (goAwaySent \/ isCap)

\* The handler has returned, or writes the head of a segmented answer.
Answer(x, s) ==
  LET t == x.task[s]
      isStreamed == s \in Chunked /\ ~t.tooLarge
  IN  CASE ~IsWritable(x.conn, s) -> Conclude(x, s, NotServed(x.conn))
        [] IsWritable(x.conn, s) /\ isStreamed ->
             /\ FlushOutgoingBytes(SendResponseHeaders(x.conn, s, FALSE, Undeclared))
             /\ task' = [x.task EXCEPT ![s].phase = "answering"]
             /\ UNCHANGED <<served, goAwaySent>>
        [] OTHER ->
             ConcludeServed([x EXCEPT !.conn = SendResponse(@, s,
                                         s \in Trailered /\ ~t.tooLarge)], s)

\* A body over the limit is answered 413 without a handler, and stopped.
RejectRequest(x, s) ==
  IF ~IsWritable(x.conn, s) THEN Conclude(x, s, NotServed(x.conn))
  ELSE Conclude([x EXCEPT !.conn = AbortStream(SendResponse(@, s, FALSE), s, "NO_ERROR")],
                s, "rejected")

Handled(x, s) == [x EXCEPT !.task[s].handled = TRUE]

\* A handler that takes no body in pieces.
HandlerRuns(s) ==
  LET x == Handled([conn |-> conn, task |-> task], s)
  IN  /\ s \notin Streaming
      /\ MayRun(s, {"woken", "busy"})
      /\ CASE task[s].tooLarge -> RejectRequest([conn |-> conn, task |-> task], s)
           [] ~task[s].tooLarge /\ s \in Async /\ task[s].phase = "woken" ->
                /\ task' = [x.task EXCEPT ![s].phase = "busy"]
                /\ UNCHANGED <<conn, unusable, served, goAwaySent, toClient>>
           [] OTHER -> Answer(x, s)
      /\ UNCHANGED <<loop, toServer, clientOpen, serverOpen>>

\* readNext(): done with the last piece, take the next or wait for it.  A
\* handler that does not suspend takes a piece and asks again in one go.
HandlerReads(s) ==
  LET x == Handled([conn |-> conn, task |-> task], s)
      y == IF task[s].held THEN DiscardBufferedBody(x, s) ELSE x
      t == y.task[s]
      shown == [y EXCEPT !.task[s] = [t EXCEPT !.handed = @ + t.buffered, !.held = TRUE]]
      z == IF t.buffered > 0 THEN DiscardBufferedBody(shown, s) ELSE y
  IN  /\ s \in Streaming
      /\ MayRun(s, {"woken", "busy"})
      /\ CASE t.broken -> Answer(y, s)
           [] ~t.broken /\ t.buffered > 0 /\ s \in Async ->
                /\ conn' = shown.conn
                /\ task' = [shown.task EXCEPT ![s].phase = "busy"]
                /\ UNCHANGED <<unusable, served, goAwaySent, toClient>>
           [] ~t.broken /\ ~(t.buffered > 0 /\ s \in Async) /\ t.ended -> Answer(z, s)
           [] OTHER ->
                /\ conn' = z.conn
                /\ task' = [z.task EXCEPT ![s].phase = "waiting"]
                /\ UNCHANGED <<unusable, served, goAwaySent, toClient>>
      /\ UNCHANGED <<loop, toServer, clientOpen, serverOpen>>

\* A handler that answers without reading on.
HandlerAnswersEarly(s) ==
  /\ s \in Streaming \cap Early
  /\ MayRun(s, {"woken", "busy"})
  /\ Answer(Handled([conn |-> conn, task |-> task], s), s)
  /\ UNCHANGED <<loop, toServer, clientOpen, serverOpen>>

\* writeChunk() refuses a segment when too much is queued: the handler stops.
HasSendQueueRoom(s) == PendingBytes(conn, s) <= kStreamingSendQueueLimit

\* One segment of the answer, or its end.
HandlerWrites(s) ==
  LET x == [conn |-> conn, task |-> task]
      goesOn == /\ task[s].segments < responseSize[s]
                /\ IsWritable(conn, s)
                /\ HasSendQueueRoom(s)
      ended == IF s \in Trailered THEN SendResponseTrailers(conn, s)
               ELSE SendResponseData(conn, s, 0, TRUE)
  IN  /\ MayRun(s, {"answering"})
      /\ CASE unusable -> Conclude(x, s, "unusable")
           [] ~unusable /\ goesOn ->
                /\ FlushOutgoingBytes(SendResponseData(conn, s, 1, FALSE))
                /\ task' = [task EXCEPT ![s].segments = @ + 1]
                /\ UNCHANGED <<served, goAwaySent>>
           [] ~unusable /\ ~goesOn /\ ~IsWritable(conn, s) ->
                Conclude(x, s, NotServed(conn))
           [] OTHER ->
                /\ FlushOutgoingBytes(ended)
                /\ task' = [task EXCEPT ![s].phase = "ending"]
                /\ UNCHANGED <<served, goAwaySent>>
      /\ UNCHANGED <<loop, toServer, clientOpen, serverOpen>>

\* The write of the answer's end returns.
HandlerEndsAnswer(s) ==
  LET x == [conn |-> conn, task |-> task]
  IN  /\ MayRun(s, {"ending"})
      /\ IF unusable THEN Conclude(x, s, "unusable") ELSE ConcludeServed(x, s)
      /\ UNCHANGED <<loop, toServer, clientOpen, serverOpen>>

\* The last write returns: the record may be retired.
HandlerFinishes(s) ==
  /\ MayRun(s, {"flushing"})
  /\ task' = [task EXCEPT ![s].phase = "finished"]
  /\ UNCHANGED <<conn, loop, unusable, served, goAwaySent, wireVars>>

----------------------------------------------------------------------------
ServerInit == /\ conn = Connected
              /\ loop = "reading"
              /\ task = [s \in Streams |-> NoTask]
              /\ unusable = FALSE
              /\ served = 0
              /\ goAwaySent = FALSE

HandlerStep(s) == \/ HandlerRuns(s)
                  \/ HandlerReads(s)
                  \/ HandlerAnswersEarly(s)
                  \/ HandlerWrites(s)
                  \/ HandlerEndsAnswer(s)
                  \/ HandlerFinishes(s)

ServerStep == \/ ServerReceives
              \/ ServerAbsorbs
              \/ ServerReadsEnd
              \/ ServerEndsRound
              \/ ServerCloses
              \/ \E s \in Streams : HandlerStep(s)
=============================================================================
