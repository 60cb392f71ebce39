---------------------------- MODULE Http2Client ----------------------------
(***************************************************************************)
(* The client side of an HTTP/2 connection                                 *)
(* (src/src/Net/Http2/Http2ClientConnection.cpp): several requests share   *)
(* the connection, each a coroutine of one event-loop thread, and no       *)
(* coroutine belongs to the connection itself.  Whoever needs bytes takes  *)
(* the pump lease and reads for everybody; the others wait, and are        *)
(* scheduled each time the lease is given back.                            *)
(*                                                                         *)
(* pc says where a request is suspended: in a write (flush...), in the     *)
(* receive with the lease in hand (read...), in the write that ends a read *)
(* (pumped...), waiting for the lease's holder (wait...), scheduled after  *)
(* such a wait (woken...), or in the caller's receiver (delivering).  A    *)
(* suffix Send tells that it is uploading, Loop that it awaits the answer. *)
(* An action runs a coroutine from one suspension to the next.             *)
(***************************************************************************)
EXTENDS Http2Connection

CONSTANTS requestSize,         \* units in the request's body, per stream
          Streamed,            \* requests whose body comes from a source
          Receiver,            \* requests whose answer goes to a receiver
          Impatient,           \* receivers that may end the answer
          Cancellable,         \* requests the caller may cancel
          MayTimeOut,          \* a request's deadline may pass
          maximumResponseBodyBytes,    \* 0: no limit
          maximumOpenedStreamCount     \* streams one connection may open

ASSUME ClientAssumption ==
  /\ requestSize \in [Streams -> Nat]
  /\ Impatient \subseteq Receiver
  /\ Streamed \cup Receiver \cup Cancellable \subseteq Streams
  /\ MayTimeOut \in BOOLEAN
  /\ {maximumResponseBodyBytes, maximumOpenedStreamCount} \subseteq Nat

VARIABLE client

(***************************************************************************)
(* A request: its coroutine's pc and the units it has sent; its record in  *)
(* m_pendingStreams while booked (isReset, isResponseComplete, the flags of *)
(* the response, the stream's send window, the units that arrived for a    *)
(* receiver); and, once it is done, whether the request could not be sent  *)
(* whole and whether isOk() held.                                          *)
(***************************************************************************)
NoRequest ==
  [pc |-> "idle", sent |-> 0, booked |-> FALSE, isReset |-> FALSE,
   complete |-> FALSE, final |-> FALSE, any |-> FALSE, unprocessed |-> FALSE,
   error |-> FALSE, length |-> Undeclared, received |-> 0, undelivered |-> 0,
   batch |-> 0, lastGiven |-> FALSE, sendWindow |-> 0, cancelled |-> FALSE,
   unsent |-> FALSE, ok |-> FALSE]

ClientInit ==
  client = [healthy |-> TRUE, goAway |-> FALSE, accused |-> FALSE,
            hung |-> FALSE, lease |-> FALSE, opened |-> 0,
            sendWindow |-> kHttp2InitialWindowSize,
            request |-> [s \in Streams |-> NoRequest], out |-> <<>>]

\* isHealthy() is false as soon as the peer has said GOAWAY.
IsHealthy(c) == c.healthy /\ ~c.goAway

Booked(c) == {s \in Streams : c.request[s].booked}

FailTransport(c) == [c EXCEPT !.healthy = FALSE]

\* accused: the client has told its peer that it broke the protocol.
FailConnection(c, code) ==
  [c EXCEPT !.healthy = FALSE,
            !.accused = @ \/ code # "NO_ERROR",
            !.out = IF c.healthy THEN Append(@, GoAwayFrame(c.opened, code)) ELSE @]

\* Mutant: bytes nobody will read are dropped with what they take of the window.
KeepConnectionWindow(c, n) == c

CreditConnectionWindow(c, n) ==
  IF n = 0 THEN c ELSE Emit(c, <<WindowUpdateFrame(0, n)>>)

CreditWindow(c, s, n) ==
  IF n = 0 THEN c
  ELSE Emit(c, <<WindowUpdateFrame(s, n), WindowUpdateFrame(0, n)>>)

----------------------------------------------------------------------------
(* Frames from the server.                                                 *)

\* The stream is given up and the server is told why.
RejectStream(c, s, code) ==
  [Emit(c, <<RstStreamFrame(s, code)>>)
     EXCEPT !.request[s] = [@ EXCEPT !.isReset = TRUE, !.error = TRUE]]

AcceptsBodyLength(r) == r.length \in {Undeclared, r.received}

\* END_STREAM: the answer is whole if it has a status and its declared length.
EndResponse(c, s) ==
  IF c.request[s].final /\ AcceptsBodyLength(c.request[s])
  THEN [c EXCEPT !.request[s].complete = TRUE]
  ELSE RejectStream(c, s, "PROTOCOL_ERROR")

ClientHandlesHeaders(c, f) ==
  LET s == f.stream
      r == c.request[s]
      noted == [c EXCEPT !.request[s] =
                  [r EXCEPT !.any = TRUE, !.final = TRUE,
                            !.length = IF r.final THEN @ ELSE f.length]]
  IN  CASE ~r.booked -> c
        [] r.booked /\ r.complete -> FailConnection(c, "STREAM_CLOSED")
        [] r.booked /\ ~r.complete /\ r.final /\ ~f.end ->
             RejectStream(noted, s, "PROTOCOL_ERROR")
        [] r.booked /\ ~r.complete /\ f.end -> EndResponse(noted, s)
        [] OTHER -> noted

ClientHandlesData(c, f) ==
  LET s == f.stream
      r == c.request[s]
      noted == [c EXCEPT !.request[s] = [r EXCEPT !.any = TRUE, !.received = @ + f.size]]
      exceeds == /\ maximumResponseBodyBytes # 0
                 /\ r.received + f.size > maximumResponseBodyBytes
      kept == CASE exceeds ->
                     CreditConnectionWindow(RejectStream(noted, s, "CANCEL"), f.size)
                [] ~exceeds /\ s \in Receiver ->
                     [noted EXCEPT !.request[s].undelivered = @ + f.size]
                [] OTHER -> CreditWindow(noted, s, f.size)
  IN  CASE ~r.booked -> CreditConnectionWindow(c, f.size)
        [] r.booked /\ r.complete -> FailConnection(c, "STREAM_CLOSED")
        [] r.booked /\ ~r.complete /\ r.isReset -> CreditConnectionWindow(c, f.size)
        [] OTHER -> IF f.end THEN EndResponse(kept, s) ELSE kept

ClientHandlesWindowUpdate(c, f) ==
  LET s == f.stream
      grown == [c EXCEPT !.sendWindow = @ + f.size]
      widened == [c EXCEPT !.request[s].sendWindow = @ + f.size]
  IN  CASE s = 0 /\ grown.sendWindow > kHttp2MaximumWindowSize ->
             FailConnection(grown, "FLOW_CONTROL_ERROR")
        [] s = 0 /\ grown.sendWindow <= kHttp2MaximumWindowSize -> grown
        [] s # 0 /\ ~c.request[s].booked -> c
        [] s # 0 /\ c.request[s].booked
             /\ widened.request[s].sendWindow > kHttp2MaximumWindowSize ->
             RejectStream(widened, s, "FLOW_CONTROL_ERROR")
        [] OTHER -> widened

ClientHandlesGoAway(c, f) ==
  [c EXCEPT !.goAway = TRUE,
            !.request = [s \in Streams |->
               IF c.request[s].booked /\ s > f.last
               THEN [c.request[s] EXCEPT !.isReset = TRUE, !.error = TRUE,
                                         !.unprocessed = ~c.request[s].any]
               ELSE c.request[s]]]

\* An answer that is already complete is reset all the same.
ClientHandlesRstStream(c, f) ==
  LET s == f.stream
      r == c.request[s]
      isRefused == f.code = "REFUSED_STREAM" /\ ~r.any
  IN  IF ~r.booked THEN c
      ELSE [c EXCEPT !.request[s] =
              [r EXCEPT !.any = r.any \/ ~isRefused, !.unprocessed = isRefused,
                        !.isReset = TRUE, !.error = TRUE]]

ClientHandlesFrame(c, f) ==
  CASE f.type = "HEADERS" -> ClientHandlesHeaders(c, f)
    [] f.type = "DATA" -> ClientHandlesData(c, f)
    [] f.type = "WINDOW_UPDATE" -> ClientHandlesWindowUpdate(c, f)
    [] f.type = "GOAWAY" -> ClientHandlesGoAway(c, f)
    [] f.type = "RST_STREAM" -> ClientHandlesRstStream(c, f)

\* A batch is handled only as long as the connection stays healthy: what
\* follows a GOAWAY in it is dropped.
HandleBatch(c, frames) ==
  FoldLeft(LAMBDA d, f : IF IsHealthy(d) THEN ClientHandlesFrame(d, f) ELSE d,
           c, frames)

----------------------------------------------------------------------------
(* The lease.                                                              *)

WakeWaitingStreams(c) ==
  [c EXCEPT !.request = [s \in Streams |->
     [c.request[s] EXCEPT !.pc = CASE @ = "waitSend" -> "wokenSend"
                                   [] @ = "waitLoop" -> "wokenLoop"
                                   [] OTHER -> @]]]

\* Mutant: the others are not told that they may look again.
ReleasePumpLeaseQuietly(c) == [c EXCEPT !.lease = FALSE]

ReleasePumpLease(c) == WakeWaitingStreams([c EXCEPT !.lease = FALSE])

TakeLease(c, s, pc) == [c EXCEPT !.lease = TRUE, !.request[s].pc = pc]

\* StreamAwaiter::await_ready() once the lease is in somebody's hand.
NeedNotWait(c, s) == LET r == c.request[s]
                     IN  r.complete \/ r.isReset \/ r.undelivered > 0 \/ ~IsHealthy(c)

----------------------------------------------------------------------------
(* The course of a request, each operator up to its next suspension.       *)

RetireIfStreamBudgetSpent(c) ==
  IF c.opened >= maximumOpenedStreamCount /\ Booked(c) = {} /\ IsHealthy(c)
  THEN FailConnection(c, "NO_ERROR") ELSE c

\* The response is handed to the caller and the record erased, with whatever
\* its receiver was not given.
Finish(c, s, ok) ==
  LET r == c.request[s]
      done == [NoRequest EXCEPT !.pc = "done", !.ok = ok, !.sent = r.sent,
                                !.received = r.received,
                                !.undelivered = r.undelivered,
                                !.unsent = r.unsent,
                                !.unprocessed = r.unprocessed]
  IN  RetireIfStreamBudgetSpent([c EXCEPT !.request[s] = done])

\* The request could not be sent whole: what the response holds is handed on.
FinishUnsent(c, s) == Finish([c EXCEPT !.request[s].unsent = TRUE], s,
                             c.request[s].final /\ ~c.request[s].error)


FinishRequest(c, s) ==
  LET r == c.request[s]
  IN  Finish(c, s, r.final /\ ~r.error /\ (r.complete \/ r.isReset))

TakeBatch(c, s) ==
  LET r == c.request[s]
  IN  [c EXCEPT !.request[s] =
         [r EXCEPT !.pc = "delivering", !.undelivered = 0,
                   !.batch = r.undelivered, !.lastGiven = @ \/ r.complete]]

HasBatch(c, s) ==
  LET r == c.request[s]
  IN  s \in Receiver /\ (r.undelivered > 0 \/ (r.complete /\ ~r.lastGiven))

\* Once nothing is left to deliver: conclude, wait for the driver, or drive.
AfterDelivery(c, s) ==
  CASE c.request[s].complete \/ c.request[s].isReset -> FinishRequest(c, s)
    [] ~(c.request[s].complete \/ c.request[s].isReset) /\ ~c.lease ->
         TakeLease(c, s, "readLoop")
    [] OTHER -> CASE ~NeedNotWait(c, s) -> [c EXCEPT !.request[s].pc = "waitLoop"]
                  [] NeedNotWait(c, s) /\ IsHealthy(c) -> TakeBatch(c, s)
                  [] OTHER -> FinishRequest(c, s)

AwaitResponse(c, s) ==
  CASE ~IsHealthy(c) -> FinishRequest(c, s)
    [] IsHealthy(c) /\ HasBatch(c, s) -> TakeBatch(c, s)
    [] OTHER -> AfterDelivery(c, s)

IsSent(c, s) == c.request[s].sent = requestSize[s]

\* With no window the uploader waits for the driver, or drives.  If it need
\* not wait, nothing changes before it looks again: the loop spins, and with
\* it the only thread of the event loop.
AwaitWindow(c, s) ==
  CASE ~c.lease -> TakeLease(c, s, "readSend")
    [] c.lease /\ NeedNotWait(c, s) -> [c EXCEPT !.hung = TRUE]
    [] OTHER -> [c EXCEPT !.request[s].pc = "waitSend"]

SendBody(c, s) ==
  LET r == c.request[s]
      window == Lesser(c.sendWindow, r.sendWindow)
      n == Lesser(Lesser(window, maximumFrameSize), requestSize[s] - r.sent)
      isLast == s \notin Streamed /\ r.sent + n = requestSize[s]
  IN  CASE window <= 0 -> AwaitWindow(c, s)
        [] window > 0 /\ (r.isReset \/ r.complete) -> FinishUnsent(c, s)
        [] OTHER -> [Emit(c, <<DataFrame(s, n, isLast)>>)
                       EXCEPT !.sendWindow = @ - n,
                              !.request[s] = [r EXCEPT !.sendWindow = @ - n,
                                                       !.sent = @ + n,
                                                       !.pc = "flushBody"]]

\* A body from a source is ended by a frame of its own.
EndBody(c, s) ==
  IF ~IsHealthy(c) \/ c.request[s].isReset \/ c.request[s].complete
  THEN FinishUnsent(c, s)
  ELSE [Emit(c, <<DataFrame(s, 0, TRUE)>>) EXCEPT !.request[s].pc = "flushEnd"]

GoOnSending(c, s) ==
  CASE ~IsSent(c, s) -> SendBody(c, s)
    [] IsSent(c, s) /\ s \in Streamed -> EndBody(c, s)
    [] OTHER -> AwaitResponse(c, s)

OpenRequest(c, s) ==
  [Emit(c, <<HeadersFrame(s, requestSize[s] = 0 /\ s \notin Streamed, Undeclared)>>)
     EXCEPT !.opened = @ + 1,
            !.request[s] = [@ EXCEPT !.pc = "flushHead", !.booked = TRUE,
                                     !.sendWindow = initialWindowSize]]

\* After a read: the lease goes back before the reader goes on.
AfterPump(c, s) ==
  LET r == ReleasePumpLease(c)
      isSending == c.request[s].pc \in {"readSend", "pumpedSend"}
  IN  CASE IsHealthy(c) /\ isSending -> GoOnSending(r, s)
        [] IsHealthy(c) /\ ~isSending -> AwaitResponse(r, s)
        [] ~IsHealthy(c) /\ isSending -> FinishUnsent(r, s)
        [] OTHER -> FinishRequest(r, s)

\* The receiver has had its batch.
AfterReceiver(c, s, accepts) ==
  LET n == c.request[s].batch
      given == [c EXCEPT !.request[s].batch = 0]
      refused == [Emit(given, <<RstStreamFrame(s, "CANCEL")>>)
                    EXCEPT !.request[s] = [@ EXCEPT !.isReset = TRUE,
                                                    !.pc = "flushRefusal"]]
  IN  CASE ~accepts -> CreditConnectionWindow(refused, n)
        [] accepts /\ n > 0 ->
             [CreditWindow(given, s, n) EXCEPT !.request[s].pc = "flushCredit"]
        [] OTHER -> AfterDelivery(given, s)

----------------------------------------------------------------------------
(* Actions.                                                                *)

\* The client's writes reach the wire as long as the server is there.
ClientBecomes(c) ==
  /\ client' = [c EXCEPT !.out = <<>>]
  /\ toServer' = IF serverOpen /\ clientOpen THEN toServer \o c.out ELSE toServer

Pc(s) == client.request[s].pc

\* requestWithBody() is called: the caller makes its requests in order.
RequestStarts(s) ==
  /\ ~client.hung
  /\ Pc(s) = "idle"
  /\ \A r \in 1 .. s - 1 : Pc(r) # "idle"
  /\ ClientBecomes(
       CASE ~IsHealthy(client) -> Finish(client, s, FALSE)
         [] IsHealthy(client) /\ client.opened >= maximumOpenedStreamCount ->
              Finish(client, s, FALSE)
         [] OTHER -> OpenRequest(client, s))
  /\ UNCHANGED <<toClient, clientOpen, serverOpen>>

\* A write returns: flushOutgoing() tells whether the connection was failed.
FlushReturns(s) ==
  /\ ~client.hung
  /\ \/ /\ Pc(s) \in {"flushHead", "flushBody"}
        /\ ClientBecomes(IF client.healthy THEN GoOnSending(client, s)
                         ELSE FinishUnsent(client, s))
     \/ /\ Pc(s) = "flushEnd"
        /\ ClientBecomes(IF client.healthy THEN AwaitResponse(client, s)
                         ELSE FinishUnsent(client, s))
     \/ /\ Pc(s) \in {"pumpedSend", "pumpedLoop"}
        /\ ClientBecomes(AfterPump(client, s))
     \/ /\ Pc(s) = "flushCredit"
        /\ ClientBecomes(IF client.healthy THEN AfterDelivery(client, s)
                         ELSE FinishRequest(client, s))
     \/ /\ Pc(s) = "flushRefusal"
        /\ ClientBecomes(FinishRequest(client, s))
  /\ UNCHANGED <<toClient, clientOpen, serverOpen>>

\* A waiter that was scheduled looks again.
WaiterResumes(s) ==
  /\ ~client.hung
  /\ \/ /\ Pc(s) = "wokenSend"
        /\ ClientBecomes(GoOnSending(client, s))
     \/ /\ Pc(s) = "wokenLoop"
        /\ ClientBecomes(AwaitResponse(client, s))
  /\ UNCHANGED <<toClient, clientOpen, serverOpen>>

\* The driver's receive returns k frames.
ReadSome(s, k) ==
  LET c == HandleBatch(client, SubSeq(toClient, 1, k))
      pumped == [c EXCEPT !.request[s].pc =
                            IF @ = "readSend" THEN "pumpedSend" ELSE "pumpedLoop"]
  IN  /\ ~client.hung
      /\ clientOpen
      /\ Pc(s) \in {"readSend", "readLoop"}
      /\ ClientBecomes(IF c.out = <<>> THEN AfterPump(c, s) ELSE pumped)
      /\ toClient' = SubSeq(toClient, k + 1, Len(toClient))
      /\ UNCHANGED <<clientOpen, serverOpen>>

ClientReads(s) == \E k \in 1 .. Len(toClient) : ReadSome(s, k)

\* The receive returns nothing more: the server closed, or this side did.
ClientReadsEnd(s) ==
  /\ ~client.hung
  /\ Pc(s) \in {"readSend", "readLoop"}
  /\ \/ ~clientOpen
     \/ ~serverOpen /\ toClient = <<>>
  /\ ClientBecomes(AfterPump(FailTransport(client), s))
  /\ UNCHANGED <<toClient, clientOpen, serverOpen>>

\* The caller's receiver returns.
ReceiverReturns(s) ==
  /\ ~client.hung
  /\ Pc(s) = "delivering"
  /\ \/ ClientBecomes(AfterReceiver(client, s, TRUE))
     \/ /\ s \in Impatient
        /\ ClientBecomes(AfterReceiver(client, s, FALSE))
  /\ UNCHANGED <<toClient, clientOpen, serverOpen>>

\* The caller cancels: the stream is reset unless it is over already.
CancelRequest(s) ==
  LET r == client.request[s]
      marked == [client EXCEPT !.request[s].cancelled = TRUE]
  IN  /\ ~client.hung
      /\ s \in Cancellable
      /\ r.booked /\ ~r.cancelled
      /\ ClientBecomes(IF r.isReset \/ r.complete THEN marked
                       ELSE WakeWaitingStreams(RejectStream(marked, s, "CANCEL")))
      /\ UNCHANGED <<toClient, clientOpen, serverOpen>>

\* A cancelled driver that awaits its answer is taken out of the receive.
CancelledReadReturns(s) ==
  /\ ~client.hung
  /\ client.request[s].cancelled
  /\ Pc(s) = "readLoop"
  /\ ClientBecomes(AwaitResponse(ReleasePumpLease(client), s))
  /\ UNCHANGED <<toClient, clientOpen, serverOpen>>

CloseClient == /\ client' = FailTransport(client)
               /\ clientOpen' = FALSE
               /\ UNCHANGED <<toServer, toClient, serverOpen>>

\* A request's deadline closes the connection under everybody.
DeadlinePasses ==
  /\ MayTimeOut
  /\ ~client.hung
  /\ clientOpen
  /\ Booked(client) # {}
  /\ CloseClient

\* The owner drops the connection once its requests are done.
ClientCloses ==
  /\ clientOpen
  /\ \A s \in Streams : Pc(s) = "done"
  /\ CloseClient

RequestStep(s) == \/ FlushReturns(s)
                  \/ WaiterResumes(s)
                  \/ ClientReads(s)
                  \/ ClientReadsEnd(s)
                  \/ ReceiverReturns(s)
                  \/ CancelledReadReturns(s)
=============================================================================
