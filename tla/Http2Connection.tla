-------------------------- MODULE Http2Connection --------------------------
(***************************************************************************)
(* The HTTP/2 connection state machine of the server                       *)
(* (src/src/Net/Http2/Http2Connection.cpp, Http2ConnectionFrames.cpp).  It *)
(* has no concurrency of its own: the session feeds it bytes, takes the    *)
(* requests and body pieces it recognised, hands it responses and takes    *)
(* the bytes to write.  So it is modelled as operators on a record c, which *)
(* the session keeps in a variable:                                        *)
(*   state          Open, Closing (GOAWAY sent or received) or Failed      *)
(*   stream         the stream table, see NoRecord                         *)
(*   sendWindow, receiveWindow, credit                                     *)
(*                  the connection's two windows, and what was consumed but *)
(*                  not yet given back with a WINDOW_UPDATE                *)
(*   highest        the highest stream the client has used                 *)
(*   last           what the first GOAWAY announced (NoLast before it)     *)
(*   terminated     the terminated streams whose record is kept, oldest    *)
(*                  first; evicted tells that some record was dropped      *)
(*   requests, received                                                    *)
(*                  recognised and waiting to be taken by the session      *)
(*   out            frames to write                                        *)
(***************************************************************************)
EXTENDS Http2Wire

CONSTANTS maximumConcurrentStreams,      \* SETTINGS_MAX_CONCURRENT_STREAMS
          initialWindowSize,             \* of a stream, announced by the server
          peerInitialWindowSize,         \* of a stream, announced by the client
          kHttp2InitialWindowSize,       \* of the connection, both ways
          kHttp2MaximumWindowSize,       \* no window may grow past this
          maximumFrameSize,              \* SETTINGS_MAX_FRAME_SIZE, both ways
          kTerminatedStreamMemoryCount   \* terminated records kept

ASSUME WindowAssumption ==
  /\ {initialWindowSize, peerInitialWindowSize, kHttp2InitialWindowSize,
      maximumFrameSize, maximumConcurrentStreams} \subseteq Nat \ {0}
  /\ kTerminatedStreamMemoryCount \in Nat
  /\ kHttp2MaximumWindowSize \in Nat
  /\ {initialWindowSize, peerInitialWindowSize, kHttp2InitialWindowSize}
       \subseteq 0 .. kHttp2MaximumWindowSize

NoLast == StreamCount + 1

Lesser(a, b) == IF a < b THEN a ELSE b
Greater(a, b) == IF a > b THEN a ELSE b

----------------------------------------------------------------------------
(* The stream table.                                                       *)

\* An idle stream has no record, and neither has one whose record was evicted.
NoRecord == [state |-> "idle", termination |-> "none", sendWindow |-> 0,
             receiveWindow |-> 0, credit |-> 0, pending |-> 0, ending |-> FALSE]

\* A terminated stream keeps only how it ended: what was queued is dropped.
ClosedRecord(how) == [NoRecord EXCEPT !.state = "Closed", !.termination = how]

OpenRecord == [NoRecord EXCEPT !.state = "Open",
                               !.sendWindow = peerInitialWindowSize,
                               !.receiveWindow = initialWindowSize]

Connected == [state |-> "Open", stream |-> [s \in Streams |-> NoRecord],
              sendWindow |-> kHttp2InitialWindowSize,
              receiveWindow |-> kHttp2InitialWindowSize, credit |-> 0,
              highest |-> 0, last |-> NoLast, terminated |-> <<>>,
              evicted |-> FALSE, requests |-> <<>>, received |-> <<>>,
              out |-> <<>>]

HasRecord(c, s) == c.stream[s].state # "idle"
IsActive(c, s) == c.stream[s].state \notin {"idle", "Closed"}
OpenStreams(c) == {s \in Streams : IsActive(c, s)}

\* A response may still be written on the stream.
IsWritable(c, s) == /\ c.state \in {"Open", "Closing"}
                    /\ c.stream[s].state \in {"Open", "HalfClosedRemote"}

PendingBytes(c, s) == c.stream[s].pending

----------------------------------------------------------------------------
(* Failing the connection, ending a stream.                                *)

Emit(c, frames) == [c EXCEPT !.out = @ \o frames]

GoAwayLastStreamId(c) == Lesser(c.last, c.highest)

AnnounceLast(c, code) ==
  [Emit(c, <<GoAwayFrame(GoAwayLastStreamId(c), code)>>)
     EXCEPT !.last = Lesser(@, c.highest)]

Fail(c, code) ==
  IF c.state = "Failed" THEN c
  ELSE [AnnounceLast(c, code) EXCEPT !.state = "Failed"]

\* Only the newest records of terminated streams are kept.
RememberTerminatedStream(c, s) ==
  LET all == Append(c.terminated, s)
      excess == Greater(0, Len(all) - kTerminatedStreamMemoryCount)
      gone == {all[i] : i \in 1 .. excess}
  IN  [c EXCEPT !.terminated = SubSeq(all, excess + 1, Len(all)),
                !.evicted = @ \/ gone # {},
                !.stream = [t \in Streams |->
                              IF t \in gone THEN NoRecord ELSE c.stream[t]]]

TerminateStream(c, s, how) ==
  IF c.stream[s].state = "Closed" THEN c
  ELSE RememberTerminatedStream(
         [c EXCEPT !.stream[s] = ClosedRecord(how)], s)

FailStream(c, s, code) ==
  TerminateStream(Emit(c, <<RstStreamFrame(s, code)>>), s, "ResetByLocal")

OpenStream(c, s) == [c EXCEPT !.stream[s] = OpenRecord, !.highest = s]

RefuseNewStream(c, s) ==
  RememberTerminatedStream(
    [Emit(c, <<RstStreamFrame(s, "REFUSED_STREAM")>>)
       EXCEPT !.highest = s, !.stream[s] = ClosedRecord("ResetByLocal")], s)

NoteRemoteEndStream(c, s) ==
  CASE c.stream[s].state = "Open" ->
         [c EXCEPT !.stream[s].state = "HalfClosedRemote"]
    [] c.stream[s].state = "HalfClosedLocal" ->
         TerminateStream(c, s, "Completed")
    [] OTHER -> c

NoteLocalEndStream(c, s) ==
  CASE c.stream[s].state = "Open" ->
         [c EXCEPT !.stream[s].state = "HalfClosedLocal"]
    [] c.stream[s].state = "HalfClosedRemote" ->
         TerminateStream(c, s, "Completed")
    [] OTHER -> c

----------------------------------------------------------------------------
(* Receive windows: consumed bytes are given back half a window at a time. *)

IsReceiveCreditWorthFlushing(pending, window) ==
  pending >= Greater(1, window \div 2)

CreditConnectionReceiveWindow(c, n) ==
  LET credit == c.credit + n
  IN  IF IsReceiveCreditWorthFlushing(credit, kHttp2InitialWindowSize)
      THEN [Emit(c, <<WindowUpdateFrame(0, credit)>>)
              EXCEPT !.credit = 0, !.receiveWindow = @ + credit]
      ELSE [c EXCEPT !.credit = credit]

CreditStreamReceiveWindow(c, s, n) ==
  LET credit == c.stream[s].credit + n
  IN  IF ~IsActive(c, s) THEN c
      ELSE IF IsReceiveCreditWorthFlushing(credit, initialWindowSize)
      THEN [Emit(c, <<WindowUpdateFrame(s, credit)>>)
              EXCEPT !.stream[s].credit = 0,
                     !.stream[s].receiveWindow = @ + credit]
      ELSE [c EXCEPT !.stream[s].credit = credit]


\* The session reports n units of stream s as consumed.
CreditReceivedData(c, s, n) ==
  IF n = 0 \/ c.state = "Failed" THEN c
  ELSE CreditStreamReceiveWindow(CreditConnectionReceiveWindow(c, n), s, n)

----------------------------------------------------------------------------
(* Send windows and the queues behind them.                                *)

\* END_STREAM goes only on the frame that empties the queue.
PumpSendQueue(c, s) ==
  LET r == c.stream[s]
      n == Lesser(r.pending, Lesser(r.sendWindow, c.sendWindow))
      isEnd == n = r.pending /\ r.ending
      frames == IF n = 0 /\ isEnd THEN <<DataFrame(s, 0, TRUE)>>
                ELSE DataFrames(s, n, isEnd, maximumFrameSize)
      pumped == [Emit(c, frames)
                   EXCEPT !.sendWindow = @ - n,
                          !.stream[s].sendWindow = @ - n,
                          !.stream[s].pending = @ - n,
                          !.stream[s].ending = @ /\ ~isEnd]
  IN  IF isEnd THEN NoteLocalEndStream(pumped, s) ELSE pumped

HasQueue(c, s) == c.stream[s].pending > 0 \/ c.stream[s].ending

\* In ascending order of the stream ids: the table is a std::map.
PumpAllSendQueues(c) ==
  FoldLeft(LAMBDA d, s : IF HasQueue(d, s) THEN PumpSendQueue(d, s) ELSE d,
           c, [s \in Streams |-> s])

SendResponseHeaders(c, s, end, length) ==
  LET sent == Emit(c, <<HeadersFrame(s, end, length)>>)
  IN  IF end THEN NoteLocalEndStream(sent, s) ELSE sent

SendResponseData(c, s, n, end) ==
  LET r == c.stream[s]
      window == Lesser(maximumFrameSize, Lesser(r.sendWindow, c.sendWindow))
      isDirect == r.pending = 0 /\ n <= window
      sent == [Emit(c, <<DataFrame(s, n, end)>>)
                 EXCEPT !.sendWindow = @ - n, !.stream[s].sendWindow = @ - n]
      queued == [c EXCEPT !.stream[s].pending = @ + n,
                          !.stream[s].ending = @ \/ end]
  IN  IF r.ending THEN c
      ELSE IF ~isDirect THEN PumpSendQueue(queued, s)
      ELSE IF end THEN NoteLocalEndStream(sent, s) ELSE sent

\* The trailer block is written at once, whatever is still queued before it.
SendResponseTrailers(c, s) ==
  NoteLocalEndStream(Emit(c, <<HeadersFrame(s, TRUE, Undeclared)>>), s)

AbortStream(c, s, code) ==
  IF c.state \in {"Open", "Closing"} /\ IsActive(c, s)
  THEN FailStream(c, s, code) ELSE c

\* Mutant: streams past the announced last one are accepted.
SendGoAwayStayingOpen(c) ==
  IF c.state = "Open" THEN AnnounceLast(c, "NO_ERROR") ELSE c

SendGoAway(c) ==
  IF c.state = "Open"
  THEN [AnnounceLast(c, "NO_ERROR") EXCEPT !.state = "Closing"] ELSE c

----------------------------------------------------------------------------
(* Frames from the client.                                                 *)

\* Mutant: what was on its way when the server reset the stream is an error.
JudgeLateFramesStrictly(c, s) ==
  IF c.stream[s].termination = "ResetByPeer" THEN "ResetStream"
  ELSE "FailConnection"

\* A DATA or HEADERS frame on a stream that is over.
JudgeFrameOnTerminatedStream(c, s) ==
  CASE c.stream[s].termination = "ResetByLocal" -> "Ignore"
    [] c.stream[s].termination = "ResetByPeer" -> "ResetStream"
    [] OTHER -> "FailConnection"

\* The answer to it is given once: later frames of the kind are ignored.
AnswerLateFrame(c, s) ==
  CASE JudgeFrameOnTerminatedStream(c, s) = "Ignore" -> c
    [] JudgeFrameOnTerminatedStream(c, s) = "ResetStream" ->
         [Emit(c, <<RstStreamFrame(s, "STREAM_CLOSED")>>)
            EXCEPT !.stream[s].termination = "ResetByLocal"]
    [] OTHER -> Fail(c, "STREAM_CLOSED")

\* A frame on a stream without a record: harmless when the record may have
\* been evicted, a violation of the protocol otherwise.
IsForgotten(c, s) == s <= c.highest /\ c.evicted

HandleDataFrame(c, f) ==
  LET s == f.stream
      d == [c EXCEPT !.receiveWindow = @ - f.size]
      e == [d EXCEPT !.stream[s].receiveWindow = @ - f.size]
      taken == [e EXCEPT !.received = Append(@, f)]
  IN  IF d.receiveWindow < 0 THEN Fail(d, "FLOW_CONTROL_ERROR")
      ELSE IF ~HasRecord(d, s)
      THEN IF IsForgotten(d, s) THEN CreditConnectionReceiveWindow(d, f.size)
           ELSE Fail(d, "PROTOCOL_ERROR")
      ELSE IF d.stream[s].state = "Closed"
      THEN AnswerLateFrame(
             IF JudgeFrameOnTerminatedStream(d, s) = "FailConnection" THEN d
             ELSE CreditConnectionReceiveWindow(d, f.size), s)
      ELSE IF e.stream[s].receiveWindow < 0 THEN Fail(e, "FLOW_CONTROL_ERROR")
      ELSE IF e.stream[s].state = "HalfClosedRemote"
      THEN FailStream(e, s, "STREAM_CLOSED")
      ELSE IF f.end THEN NoteRemoteEndStream(taken, s) ELSE taken

\* A second header block of a stream is its trailers and has to end it.
HandleHeadersFrame(c, f) ==
  LET s == f.stream
      opened == [OpenStream(c, s) EXCEPT !.requests = Append(@, f)]
      trailers == [c EXCEPT !.received = Append(@, DataFrame(s, 0, TRUE))]
      isFull == Cardinality(OpenStreams(c)) >= maximumConcurrentStreams
  IN  IF ~HasRecord(c, s)
      THEN IF s <= c.highest THEN Fail(c, "PROTOCOL_ERROR")
           ELSE IF c.state = "Closing" \/ isFull THEN RefuseNewStream(c, s)
           ELSE IF f.end THEN NoteRemoteEndStream(opened, s) ELSE opened
      ELSE IF c.stream[s].state = "Closed" THEN AnswerLateFrame(c, s)
      ELSE IF c.stream[s].state = "HalfClosedRemote"
      THEN FailStream(c, s, "STREAM_CLOSED")
      ELSE IF f.end THEN NoteRemoteEndStream(trailers, s)
      ELSE FailStream(c, s, "PROTOCOL_ERROR")

HandleRstStreamFrame(c, f) ==
  IF HasRecord(c, f.stream) THEN TerminateStream(c, f.stream, "ResetByPeer")
  ELSE IF IsForgotten(c, f.stream) THEN c
  ELSE Fail(c, "PROTOCOL_ERROR")

HandleGoAwayFrame(c, f) ==
  [c EXCEPT !.state = IF @ = "Open" THEN "Closing" ELSE @]

HandleWindowUpdateFrame(c, f) ==
  LET s == f.stream
      grown == [c EXCEPT !.sendWindow = @ + f.size]
      widened == [c EXCEPT !.stream[s].sendWindow = @ + f.size]
  IN  IF s = 0
      THEN IF grown.sendWindow > kHttp2MaximumWindowSize
           THEN Fail(c, "FLOW_CONTROL_ERROR") ELSE PumpAllSendQueues(grown)
      ELSE IF ~HasRecord(c, s)
      THEN IF IsForgotten(c, s) THEN c ELSE Fail(c, "PROTOCOL_ERROR")
      ELSE IF c.stream[s].state = "Closed" THEN c
      ELSE IF widened.stream[s].sendWindow > kHttp2MaximumWindowSize
      THEN FailStream(c, s, "FLOW_CONTROL_ERROR")
      ELSE PumpSendQueue(widened, s)

HandleFrame(c, f) ==
  CASE f.type = "DATA" -> HandleDataFrame(c, f)
    [] f.type = "HEADERS" -> HandleHeadersFrame(c, f)
    [] f.type = "RST_STREAM" -> HandleRstStreamFrame(c, f)
    [] f.type = "GOAWAY" -> HandleGoAwayFrame(c, f)
    [] f.type = "WINDOW_UPDATE" -> HandleWindowUpdateFrame(c, f)

\* A failed connection reads no further.
FeedBytes(c, frames) ==
  FoldLeft(LAMBDA d, f : IF d.state = "Failed" THEN d ELSE HandleFrame(d, f),
           c, frames)
=============================================================================
