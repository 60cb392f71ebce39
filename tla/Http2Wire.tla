----------------------------- MODULE Http2Wire -----------------------------
(***************************************************************************)
(* The transport between an HTTP/2 client connection and a server session, *)
(* and the frames that travel on it.  TCP delivers in order and without    *)
(* loss, so each direction is a queue; an end that closes its socket leaves *)
(* the bytes it wrote to be read, and the peer reads an end of file after   *)
(* them.                                                                   *)
(*                                                                         *)
(* The connection is past its preface and SETTINGS exchange.  A stream is  *)
(* named by its rank: stream i stands for the wire's stream id 2i-1, and 0 *)
(* stands for the connection.  A header block is one frame, a body is a    *)
(* number of units, and padding is left out.                               *)
(***************************************************************************)
EXTENDS Integers, Sequences, FiniteSets, SequencesExt

CONSTANT StreamCount         \* how many requests the client makes
ASSUME StreamCountAssumption == StreamCount \in Nat \ {0}

Streams == 1 .. StreamCount

VARIABLES toServer,          \* frames written by the client, not yet read
          toClient,          \* frames written by the server, not yet read
          clientOpen,        \* the client has not closed its socket
          serverOpen         \* the server has not closed its socket

wireVars == <<toServer, toClient, clientOpen, serverOpen>>

----------------------------------------------------------------------------
(* Frames. A response without a content-length declares Undeclared.        *)

Undeclared == -1

HeadersFrame(s, end, length) ==
  [type |-> "HEADERS", stream |-> s, end |-> end, length |-> length]

DataFrame(s, n, end) == [type |-> "DATA", stream |-> s, size |-> n, end |-> end]

RstStreamFrame(s, code) == [type |-> "RST_STREAM", stream |-> s, code |-> code]

WindowUpdateFrame(s, n) ==
  [type |-> "WINDOW_UPDATE", stream |-> s, size |-> n]

GoAwayFrame(last, code) ==
  [type |-> "GOAWAY", stream |-> 0, last |-> last, code |-> code]

\* What a body of n units becomes when no frame may hold more than the limit.
DataFrames(s, n, end, limit) ==
  LET count == (n + limit - 1) \div limit
  IN  [i \in 1 .. count |->
         DataFrame(s, IF i < count THEN limit ELSE n - (count - 1) * limit,
                   end /\ i = count)]

----------------------------------------------------------------------------
(* Sums over a queue of frames, for the properties about windows.          *)

SizesOf(frames) == FoldLeft(LAMBDA sum, f : sum + f.size, 0, frames)

BytesIn(frames) == SizesOf(SelectSeq(frames, LAMBDA f : f.type = "DATA"))

BytesOn(frames, s) ==
  SizesOf(SelectSeq(frames, LAMBDA f : f.type = "DATA" /\ f.stream = s))

CreditIn(frames, s) ==
  SizesOf(SelectSeq(frames, LAMBDA f : f.type = "WINDOW_UPDATE" /\ f.stream = s))

----------------------------------------------------------------------------
WireInit == /\ toServer = <<>>
            /\ toClient = <<>>
            /\ clientOpen = TRUE
            /\ serverOpen = TRUE
=============================================================================
